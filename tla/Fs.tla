----------------------------------- MODULE Fs ----------------------------------
(***************************************************************************)
(* The file system: blocks, inodes, directories and path names             *)
(* (kernel/fs.c) under the calls that use them (kernel/sysfile.c,          *)
(* kernel/file.c), with crashes and the recovery of orphaned inodes.  Both *)
(* trees have the same files.                                              *)
(*                                                                         *)
(* Abstractions.  A step goes from one change of the inode table, or one   *)
(* sleep lock that has to be waited for, to the next: what a process does  *)
(* under the locks of inodes, down to the release of a lock, joins the     *)
(* step, with the blocks it allocates or frees.  Transactions are those    *)
(* module Log provides: what calls did is on the disk, all of it, when the *)
(* last call in progress ends.  A file is read and written block by block, *)
(* its data are not kept.  A panic stops the kernel.                       *)
(***************************************************************************)
EXTENDS FileTable, SequencesExt

CONSTANTS InitProcess,  \* the process that exists after boot
          Name,         \* names of directory entries besides . and ..
          Request,      \* calls that take path names, with them
          Grown,        \* disks that an earlier boot left, besides that of mkfs
          NINODE,       \* entries of the inode table
          NINODES,      \* inodes on the disk
          NBLOCKS,      \* data blocks on the disk
          NDIRECT, NINDIRECT,   \* blocks an inode names, and its indirect block
          DPB,          \* directory entries in a block
          MaxCount,     \* bound: blocks in a write
          MaxCalls,     \* bound: calls ever made, but for fork
          NoProcess

PathType == [abs : BOOLEAN, elems : Seq(Name \union {".", ".."})]

ASSUME FsAssumption ==
  /\ InitProcess \in Process /\ NoProcess \notin Process
  /\ NINODE \in Nat \ {0} /\ NINODES \in Nat \ {0} /\ NBLOCKS \in Nat \ {0}
  /\ NDIRECT \in Nat \ {0} /\ NINDIRECT \in Nat /\ DPB \in Nat /\ DPB >= 2
  /\ MaxCount \in Nat /\ MaxCalls \in Nat
  /\ Request \subseteq [call : {"open", "trunc", "creat", "rewrite", "chdir", "mkdir",
                              "mknod", "unlink", "link"},
                      path : PathType, new : PathType]

Inum == 1..NINODES
ROOTINO == 1
Block == 1..NBLOCKS
MAXFILE == NDIRECT + NINDIRECT
Entry == 1..NINODE
NoEntry == 0

VARIABLES
  dinode,    \* the inodes on the disk, as the buffer cache has them
  dirs,      \* the entries of each directory, likewise
  used,      \* the bitmap of blocks, likewise
  durable,   \* the three of them on the disk, after the last commit
  itable,    \* itable.inode
  cwd,       \* p->cwd
  off,       \* f->off
  thread,    \* where each process is in the kernel, and its locals
  ncalls     \* calls made so far

files == <<ftable, ofile, off>>
disk == <<dinode, dirs, used>>
vars == <<disk, durable, itable, cwd, files, thread, ncalls>>

(* addrs: the direct blocks, the indirect block at NDIRECT, then the       *)
(* blocks it names; a size counts blocks, of a directory entries.          *)
FreeInode == [type |-> "free", nlink |-> 0, size |-> 0,
              addrs |-> [i \in 0..MAXFILE |-> 0]]
NoNode == FreeInode
EmptyEntry == [inum |-> 0, ref |-> 0, valid |-> FALSE, lock |-> NoProcess, node |-> NoNode]
NoName == "none"
EmptySlot == [name |-> NoName, inum |-> 0]

(* todo are the parts of the call that still have to be done, one by one,  *)
(* before it goes on at at; op says that it is between begin_op and end_op.*)
NoPath == [abs |-> FALSE, elems |-> << >>]
User == [at |-> "user", todo |-> << >>, op |-> FALSE, call |-> "none", path |-> << >>,
         new |-> NoPath, ip |-> NoEntry, dp |-> NoEntry, f |-> NoFile, n |-> 0]
Absent == [User EXCEPT !.at = "absent"]
Boot == [User EXCEPT !.at = "reclaim", !.n = 1]

DiskType ==
  [dinode : [Inum -> [type : {"free", "file", "dir", "device"}, nlink : Nat, size : Nat,
                      addrs : [0..MAXFILE -> Block \union {0}]]],
   dirs : [Inum -> Seq([name : Name \union {".", "..", NoName}, inum : Inum \union {0}])],
   used : SUBSET Block]

ASSUME GrownAssumption == Grown \subseteq DiskType

(* The root directory that mkfs makes: its size is that of whole blocks.   *)
MkfsRoot == << [name |-> ".", inum |-> ROOTINO], [name |-> "..", inum |-> ROOTINO] >>
            \o [i \in 1..DPB - 2 |-> EmptySlot]
Mkfs ==
  [dinode |-> [i \in Inum |-> IF i = ROOTINO
                 THEN [type |-> "dir", nlink |-> 1, size |-> DPB,
                       addrs |-> [FreeInode.addrs EXCEPT ![0] = 1]]
                 ELSE FreeInode],
   dirs |-> [i \in Inum |-> IF i = ROOTINO THEN MkfsRoot ELSE << >>],
   used |-> {1}]

Init ==
  /\ FilesInit
  /\ off = [f \in File |-> 0]
  /\ durable \in {Mkfs} \union Grown
  /\ dinode = durable.dinode /\ dirs = durable.dirs /\ used = durable.used
  /\ itable = [e \in Entry |-> IF e = 1 THEN [EmptyEntry EXCEPT !.inum = ROOTINO, !.ref = 1]
                                ELSE EmptyEntry]
  /\ cwd = [p \in Process |-> IF p = InitProcess THEN 1 ELSE NoEntry]
  /\ thread = [p \in Process |-> IF p = InitProcess THEN Boot ELSE Absent]
  /\ ncalls = 0

-----------------------------------------------------------------------------
(* Blocks: operators on s = [used, addrs, ok]                              *)

(* balloc takes the first free block, 0 stands for none.                   *)
Balloc(bitmap) == IF Block \subseteq bitmap THEN 0 ELSE Min(Block \ bitmap)
Bfree(bitmap, blocks) == bitmap \ blocks

Assign(s, pos) ==
  LET b == Balloc(s.used) IN
  IF s.addrs[pos] # 0 THEN s
  ELSE IF b = 0 THEN [s EXCEPT !.ok = FALSE]
  ELSE [s EXCEPT !.used = @ \union {b}, !.addrs[pos] = b]

Bmap(s, bn) ==
  IF bn < NDIRECT THEN Assign(s, bn)
  ELSE LET i == Assign(s, NDIRECT) IN IF i.ok THEN Assign(i, bn + 1) ELSE i

Mapped(node, bn) ==
  IF bn < NDIRECT THEN node.addrs[bn] # 0
  ELSE node.addrs[NDIRECT] # 0 /\ node.addrs[bn + 1] # 0

BlocksOf(node) == {node.addrs[i] : i \in 0..MAXFILE} \ {0}

(* writei of one unit at offset o, in block bn; s = [used, node].          *)
Writei(s, o, bn) ==
  LET m == Bmap([used |-> s.used, addrs |-> s.node.addrs, ok |-> TRUE], bn) IN
  IF o > s.node.size \/ bn >= MAXFILE THEN [used |-> s.used, node |-> s.node, ok |-> FALSE]
  ELSE [used |-> m.used, ok |-> m.ok,
        node |-> [s.node EXCEPT !.addrs = m.addrs,
                                !.size = IF m.ok /\ @ <= o THEN o + 1 ELSE @]]

(* A faulty itrunc that keeps the indirect block.                          *)
TruncForgetsIndirect(node) ==
  [freed |-> BlocksOf(node) \ {node.addrs[NDIRECT]},
   node |-> [node EXCEPT !.addrs = FreeInode.addrs, !.size = 0]]

Itrunc(node) ==
  [freed |-> BlocksOf(node),
   node |-> [node EXCEPT !.addrs = FreeInode.addrs, !.size = 0]]

-----------------------------------------------------------------------------
(* Directories: operators on the sequence of entries                       *)

Dirlookup(d, name) ==
  LET found == {i \in 1..Len(d) : d[i].inum # 0 /\ d[i].name = name} IN
  IF found = {} THEN 0 ELSE Min(found)

EmptySlots(d) == {i \in 1..Len(d) : d[i].inum = 0}
DirSlot(d) == IF EmptySlots(d) = {} THEN Len(d) + 1 ELSE Min(EmptySlots(d))

(* dirlink, in s = [used, node, dir, ok].                                  *)
Dirlink(s, name, inum) ==
  LET i == DirSlot(s.dir)
      w == Writei(s, i - 1, (i - 1) \div DPB)
      entry == [name |-> name, inum |-> inum] IN
  IF ~ s.ok \/ Dirlookup(s.dir, name) # 0 THEN [s EXCEPT !.ok = FALSE]
  ELSE [used |-> w.used, node |-> w.node, ok |-> w.ok,
        dir |-> IF ~ w.ok THEN s.dir
                ELSE IF i > Len(s.dir) THEN Append(s.dir, entry)
                ELSE [s.dir EXCEPT ![i] = entry]]

IsDirEmpty(d) == \A i \in 3..Len(d) : d[i].inum = 0

-----------------------------------------------------------------------------
(* The inode table                                                         *)

EntryOf(t, inum) == {e \in Entry : t[e].ref > 0 /\ t[e].inum = inum}
UnusedEntries(t) == {e \in Entry : t[e].ref = 0}

(* iget, and what it needs: a process that finds the table full panics,    *)
(* and takes no step.                                                      *)
HasRoom(t, inum) == EntryOf(t, inum) # {} \/ UnusedEntries(t) # {}

Iget(t, inum) ==
  IF EntryOf(t, inum) # {} THEN CHOOSE e \in EntryOf(t, inum) : TRUE
  ELSE Min(UnusedEntries(t))

Taken(t, inum) ==
  LET e == Iget(t, inum) IN
  IF EntryOf(t, inum) # {} THEN [t EXCEPT ![e].ref = @ + 1]
  ELSE [t EXCEPT ![e] = [EmptyEntry EXCEPT !.inum = inum, !.ref = 1]]

Idup(t, e) == [t EXCEPT ![e].ref = @ + 1]

(* ilock: the lock, and the inode from the disk where it was not read yet. *)
Unlocked(e) == itable[e].lock = NoProcess
NoType(e) == ~ itable[e].valid /\ dinode[itable[e].inum].type = "free"
CanLock(e) == Unlocked(e) /\ ~ NoType(e)
Node(e) == IF itable[e].valid THEN itable[e].node ELSE dinode[itable[e].inum]

(* The table when the inode of e was read, and its memory copy is node.    *)
Loaded(t, e, node) == [t EXCEPT ![e].valid = TRUE, ![e].node = node]
Lock(t, e, p) == [t EXCEPT ![e].lock = p]
Unlock(t, e) == [t EXCEPT ![e].lock = NoProcess]

(* iupdate.                                                                *)
Updated(e, node) == dinode' = [dinode EXCEPT ![itable[e].inum] = node]

(* iput when there are other references or links.                          *)
Dropped(t, e) ==
  [t EXCEPT ![e] = IF @.ref = 1 THEN EmptyEntry ELSE [@ EXCEPT !.ref = t[e].ref - 1]]

(* A faulty test that frees an inode without links others still refer to.  *)
LastPutOfMany(e) == itable[e].valid /\ itable[e].node.nlink = 0

LastPut(e) == itable[e].ref = 1 /\ itable[e].valid /\ itable[e].node.nlink = 0


-----------------------------------------------------------------------------
(* The parts of a call that come after the step that decided on them       *)

At(p, l) == thread[p].at = l /\ thread[p].todo = << >>
Goes(p, l, todo) == [thread EXCEPT ![p].at = l, ![p].todo = todo]
Returns(p, todo) == Goes(p, "return", Append(todo, [do |-> "end", e |-> NoEntry]))

Release(e) == [do |-> "unlock", e |-> e]
Put(e) == [do |-> "put", e |-> e]
Does(p, what) == thread[p].todo # << >> /\ Head(thread[p].todo).do = what
Rest(p) == [thread EXCEPT ![p].todo = Tail(@)]
Becomes(p, what) == [thread EXCEPT ![p].todo[1].do = what]

(* The calls commit together, when the last one of them ends.              *)
Disk == [dinode |-> dinode, dirs |-> dirs, used |-> used]
LastOp(p) == \A q \in Process \ {p} : ~ thread[q].op

Commits(p, d) == durable' = IF LastOp(p) THEN d ELSE durable

EndOp(p) ==
  /\ Does(p, "end")
  /\ thread' = IF thread[p].at = "return" THEN [thread EXCEPT ![p] = User]
               ELSE [thread EXCEPT ![p].todo = << >>, ![p].op = FALSE]
  /\ Commits(p, Disk)
  /\ UNCHANGED <<disk, itable, cwd, files>>

Iunlock(p) ==
  /\ Does(p, "unlock")
  /\ itable' = Unlock(itable, Head(thread[p].todo).e)
  /\ thread' = Rest(p)
  /\ UNCHANGED <<disk, durable, cwd, files>>

(* iput: the test and the lock, the inode that is freed on the disk, the   *)
(* memory copy and the lock, the reference.                                *)
IputTests(p) ==
  LET e == Head(thread[p].todo).e IN
  /\ Does(p, "put")
  /\ \/ /\ LastPut(e) /\ Unlocked(e)
        /\ itable' = Lock(itable, e, p)
        /\ thread' = Becomes(p, "free")
     \/ /\ ~ LastPut(e)
        /\ itable' = Dropped(itable, e)
        /\ thread' = Rest(p)
  /\ UNCHANGED <<disk, durable, cwd, files>>

IputFrees(p) ==
  LET e == Head(thread[p].todo).e
      i == itable[e].inum IN
  /\ Does(p, "free")
  /\ used' = Bfree(used, Itrunc(itable[e].node).freed)
  /\ Updated(e, FreeInode)
  /\ itable' = [itable EXCEPT ![e].node = FreeInode]
  /\ dirs' = [dirs EXCEPT ![i] = << >>]
  /\ thread' = Becomes(p, "forget")
  /\ UNCHANGED <<durable, cwd, files>>

(* A faulty iput that gives the lock back before it clears ip->valid.      *)
StillValid(t, e) == Unlock(t, e)
Forgotten(t, e) == [Unlock(t, e) EXCEPT ![e].valid = FALSE, ![e].node = NoNode]

IputForgets(p) ==
  LET e == Head(thread[p].todo).e IN
  /\ Does(p, "forget")
  /\ itable' = Forgotten(itable, e)
  /\ thread' = Becomes(p, "drop")
  /\ UNCHANGED <<disk, durable, cwd, files>>

IputDrops(p) ==
  /\ Does(p, "drop")
  /\ itable' = Dropped(itable, Head(thread[p].todo).e)
  /\ thread' = Rest(p)
  /\ UNCHANGED <<disk, durable, cwd, files>>

-----------------------------------------------------------------------------
(* Path names                                                              *)

(* creat is sys_open with O_CREATE, rewrite with O_TRUNC as well, trunc    *)
(* with O_TRUNC alone.                                                     *)
FileCreations == {"creat", "rewrite"}
Creations == FileCreations \union {"mkdir", "mknod"}
OfParent == Creations \union {"unlink", "linkto"}
Arrival(call) == IF call \in Creations THEN "create" ELSE call
NameOf(p) == Last(thread[p].path)

(* What a failing lookup leaves to do: a link takes its count back.        *)
Fails(p, todo) ==
  IF thread[p].call = "linkto" THEN Goes(p, "link_undo", todo) ELSE Returns(p, todo)

(* begin_op, and the first inode of namex.                                 *)
WalkFrom(t, p, path) ==
  IF path.abs THEN [ok |-> HasRoom(t, ROOTINO),
                    table |-> Taken(t, ROOTINO), e |-> Iget(t, ROOTINO)]
  ELSE [ok |-> TRUE, table |-> Idup(t, cwd[p]), e |-> cwd[p]]

Enter(p, r) ==
  LET w == WalkFrom(itable, p, r.path) IN
  /\ At(p, "user") /\ w.ok
  /\ itable' = w.table
  /\ thread' = [thread EXCEPT ![p] =
       [User EXCEPT !.at = "walk", !.op = TRUE, !.call = r.call, !.path = r.path.elems,
                    !.new = r.new, !.ip = w.e]]
  /\ UNCHANGED <<disk, durable, cwd, files>>

(* A walk that is over: nameiparent of a path without a name fails.        *)
WalkEnds(p) ==
  LET t == thread[p] IN
  /\ At(p, "walk") /\ t.path = << >>
  /\ thread' = IF t.call \in OfParent THEN Fails(p, <<Put(t.ip)>>)
               ELSE [thread EXCEPT ![p].at = Arrival(t.call)]
  /\ UNCHANGED <<disk, durable, itable, cwd, files>>

(* A faulty namex that keeps its reference when a name is not there.       *)
PutsNothing(e) == << >>
PutsIt(e) == <<Put(e)>>

(* One turn of namex: under the lock of the directory, the next name.      *)
Walk(p) ==
  LET t == thread[p]
      e == t.ip
      node == Node(e)
      d == dirs[itable[e].inum]
      i == Dirlookup(d, Head(t.path))
      loaded == Loaded(itable, e, node) IN
  /\ At(p, "walk") /\ t.path # << >> /\ CanLock(e)
  /\ \/ /\ node.type # "dir"
        /\ itable' = loaded
        /\ thread' = Fails(p, <<Put(e)>>)
     \/ /\ node.type = "dir" /\ t.call \in OfParent /\ Len(t.path) = 1
        /\ itable' = loaded
        /\ thread' = [thread EXCEPT ![p].at = Arrival(t.call)]
     \/ /\ node.type = "dir" /\ ~ (t.call \in OfParent /\ Len(t.path) = 1)
        /\ IF i = 0 THEN /\ itable' = loaded
                         /\ thread' = Fails(p, PutsIt(e))
           ELSE /\ HasRoom(loaded, d[i].inum)
                /\ itable' = Taken(loaded, d[i].inum)
                /\ thread' = [thread EXCEPT ![p].ip = Iget(loaded, d[i].inum),
                                            ![p].path = Tail(@), ![p].todo = <<Put(e)>>]
  /\ UNCHANGED <<disk, durable, cwd, files>>

-----------------------------------------------------------------------------
(* open and chdir                                                          *)

(* The end of sys_open, with the inode of e locked in the table t: a file  *)
(* and a descriptor, or neither (mknod takes any major number, the model   *)
(* keeps none); then O_TRUNC, and the lock is given back.                  *)
OpenFails(p, t, e) ==
  /\ \/ t[e].node.type = "device"     \* its major number names no driver
     \/ FileAlloc(ftable) = NoFile \/ FdAlloc(ofile[p]) = NoFd
  /\ itable' = Unlock(t, e)
  /\ thread' = Returns(p, <<Put(e)>>)
  /\ UNCHANGED <<disk, files>>

OpenSucceeds(p, t, e) ==
  LET f == FileAlloc(ftable)
      fd == FdAlloc(ofile[p])
      truncates == thread[p].call \in {"trunc", "rewrite"} /\ t[e].node.type = "file"
      cut == Itrunc(t[e].node) IN
  /\ f # NoFile /\ fd # NoFd
  /\ ftable' = [ftable EXCEPT ![f] = [ref |-> 1, type |-> "inode", obj |-> e,
                                      writable |-> thread[p].call # "open"]]
  /\ ofile' = [ofile EXCEPT ![p][fd] = f]
  /\ off' = [off EXCEPT ![f] = 0]
  /\ thread' = Returns(p, << >>)
  /\ \/ /\ truncates
        /\ used' = Bfree(used, cut.freed)
        /\ Updated(e, cut.node)
        /\ itable' = Unlock(Loaded(t, e, cut.node), e)
     \/ /\ ~ truncates
        /\ itable' = Unlock(t, e)
        /\ UNCHANGED <<used, dinode>>
  /\ UNCHANGED dirs

Opens(p, t, e) == OpenFails(p, t, e) \/ OpenSucceeds(p, t, e)

(* sys_open of a name that exists: a directory is opened to read only.     *)
Open(p) ==
  LET e == thread[p].ip
      t == Loaded(itable, e, Node(e)) IN
  /\ At(p, "open") \/ At(p, "trunc")
  /\ CanLock(e)
  /\ \/ /\ Node(e).type = "dir" /\ thread[p].call = "trunc"
        /\ itable' = t
        /\ thread' = Returns(p, <<Put(e)>>)
        /\ UNCHANGED <<disk, files>>
     \/ /\ ~ (Node(e).type = "dir" /\ thread[p].call = "trunc")
        /\ Opens(p, t, e)
  /\ UNCHANGED <<durable, cwd>>

(* sys_chdir.  p->cwd changes at the end, but nobody else looks at it.     *)
Chdir(p) ==
  LET e == thread[p].ip IN
  /\ At(p, "chdir") /\ CanLock(e)
  /\ itable' = Loaded(itable, e, Node(e))
  /\ \/ /\ Node(e).type # "dir"
        /\ thread' = Returns(p, <<Put(e)>>)
        /\ UNCHANGED cwd
     \/ /\ Node(e).type = "dir"
        /\ cwd' = [cwd EXCEPT ![p] = e]
        /\ thread' = Returns(p, <<Put(cwd[p])>>)
  /\ UNCHANGED <<disk, durable, files>>

-----------------------------------------------------------------------------
(* create: sys_open with O_CREATE, sys_mkdir and sys_mknod                 *)

TypeOf == [creat |-> "file", rewrite |-> "file", mkdir |-> "dir", mknod |-> "device"]
FreeInums == {i \in Inum : dinode[i].type = "free"}

(* The parent is locked from here on, unless the name is there already.    *)
CreateLookup(p) ==
  LET e == thread[p].ip
      d == dirs[itable[e].inum]
      i == Dirlookup(d, NameOf(p))
      loaded == Loaded(itable, e, Node(e)) IN
  /\ At(p, "create") /\ CanLock(e)
  /\ \/ /\ i # 0 /\ HasRoom(loaded, d[i].inum)
        /\ itable' = Taken(loaded, d[i].inum)
        /\ thread' = [thread EXCEPT ![p].at = "create_found", ![p].todo = <<Put(e)>>,
                                    ![p].ip = Iget(loaded, d[i].inum)]
     \/ /\ i = 0
        /\ itable' = Lock(loaded, e, p)
        /\ thread' = [thread EXCEPT ![p].at = "create_alloc", ![p].dp = e, ![p].ip = NoEntry]
  /\ UNCHANGED <<disk, durable, cwd, files>>

CreateFound(p) ==
  LET e == thread[p].ip
      t == Loaded(itable, e, Node(e))
      opens == thread[p].call \in FileCreations /\ Node(e).type \in {"file", "device"} IN
  /\ At(p, "create_found") /\ CanLock(e)
  /\ \/ opens /\ Opens(p, t, e)
     \/ /\ ~ opens
        /\ itable' = t
        /\ thread' = Returns(p, <<Put(e)>>)
        /\ UNCHANGED <<disk, files>>
  /\ UNCHANGED <<durable, cwd>>

(* ialloc marks an inode on the disk, then comes iget.                     *)
CreateAlloc(p) ==
  LET t == thread[p]
      i == Min(FreeInums) IN
  /\ At(p, "create_alloc")
  /\ \/ /\ FreeInums = {}
        /\ itable' = Unlock(itable, t.dp)
        /\ thread' = Returns(p, <<Put(t.dp)>>)
        /\ UNCHANGED dinode
     \/ /\ FreeInums # {} /\ HasRoom(itable, i)
        /\ dinode' = [dinode EXCEPT ![i] = [FreeInode EXCEPT !.type = TypeOf[t.call]]]
        /\ itable' = Taken(itable, i)
        /\ thread' = [thread EXCEPT ![p].at = "create_fill", ![p].ip = Iget(itable, i)]
  /\ UNCHANGED <<dirs, used, durable, cwd, files>>

(* The new inode with its entries, . and .. first, and the one in dp.      *)
NewDir(p) ==
  LET i == itable[thread[p].ip].inum
      new == [used |-> used, dir |-> << >>, ok |-> TRUE,
              node |-> [Node(thread[p].ip) EXCEPT !.nlink = 1]] IN
  IF thread[p].call = "mkdir"
    THEN Dirlink(Dirlink(new, ".", i), "..", itable[thread[p].dp].inum)
    ELSE new

InParent(p, new) ==
  LET e == thread[p].dp IN
  Dirlink([used |-> new.used, node |-> itable[e].node, dir |-> dirs[itable[e].inum],
           ok |-> new.ok],
          NameOf(p), itable[thread[p].ip].inum)

(* The parent's link from "..".                                            *)
LinkFromChild(p, node) ==
  IF thread[p].call = "mkdir" THEN [node EXCEPT !.nlink = @ + 1] ELSE node

(* ilock of the new inode and the rest of create: the links, or the way    *)
(* back where a block is missing.                                          *)
CreateFill(p) ==
  LET ip == thread[p].ip
      dp == thread[p].dp
      i == itable[ip].inum
      d == itable[dp].inum
      new == NewDir(p)
      parent == InParent(p, new)
      node == [new.node EXCEPT !.nlink = IF parent.ok THEN 1 ELSE 0]
      above == IF parent.ok THEN LinkFromChild(p, parent.node) ELSE parent.node
      t == Lock(Loaded(Loaded(itable, ip, node), dp, above), ip, p) IN
  /\ At(p, "create_fill") /\ CanLock(ip)
  /\ dinode' = [dinode EXCEPT ![i] = node, ![d] = above]
  /\ dirs' = [dirs EXCEPT ![i] = new.dir, ![d] = parent.dir]
  /\ used' = parent.used
  /\ \/ /\ parent.ok
        /\ itable' = Unlock(t, dp)
        /\ thread' = IF thread[p].call \in FileCreations
                       THEN [thread EXCEPT ![p].at = "open_made", ![p].todo = <<Put(dp)>>,
                                           ![p].dp = NoEntry]
                       ELSE Returns(p, <<Put(dp), Release(ip), Put(ip)>>)
     \/ /\ ~ parent.ok
        /\ itable' = Unlock(t, ip)
        /\ thread' = Returns(p, <<Put(ip), Release(dp), Put(dp)>>)
  /\ UNCHANGED <<durable, cwd, files>>

OpenMade(p) ==
  /\ At(p, "open_made")
  /\ Opens(p, itable, thread[p].ip)
  /\ UNCHANGED <<durable, cwd>>

-----------------------------------------------------------------------------
(* unlink                                                                  *)

Reserved == {".", ".."}

UnlinkLookup(p) ==
  LET e == thread[p].ip
      d == dirs[itable[e].inum]
      i == Dirlookup(d, NameOf(p))
      loaded == Loaded(itable, e, Node(e)) IN
  /\ At(p, "unlink") /\ CanLock(e)
  /\ \/ /\ NameOf(p) \in Reserved \/ i = 0
        /\ itable' = loaded
        /\ thread' = Returns(p, <<Put(e)>>)
     \/ /\ NameOf(p) \notin Reserved /\ i # 0 /\ HasRoom(loaded, d[i].inum)
        /\ itable' = Lock(Taken(loaded, d[i].inum), e, p)
        /\ thread' = [thread EXCEPT ![p].at = "unlink_erase", ![p].dp = e,
                                    ![p].ip = Iget(loaded, d[i].inum)]
  /\ UNCHANGED <<disk, durable, cwd, files>>

(* With both locked: the entry goes, and with a directory its "..".        *)
UnlinkErase(p) ==
  LET ip == thread[p].ip
      dp == thread[p].dp
      d == itable[dp].inum
      node == Node(ip)
      above == IF node.type = "dir" THEN [itable[dp].node EXCEPT !.nlink = @ - 1]
               ELSE itable[dp].node
      t == Loaded(itable, ip, node) IN
  /\ At(p, "unlink_erase") /\ CanLock(ip)
  /\ \/ /\ node.type = "dir" /\ ~ IsDirEmpty(dirs[itable[ip].inum])
        /\ itable' = t
        /\ thread' = Returns(p, <<Put(ip), Release(dp), Put(dp)>>)
        /\ UNCHANGED <<dinode, dirs>>
     \/ /\ node.type # "dir" \/ IsDirEmpty(dirs[itable[ip].inum])
        /\ dirs' = [dirs EXCEPT ![d][Dirlookup(dirs[d], NameOf(p))] = EmptySlot]
        /\ dinode' = [dinode EXCEPT ![d] = above]
        /\ itable' = Lock(Unlock(Loaded(t, dp, above), dp), ip, p)
        /\ thread' = [thread EXCEPT ![p].at = "unlink_drop", ![p].todo = <<Put(dp)>>,
                                    ![p].dp = NoEntry]
  /\ UNCHANGED <<used, durable, cwd, files>>

UnlinkDrop(p) ==
  LET ip == thread[p].ip
      node == [itable[ip].node EXCEPT !.nlink = @ - 1] IN
  /\ At(p, "unlink_drop")
  /\ Updated(ip, node)
  /\ itable' = Unlock(Loaded(itable, ip, node), ip)
  /\ thread' = Returns(p, <<Put(ip)>>)
  /\ UNCHANGED <<dirs, used, durable, cwd, files>>

-----------------------------------------------------------------------------
(* link: the count goes up before the entry is made, and down again if it  *)
(* cannot be                                                               *)

(* A faulty sys_link that counts the link when the entry is there.         *)
CountedLater(node) == node
CountedFirst(node) == [node EXCEPT !.nlink = @ + 1]

LinkCount(p) ==
  LET e == thread[p].ip
      node == Node(e)
      w == WalkFrom(Loaded(itable, e, CountedFirst(node)), p, thread[p].new) IN
  /\ At(p, "link") /\ CanLock(e)
  /\ \/ /\ node.type = "dir"
        /\ itable' = Loaded(itable, e, node)
        /\ thread' = Returns(p, <<Put(e)>>)
        /\ UNCHANGED dinode
     \/ /\ node.type # "dir" /\ w.ok
        /\ Updated(e, CountedFirst(node))
        /\ itable' = w.table
        /\ thread' = [thread EXCEPT ![p].at = "walk", ![p].call = "linkto", ![p].dp = e,
                                    ![p].path = thread[p].new.elems, ![p].new = NoPath,
                                    ![p].ip = w.e]
  /\ UNCHANGED <<dirs, used, durable, cwd, files>>

(* dirlink in the new directory; dp is the inode that gets the link.       *)
LinkEnter(p) ==
  LET e == thread[p].ip
      i == itable[e].inum
      s == Dirlink([used |-> used, node |-> Node(e), dir |-> dirs[i], ok |-> TRUE],
                   NameOf(p), itable[thread[p].dp].inum) IN
  /\ At(p, "linkto") /\ CanLock(e)
  /\ used' = s.used
  /\ Updated(e, s.node)
  /\ dirs' = [dirs EXCEPT ![i] = s.dir]
  /\ itable' = Loaded(itable, e, s.node)
  /\ thread' = IF s.ok THEN Returns(p, <<Put(e), Put(thread[p].dp)>>)
               ELSE Fails(p, <<Put(e)>>)
  /\ UNCHANGED <<durable, cwd, files>>

LinkUndo(p) ==
  LET e == thread[p].dp
      node == [Node(e) EXCEPT !.nlink = @ - 1] IN
  /\ At(p, "link_undo") /\ CanLock(e)
  /\ Updated(e, node)
  /\ itable' = Loaded(itable, e, node)
  /\ thread' = Returns(p, <<Put(e)>>)
  /\ UNCHANGED <<dirs, used, durable, cwd, files>>

-----------------------------------------------------------------------------
(* Open files                                                              *)

(* readi of one unit at offset o: nothing at the end.                      *)
Readi(node, o) == IF o < node.size THEN 1 ELSE 0

(* A call that only needs the lock of its inode is one step.               *)
Read(p, fd) ==
  LET f == ArgFd(p, fd)
      e == ftable[f].obj IN
  /\ At(p, "user") /\ f # NoFile /\ CanLock(e) /\ Node(e).type # "device"
  /\ off' = [off EXCEPT ![f] = @ + Readi(Node(e), off[f])]
  /\ itable' = Loaded(itable, e, Node(e))
  /\ UNCHANGED <<disk, durable, cwd, ftable, ofile, thread>>

Fstat(p, fd) ==
  LET f == ArgFd(p, fd)
      e == ftable[f].obj IN
  /\ At(p, "user") /\ f # NoFile /\ CanLock(e)
  /\ itable' = Loaded(itable, e, Node(e))
  /\ UNCHANGED <<disk, durable, cwd, files, thread>>

WriteBegin(p, fd, n) ==
  LET f == ArgFd(p, fd) IN
  /\ At(p, "user") /\ f # NoFile /\ ftable[f].writable
  /\ ftable[f].type = "inode" /\ itable[ftable[f].obj].node.type = "file"
  /\ thread' = [thread EXCEPT ![p] = [User EXCEPT !.at = "write", !.f = f, !.n = n]]
  /\ UNCHANGED <<disk, durable, itable, cwd, files>>

(* filewrite writes a part of the data in each transaction, and stops when *)
(* writei fails: a block is missing, or the file is shorter than f->off.   *)
WriteChunk(p) ==
  LET f == thread[p].f
      e == ftable[f].obj
      i == itable[e].inum
      w == Writei([used |-> used, node |-> Node(e)], off[f], off[f]) IN
  /\ At(p, "write") /\ CanLock(e)
  /\ used' = w.used
  /\ Updated(e, w.node)
  /\ itable' = Loaded(itable, e, w.node)
  /\ off' = IF w.ok THEN [off EXCEPT ![f] = @ + 1] ELSE off
  /\ Commits(p, [dinode |-> dinode', dirs |-> dirs, used |-> used'])
  /\ thread' = IF w.ok /\ thread[p].n > 1 THEN [thread EXCEPT ![p].n = @ - 1]
               ELSE [thread EXCEPT ![p] = User]
  /\ UNCHANGED <<dirs, cwd, ftable, ofile>>

(* fileclose of the file at a descriptor; the inode goes when nobody else  *)
(* has the file.                                                           *)
CloseFd(p, fd, at) ==
  LET f == ArgFd(p, fd) IN
  /\ f # NoFile
  /\ ofile' = [ofile EXCEPT ![p][fd] = NoFile]
  /\ ftable' = Unreferred(ftable, f)
  /\ IF LastClose(ftable, f)
       THEN /\ off' = [off EXCEPT ![f] = 0]
            /\ thread' = [thread EXCEPT ![p] =
                 [User EXCEPT !.at = at, !.op = TRUE,
                              !.todo = <<Put(ftable[f].obj), [do |-> "end", e |-> NoEntry]>>]]
       ELSE /\ thread' = [thread EXCEPT ![p].at = IF at = "return" THEN "user" ELSE at]
            /\ UNCHANGED off
  /\ UNCHANGED <<disk, durable, itable, cwd>>

Close(p, fd) == At(p, "user") /\ CloseFd(p, fd, "return")

Fork(p, child) ==
  /\ At(p, "user") /\ At(child, "absent")
  /\ FilesFork(p, child)
  /\ itable' = Idup(itable, cwd[p])
  /\ cwd' = [cwd EXCEPT ![child] = cwd[p]]
  /\ thread' = [thread EXCEPT ![child] = User]
  /\ UNCHANGED <<disk, durable, off>>

(* kexit closes the files one by one, then leaves the directory.           *)
Exit(p) ==
  /\ At(p, "user") /\ p # InitProcess
  /\ thread' = [thread EXCEPT ![p].at = "exiting"]
  /\ UNCHANGED <<disk, durable, itable, cwd, files>>

ExitCloses(p) ==
  /\ At(p, "exiting")
  /\ \/ OpenFds(p) # {} /\ CloseFd(p, Min(OpenFds(p)), "exiting")
     \/ /\ OpenFds(p) = {} /\ cwd[p] # NoEntry
        /\ cwd' = [cwd EXCEPT ![p] = NoEntry]
        /\ thread' = [thread EXCEPT ![p].op = TRUE,
                        ![p].todo = <<Put(cwd[p]), [do |-> "end", e |-> NoEntry]>>]
        /\ UNCHANGED <<disk, durable, itable, files>>
     \/ /\ OpenFds(p) = {} /\ cwd[p] = NoEntry
        /\ thread' = [thread EXCEPT ![p] = Absent]
        /\ UNCHANGED <<disk, durable, itable, cwd, files>>

-----------------------------------------------------------------------------
(* Crash and restart                                                       *)

(* What is on the disk after a crash, recovered from the log, is the last  *)
(* commit; initproc begins with the root directory as its cwd.             *)
Crash ==
  /\ dinode' = durable.dinode /\ dirs' = durable.dirs /\ used' = durable.used
  /\ itable' = Taken([e \in Entry |-> EmptyEntry], ROOTINO)
  /\ cwd' = [p \in Process |-> IF p = InitProcess THEN 1 ELSE NoEntry]
  /\ ftable' = [f \in File |-> Closed]
  /\ ofile' = [p \in Process |-> [fd \in Fd |-> NoFile]]
  /\ off' = [f \in File |-> 0]
  /\ thread' = [p \in Process |-> IF p = InitProcess THEN Boot ELSE Absent]
  /\ UNCHANGED durable

(* ireclaim puts every orphan, which frees it.                             *)
Orphans(d) == {i \in Inum : d.dinode[i].type # "free" /\ d.dinode[i].nlink = 0}

(* A faulty fsinit without ireclaim, as it once was.                       *)
ReclaimsNothing(n) == {}
ToReclaim(n) == {i \in Orphans(Disk) : n <= i}

Ireclaim(p) ==
  LET found == ToReclaim(thread[p].n)
      i == Min(found)
      t == Taken(itable, i)
      e == Iget(itable, i) IN
  /\ At(p, "reclaim")
  /\ \/ /\ found = {}
        /\ thread' = [thread EXCEPT ![p] = User]
        /\ UNCHANGED itable
     \/ /\ found # {} /\ HasRoom(itable, i)
        /\ itable' = Loaded(t, e, dinode[i])
        /\ thread' = [thread EXCEPT ![p].n = i + 1, ![p].op = TRUE,
                        ![p].todo = <<Put(e), [do |-> "end", e |-> NoEntry]>>]
  /\ UNCHANGED <<disk, durable, cwd, files>>

-----------------------------------------------------------------------------

(* The inode a process locks next.                                         *)
LocksIp == {"open", "trunc", "chdir", "create", "create_found", "create_fill", "unlink",
            "unlink_erase", "link", "linkto"}
Wants(p) ==
  LET t == thread[p] IN
  CASE t.todo # << >> -> IF Head(t.todo).do = "put" /\ LastPut(Head(t.todo).e)
                           THEN Head(t.todo).e ELSE NoEntry
    [] t.todo = << >> /\ (t.at \in LocksIp \/ (t.at = "walk" /\ t.path # << >>)) -> t.ip
    [] t.todo = << >> /\ t.at = "link_undo" -> t.dp
    [] t.todo = << >> /\ t.at = "write" -> ftable[t.f].obj
    [] OTHER -> NoEntry

(* The panics of ilock, dirlookup and sys_unlink.                          *)
Panics(p) ==
  LET e == Wants(p) IN
  /\ e # NoEntry /\ thread[p].todo = << >> /\ Unlocked(e)
  /\ \/ NoType(e)
     \/ thread[p].at \in {"create", "unlink", "linkto"} /\ Node(e).type # "dir"
     \/ At(p, "unlink_erase") /\ Node(e).nlink < 1

Iput(p) == IputTests(p) \/ IputFrees(p) \/ IputForgets(p) \/ IputDrops(p)
Namex(p) == WalkEnds(p) \/ Walk(p)
Create(p) == CreateLookup(p) \/ CreateFound(p) \/ CreateAlloc(p) \/ CreateFill(p)
SysOpen(p) == Open(p) \/ Create(p) \/ OpenMade(p)
SysUnlink(p) == UnlinkLookup(p) \/ UnlinkErase(p) \/ UnlinkDrop(p)
SysLink(p) == LinkCount(p) \/ LinkEnter(p) \/ LinkUndo(p)

Step(p) ==
  \/ EndOp(p) \/ Iunlock(p) \/ Iput(p) \/ Namex(p)
  \/ SysOpen(p) \/ Chdir(p) \/ SysUnlink(p) \/ SysLink(p)
  \/ WriteChunk(p) \/ ExitCloses(p) \/ Ireclaim(p)

Call(p) ==
  \/ \E r \in Request : Enter(p, r)
  \/ \E fd \in Fd : Close(p, fd) \/ Read(p, fd) \/ Fstat(p, fd)
                    \/ \E n \in 1..MaxCount : WriteBegin(p, fd, n)
  \/ Exit(p)

Next ==
  \/ /\ \A p \in Process : ~ Panics(p)
     /\ \E p \in Process :
          \/ Step(p) /\ UNCHANGED ncalls
          \/ \E child \in Process : Fork(p, child) /\ UNCHANGED ncalls
          \/ Call(p) /\ ncalls < MaxCalls /\ ncalls' = ncalls + 1
  \/ Crash /\ UNCHANGED ncalls

Spec == Init /\ [][Next]_vars

-----------------------------------------------------------------------------
(* Properties                                                              *)

(* The variables keep their types; no link count falls below zero.         *)
TypeOK ==
  /\ FilesTypeOK /\ off \in [File -> Nat]
  /\ Disk \in DiskType /\ durable \in DiskType
  /\ \A e \in Entry : /\ itable[e].inum \in Inum \union {0} /\ itable[e].ref \in Nat
                      /\ itable[e].valid \in BOOLEAN
                      /\ itable[e].lock \in Process \union {NoProcess}
  /\ cwd \in [Process -> Entry \union {NoEntry}]

HoldsIp == (LocksIp \union {"walk", "unlink_drop", "open_made"})
HoldsDp(t) == t.at \in {"create_alloc", "create_fill", "unlink_erase", "link_undo"}
              \/ (t.call = "linkto" /\ t.at \in {"walk", "linkto"})
Putting(t) == {k \in DOMAIN t.todo : t.todo[k].do \in {"put", "free", "forget", "drop"}}

(* The pointers to an entry: of directories, files, and calls.             *)
Pointers(e) ==
  Cardinality({p \in Process : cwd[p] = e})
  + Cardinality({f \in File : ftable[f].ref > 0 /\ ftable[f].obj = e})
  + Cardinality({p \in Process : thread[p].at \in HoldsIp /\ thread[p].ip = e})
  + Cardinality({p \in Process : HoldsDp(thread[p]) /\ thread[p].dp = e})
  + Cardinality({x \in Process \X (1..4) :
                   /\ x[2] \in Putting(thread[x[1]])
                   /\ thread[x[1]].todo[x[2]].e = e})

(* "ip->ref tracks the number of in-memory pointers to the entry" (fs.c):  *)
(* on every path of every call, failing ones too, a reference taken is     *)
(* given back, and an inode has one entry.                                 *)
RefsCounted ==
  /\ \A e \in Entry : itable[e].ref = Pointers(e)
  /\ \A i \in Inum : Cardinality(EntryOf(itable, i)) <= 1
  /\ \A f \in File : ftable[f].ref = FdRefs(f)

(* The names of live directories, which are those with links: all but ".", *)
(* and ".." of a directory only while that has a name itself.  (Unlink     *)
(* takes the link of ".." from the parent with the name; the directory may *)
(* live on without one, see create in a directory that was removed.)       *)
Live(d, i) == d.dinode[i].type = "dir" /\ d.dinode[i].nlink > 0
Slots(d) ==
  UNION {{<<i, k>> : k \in {j \in DOMAIN d.dirs[i] : d.dirs[i][j].inum # 0}} :
           i \in {i \in Inum : Live(d, i)}}
HasName(d, i) ==
  \E x \in Slots(d) : LET slot == d.dirs[x[1]][x[2]] IN
                        slot.inum = i /\ slot.name \notin Reserved
Named(d) == {x \in Slots(d) : LET name == d.dirs[x[1]][x[2]].name IN
               name # "." /\ (name = ".." => HasName(d, x[1]))}

(* Nothing that has a name or is open is freed: at any moment of any calls *)
(* a name stands for an inode that is allocated and has a link, and so does*)
(* every directory and file in use, linked or not; and on the disk nlink is*)
(* the number of names of a directory, the root having one more, and no    *)
(* less than that of a file (whose name may be lost with the directory it  *)
(* was made in, when another call removed that).                           *)
NeverFreedInUse ==
  /\ \A x \in Named(Disk) :
       LET slot == dirs[x[1]][x[2]] IN
       slot.name # ".." => dinode[slot.inum].type # "free" /\ dinode[slot.inum].nlink > 0
  /\ \A e \in {cwd[p] : p \in Process} \union {ftable[f].obj : f \in File} :
       e # NoEntry => dinode[itable[e].inum].type # "free"
  /\ LET named == Named(durable) IN
     \A i \in Inum :
       LET node == durable.dinode[i]
           names == {x \in named : durable.dirs[x[1]][x[2]].inum = i}
           links == Cardinality(names) + (IF i = ROOTINO THEN 1 ELSE 0)
       IN  IF node.type = "dir" THEN node.nlink = links ELSE node.nlink >= links

(* An inode without links is freed with the last reference to it: no step  *)
(* leaves one behind that nobody has, and after a crash the boot frees what*)
(* was left.  There is one exception: an iput that has freed an inode still*)
(* counts as a reference until it takes itable.lock again, and meanwhile   *)
(* another call may have taken the inode anew, and have put it: what iput  *)
(* then drops is the last reference to an inode it does not free.          *)
LeftBehind(i) == i \in Orphans(Disk) /\ EntryOf(itable, i) = {}
DropsFreed(p, i) == IputDrops(p) /\ itable[Head(thread[p].todo).e].inum = i
BootEnds == \E p \in Process : At(p, "reclaim") /\ thread'[p].at = "user"

OrphansAreHeld ==
  [][\A i \in Inum : LeftBehind(i)' =>
       /\ ~ BootEnds
       /\ LeftBehind(i) \/ Crash \/ \E p \in Process : DropsFreed(p, i)]_vars

(* The bitmap is the blocks of the inodes, each of which belongs to one    *)
(* inode, in one place; and a file has all blocks below its size, so that  *)
(* a read allocates none.                                                  *)
Units(node) == IF node.type = "dir" THEN (node.size + DPB - 1) \div DPB ELSE node.size
BlocksOwned ==
  /\ TypeOK
  /\ used = UNION {BlocksOf(dinode[i]) : i \in Inum}
  /\ \A i \in Inum, a \in 0..MAXFILE : dinode[i].addrs[a] # 0 =>
       \A j \in Inum, b \in 0..MAXFILE :
         dinode[i].addrs[a] = dinode[j].addrs[b] => i = j /\ a = b
  /\ \A i \in Inum : \A bn \in 0..Units(dinode[i]) - 1 : Mapped(dinode[i], bn)

(* The memory copy of an inode nobody has locked is the one on the disk:   *)
(* ilock finds a freed and reused inode as it is now.                      *)
MemoryIsCurrent ==
  \A e \in Entry : itable[e].ref > 0 /\ itable[e].valid /\ Unlocked(e)
    => itable[e].node = dinode[itable[e].inum]

(* "this acquiresleep() won't block (or deadlock)" (iput), and no processes*)
(* wait for each other's inodes in a circle.                               *)
WaitsFor(p, q) == Wants(p) # NoEntry /\ itable[Wants(p)].lock = q
NoDeadlock ==
  /\ \A p \in Process : Does(p, "put") => Wants(p) = NoEntry \/ Unlocked(Wants(p))
  /\ \A S \in SUBSET Process \ {{}} : \E p \in S : \A q \in S : ~ WaitsFor(p, q)

(* No panic is met, and no process is stuck: the inode a call finds is     *)
(* allocated, the directory it removes holds a name or two only.           *)
NeverPanics == \A p \in Process : ~ Panics(p)
NeverStuck == NoDeadlock /\ NeverPanics

=============================================================================
