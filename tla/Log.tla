---------------------------------- MODULE Log ----------------------------------
(***************************************************************************)
(* The write-ahead log of xv6-riscv-modificado (kernel/log.c, the same file*)
(* as in xv6-riscv) with the disk under it, the part of the buffer cache   *)
(* it relies on (bread, bpin, bunpin), crashes and recovery.               *)
(*                                                                         *)
(* Abstractions.  The content of a block is the number of the system call  *)
(* that wrote it last.  Every critical section of log.lock is one step, and*)
(* so is every write of a disk block: virtio_disk_rw returns when the block*)
(* is on the disk.  The header fits in a sector and is written whole.  The *)
(* caller of log_write holds the block's buffer from bread to brelse, and  *)
(* nobody commits before its end_op, so that bread, the change and the     *)
(* log_write are one step.  A block that is not pinned may leave the cache *)
(* between any two steps.  A process about to panic takes no step: it holds*)
(* log.lock or bcache.lock for ever.  That bread finds a buffer is not     *)
(* claimed: NBUF is LOGBLOCKS, and fileread and filestat hold buffers      *)
(* outside of calls that begin_op counts, so that bget may panic in a      *)
(* commit beside many pinned blocks.  Such a run of the kernel ends, until *)
(* the power fails, as one does here in which the process takes no more    *)
(* steps, and what is stated below holds up to there.                      *)
(***************************************************************************)
EXTENDS Integers, Sequences, FiniteSets

CONSTANTS Process,      \* the processes that make file system calls
          Block,        \* home blocks
          MAXOPBLOCKS,  \* blocks begin_op sets aside for a call
          OpBlocks,     \* blocks a call really writes, at most
          LOGBLOCKS,    \* slots of the log
          MaxCalls      \* bound: system calls ever started

(* The calls of the file system need fewer blocks than begin_op sets aside:*)
(* filewrite, the largest, 4 data blocks and one each of bitmap, indirect  *)
(* and inode, 7 of 10. The processes are the NPROC slots of the table.         *)
ASSUME LogAssumption ==
  /\ IsFiniteSet(Process)
  /\ MAXOPBLOCKS \in Nat \ {0} /\ LOGBLOCKS \in Nat \ {0}
  /\ OpBlocks \in Nat /\ OpBlocks < MAXOPBLOCKS /\ MaxCalls \in Nat

Blank == 0                     \* what mkfs left in a block
Val == 0..MaxCalls
NotCached == MaxCalls + 1
Slot == 1..LOGBLOCKS

VARIABLES
  home,        \* disk: the home blocks
  slot,        \* disk: the blocks of the log
  head,        \* disk: block[0..n-1] of the header, as a sequence
  cache,       \* the cached copy of a home block, if there is one
  pinned,      \* the blocks bpin keeps in the cache
  lh,          \* log.lh, as a sequence
  outstanding, \* log.outstanding
  committing,  \* log.committing
  ncommit,     \* log.ncommit
  call,        \* call[p]: where process p is, and its locals
  boot,        \* where initlog is, and its local tail
  ncalls,      \* calls started so far
  pending      \* history: calls that wrote, ended and are not on the disk

disk == <<home, slot, head>>
log == <<lh, outstanding, committing, ncommit>>
vars == <<disk, cache, pinned, log, call, boot, ncalls, pending>>

(* id numbers the call and wrote collects the blocks it wrote; tail is the *)
(* index of a commit's loops; target is the n of sys_sync and behind the   *)
(* calls that had ended when it began.                                     *)
Idle == [at |-> "idle", id |-> 0, wrote |-> {}, tail |-> 0, target |-> 0,
         behind |-> {}]

Init ==
  /\ home = [b \in Block |-> Blank]
  /\ slot \in [Slot -> {Blank}]
  /\ head = << >>
  /\ cache = [b \in Block |-> NotCached]
  /\ pinned = {}
  /\ lh = << >>
  /\ outstanding = 0
  /\ committing = FALSE
  /\ ncommit = 0
  /\ call = [p \in Process |-> Idle]
  /\ boot = [at |-> "read_head", tail |-> 0]
  /\ ncalls = 0
  /\ pending = {}

-----------------------------------------------------------------------------

Running == boot.at = "up"
At(p, l) == Running /\ call[p].at = l
Goto(p, l) == call' = [call EXCEPT ![p].at = l]

Elements(s) == {s[i] : i \in DOMAIN s}

(* bread: the cached copy, or the disk's.                                  *)
Read(b) == IF cache[b] = NotCached THEN home[b] ELSE cache[b]

(* wakeup(&log), when process p goes on at l.                              *)
Wakeup(p, l) ==
  call' = [q \in Process |->
             IF q = p THEN [Idle EXCEPT !.at = l]
             ELSE IF call[q].at = "begin_sleep" THEN [call[q] EXCEPT !.at = "begin"]
             ELSE IF call[q].at = "sync_sleep" THEN [call[q] EXCEPT !.at = "sync"]
             ELSE call[q]]

-----------------------------------------------------------------------------
(* begin_op                                                                *)

Start(p) ==
  /\ At(p, "idle") /\ ncalls < MaxCalls
  /\ ncalls' = ncalls + 1
  /\ call' = [call EXCEPT ![p] = [Idle EXCEPT !.at = "begin", !.id = ncalls + 1]]
  /\ UNCHANGED <<disk, cache, pinned, log, boot, pending>>

Room == Len(lh) + (outstanding + 1) * MAXOPBLOCKS <= LOGBLOCKS

(* A faulty begin_op that counts a call before it sleeps.                  *)
BeginCountsSleepers(p) ==
  /\ At(p, "begin")
  /\ outstanding' = outstanding + 1
  /\ Goto(p, IF committing \/ ~ Room THEN "begin_sleep" ELSE "op")
  /\ UNCHANGED <<disk, cache, pinned, lh, committing, ncommit, boot,
                 ncalls, pending>>

Begin(p) ==
  /\ At(p, "begin")
  /\ \/ /\ committing \/ ~ Room
        /\ Goto(p, "begin_sleep")
        /\ UNCHANGED outstanding
     \/ /\ ~ committing /\ Room
        /\ Goto(p, "op")
        /\ outstanding' = outstanding + 1
  /\ UNCHANGED <<disk, cache, pinned, lh, committing, ncommit, boot,
                 ncalls, pending>>

-----------------------------------------------------------------------------
(* bread, the change of the block, and log_write                           *)

LogWritePanics == Len(lh) >= LOGBLOCKS \/ outstanding < 1

(* A block that is logged already is absorbed.                             *)
LogBlock(b) ==
  IF b \in Elements(lh)
    THEN UNCHANGED <<lh, pinned>>
    ELSE lh' = Append(lh, b) /\ pinned' = pinned \union {b}

Write(p, b) ==
  /\ At(p, "op") /\ Cardinality(call[p].wrote \union {b}) <= OpBlocks
  /\ ~ LogWritePanics
  /\ LogBlock(b)
  /\ cache' = [cache EXCEPT ![b] = call[p].id]
  /\ call' = [call EXCEPT ![p].wrote = @ \union {b}]
  /\ UNCHANGED <<disk, outstanding, committing, ncommit, boot, ncalls,
                 pending>>

-----------------------------------------------------------------------------
(* end_op and commit                                                       *)

Ended(p) == IF call[p].wrote = {} THEN {} ELSE {call[p].id}

(* A faulty end_op that wakes up nobody unless it commits.                 *)
EndQuietly(p) ==
  /\ At(p, "op") /\ ~ committing
  /\ outstanding' = outstanding - 1
  /\ committing' = (outstanding = 1)
  /\ call' = [call EXCEPT ![p] = [Idle EXCEPT !.at =
                IF outstanding # 1 THEN "idle"
                ELSE IF lh # << >> THEN "write_log" ELSE "commit_end"]]
  /\ pending' = pending \union Ended(p)
  /\ UNCHANGED <<disk, cache, pinned, lh, ncommit, boot, ncalls>>

(* The last call to end commits; an earlier one has given back log space.  *)
End(p) ==
  /\ At(p, "op") /\ ~ committing
  /\ outstanding' = outstanding - 1
  /\ \/ /\ outstanding = 1
        /\ committing' = TRUE
        /\ call' = [call EXCEPT ![p] =
                      [Idle EXCEPT !.at = IF lh # << >> THEN "write_log" ELSE "commit_end"]]
     \/ /\ outstanding # 1
        /\ Wakeup(p, "idle")
        /\ UNCHANGED committing
  /\ pending' = pending \union Ended(p)
  /\ UNCHANGED <<disk, cache, pinned, lh, ncommit, boot, ncalls>>

(* write_log copies one cached block to the log.                           *)
WriteLog(p) ==
  LET i == call[p].tail + 1 IN
  /\ At(p, "write_log") /\ i <= Len(lh)
  /\ slot' = [slot EXCEPT ![i] = Read(lh[i])]
  /\ call' = [call EXCEPT ![p].tail = i]
  /\ UNCHANGED <<home, head, cache, pinned, log, boot, ncalls, pending>>

(* write_head: the commit.                                                 *)
WriteHead(p) ==
  /\ At(p, "write_log") /\ call[p].tail = Len(lh)
  /\ head' = lh
  /\ call' = [call EXCEPT ![p].at = "install", ![p].tail = 0]
  /\ pending' = {}
  /\ UNCHANGED <<home, slot, cache, pinned, log, boot, ncalls>>

(* A faulty install_trans that copies the cache's block, as the log's is in*)
(* memory anyway, and does not write it.                                   *)
CopyHomeInMemory(i) ==
  /\ cache' = [cache EXCEPT ![lh[i]] = slot[i]]
  /\ UNCHANGED home

(* install_trans copies one block from the log to its home.                *)
CopyHome(i) ==
  /\ home' = [home EXCEPT ![lh[i]] = slot[i]]
  /\ cache' = [cache EXCEPT ![lh[i]] = slot[i]]

Install(p) ==
  LET i == call[p].tail + 1 IN
  /\ At(p, "install") /\ i <= Len(lh)
  /\ CopyHome(i)
  /\ pinned' = pinned \ {lh[i]}
  /\ call' = [call EXCEPT ![p].tail = i]
  /\ UNCHANGED <<slot, head, log, boot, ncalls, pending>>

(* log.lh.n = 0 and write_head: the log is empty again.                    *)
Erase(p) ==
  /\ At(p, "install") /\ call[p].tail = Len(lh)
  /\ lh' = << >>
  /\ head' = << >>
  /\ Goto(p, "commit_end")
  /\ UNCHANGED <<home, slot, cache, pinned, outstanding, committing, ncommit, boot,
                 ncalls, pending>>

CommitEnd(p) ==
  /\ At(p, "commit_end")
  /\ committing' = FALSE
  /\ ncommit' = ncommit + 1
  /\ Wakeup(p, "idle")
  /\ UNCHANGED <<disk, cache, pinned, lh, outstanding, boot, ncalls, pending>>

-----------------------------------------------------------------------------
(* sys_sync                                                                *)

(* A faulty sys_sync that waits for a commit that is over.                 *)
NextCommitIsOver == ncommit

NextCommit == ncommit + 1

(* With nothing to wait for it returns at once, which changes nothing.     *)
Sync(p) ==
  /\ At(p, "idle") /\ (committing \/ outstanding > 0)
  /\ call' = [call EXCEPT ![p] = [Idle EXCEPT !.at = "sync", !.target = NextCommit,
                                              !.behind = pending]]
  /\ UNCHANGED <<disk, cache, pinned, log, boot, ncalls, pending>>

SyncLoop(p) ==
  /\ At(p, "sync")
  /\ \/ /\ ncommit < call[p].target
        /\ Goto(p, "sync_sleep")
     \/ /\ ncommit >= call[p].target
        /\ call' = [call EXCEPT ![p] = Idle]
  /\ UNCHANGED <<disk, cache, pinned, log, boot, ncalls, pending>>

-----------------------------------------------------------------------------
(* The buffer cache, crashes and recovery                                  *)

(* bget gives the buffer of an unused block to another one.                *)
Evict(b) ==
  /\ b \notin pinned /\ cache[b] # NotCached
  /\ cache' = [cache EXCEPT ![b] = NotCached]
  /\ UNCHANGED <<disk, pinned, log, call, boot, ncalls, pending>>

(* Power fails.                                                            *)
Crash ==
  /\ cache' = [b \in Block |-> NotCached]
  /\ pinned' = {}
  /\ lh' = << >> /\ outstanding' = 0 /\ committing' = FALSE /\ ncommit' = 0
  /\ call' = [p \in Process |-> Idle]
  /\ boot' = [at |-> "read_head", tail |-> 0]
  /\ pending' = {}
  /\ UNCHANGED <<disk, ncalls>>

RecoverHead ==
  /\ boot.at = "read_head"
  /\ lh' = head
  /\ boot' = [at |-> "install", tail |-> 0]
  /\ UNCHANGED <<disk, cache, pinned, outstanding, committing, ncommit, call,
                 ncalls, pending>>

RecoverInstall ==
  LET i == boot.tail + 1 IN
  /\ boot.at = "install" /\ i <= Len(lh)
  /\ CopyHome(i)
  /\ boot' = [boot EXCEPT !.tail = i]
  /\ UNCHANGED <<slot, head, pinned, log, call, ncalls, pending>>

RecoverErase ==
  /\ boot.at = "install" /\ boot.tail = Len(lh)
  /\ lh' = << >>
  /\ head' = << >>
  /\ boot' = [at |-> "up", tail |-> 0]
  /\ UNCHANGED <<home, slot, cache, pinned, outstanding, committing, ncommit, call,
                 ncalls, pending>>

-----------------------------------------------------------------------------

BeginOp(p) == Start(p) \/ Begin(p)
Commit(p) == WriteLog(p) \/ WriteHead(p) \/ Install(p) \/ Erase(p)
EndOp(p) == End(p) \/ Commit(p) \/ CommitEnd(p)
SysSync(p) == Sync(p) \/ SyncLoop(p)
RecoverFromLog == RecoverHead \/ RecoverInstall \/ RecoverErase

Next ==
  \/ \E p \in Process :
       \/ BeginOp(p) \/ EndOp(p) \/ SysSync(p)
       \/ \E b \in Block : Write(p, b)
  \/ \E b \in Block : Evict(b)
  \/ Crash \/ RecoverFromLog

Spec == Init /\ [][Next]_vars

-----------------------------------------------------------------------------
(* Properties                                                              *)

Location == {"idle", "begin", "begin_sleep", "op", "write_log", "install",
             "commit_end", "sync", "sync_sleep"}

TypeOK ==
  /\ home \in [Block -> Val]
  /\ slot \in [Slot -> Val]
  /\ head \in Seq(Block) /\ Len(head) <= LOGBLOCKS
  /\ cache \in [Block -> Val \union {NotCached}]
  /\ pinned \subseteq Block
  /\ lh \in Seq(Block) /\ Len(lh) <= LOGBLOCKS
  /\ outstanding \in 0..Cardinality(Process)
  /\ committing \in BOOLEAN
  /\ ncommit \in Nat
  /\ call \in [Process -> [at : Location, id : Val, wrote : SUBSET Block,
                           tail : 0..LOGBLOCKS, target : Nat, behind : SUBSET Val]]
  /\ boot \in [at : {"read_head", "install", "up"}, tail : 0..LOGBLOCKS]
  /\ ncalls \in Val
  /\ pending \subseteq Val

InCall == {p \in Process : call[p].at = "op"}
Committing(p) == call[p].at \in {"write_log", "install", "commit_end"}

(* One process commits at a time, while no call is in progress, and the    *)
(* counters of struct log tell where the processes are.                    *)
CommitsAlone ==
  /\ outstanding = Cardinality(InCall)
  /\ committing => InCall = {}
  /\ \A p \in Process : Committing(p) => committing
  /\ \A p, q \in Process : Committing(p) /\ Committing(q) => p = q

(* The panics of log_write and end_op: the log has room for every block a  *)
(* call in progress may still write, and no call ends while another        *)
(* commits.                                                                *)
NeverPanics ==
  \A p \in Process : call[p].at = "op" => ~ LogWritePanics /\ ~ committing

(* The bpin of log_write and the bunpin of install_trans match: a block    *)
(* stays in the cache from the first log_write, in whichever call, to its  *)
(* installation at home, and after the commit no buffer is kept.           *)
PinnedWhileLogged ==
  /\ ~ Running => pinned = {}
  /\ Running /\ (\A p \in Process : call[p].at # "install") => pinned = Elements(lh)
  /\ \A p \in Process :
       call[p].at = "install" => pinned = {lh[i] : i \in (call[p].tail + 1)..Len(lh)}

(* Nobody sleeps on &log for a condition that holds already: a process in  *)
(* begin_op sleeps only while there is a commit or no room, one in sys_sync*)
(* only while its commit is not over.                                      *)
NoLostWakeup ==
  \A p \in Process :
    /\ call[p].at = "begin_sleep" => committing \/ ~ Room
    /\ call[p].at = "sync_sleep" => ncommit < call[p].target

(* The protocol of begin_op, log_write, end_op and commit as a whole.      *)
Orderly == TypeOK /\ CommitsAlone /\ NeverPanics /\ PinnedWhileLogged

(* When sync returns, every call that ended before it began is on the disk.*)
SyncSaves ==
  /\ Running /\ ~ committing /\ outstanding = 0 => pending = {}
  /\ \A p \in Process :
       call[p].at = "sync" /\ ncommit >= call[p].target
         => call[p].behind \intersect pending = {}

(* What a recovery from this moment's disk would make of it.               *)
Recovered ==
  [b \in Block |-> IF b \in Elements(head)
                     THEN slot[CHOOSE i \in DOMAIN head : head[i] = b]
                     ELSE home[b]]

Store == INSTANCE CrashStore WITH
  mem <- IF boot.at = "up" THEN [b \in Block |-> Read(b)] ELSE Recovered,
  stable <- Recovered,
  active <- InCall

(* The log implements the store: a crash at any moment, recovery included, *)
(* keeps every call that was committed and nothing of any other.           *)
Atomic == Store!Spec

=============================================================================
