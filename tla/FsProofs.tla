------------------------------- MODULE FsProofs --------------------------------
(***************************************************************************)
(* The references of the inode table and of the file table are counted     *)
(* right on every path of every call, for any number of processes, files,  *)
(* inodes, names and blocks, through crashes.                              *)
(***************************************************************************)
EXTENDS Fs, FiniteSetTheorems, SequenceTheorems, TLAPS

-----------------------------------------------------------------------------
(* Types                                                                   *)

Names == Name \union {".", ".."}
Path == Seq(Names)
Calls == {"none", "open", "trunc", "creat", "rewrite", "chdir", "mkdir", "mknod", "unlink",
          "link", "linkto"}
Places == {"user", "absent", "reclaim", "return", "exiting", "walk", "open", "trunc", "chdir",
           "create", "create_found", "create_alloc", "create_fill", "open_made", "unlink",
           "unlink_erase", "unlink_drop", "link", "linkto", "link_undo", "write"}
End == [do |-> "end", e |-> NoEntry]
Puts == {"put", "free", "forget", "drop"}
Item == [do : Puts \union {"unlock"}, e : Entry] \union {End}
Thread == [at : Places, todo : Seq(Item), op : BOOLEAN, call : Calls, path : Path,
           new : PathType, ip : Entry \union {NoEntry}, dp : Entry \union {NoEntry},
           f : File \union {NoFile}, n : Nat]

Slot == [name : Names \union {NoName}, inum : Inum \union {0}]
Dirs == [Inum -> Seq(Slot)]

(* An entry of the inode table, whatever its lock and its memory copy.     *)
IsEntry(r) ==
  r = [inum |-> r.inum, ref |-> r.ref, valid |-> r.valid, lock |-> r.lock, node |-> r.node]

-----------------------------------------------------------------------------
(* The inductive invariant                                                 *)

IsTable(t) == t = [e \in Entry |-> t[e]]

(* Two entries in use are not of the same inode: the table never is full   *)
(* when another inode is looked for.                                       *)
TableInv(t) ==
  /\ IsTable(t)
  /\ \A e \in Entry : IsEntry(t[e]) /\ t[e].ref \in Nat /\ (t[e].ref > 0 => t[e].inum \in Inum)
  /\ \A e1, e2 \in Entry : t[e1].ref > 0 /\ t[e2].ref > 0 /\ t[e1].inum = t[e2].inum => e1 = e2

(* Nothing is left to be done after the end of the transaction.            *)
GoodTodo(s) ==
  s \in Seq(Item) /\ Len(s) <= 4 /\ \A k \in DOMAIN s : s[k].do = "end" => k = Len(s)

(* The places where the name to be made is still there.                    *)
Naming == {"create", "create_alloc", "create_fill", "linkto"}

(* What a process keeps with it: its directory c, the descriptors fds, and *)
(* the entries its call points to.                                         *)
ThreadInv(c, fds, t) ==
  /\ GoodTodo(t.todo)
  /\ t.at \in HoldsIp => t.ip \in Entry
  /\ HoldsDp(t) => t.dp \in Entry
  /\ t.at = "walk" => t.call # "none"
  /\ t.at = "linkto" => t.call = "linkto"
  /\ t.at \in Naming => t.path # << >>
  /\ t.at \notin {"absent", "exiting"} => c \in Entry
  /\ t.at = "absent" => c = NoEntry /\ t.todo = << >> /\ \A fd \in Fd : fds[fd] = NoFile

TypeInv ==
  /\ FilesTypeOK
  /\ cwd \in [Process -> Entry \union {NoEntry}]
  /\ thread \in [Process -> Thread]
  /\ dirs \in Dirs /\ durable.dirs \in Dirs

FilesInv ==
  \A f \in File : ftable[f].ref = FdRefs(f) /\ (ftable[f].ref > 0 => ftable[f].obj \in Entry)

CountInv == \A e \in Entry : itable[e].ref = Pointers(e)

IInv ==
  /\ TypeInv
  /\ TableInv(itable)
  /\ \A p \in Process : ThreadInv(cwd[p], ofile[p], thread[p])
  /\ FilesInv
  /\ CountInv

USE FileTableAssumption DEF NoFile, NoObject, NoEntry

-----------------------------------------------------------------------------
(* Counting                                                                *)

LEMMA LeastIsIn ==
  ASSUME NEW S \in SUBSET Nat, S # {}
  PROVE  Min(S) \in S
<1> DEFINE Less == {ss \in Nat \X Nat : ss[1] < ss[2]}
<1>0. IsWellFoundedOn(Less, Nat)
  BY NatLessThanWellFounded, Zenon DEF OpToRel
<1>1. PICK n \in S : \A m \in S : ~ (<<m, n>> \in Less)
  <2> HIDE DEF Less
  <2> QED
    BY <1>0, WFMin, Zenon
<1>2. ASSUME NEW m \in S
      PROVE  n <= m
  <2>1. m \in Nat /\ n \in Nat /\ <<m, n>> \in Nat \X Nat /\ <<m, n>>[1] = m /\ <<m, n>>[2] = n
    OBVIOUS
  <2>2. ~ (m < n)
    BY <1>1, <2>1, Zenon
  <2> QED
    BY <2>1, <2>2
<1> QED
  BY <1>1, <1>2, Zenon DEF Min

LEMMA Disjoint ==
  ASSUME NEW S, NEW T, IsFiniteSet(S), IsFiniteSet(T), S \cap T = {}
  PROVE  /\ IsFiniteSet(S \union T) /\ Cardinality(S \union T) \in Nat
         /\ Cardinality(S) \in Nat /\ Cardinality(T) \in Nat
         /\ Cardinality(S \union T) = Cardinality(S) + Cardinality(T)
<1>1. /\ IsFiniteSet(S \union T)
      /\ Cardinality(S \union T) = Cardinality(S) + Cardinality(T) - Cardinality(S \cap T)
  BY FS_Union, Zenon
<1>2. Cardinality(S \cap T) = 0
  BY FS_EmptySet, Zenon
<1>3. Cardinality(S) \in Nat /\ Cardinality(T) \in Nat /\ Cardinality(S \union T) \in Nat
  BY <1>1, FS_CardinalityType, Zenon
<1> QED
  BY <1>1, <1>2, <1>3

(* One row of a table counts as its second column does.                    *)
LEMMA Row ==
  ASSUME NEW p, NEW S, IsFiniteSet(S)
  PROVE  IsFiniteSet({p} \X S) /\ Cardinality({p} \X S) = Cardinality(S)
<1>1. IsFiniteSet({p}) /\ Cardinality({p}) = 1 /\ Cardinality(S) \in Nat
  BY FS_Singleton, FS_CardinalityType
<1>2. IsFiniteSet({p} \X S) /\ Cardinality({p} \X S) = Cardinality({p}) * Cardinality(S)
  BY <1>1, FS_Product, Zenon
<1> QED
  BY <1>1, <1>2

(* What a set has without p, and what p adds.                              *)
LEMMA Without ==
  ASSUME NEW S, IsFiniteSet(S), NEW p
  PROVE  /\ Cardinality(S \ {p}) \in Nat
         /\ Cardinality(S) = Cardinality(S \ {p}) + (IF p \in S THEN 1 ELSE 0)
<1>1. /\ IsFiniteSet(S \ {p})
      /\ Cardinality(S \ {p}) = IF p \in S THEN Cardinality(S) - 1 ELSE Cardinality(S)
  BY FS_RemoveElement, Zenon
<1>2. Cardinality(S) \in Nat /\ Cardinality(S \ {p}) \in Nat
  BY <1>1, FS_CardinalityType, Zenon
<1> QED
  BY <1>1, <1>2

(* The pairs of p beside others.                                           *)
LEMMA WithRow ==
  ASSUME NEW A, IsFiniteSet(A), NEW p, NEW K, IsFiniteSet(K), A \cap ({p} \X K) = {}
  PROVE  /\ Cardinality(A) \in Nat /\ Cardinality(K) \in Nat
         /\ Cardinality(A \union ({p} \X K)) = Cardinality(A) + Cardinality(K)
<1>1. IsFiniteSet({p} \X K) /\ Cardinality({p} \X K) = Cardinality(K)
  BY Row, Zenon
<1>2. /\ Cardinality(A \union ({p} \X K)) = Cardinality(A) + Cardinality({p} \X K)
      /\ Cardinality(A) \in Nat /\ Cardinality({p} \X K) \in Nat
  BY <1>1, Disjoint, Zenon
<1> QED
  BY <1>1, <1>2

(* The descriptors of one process, and those of the others.                *)
FdsIn(fds, f) == {fd \in Fd : fds[fd] = f}
RefsIn(of, f) == {d \in Process \X Fd : of[d[1]][d[2]] = f}
OtherFds(of, p, f) == {d \in RefsIn(of, f) : d[1] # p}

LEMMA FdCount ==
  ASSUME NEW p \in Process, NEW of, NEW f
  PROVE  /\ Cardinality(OtherFds(of, p, f)) \in Nat /\ Cardinality(FdsIn(of[p], f)) \in Nat
         /\ Cardinality(RefsIn(of, f)) = Cardinality(OtherFds(of, p, f)) + Cardinality(FdsIn(of[p], f))
<1>1. IsFiniteSet(Fd) /\ IsFiniteSet(Process)
  BY FS_Interval DEF Fd
<1>2. IsFiniteSet(Process \X Fd)
  BY <1>1, FS_Product
<1> DEFINE A == OtherFds(of, p, f)
           K == FdsIn(of[p], f)
<1>3. A \in SUBSET (Process \X Fd) /\ K \in SUBSET Fd
  BY DEF OtherFds, RefsIn, FdsIn
<1>4. IsFiniteSet(A) /\ IsFiniteSet(K)
  BY <1>1, <1>2, <1>3, FS_Subset, Zenon
<1>5. RefsIn(of, f) = A \union ({p} \X K) /\ A \cap ({p} \X K) = {}
  BY DEF OtherFds, RefsIn, FdsIn
<1> HIDE DEF A, K
<1>6. /\ Cardinality(A) \in Nat /\ Cardinality(K) \in Nat
      /\ Cardinality(A \union ({p} \X K)) = Cardinality(A) + Cardinality(K)
  BY <1>4, <1>5, WithRow, Zenon
<1> QED
  BY <1>5, <1>6, Zenon DEF A, K

(* The part one process has in the pointers to e.                          *)
Same(a, b) == IF a = b THEN 1 ELSE 0
ItemRef(todo, k, e) ==
  IF k \in DOMAIN todo /\ todo[k].do \in Puts /\ todo[k].e = e THEN 1 ELSE 0
TodoRefs(todo, e) ==
  ItemRef(todo, 1, e) + ItemRef(todo, 2, e) + ItemRef(todo, 3, e) + ItemRef(todo, 4, e)
IpRef(t, e) == IF t.at \in HoldsIp /\ t.ip = e THEN 1 ELSE 0
DpRef(t, e) == IF HoldsDp(t) /\ t.dp = e THEN 1 ELSE 0
Own(c, t, e) == Same(c, e) + IpRef(t, e) + DpRef(t, e) + TodoRefs(t.todo, e)

LEMMA TodoCount ==
  ASSUME NEW t, NEW e
  PROVE  LET K == {k \in 1..4 : k \in Putting(t) /\ t.todo[k].e = e} IN
         IsFiniteSet(K) /\ Cardinality(K) = TodoRefs(t.todo, e) /\ TodoRefs(t.todo, e) \in Nat
<1> DEFINE K == {k \in 1..4 : k \in Putting(t) /\ t.todo[k].e = e}
           From(n) == {k \in K : n < k}
           r(n) == ItemRef(t.todo, n, e)
<1>0. IsFiniteSet(1..4) /\ K \in SUBSET (1..4)
  <2>1. 1 \in Int /\ 4 \in Int
    OBVIOUS
  <2>2. IsFiniteSet(1..4)
    BY <2>1, FS_Interval, Zenon
  <2> QED
    BY <2>2
<1>1. IsFiniteSet(K)
  BY <1>0, FS_Subset, Zenon
<1>2. ASSUME NEW n \in 1..4
      PROVE  IF n \in From(n - 1) THEN r(n) = 1 ELSE r(n) = 0
  BY DEF Putting, Puts, ItemRef
<1>3. ASSUME NEW n \in 1..4
      PROVE  From(n - 1) \ {n} = From(n)
  BY <1>0
<1>4. From(0) = K /\ From(4) = {}
  BY <1>0
<1>5. ASSUME NEW n \in 0..4
      PROVE  IsFiniteSet(From(n))
  <2>1. From(n) \in SUBSET K
    OBVIOUS
  <2> QED
    BY <1>1, <2>1, FS_Subset, Zenon
<1> HIDE DEF K, From, r
<1>6. ASSUME NEW n \in 1..4
      PROVE  Cardinality(From(n - 1)) = Cardinality(From(n)) + r(n) /\ r(n) \in Nat
             /\ Cardinality(From(n)) \in Nat
  <2>0. From(n - 1) \ {n} = From(n) /\ (IF n \in From(n - 1) THEN r(n) = 1 ELSE r(n) = 0)
    BY <1>2, <1>3, Zenon
  <2>1. IsFiniteSet(From(n - 1)) /\ n - 1 \in 0..4
    BY <1>5
  <2>2. /\ Cardinality(From(n - 1) \ {n}) \in Nat
        /\ Cardinality(From(n - 1)) = Cardinality(From(n - 1) \ {n})
                                      + (IF n \in From(n - 1) THEN 1 ELSE 0)
    BY <2>1, Without
  <2>3. CASE n \in From(n - 1)
    <3>1. r(n) = 1 /\ Cardinality(From(n - 1)) = Cardinality(From(n)) + 1
          /\ Cardinality(From(n)) \in Nat
      BY <2>0, <2>2, <2>3, Zenon
    <3> QED
      BY <3>1
  <2>4. CASE n \notin From(n - 1)
    <3>1. r(n) = 0 /\ Cardinality(From(n - 1)) = Cardinality(From(n)) + 0
          /\ Cardinality(From(n)) \in Nat
      BY <2>0, <2>2, <2>4, Zenon
    <3> QED
      BY <3>1
  <2> QED
    BY <2>3, <2>4, Zenon
<1>7. Cardinality(From(4)) = 0
  BY <1>4, FS_EmptySet, Zenon
<1>8. /\ Cardinality(From(0)) = Cardinality(From(1)) + r(1)
      /\ Cardinality(From(1)) = Cardinality(From(2)) + r(2)
      /\ Cardinality(From(2)) = Cardinality(From(3)) + r(3)
      /\ Cardinality(From(3)) = Cardinality(From(4)) + r(4)
      /\ r(1) \in Nat /\ r(2) \in Nat /\ r(3) \in Nat /\ r(4) \in Nat
  <2>1. 1 - 1 = 0 /\ 2 - 1 = 1 /\ 3 - 1 = 2 /\ 4 - 1 = 3 /\ 1 \in 1..4 /\ 2 \in 1..4
        /\ 3 \in 1..4 /\ 4 \in 1..4
    OBVIOUS
  <2> QED
    BY <1>6, <2>1
<1>9. Cardinality(K) = r(1) + r(2) + r(3) + r(4) /\ r(1) + r(2) + r(3) + r(4) \in Nat
  BY <1>4, <1>7, <1>8
<1> QED
  BY <1>1, <1>9 DEF K, r, TodoRefs

(* The pointers to e: of files, of process p, and of the others.           *)
FilesTo(ft, e) == Cardinality({f \in File : ft[f].ref > 0 /\ ft[f].obj = e})
OthersIn(c, p, e) == {q \in Process \ {p} : c[q] = e}
OthersAtIp(th, p, e) == {q \in Process \ {p} : th[q].at \in HoldsIp /\ th[q].ip = e}
OthersAtDp(th, p, e) == {q \in Process \ {p} : HoldsDp(th[q]) /\ th[q].dp = e}
OthersTodo(th, p, e) ==
  {x \in Process \X (1..4) : x[1] # p /\ x[2] \in Putting(th[x[1]]) /\ th[x[1]].todo[x[2]].e = e}
Others(c, th, p, e) ==
  Cardinality(OthersIn(c, p, e)) + Cardinality(OthersAtIp(th, p, e))
  + Cardinality(OthersAtDp(th, p, e)) + Cardinality(OthersTodo(th, p, e))
PointersIn(c, ft, th, e) ==
  Cardinality({p \in Process : c[p] = e})
  + FilesTo(ft, e)
  + Cardinality({p \in Process : th[p].at \in HoldsIp /\ th[p].ip = e})
  + Cardinality({p \in Process : HoldsDp(th[p]) /\ th[p].dp = e})
  + Cardinality({x \in Process \X (1..4) :
                   /\ x[2] \in Putting(th[x[1]])
                   /\ th[x[1]].todo[x[2]].e = e})

LEMMA FilesToType ==
  ASSUME NEW ft, NEW e
  PROVE  FilesTo(ft, e) \in Nat /\ IsFiniteSet({f \in File : ft[f].ref > 0 /\ ft[f].obj = e})
<1> DEFINE S == {f \in File : ft[f].ref > 0 /\ ft[f].obj = e}
<1>1. IsFiniteSet(File)
  BY FS_Interval DEF File
<1>2. S \in SUBSET File
  OBVIOUS
<1> HIDE DEF S
<1>3. IsFiniteSet(S) /\ Cardinality(S) \in Nat
  BY <1>1, <1>2, FS_Subset, FS_CardinalityType, Zenon
<1> QED
  BY <1>3, Zenon DEF S, FilesTo

(* A count of processes, p apart.                                          *)
LEMMA Apart ==
  ASSUME NEW S \in SUBSET Process, NEW p, NEW T, NEW n, T = S \ {p},
         n = IF p \in S THEN 1 ELSE 0
  PROVE  Cardinality(T) \in Nat /\ n \in Nat /\ Cardinality(S) = Cardinality(T) + n
<1>1. IsFiniteSet(S)
  BY FS_Subset, Zenon
<1> QED
  BY <1>1, Without

LEMMA TodoApart ==
  ASSUME NEW p \in Process, NEW th, NEW e
  PROVE  LET S == {x \in Process \X (1..4) : /\ x[2] \in Putting(th[x[1]])
                                              /\ th[x[1]].todo[x[2]].e = e} IN
         /\ Cardinality(OthersTodo(th, p, e)) \in Nat /\ TodoRefs(th[p].todo, e) \in Nat
         /\ Cardinality(S) = Cardinality(OthersTodo(th, p, e)) + TodoRefs(th[p].todo, e)
<1> DEFINE A == OthersTodo(th, p, e)
           K == {k \in 1..4 : k \in Putting(th[p]) /\ th[p].todo[k].e = e}
           S == {x \in Process \X (1..4) : /\ x[2] \in Putting(th[x[1]])
                                            /\ th[x[1]].todo[x[2]].e = e}
<1>1. IsFiniteSet(K) /\ Cardinality(K) = TodoRefs(th[p].todo, e)
  BY TodoCount
<1>2. IsFiniteSet(A)
  <2>1. IsFiniteSet(1..4)
    <3>1. 1 \in Int /\ 4 \in Int
      OBVIOUS
    <3> QED
      BY <3>1, FS_Interval, Zenon
  <2>2. IsFiniteSet(Process \X (1..4))
    BY <2>1, FS_Product
  <2>3. A \in SUBSET (Process \X (1..4))
    BY DEF OthersTodo
  <2> QED
    BY <2>2, <2>3, FS_Subset, Zenon
<1>3. S = A \union ({p} \X K) /\ A \cap ({p} \X K) = {}
  BY DEF OthersTodo
<1> HIDE DEF A, K, S
<1>4. /\ Cardinality(A) \in Nat /\ Cardinality(K) \in Nat
      /\ Cardinality(A \union ({p} \X K)) = Cardinality(A) + Cardinality(K)
  BY <1>1, <1>2, <1>3, WithRow, Zenon
<1> QED
  BY <1>1, <1>3, <1>4, Zenon DEF A, S

LEMMA PointersOf ==
  ASSUME NEW p \in Process, NEW c, NEW ft, NEW th, NEW e
  PROVE  /\ Others(c, th, p, e) \in Nat /\ FilesTo(ft, e) \in Nat /\ Own(c[p], th[p], e) \in Nat
         /\ PointersIn(c, ft, th, e) = Others(c, th, p, e) + FilesTo(ft, e) + Own(c[p], th[p], e)
<1> DEFINE In == {q \in Process : c[q] = e}
           Ip == {q \in Process : th[q].at \in HoldsIp /\ th[q].ip = e}
           Dp == {q \in Process : HoldsDp(th[q]) /\ th[q].dp = e}
           Todo == {x \in Process \X (1..4) : /\ x[2] \in Putting(th[x[1]])
                                               /\ th[x[1]].todo[x[2]].e = e}
<1>1. /\ Cardinality(OthersIn(c, p, e)) \in Nat /\ Same(c[p], e) \in Nat
      /\ Cardinality(In) = Cardinality(OthersIn(c, p, e)) + Same(c[p], e)
  <2>1. In \in SUBSET Process /\ OthersIn(c, p, e) = In \ {p}
    BY DEF OthersIn
  <2>2. Same(c[p], e) = IF p \in In THEN 1 ELSE 0
    BY DEF Same
  <2> HIDE DEF In
  <2> QED
    BY <2>1, <2>2, Apart
<1>2. /\ Cardinality(OthersAtIp(th, p, e)) \in Nat /\ IpRef(th[p], e) \in Nat
      /\ Cardinality(Ip) = Cardinality(OthersAtIp(th, p, e)) + IpRef(th[p], e)
  <2>1. Ip \in SUBSET Process /\ OthersAtIp(th, p, e) = Ip \ {p}
    BY DEF OthersAtIp
  <2>2. IpRef(th[p], e) = IF p \in Ip THEN 1 ELSE 0
    BY DEF IpRef
  <2> HIDE DEF Ip
  <2> QED
    BY <2>1, <2>2, Apart
<1>3. /\ Cardinality(OthersAtDp(th, p, e)) \in Nat /\ DpRef(th[p], e) \in Nat
      /\ Cardinality(Dp) = Cardinality(OthersAtDp(th, p, e)) + DpRef(th[p], e)
  <2>1. Dp \in SUBSET Process /\ OthersAtDp(th, p, e) = Dp \ {p}
    BY DEF OthersAtDp
  <2>2. DpRef(th[p], e) = IF p \in Dp THEN 1 ELSE 0
    BY DEF DpRef
  <2> HIDE DEF Dp
  <2> QED
    BY <2>1, <2>2, Apart
<1>4. /\ Cardinality(OthersTodo(th, p, e)) \in Nat /\ TodoRefs(th[p].todo, e) \in Nat
      /\ Cardinality(Todo) = Cardinality(OthersTodo(th, p, e)) + TodoRefs(th[p].todo, e)
  BY TodoApart, Zenon
<1>5. FilesTo(ft, e) \in Nat
  BY FilesToType, Zenon
<1>6. PointersIn(c, ft, th, e) = Cardinality(In) + FilesTo(ft, e) + Cardinality(Ip)
                                 + Cardinality(Dp) + Cardinality(Todo)
  BY Zenon DEF PointersIn
<1> HIDE DEF In, Ip, Dp, Todo
<1> QED
  BY <1>1, <1>2, <1>3, <1>4, <1>5, <1>6 DEF Others, Own

(* Whoever points to an entry finds it in use.                             *)
LEMMA PointedTo ==
  ASSUME CountInv, NEW p \in Process, NEW e \in Entry
  PROVE  /\ itable[e].ref \in Nat /\ Own(cwd[p], thread[p], e) \in Nat
         /\ Own(cwd[p], thread[p], e) <= itable[e].ref
         /\ FilesTo(ftable, e) \in Nat /\ FilesTo(ftable, e) <= itable[e].ref
<1>1. itable[e].ref = PointersIn(cwd, ftable, thread, e)
  BY Zenon DEF CountInv, PointersIn, Pointers, FilesTo
<1> QED
  BY <1>1, PointersOf

(* The others keep their pointers, and what the files and p have more the  *)
(* count shows.                                                            *)
LEMMA Recount ==
  ASSUME CountInv, NEW p \in Process,
         \A q \in Process \ {p} : cwd'[q] = cwd[q] /\ thread'[q] = thread[q],
         \A e \in Entry :
           itable'[e].ref + FilesTo(ftable, e) + Own(cwd[p], thread[p], e)
             = itable[e].ref + FilesTo(ftable', e) + Own(cwd'[p], thread'[p], e),
         \A e \in Entry : itable'[e].ref \in Nat
  PROVE  CountInv'
<1> SUFFICES ASSUME NEW e \in Entry
             PROVE  itable'[e].ref = PointersIn(cwd', ftable', thread', e)
  BY Zenon DEF CountInv, PointersIn, Pointers, FilesTo
<1>1. itable[e].ref = PointersIn(cwd, ftable, thread, e)
  BY Zenon DEF CountInv, PointersIn, Pointers, FilesTo
<1>2. /\ Others(cwd, thread, p, e) \in Nat /\ FilesTo(ftable, e) \in Nat
      /\ Own(cwd[p], thread[p], e) \in Nat
      /\ itable[e].ref
           = Others(cwd, thread, p, e) + FilesTo(ftable, e) + Own(cwd[p], thread[p], e)
  BY <1>1, PointersOf
<1>3. /\ FilesTo(ftable', e) \in Nat /\ Own(cwd'[p], thread'[p], e) \in Nat
      /\ PointersIn(cwd', ftable', thread', e)
           = Others(cwd', thread', p, e) + FilesTo(ftable', e) + Own(cwd'[p], thread'[p], e)
  BY PointersOf
<1>4. Others(cwd', thread', p, e) = Others(cwd, thread, p, e)
  <2>1. OthersIn(cwd', p, e) = OthersIn(cwd, p, e)
    BY DEF OthersIn
  <2>2. OthersAtIp(thread', p, e) = OthersAtIp(thread, p, e)
    BY DEF OthersAtIp
  <2>3. OthersAtDp(thread', p, e) = OthersAtDp(thread, p, e)
    BY DEF OthersAtDp
  <2>4. OthersTodo(thread', p, e) = OthersTodo(thread, p, e)
    BY DEF OthersTodo
  <2> QED
    BY <2>1, <2>2, <2>3, <2>4, Zenon DEF Others
<1> QED
  BY <1>2, <1>3, <1>4

-----------------------------------------------------------------------------
(* The inode table                                                         *)

(* The references of t2 are those of t.                                    *)
SameRefs(t, t2) ==
  TableInv(t2) /\ \A e \in Entry : t2[e].ref = t[e].ref /\ t2[e].inum = t[e].inum

LEMMA SameTable ==
  ASSUME NEW t, TableInv(t), NEW t2, IsTable(t2),
         \A e \in Entry : IsEntry(t2[e]) /\ t2[e].ref = t[e].ref /\ t2[e].inum = t[e].inum
  PROVE  SameRefs(t, t2)
<1>1. \A e \in Entry : t[e].ref \in Nat /\ (t[e].ref > 0 => t[e].inum \in Inum)
  BY Zenon DEF TableInv
<1>2. \A e1, e2 \in Entry :
        t[e1].ref > 0 /\ t[e2].ref > 0 /\ t[e1].inum = t[e2].inum => e1 = e2
  BY Zenon DEF TableInv
<1>3. \A e \in Entry : t2[e].ref \in Nat /\ (t2[e].ref > 0 => t2[e].inum \in Inum)
  BY <1>1
<1>4. ASSUME NEW e1 \in Entry, NEW e2 \in Entry, t2[e1].ref > 0, t2[e2].ref > 0,
             t2[e1].inum = t2[e2].inum
      PROVE  e1 = e2
  BY <1>2, <1>4, Zenon
<1> QED
  BY <1>3, <1>4, Zenon DEF TableInv, SameRefs

LEMMA LoadedKeeps ==
  ASSUME NEW t, TableInv(t), NEW e, NEW node
  PROVE  SameRefs(t, Loaded(t, e, node))
<1> DEFINE t2 == Loaded(t, e, node)
<1>1. t2 = [x \in Entry |-> IF x = e THEN [t[x] EXCEPT !.valid = TRUE, !.node = node] ELSE t[x]]
  BY DEF Loaded, TableInv, IsTable
<1>2. ASSUME NEW x \in Entry
      PROVE  /\ IsEntry(t2[x]) /\ t2[x].ref = t[x].ref /\ t2[x].inum = t[x].inum
  BY <1>1 DEF TableInv, IsEntry
<1>3. IsTable(t2)
  BY <1>1 DEF IsTable
<1>4. \A x \in Entry : IsEntry(t2[x]) /\ t2[x].ref = t[x].ref /\ t2[x].inum = t[x].inum
  BY <1>2, Zenon
<1>5. SameRefs(t, t2)
  <2> HIDE DEF t2
  <2> QED
    BY <1>3, <1>4, SameTable, Zenon
<1> QED
  BY <1>5, Zenon

LEMMA LockKeeps ==
  ASSUME NEW t, TableInv(t), NEW e, NEW p
  PROVE  SameRefs(t, Lock(t, e, p))
<1> DEFINE t2 == Lock(t, e, p)
<1>1. t2 = [x \in Entry |-> IF x = e THEN [t[x] EXCEPT !.lock = p] ELSE t[x]]
  BY DEF Lock, TableInv, IsTable
<1>2. ASSUME NEW x \in Entry
      PROVE  /\ IsEntry(t2[x]) /\ t2[x].ref = t[x].ref /\ t2[x].inum = t[x].inum
  BY <1>1 DEF TableInv, IsEntry
<1>3. IsTable(t2)
  BY <1>1 DEF IsTable
<1>4. \A x \in Entry : IsEntry(t2[x]) /\ t2[x].ref = t[x].ref /\ t2[x].inum = t[x].inum
  BY <1>2, Zenon
<1>5. SameRefs(t, t2)
  <2> HIDE DEF t2
  <2> QED
    BY <1>3, <1>4, SameTable, Zenon
<1> QED
  BY <1>5, Zenon

LEMMA UnlockKeeps ==
  ASSUME NEW t, TableInv(t), NEW e
  PROVE  SameRefs(t, Unlock(t, e))
BY LockKeeps, Zenon DEF Unlock, Lock

LEMMA ForgottenKeeps ==
  ASSUME NEW t, TableInv(t), NEW e
  PROVE  SameRefs(t, Forgotten(t, e))
<1> DEFINE t1 == Unlock(t, e)
           t2 == [t1 EXCEPT ![e].valid = FALSE, ![e].node = NoNode]
<1>0. SameRefs(t, t1) /\ Forgotten(t, e) = t2
  BY UnlockKeeps, Zenon DEF Forgotten
<1> HIDE DEF t1
<1>1. t2 = [x \in Entry |-> IF x = e THEN [t1[x] EXCEPT !.valid = FALSE, !.node = NoNode] ELSE t1[x]]
  BY <1>0 DEF SameRefs, TableInv, IsTable
<1>2. ASSUME NEW x \in Entry
      PROVE  /\ IsEntry(t2[x]) /\ t2[x].ref = t[x].ref /\ t2[x].inum = t[x].inum
  <2>1. t2[x] = IF x = e THEN [t1[x] EXCEPT !.valid = FALSE, !.node = NoNode] ELSE t1[x]
    BY <1>1
  <2> HIDE DEF t2
  <2>2. IsEntry(t1[x]) /\ t1[x].ref = t[x].ref /\ t1[x].inum = t[x].inum
    BY <1>0, Zenon DEF SameRefs, TableInv
  <2> QED
    BY <2>1, <2>2 DEF IsEntry
<1>3. IsTable(t2)
  BY <1>1 DEF IsTable
<1> HIDE DEF t2
<1>4. SameRefs(t, t2)
  BY <1>2, <1>3, SameTable, Zenon
<1> QED
  BY <1>0, <1>4, Zenon

LEMMA SameRefsTwice ==
  ASSUME NEW t, NEW t1, NEW t2, SameRefs(t, t1), SameRefs(t1, t2)
  PROVE  SameRefs(t, t2)
BY DEF SameRefs

(* One reference more to the entry e, which is that of the inode i.        *)
OneMore(t, t2, e, i) ==
  /\ TableInv(t2) /\ e \in Entry /\ t2[e].inum = i
  /\ \A x \in Entry : t2[x].ref = t[x].ref + Same(x, e)
  /\ \A x \in Entry : t[x].ref > 0 => t2[x].inum = t[x].inum

LEMMA Sizes ==
  /\ NINODE \in Nat /\ NINODES \in Nat /\ NINODE >= 1 /\ NINODES >= 1
  /\ InitProcess \in Process
BY FsAssumption

LEMMA IgetFinds ==
  ASSUME NEW t, TableInv(t), NEW i \in Inum, HasRoom(t, i)
  PROVE  /\ Iget(t, i) \in Entry
         /\ EntryOf(t, i) # {} => t[Iget(t, i)].ref > 0 /\ t[Iget(t, i)].inum = i
         /\ EntryOf(t, i) = {} => t[Iget(t, i)].ref = 0
<1>1. CASE EntryOf(t, i) # {}
  <2>1. Iget(t, i) \in EntryOf(t, i)
    BY <1>1, Zenon DEF Iget
  <2> QED
    BY <1>1, <2>1 DEF EntryOf
<1>2. CASE EntryOf(t, i) = {}
  <2>1. Iget(t, i) = Min(UnusedEntries(t)) /\ UnusedEntries(t) # {}
    BY <1>2, Zenon DEF Iget, HasRoom
  <2>2. UnusedEntries(t) \in SUBSET Nat
    BY DEF UnusedEntries, Entry
  <2>3. Iget(t, i) \in UnusedEntries(t)
    BY <2>1, <2>2, LeastIsIn, Zenon
  <2> QED
    BY <1>2, <2>3 DEF UnusedEntries
<1> QED
  BY <1>1, <1>2, Zenon

LEMMA TakenCounts ==
  ASSUME NEW t, TableInv(t), NEW i \in Inum, HasRoom(t, i)
  PROVE  OneMore(t, Taken(t, i), Iget(t, i), i)
<1> DEFINE e == Iget(t, i)
           t2 == Taken(t, i)
<1>1. /\ e \in Entry
      /\ EntryOf(t, i) # {} => t[e].ref > 0 /\ t[e].inum = i
      /\ EntryOf(t, i) = {} => t[e].ref = 0
  BY IgetFinds, Zenon
<1>2. t2 = [x \in Entry |->
              IF x # e THEN t[x]
              ELSE IF EntryOf(t, i) # {} THEN [t[x] EXCEPT !.ref = @ + 1]
              ELSE [EmptyEntry EXCEPT !.inum = i, !.ref = 1]]
  BY DEF Taken, TableInv, IsTable
<1>3. IsTable(t2)
  BY <1>2 DEF IsTable
<1>4. ASSUME NEW x \in Entry, x # e
      PROVE  t2[x] = t[x]
  BY <1>2, <1>4
<1>5. CASE EntryOf(t, i) # {}
  <2>1. t2[e] = [t[e] EXCEPT !.ref = @ + 1]
    BY <1>1, <1>2, <1>5
  <2> HIDE DEF t2, e
  <2>2. IsEntry(t2[e]) /\ t2[e].ref = t[e].ref + 1 /\ t2[e].inum = i /\ t[e].ref \in Nat
    BY <1>1, <1>5, <2>1 DEF TableInv, IsEntry
  <2> QED
    BY <1>1, <1>3, <1>4, <1>5, <2>2 DEF TableInv, OneMore, Same, e, t2
<1>6. CASE EntryOf(t, i) = {}
  <2>1. t2[e] = [EmptyEntry EXCEPT !.inum = i, !.ref = 1]
    BY <1>1, <1>2, <1>6
  <2> HIDE DEF t2, e
  <2>2. IsEntry(t2[e]) /\ t2[e].ref = 1 /\ t2[e].inum = i /\ t[e].ref = 0
    BY <1>1, <1>6, <2>1 DEF EmptyEntry, IsEntry
  <2>3. \A x \in Entry : t[x].ref > 0 => t[x].inum # i
    BY <1>6 DEF EntryOf
  <2> QED
    BY <1>1, <1>3, <1>4, <2>2, <2>3 DEF TableInv, OneMore, Same, e, t2
<1> QED
  BY <1>5, <1>6, Zenon

LEMMA IdupCounts ==
  ASSUME NEW t, TableInv(t), NEW e \in Entry, t[e].ref > 0
  PROVE  OneMore(t, Idup(t, e), e, t[e].inum)
<1> DEFINE t2 == Idup(t, e)
<1>1. t2 = [x \in Entry |-> IF x = e THEN [t[x] EXCEPT !.ref = @ + 1] ELSE t[x]]
  BY DEF Idup, TableInv, IsTable
<1>2. IsTable(t2)
  BY <1>1 DEF IsTable
<1>3. ASSUME NEW x \in Entry
      PROVE  /\ IsEntry(t2[x]) /\ t[x].ref \in Nat /\ t2[x].ref = t[x].ref + Same(x, e)
             /\ t2[x].inum = t[x].inum
  <2>1. t2[x] = IF x = e THEN [t[x] EXCEPT !.ref = @ + 1] ELSE t[x]
    BY <1>1
  <2> HIDE DEF t2
  <2>2. IsEntry(t[x]) /\ t[x].ref \in Nat
    BY Zenon DEF TableInv
  <2> QED
    BY <2>1, <2>2 DEF IsEntry, Same
<1> HIDE DEF t2
<1>4. \A x \in Entry : (t2[x].ref > 0 => t[x].ref > 0) /\ t2[x].ref \in Nat
  BY <1>3 DEF Same
<1>5. TableInv(t2)
  BY <1>2, <1>3, <1>4 DEF TableInv
<1> QED
  BY <1>3, <1>5 DEF OneMore, t2

(* One reference less to e.                                                *)
OneLess(t, t2, e) ==
  /\ TableInv(t2)
  /\ \A x \in Entry : t[x].ref = t2[x].ref + Same(x, e)
  /\ \A x \in Entry : t2[x].ref > 0 => t2[x].inum = t[x].inum

LEMMA DroppedCounts ==
  ASSUME NEW t, TableInv(t), NEW e \in Entry, t[e].ref > 0
  PROVE  OneLess(t, Dropped(t, e), e)
<1> DEFINE t2 == Dropped(t, e)
<1>1. IsTable(t2)
  BY DEF Dropped, TableInv, IsTable
<1>2. ASSUME NEW x \in Entry
      PROVE  t2[x] = IF x # e THEN t[x] ELSE IF t[x].ref = 1 THEN EmptyEntry
                                        ELSE [t[x] EXCEPT !.ref = @ - 1]
  <2>1. t = [y \in Entry |-> t[y]] /\ e \in DOMAIN t
    BY DEF TableInv, IsTable
  <2> DEFINE r == IF t[e].ref = 1 THEN EmptyEntry ELSE [t[e] EXCEPT !.ref = @ - 1]
  <2>2. t2 = [t EXCEPT ![e] = r]
    BY DEF Dropped
  <2> HIDE DEF r, t2
  <2>3. t2[x] = IF x = e THEN r ELSE t[x]
    BY <2>1, <2>2
  <2> QED
    BY <2>3 DEF r
<1> HIDE DEF t2
<1>3. ASSUME NEW x \in Entry
      PROVE  /\ IsEntry(t2[x]) /\ t2[x].ref \in Nat /\ t[x].ref = t2[x].ref + Same(x, e)
             /\ t2[x].ref > 0 => t2[x].inum = t[x].inum /\ t[x].ref > 0
  <2>1. IsEntry(t[x]) /\ t[x].ref \in Nat /\ (x = e => t[x].ref > 0)
    BY Zenon DEF TableInv
  <2>2. CASE x # e
    <3>1. t2[x] = t[x]
      BY <1>2, <2>2
    <3>2. Same(x, e) = 0 /\ t[x].ref = t[x].ref + 0
      BY <2>1, <2>2 DEF Same
    <3> QED
      BY <2>1, <3>1, <3>2, Zenon
  <2>3. CASE x = e /\ t[x].ref = 1
    <3>1. t2[x] = EmptyEntry
      BY <1>2, <2>3
    <3>2. IsEntry(EmptyEntry) /\ EmptyEntry.ref = 0
      BY DEF EmptyEntry, IsEntry
    <3>3. IsEntry(t2[x]) /\ t2[x].ref = 0
      BY <3>1, <3>2, Zenon
    <3>4. Same(x, e) = 1 /\ t[x].ref = 1
      BY <2>3 DEF Same
    <3> QED
      BY <3>3, <3>4
  <2>4. CASE x = e /\ t[x].ref # 1
    <3>1. t2[x] = [t[x] EXCEPT !.ref = @ - 1]
      BY <1>2, <2>4
    <3>2. t2[x] = [inum |-> t[x].inum, ref |-> t[x].ref - 1, valid |-> t[x].valid,
                   lock |-> t[x].lock, node |-> t[x].node]
      BY <2>1, <3>1 DEF IsEntry
    <3>3. IsEntry(t2[x]) /\ t2[x].ref = t[x].ref - 1 /\ t2[x].inum = t[x].inum
      BY <3>2 DEF IsEntry
    <3>4. t[x].ref - 1 \in Nat /\ t[x].ref = t[x].ref - 1 + 1
      BY <2>1, <2>4
    <3> QED
      BY <2>1, <2>4, <3>3, <3>4 DEF Same
  <2> QED
    BY <2>2, <2>3, <2>4, Zenon
<1>4. TableInv(t2)
  BY <1>1, <1>3 DEF TableInv
<1> QED
  BY <1>3, <1>4 DEF OneLess, t2

-----------------------------------------------------------------------------
(* What a call still has to do                                             *)

LEMMA Items ==
  /\ End \in Item /\ End.do = "end"
  /\ \A e \in Entry : /\ Put(e) \in Item /\ Put(e).do = "put" /\ Put(e).e = e
                      /\ Release(e) \in Item /\ Release(e).do = "unlock"
BY DEF End, Item, Put, Release, Puts

LEMMA TodoNone ==
  GoodTodo(<< >>) /\ \A e : TodoRefs(<< >>, e) = 0
BY DEF GoodTodo, TodoRefs, ItemRef

(* Before the end of the transaction is added.                             *)
OpenTodo(s) ==
  s \in Seq(Item) /\ Len(s) <= 3 /\ \A k \in DOMAIN s : s[k].do # "end"

LEMMA TodoEnds ==
  ASSUME NEW s, OpenTodo(s)
  PROVE  GoodTodo(s) /\ GoodTodo(Append(s, End)) /\ \A e : TodoRefs(Append(s, End), e) = TodoRefs(s, e)
<1> DEFINE s2 == Append(s, End)
<1>1. End \in Item /\ End.do = "end" /\ "end" \notin Puts
  <2>1. "end" \notin Puts
    BY DEF Puts
  <2> QED
    BY <2>1, Items, Zenon
<1>2. s \in Seq(Item) /\ Len(s) \in 0..3 /\ DOMAIN s = 1..Len(s)
  <2>1. s \in Seq(Item) /\ Len(s) <= 3
    BY Zenon DEF OpenTodo
  <2>2. Len(s) \in Nat /\ DOMAIN s = 1..Len(s)
    BY <2>1, LenProperties, Zenon
  <2> QED
    BY <2>1, <2>2
<1> HIDE DEF End
<1>3. /\ s2 \in Seq(Item) /\ Len(s2) = Len(s) + 1 /\ s2[Len(s) + 1] = End
      /\ \A k \in 1..Len(s) : s2[k] = s[k]
  BY <1>1, <1>2, AppendProperties
<1> HIDE DEF s2
<1>4. DOMAIN s2 = 1..Len(s) + 1
  BY <1>3, LenProperties
<1>5. GoodTodo(s)
  BY <1>2 DEF OpenTodo, GoodTodo
<1>6. GoodTodo(s2)
  <2>1. ASSUME NEW k \in DOMAIN s2, s2[k].do = "end"
        PROVE  k = Len(s2)
    <3>1. k \in 1..Len(s) => s2[k].do # "end"
      BY <1>2, <1>3, Zenon DEF OpenTodo
    <3> QED
      BY <1>2, <1>3, <1>4, <2>1, <3>1
  <2>2. Len(s2) <= 4
    BY <1>2, <1>3
  <2> QED
    BY <1>3, <2>1, <2>2, Zenon DEF GoodTodo
<1>7. ASSUME NEW e
      PROVE  TodoRefs(s2, e) = TodoRefs(s, e)
  <2>1. ASSUME NEW k \in 1..4
        PROVE  ItemRef(s2, k, e) = ItemRef(s, k, e)
    <3>1. CASE k \in 1..Len(s)
      <4>1. k \in DOMAIN s2 /\ k \in DOMAIN s /\ s2[k] = s[k]
        BY <1>2, <1>3, <1>4, <3>1
      <4> QED
        BY <4>1, Zenon DEF ItemRef
    <3>2. CASE k \notin 1..Len(s)
      <4>1. k \notin DOMAIN s /\ (k \in DOMAIN s2 => s2[k] = End)
        BY <1>2, <1>3, <1>4, <3>2
      <4> QED
        BY <1>1, <4>1, Zenon DEF ItemRef
    <3> QED
      BY <3>1, <3>2, Zenon
  <2>2. /\ ItemRef(s2, 1, e) = ItemRef(s, 1, e) /\ ItemRef(s2, 2, e) = ItemRef(s, 2, e)
        /\ ItemRef(s2, 3, e) = ItemRef(s, 3, e) /\ ItemRef(s2, 4, e) = ItemRef(s, 4, e)
    BY <2>1
  <2> QED
    BY <2>2, Zenon DEF TodoRefs
<1> QED
  BY <1>5, <1>6, <1>7, Zenon DEF s2

LEMMA NothingToDo ==
  OpenTodo(<< >>) /\ \A e : TodoRefs(<< >>, e) = 0
BY DEF OpenTodo, TodoRefs, ItemRef

LEMMA TodoPut ==
  ASSUME NEW a \in Entry
  PROVE  OpenTodo(<<Put(a)>>) /\ \A e : TodoRefs(<<Put(a)>>, e) = Same(a, e)
<1> DEFINE A == Put(a)
           s == <<A>>
<1>1. A \in Item /\ A.do = "put" /\ A.e = a
  BY Items, Zenon
<1> HIDE DEF A
<1>2. s \in Seq(Item) /\ Len(s) = 1 /\ DOMAIN s = 1..1 /\ s[1] = A
  BY <1>1
<1>3. "put" \in Puts
  BY DEF Puts
<1> HIDE DEF s
<1>4. OpenTodo(s)
  BY <1>1, <1>2 DEF OpenTodo
<1>5. ASSUME NEW e
      PROVE  TodoRefs(s, e) = Same(a, e)
  BY <1>1, <1>2, <1>3 DEF TodoRefs, ItemRef, Same
<1> QED
  BY <1>4, <1>5, Zenon DEF A, s

LEMMA TodoPutEnd ==
  ASSUME NEW a \in Entry
  PROVE  GoodTodo(<<Put(a), End>>) /\ \A e : TodoRefs(<<Put(a), End>>, e) = Same(a, e)
<1> DEFINE A == Put(a)
           s == <<A, End>>
<1>1. A \in Item /\ A.do = "put" /\ A.e = a /\ End \in Item /\ End.do = "end"
  BY Items, Zenon
<1>2. "put" \in Puts /\ "end" \notin Puts
  BY DEF Puts
<1> HIDE DEF A, End
<1>3. s \in Seq(Item) /\ Len(s) = 2 /\ DOMAIN s = 1..2 /\ s[1] = A /\ s[2] = End
  BY <1>1
<1> HIDE DEF s
<1>5. GoodTodo(s)
  BY <1>1, <1>3 DEF GoodTodo
<1>6. ASSUME NEW e
      PROVE  TodoRefs(s, e) = Same(a, e)
  BY <1>1, <1>2, <1>3 DEF TodoRefs, ItemRef, Same
<1> QED
  BY <1>5, <1>6, Zenon DEF A, s

LEMMA TodoTwoPuts ==
  ASSUME NEW a \in Entry, NEW b \in Entry
  PROVE  LET s == <<Put(a), Put(b)>> IN
         OpenTodo(s) /\ \A e : TodoRefs(s, e) = Same(a, e) + Same(b, e)
<1> DEFINE A == Put(a)
           B == Put(b)
           s == <<A, B>>
<1>1. /\ A \in Item /\ A.do = "put" /\ A.e = a
      /\ B \in Item /\ B.do = "put" /\ B.e = b
  BY Items, Zenon
<1>2. "put" \in Puts
  BY DEF Puts
<1> HIDE DEF A, B
<1>3. s \in Seq(Item) /\ Len(s) = 2 /\ DOMAIN s = 1..2 /\ s[1] = A /\ s[2] = B
  BY <1>1
<1> HIDE DEF s
<1>5. OpenTodo(s)
  BY <1>1, <1>3 DEF OpenTodo
<1>6. ASSUME NEW e
      PROVE  TodoRefs(s, e) = Same(a, e) + Same(b, e)
  BY <1>1, <1>2, <1>3 DEF TodoRefs, ItemRef, Same
<1> QED
  BY <1>5, <1>6, Zenon DEF A, B, s

LEMMA TodoPutReleasePut ==
  ASSUME NEW a \in Entry, NEW b \in Entry
  PROVE  LET s == <<Put(a), Release(b), Put(b)>> IN
         OpenTodo(s) /\ \A e : TodoRefs(s, e) = Same(a, e) + Same(b, e)
<1> DEFINE A == Put(a)
           B == Put(b)
           R == Release(b)
           s == <<A, R, B>>
<1>1. /\ A \in Item /\ A.do = "put" /\ A.e = a
      /\ B \in Item /\ B.do = "put" /\ B.e = b /\ R \in Item /\ R.do = "unlock"
  BY Items, Zenon
<1>2. "put" \in Puts /\ "unlock" \notin Puts
  BY DEF Puts
<1> HIDE DEF A, B, R
<1>3. /\ s \in Seq(Item) /\ Len(s) = 3 /\ DOMAIN s = 1..3
      /\ s[1] = A /\ s[2] = R /\ s[3] = B
  BY <1>1
<1> HIDE DEF s
<1>5. OpenTodo(s)
  BY <1>1, <1>3 DEF OpenTodo
<1>6. ASSUME NEW e
      PROVE  TodoRefs(s, e) = Same(a, e) + Same(b, e)
  BY <1>1, <1>2, <1>3 DEF TodoRefs, ItemRef, Same
<1> QED
  BY <1>5, <1>6, Zenon DEF A, B, R, s

LEMMA TodoRest ==
  ASSUME NEW s, GoodTodo(s), s # << >>
  PROVE  /\ GoodTodo(Tail(s)) /\ Head(s) \in Item /\ s[1] = Head(s)
         /\ Head(s).do = "end" => Tail(s) = << >>
         /\ \A e : TodoRefs(s, e)
                     = (IF Head(s).do \in Puts THEN Same(Head(s).e, e) ELSE 0)
                       + TodoRefs(Tail(s), e)
<1>0. s \in Seq(Item) /\ Len(s) <= 4
  BY Zenon DEF GoodTodo
<1>1. /\ s \in Seq(Item) /\ Len(s) \in 1..4 /\ DOMAIN s = 1..Len(s)
      /\ Tail(s) \in Seq(Item) /\ Len(Tail(s)) = Len(s) - 1 /\ DOMAIN Tail(s) = 1..Len(s) - 1
      /\ \A k \in 1..Len(s) - 1 : Tail(s)[k] = s[k + 1]
      /\ Head(s) \in Item /\ Head(s) = s[1]
  <2>1. Len(s) \in Nat /\ DOMAIN s = 1..Len(s) /\ Len(s) # 0
    BY <1>0, LenProperties, EmptySeq
  <2>2. /\ Head(s) \in Item /\ Tail(s) \in Seq(Item) /\ Len(Tail(s)) = Len(s) - 1
        /\ \A k \in 1..Len(Tail(s)) : Tail(s)[k] = s[k + 1]
    BY <1>0, HeadTailProperties, Zenon
  <2>3. DOMAIN Tail(s) = 1..Len(Tail(s))
    BY <2>2, LenProperties, Zenon
  <2>4. Head(s) = s[1]
    BY <1>0, <2>1
  <2> QED
    BY <1>0, <2>1, <2>2, <2>3, <2>4
<1>2. \A k \in 1..Len(s) : s[k].do = "end" => k = Len(s)
  BY <1>1, Zenon DEF GoodTodo
<1>3. GoodTodo(Tail(s))
  <2>1. Len(Tail(s)) <= 4
    BY <1>1
  <2>2. ASSUME NEW k \in DOMAIN Tail(s), Tail(s)[k].do = "end"
        PROVE  k = Len(Tail(s))
    <3>1. k \in 1..Len(s) - 1 /\ k + 1 \in 1..Len(s)
      BY <1>1
    <3>2. s[k + 1].do = "end"
      BY <1>1, <2>2, <3>1, Zenon
    <3>3. k + 1 = Len(s)
      BY <1>2, <3>1, <3>2, Zenon
    <3> QED
      BY <1>1, <3>1, <3>3
  <2> QED
    BY <1>1, <2>1, <2>2, Zenon DEF GoodTodo
<1>4. ASSUME Head(s).do = "end"
      PROVE  Tail(s) = << >>
  <2>1. 1 \in 1..Len(s)
    BY <1>1
  <2>2. 1 = Len(s)
    BY <1>1, <1>2, <1>4, <2>1, Zenon
  <2>3. Tail(s) \in Seq(Item) /\ Len(Tail(s)) = 1 - 1
    BY <1>1, <2>2, Zenon
  <2>4. ~ (Len(Tail(s)) \in Nat \ {0})
    BY <2>3
  <2> QED
    BY <2>3, <2>4, EmptySeq, Zenon
<1>5. ASSUME NEW e
      PROVE  TodoRefs(s, e) = (IF Head(s).do \in Puts THEN Same(Head(s).e, e) ELSE 0)
                              + TodoRefs(Tail(s), e)
  <2>1. \A k \in 1..3 : ItemRef(Tail(s), k, e) = ItemRef(s, k + 1, e)
    <3> SUFFICES ASSUME NEW k \in 1..3
                 PROVE  ItemRef(Tail(s), k, e) = ItemRef(s, k + 1, e)
      OBVIOUS
    <3>1. k \in DOMAIN Tail(s) <=> k + 1 \in DOMAIN s
      BY <1>1
    <3>2. k \in DOMAIN Tail(s) => Tail(s)[k] = s[k + 1]
      BY <1>1
    <3> QED
      BY <3>1, <3>2, Zenon DEF ItemRef
  <2>2. ItemRef(Tail(s), 4, e) = 0
    BY <1>1 DEF ItemRef
  <2>3. ItemRef(s, 1, e) = IF Head(s).do \in Puts THEN Same(Head(s).e, e) ELSE 0
    BY <1>1 DEF ItemRef, Same
  <2>4. \A k \in 1..4 : ItemRef(s, k, e) \in Nat
    BY DEF ItemRef
  <2>5. /\ ItemRef(Tail(s), 1, e) = ItemRef(s, 2, e)
        /\ ItemRef(Tail(s), 2, e) = ItemRef(s, 3, e)
        /\ ItemRef(Tail(s), 3, e) = ItemRef(s, 4, e)
    BY <2>1
  <2> HIDE DEF ItemRef
  <2> QED
    BY <2>2, <2>3, <2>4, <2>5 DEF TodoRefs
<1> QED
  BY <1>1, <1>3, <1>4, <1>5, Zenon

LEMMA TodoBecomes ==
  ASSUME NEW s, GoodTodo(s), s # << >>, Head(s).do \in Puts, NEW d \in Puts
  PROVE  LET s2 == [s EXCEPT ![1].do = d] IN
         /\ GoodTodo(s2) /\ s2 # << >> /\ Head(s2).do = d /\ Head(s2).e = Head(s).e
         /\ \A e : TodoRefs(s2, e) = TodoRefs(s, e)
<1> DEFINE s2 == [s EXCEPT ![1].do = d]
<1>1. /\ s \in Seq(Item) /\ Len(s) \in 1..4 /\ DOMAIN s = 1..Len(s) /\ Head(s) = s[1]
      /\ s[1] \in Item /\ \A k \in 1..Len(s) : s[k] \in Item
      /\ \A k \in 1..Len(s) : s[k].do = "end" => k = Len(s)
  <2>1. s \in Seq(Item) /\ Len(s) <= 4
    BY Zenon DEF GoodTodo
  <2>2. /\ s \in Seq(Item) /\ Len(s) \in 1..4 /\ DOMAIN s = 1..Len(s) /\ Head(s) = s[1]
        /\ s[1] \in Item /\ \A k \in 1..Len(s) : s[k] \in Item
    <3>1. Len(s) \in Nat /\ DOMAIN s = 1..Len(s) /\ Len(s) # 0 /\ s \in [1..Len(s) -> Item]
      BY <2>1, LenProperties, EmptySeq
    <3>2. Head(s) = s[1]
      BY <2>1, <3>1
    <3> QED
      BY <2>1, <3>1, <3>2
  <2> QED
    BY <2>2, Zenon DEF GoodTodo
<1>2. "end" \notin Puts
  BY DEF Puts
<1>3. s[1] \in [do : Puts \union {"unlock"}, e : Entry]
  <2>1. End.do = "end" /\ s[1].do # "end"
    BY <1>1, <1>2 DEF End
  <2>2. s[1] # End
    BY <2>1, Zenon
  <2> QED
    BY <1>1, <2>2, Zenon DEF Item
<1>4. /\ [s[1] EXCEPT !.do = d] \in Item /\ [s[1] EXCEPT !.do = d].do = d
      /\ [s[1] EXCEPT !.do = d].e = s[1].e
  BY <1>3 DEF Item
<1>5. /\ DOMAIN s2 = 1..Len(s) /\ s2[1] = [s[1] EXCEPT !.do = d]
      /\ \A k \in 2..Len(s) : s2[k] = s[k]
  BY <1>1
<1>6. \A k \in 1..Len(s) : s2[k] \in Item
  BY <1>1, <1>4, <1>5
<1>7. s2 \in Seq(Item) /\ Len(s2) = Len(s) /\ Head(s2) = s2[1]
  <2>1. s2 = [k \in 1..Len(s) |-> s2[k]]
    BY <1>1
  <2> HIDE DEF s2
  <2> QED
    BY <1>1, <1>6, <2>1
<1> HIDE DEF s2
<1>8. GoodTodo(s2) /\ s2 # << >> /\ Head(s2).do = d /\ Head(s2).e = Head(s).e
  <2>1. ASSUME NEW k \in 1..Len(s), s2[k].do = "end"
        PROVE  k = Len(s)
    <3>1. k # 1
      BY <1>2, <1>4, <1>5, <2>1
    <3> QED
      BY <1>1, <1>5, <2>1, <3>1
  <2>2. DOMAIN s2 = 1..Len(s) /\ Len(s2) <= 4 /\ s2 # << >>
    <3>1. DOMAIN s2 = 1..Len(s) /\ Len(s2) = Len(s) /\ Len(s) \in 1..4
      BY <1>1, <1>5, <1>7, Zenon
    <3> QED
      BY <3>1
  <2>3. Head(s2).do = d /\ Head(s2).e = Head(s).e
    BY <1>1, <1>4, <1>5, <1>7, Zenon
  <2> QED
    BY <1>7, <2>1, <2>2, <2>3, Zenon DEF GoodTodo
<1>9. ASSUME NEW e
      PROVE  TodoRefs(s2, e) = TodoRefs(s, e)
  <2>1. ASSUME NEW k \in 1..4
        PROVE  ItemRef(s2, k, e) = ItemRef(s, k, e)
    <3>1. CASE k = 1
      BY <1>1, <1>4, <1>5, <3>1 DEF ItemRef
    <3>2. CASE k # 1
      <4>1. (k \in DOMAIN s2 <=> k \in DOMAIN s) /\ (k \in DOMAIN s => s2[k] = s[k])
        BY <1>1, <1>5, <3>2
      <4> QED
        BY <4>1, Zenon DEF ItemRef
    <3> QED
      BY <3>1, <3>2
  <2>2. /\ ItemRef(s2, 1, e) = ItemRef(s, 1, e) /\ ItemRef(s2, 2, e) = ItemRef(s, 2, e)
        /\ ItemRef(s2, 3, e) = ItemRef(s, 3, e) /\ ItemRef(s2, 4, e) = ItemRef(s, 4, e)
    BY <2>1
  <2> QED
    BY <2>2, Zenon DEF TodoRefs
<1> QED
  BY <1>8, <1>9, Zenon DEF s2

-----------------------------------------------------------------------------
(* One step of one process                                                 *)

Differs(fds, new, x) == \A fd \in Fd : fd # x => new[fd] = fds[fd]

LEMMA FdMoves ==
  ASSUME NEW fds, NEW new, NEW x \in Fd, NEW f, Differs(fds, new, x)
  PROVE  /\ Cardinality(FdsIn(new, f)) \in Nat /\ Cardinality(FdsIn(fds, f)) \in Nat
         /\ Cardinality(FdsIn(new, f)) + Same(fds[x], f)
              = Cardinality(FdsIn(fds, f)) + Same(new[x], f)
<1> DEFINE A == FdsIn(fds, f)
           B == FdsIn(new, f)
<1>1. IsFiniteSet(A) /\ IsFiniteSet(B)
  <2>1. 0 \in Int /\ NOFILE - 1 \in Int
    OBVIOUS
  <2>2. IsFiniteSet(Fd)
    BY <2>1, FS_Interval, Zenon DEF Fd
  <2>3. A \in SUBSET Fd /\ B \in SUBSET Fd
    BY DEF FdsIn
  <2> QED
    BY <2>2, <2>3, FS_Subset, Zenon
<1>2. A \ {x} = B \ {x}
  BY DEF FdsIn, Differs
<1>3. /\ Same(fds[x], f) = IF x \in A THEN 1 ELSE 0
      /\ Same(new[x], f) = IF x \in B THEN 1 ELSE 0
  BY DEF FdsIn, Same
<1> HIDE DEF A, B
<1>4. /\ Cardinality(A \ {x}) \in Nat
      /\ Cardinality(A) = Cardinality(A \ {x}) + (IF x \in A THEN 1 ELSE 0)
      /\ Cardinality(B) = Cardinality(B \ {x}) + (IF x \in B THEN 1 ELSE 0)
  BY <1>1, <1>2, Without
<1>5. /\ Cardinality(A) \in Nat /\ Cardinality(B) \in Nat
      /\ Cardinality(B) + Same(fds[x], f) = Cardinality(A) + Same(new[x], f)
  BY <1>2, <1>3, <1>4
<1> QED
  BY <1>5, Zenon DEF A, B

(* One descriptor x of p changes, and the file table with it.              *)
LEMMA FilesMove ==
  ASSUME FilesTypeOK, FilesInv, NEW p \in Process, NEW x \in Fd,
         Differs(ofile[p], ofile'[p], x), \A q \in Process \ {p} : ofile'[q] = ofile[q],
         \A f \in File : /\ ftable'[f].ref \in Nat
                         /\ ftable'[f].ref + Same(ofile[p][x], f)
                              = ftable[f].ref + Same(ofile'[p][x], f)
                         /\ ftable'[f].ref > 0 => ftable'[f].obj \in Entry
  PROVE  FilesInv'
<1> SUFFICES ASSUME NEW f \in File
             PROVE  ftable'[f].ref = Cardinality(RefsIn(ofile', f))
  BY Zenon DEF FilesInv, FdRefs, RefsIn
<1>1. ftable[f].ref = Cardinality(RefsIn(ofile, f))
  BY Zenon DEF FilesInv, FdRefs, RefsIn
<1>2. /\ Cardinality(OtherFds(ofile, p, f)) \in Nat /\ Cardinality(FdsIn(ofile[p], f)) \in Nat
      /\ ftable[f].ref = Cardinality(OtherFds(ofile, p, f)) + Cardinality(FdsIn(ofile[p], f))
  BY <1>1, FdCount, Zenon
<1>3. Cardinality(RefsIn(ofile', f))
        = Cardinality(OtherFds(ofile', p, f)) + Cardinality(FdsIn(ofile'[p], f))
  BY FdCount
<1>4. OtherFds(ofile', p, f) = OtherFds(ofile, p, f)
  BY DEF OtherFds, RefsIn
<1>5. /\ Cardinality(FdsIn(ofile'[p], f)) \in Nat
      /\ Cardinality(FdsIn(ofile'[p], f)) + Same(ofile[p][x], f)
           = Cardinality(FdsIn(ofile[p], f)) + Same(ofile'[p][x], f)
  BY FdMoves
<1>6. Same(ofile[p][x], f) \in Nat /\ Same(ofile'[p][x], f) \in Nat
  BY DEF Same
<1> HIDE DEF Same
<1>7. ftable'[f].ref + Same(ofile[p][x], f) = ftable[f].ref + Same(ofile'[p][x], f)
      /\ ftable'[f].ref \in Nat
  BY Zenon
<1> QED
  BY <1>2, <1>3, <1>4, <1>5, <1>6, <1>7

(* A step of p that comes to the directory c and the locals t, with one    *)
(* descriptor changed at most.                                             *)
LEMMA FileStep ==
  ASSUME IInv, NEW p \in Process, NEW x \in Fd, FilesTypeOK',
         NEW c \in Entry \union {NoEntry}, NEW t \in Thread,
         cwd' = [cwd EXCEPT ![p] = c], thread' = [thread EXCEPT ![p] = t],
         Differs(ofile[p], ofile'[p], x), \A q \in Process \ {p} : ofile'[q] = ofile[q],
         \A f \in File : /\ ftable'[f].ref + Same(ofile[p][x], f)
                              = ftable[f].ref + Same(ofile'[p][x], f)
                         /\ ftable'[f].ref > 0 => ftable'[f].obj \in Entry,
         dirs' \in Dirs, durable'.dirs \in Dirs, TableInv(itable'), ThreadInv(c, ofile'[p], t),
         \A e \in Entry :
           itable'[e].ref + FilesTo(ftable, e) + Own(cwd[p], thread[p], e)
             = itable[e].ref + FilesTo(ftable', e) + Own(c, t, e)
  PROVE  IInv'
<1>1. /\ cwd \in [Process -> Entry \union {NoEntry}] /\ thread \in [Process -> Thread]
  BY DEF IInv, TypeInv
<1>2. /\ cwd'[p] = c /\ thread'[p] = t
      /\ \A q \in Process \ {p} : cwd'[q] = cwd[q] /\ thread'[q] = thread[q]
  BY <1>1
<1>3. TypeInv'
  BY <1>1 DEF TypeInv
<1>4. FilesInv'
  <2>1. \A f \in File : ftable'[f].ref \in Nat
    BY DEF FilesTypeOK
  <2>2. \A f \in File : /\ ftable'[f].ref \in Nat
                        /\ ftable'[f].ref + Same(ofile[p][x], f)
                             = ftable[f].ref + Same(ofile'[p][x], f)
                        /\ ftable'[f].ref > 0 => ftable'[f].obj \in Entry
    BY <2>1, Zenon
  <2>3. FilesTypeOK /\ FilesInv
    BY Zenon DEF IInv, TypeInv
  <2> QED
    BY <2>2, <2>3, FilesMove, Zenon
<1>5. CountInv'
  <2>1. \A e \in Entry : itable'[e].ref \in Nat
    BY Zenon DEF TableInv
  <2> QED
    BY <1>2, <2>1, Recount, Zenon DEF IInv
<1>6. \A q \in Process : ThreadInv(cwd'[q], ofile'[q], thread'[q])
  <2> SUFFICES ASSUME NEW q \in Process
               PROVE  ThreadInv(cwd'[q], ofile'[q], thread'[q])
    OBVIOUS
  <2>1. CASE q = p
    BY <1>2, <2>1, Zenon
  <2>2. CASE q # p
    <3>1. q \in Process \ {p}
      BY <2>2
    <3>2. cwd'[q] = cwd[q] /\ thread'[q] = thread[q] /\ ofile'[q] = ofile[q]
      BY <1>2, <3>1, Zenon
    <3>3. ThreadInv(cwd[q], ofile[q], thread[q])
      BY Zenon DEF IInv
    <3> QED
      BY <3>2, <3>3, Zenon
  <2> QED
    BY <2>1, <2>2, Zenon
<1> QED
  BY <1>3, <1>4, <1>5, <1>6, Zenon DEF IInv

(* The files stay as they are.                                             *)
LEMMA Steps ==
  ASSUME IInv, NEW p \in Process, UNCHANGED <<ftable, ofile>>,
         NEW c \in Entry \union {NoEntry}, NEW t \in Thread,
         cwd' = [cwd EXCEPT ![p] = c], thread' = [thread EXCEPT ![p] = t],
         dirs' \in Dirs, durable'.dirs \in Dirs, TableInv(itable'), ThreadInv(c, ofile[p], t),
         \A e \in Entry : itable'[e].ref + Own(cwd[p], thread[p], e) = itable[e].ref + Own(c, t, e)
  PROVE  IInv'
<1>1. 0 \in Fd
  BY DEF Fd
<1>2. FilesTypeOK' /\ \A f \in File : ftable[f].ref \in Nat
  BY DEF IInv, TypeInv, FilesTypeOK
<1>3. \A f \in File : ftable[f].ref > 0 => ftable[f].obj \in Entry
  BY Zenon DEF IInv, FilesInv
<1>4. Differs(ofile[p], ofile'[p], 0) /\ \A q \in Process \ {p} : ofile'[q] = ofile[q]
  BY DEF Differs
<1>5. \A e \in Entry :
        itable'[e].ref + FilesTo(ftable, e) + Own(cwd[p], thread[p], e)
          = itable[e].ref + FilesTo(ftable', e) + Own(c, t, e)
  <2> SUFFICES ASSUME NEW e \in Entry
               PROVE  itable'[e].ref + FilesTo(ftable, e) + Own(cwd[p], thread[p], e)
                        = itable[e].ref + FilesTo(ftable', e) + Own(c, t, e)
    OBVIOUS
  <2>1. FilesTo(ftable', e) = FilesTo(ftable, e)
    BY Zenon
  <2>2. /\ FilesTo(ftable, e) \in Nat /\ Own(cwd[p], thread[p], e) \in Nat
        /\ itable[e].ref \in Nat
    BY PointedTo, Zenon DEF IInv
  <2>3. itable'[e].ref \in Nat
    BY Zenon DEF TableInv
  <2>4. Own(c, t, e) \in Nat
    <3>1. TodoRefs(t.todo, e) \in Nat
      BY TodoCount
    <3> QED
      BY <3>1 DEF Own, Same, IpRef, DpRef
  <2>5. itable'[e].ref + Own(cwd[p], thread[p], e) = itable[e].ref + Own(c, t, e)
    OBVIOUS
  <2> QED
    BY <2>1, <2>2, <2>3, <2>4, <2>5
<1>6. ThreadInv(c, ofile'[p], t)
  BY Zenon
<1>7. \A f \in File : /\ ftable'[f].ref + Same(ofile[p][0], f)
                           = ftable[f].ref + Same(ofile'[p][0], f)
                      /\ ftable'[f].ref > 0 => ftable'[f].obj \in Entry
  BY <1>3, Zenon
<1> QED
  BY <1>1, <1>2, <1>4, <1>5, <1>6, <1>7, FileStep, Zenon

LEMMA Typed ==
  ASSUME IInv, NEW p \in Process
  PROVE  /\ thread \in [Process -> Thread] /\ thread[p] \in Thread
         /\ cwd \in [Process -> Entry \union {NoEntry}] /\ cwd[p] \in Entry \union {NoEntry}
         /\ cwd = [cwd EXCEPT ![p] = cwd[p]]
         /\ TableInv(itable) /\ dirs \in Dirs /\ durable.dirs \in Dirs
         /\ ThreadInv(cwd[p], ofile[p], thread[p]) /\ GoodTodo(thread[p].todo)
<1>1. thread \in [Process -> Thread] /\ cwd \in [Process -> Entry \union {NoEntry}]
  BY Zenon DEF IInv, TypeInv
<1>2. cwd = [cwd EXCEPT ![p] = cwd[p]] /\ thread[p] \in Thread /\ cwd[p] \in Entry \union {NoEntry}
  BY <1>1
<1> QED
  BY <1>1, <1>2, Zenon DEF IInv, TypeInv, ThreadInv

(* t is r but for the place and what is left to do.                        *)
Resumes(r, t, l, s) ==
  /\ t \in Thread /\ t.at = l /\ t.todo = s /\ t.ip = r.ip /\ t.dp = r.dp
  /\ t.call = r.call /\ t.path = r.path

LEMMA GoesTo ==
  ASSUME NEW r \in Thread, NEW l \in Places, NEW s \in Seq(Item)
  PROVE  Resumes(r, [r EXCEPT !.at = l, !.todo = s], l, s)
BY DEF Thread, Resumes

LEMMA GoesAt ==
  ASSUME thread \in [Process -> Thread], NEW p \in Process, NEW l \in Places,
         NEW s \in Seq(Item), thread' = Goes(p, l, s)
  PROVE  /\ thread' = [thread EXCEPT ![p] = [thread[p] EXCEPT !.at = l, !.todo = s]]
         /\ Resumes(thread[p], [thread[p] EXCEPT !.at = l, !.todo = s], l, s)
<1>1. thread[p] \in Thread
  OBVIOUS
<1>2. thread' = [thread EXCEPT ![p] = [thread[p] EXCEPT !.at = l, !.todo = s]]
  BY DEF Goes
<1> QED
  BY <1>1, <1>2, GoesTo, Zenon

(* Where a call points to nothing but by what it has to do.                *)
Pointless == {"user", "absent", "reclaim", "return", "exiting", "write"}

LEMMA PointsAt ==
  ASSUME NEW t, NEW e
  PROVE  /\ IpRef(t, e) \in Nat /\ DpRef(t, e) \in Nat
         /\ t.at \in HoldsIp => IpRef(t, e) = Same(t.ip, e)
         /\ t.at \notin HoldsIp => IpRef(t, e) = 0
         /\ HoldsDp(t) => DpRef(t, e) = Same(t.dp, e)
         /\ ~ HoldsDp(t) => DpRef(t, e) = 0
         /\ t.at \in Pointless => t.at \notin HoldsIp /\ ~ HoldsDp(t)
         /\ t.at \in Pointless => IpRef(t, e) = 0 /\ DpRef(t, e) = 0
<1>1. t.at \in Pointless => t.at \notin HoldsIp /\ ~ HoldsDp(t)
  BY DEF Pointless, HoldsIp, LocksIp, HoldsDp
<1> QED
  BY <1>1 DEF IpRef, DpRef, Same

LEMMA OwnType ==
  ASSUME NEW c, NEW t, NEW e
  PROVE  /\ Own(c, t, e) \in Nat /\ TodoRefs(t.todo, e) \in Nat /\ Same(c, e) \in Nat
         /\ Own(c, t, e) = Same(c, e) + IpRef(t, e) + DpRef(t, e) + TodoRefs(t.todo, e)
<1>1. TodoRefs(t.todo, e) \in Nat
  BY TodoCount
<1> QED
  BY <1>1 DEF Own, Same, IpRef, DpRef

LEMMA OwnParts ==
  ASSUME NEW c, NEW t, NEW e
  PROVE  /\ Own(c, t, e) = Same(c, e) + IpRef(t, e) + DpRef(t, e) + TodoRefs(t.todo, e)
         /\ Same(c, e) \in Nat /\ IpRef(t, e) \in Nat /\ DpRef(t, e) \in Nat
         /\ TodoRefs(t.todo, e) \in Nat
BY OwnType, PointsAt, Zenon

LEMMA RestBalance ==
  ASSUME NEW r, NEW t, NEW c, NEW e, NEW a \in Nat, NEW b \in Nat, r.todo = << >>,
         t.at \notin HoldsIp, ~ HoldsDp(t),
         a + IpRef(r, e) + DpRef(r, e) = b + TodoRefs(t.todo, e)
  PROVE  a + Own(c, r, e) = b + Own(c, t, e)
<1>1. /\ Own(c, t, e) = Same(c, e) + IpRef(t, e) + DpRef(t, e) + TodoRefs(t.todo, e)
      /\ TodoRefs(t.todo, e) \in Nat /\ Same(c, e) \in Nat
      /\ IpRef(t, e) = 0 /\ DpRef(t, e) = 0
  BY OwnParts, PointsAt, Zenon
<1>2. /\ Own(c, r, e) = Same(c, e) + IpRef(r, e) + DpRef(r, e) + TodoRefs(r.todo, e)
      /\ IpRef(r, e) \in Nat /\ DpRef(r, e) \in Nat /\ TodoRefs(r.todo, e) = 0
  BY OwnParts, NothingToDo, Zenon
<1>3. PICK C \in Nat, I \in Nat, D \in Nat, N \in Nat :
        C = Same(c, e) /\ I = IpRef(r, e) /\ D = DpRef(r, e) /\ N = TodoRefs(t.todo, e)
  BY <1>1, <1>2, Zenon
<1>4. a + I + D = b + N
  BY <1>3, Zenon
<1>5. Own(c, r, e) = C + I + D + 0
  BY <1>2, <1>3, Zenon
<1>6. Own(c, t, e) = C + N
  BY <1>1, <1>3
<1> QED
  BY <1>4, <1>5, <1>6

(* The call is over, but for the rest s.                                   *)
LEMMA Ends ==
  ASSUME IInv, NEW p \in Process, UNCHANGED <<ftable, ofile, cwd>>,
         thread[p].at \notin {"absent", "exiting"}, thread[p].todo = << >>,
         NEW s, OpenTodo(s), thread' = Returns(p, s),
         dirs' \in Dirs, durable'.dirs \in Dirs, TableInv(itable'),
         \A e \in Entry : itable'[e].ref + IpRef(thread[p], e) + DpRef(thread[p], e)
                            = itable[e].ref + TodoRefs(s, e)
  PROVE  IInv'
<1> DEFINE s2 == Append(s, End)
           t == [thread[p] EXCEPT !.at = "return", !.todo = s2]
<1>1. /\ thread \in [Process -> Thread] /\ cwd[p] \in Entry \union {NoEntry}
      /\ cwd' = [cwd EXCEPT ![p] = cwd[p]] /\ ThreadInv(cwd[p], ofile[p], thread[p])
  BY Typed, Zenon
<1>2. GoodTodo(s2) /\ s2 \in Seq(Item) /\ \A e : TodoRefs(s2, e) = TodoRefs(s, e)
  BY TodoEnds, Zenon DEF GoodTodo
<1>3. thread' = Goes(p, "return", s2)
  BY Zenon DEF Returns, End
<1> HIDE DEF s2
<1>4. thread' = [thread EXCEPT ![p] = t] /\ Resumes(thread[p], t, "return", s2)
  <2>1. "return" \in Places
    BY DEF Places
  <2> QED
    BY <1>1, <1>2, <1>3, <2>1, GoesAt, Zenon
<1> HIDE DEF t
<1>5. t \in Thread /\ t.at = "return" /\ t.todo = s2
  BY <1>4, Zenon DEF Resumes
<1>6. t.at \notin HoldsIp /\ ~ HoldsDp(t) /\ \A e : IpRef(t, e) = 0 /\ DpRef(t, e) = 0
  <2>1. "return" \in Pointless
    BY DEF Pointless
  <2> QED
    BY <1>5, <2>1, PointsAt, Zenon
<1>7. ThreadInv(cwd[p], ofile[p], t)
  <2>1. cwd[p] \in Entry
    BY <1>1, Zenon DEF ThreadInv
  <2>2. t.at # "walk" /\ t.at # "linkto" /\ t.at \notin Naming /\ t.at # "absent"
    BY <1>5 DEF Naming
  <2> QED
    BY <1>2, <1>5, <1>6, <2>1, <2>2, Zenon DEF ThreadInv
<1>8. ASSUME NEW e \in Entry
      PROVE  itable'[e].ref + Own(cwd[p], thread[p], e) = itable[e].ref + Own(cwd[p], t, e)
  <2>1. TodoRefs(t.todo, e) = TodoRefs(s, e)
    BY <1>2, <1>5, Zenon
  <2>2. itable[e].ref \in Nat /\ itable'[e].ref \in Nat
    BY Zenon DEF TableInv, IInv
  <2>3. itable'[e].ref + IpRef(thread[p], e) + DpRef(thread[p], e)
          = itable[e].ref + TodoRefs(t.todo, e)
    BY <2>1, Zenon
  <2>4. t.at \notin HoldsIp /\ ~ HoldsDp(t)
    BY <1>6, Zenon
  <2> QED
    BY <2>2, <2>3, <2>4, RestBalance
<1> QED
  BY <1>1, <1>4, <1>5, <1>7, <1>8, Steps, Zenon

(* The call is over, and gives back what it found by its path.             *)
LEMMA EndsWithPut ==
  ASSUME IInv, NEW p \in Process, UNCHANGED <<ftable, ofile, cwd>>,
         thread[p].at \in HoldsIp, ~ HoldsDp(thread[p]), thread[p].todo = << >>,
         thread' = Returns(p, <<Put(thread[p].ip)>>),
         dirs' \in Dirs, durable'.dirs \in Dirs, SameRefs(itable, itable')
  PROVE  IInv'
<1> DEFINE e == thread[p].ip
           s == <<Put(e)>>
<1>1. e \in Entry /\ thread[p].at \notin {"absent", "exiting"}
  <2>1. thread[p].at \notin {"absent", "exiting"}
    BY DEF HoldsIp, LocksIp
  <2> QED
    BY <2>1, Typed, Zenon DEF ThreadInv
<1>2. OpenTodo(s) /\ \A x : TodoRefs(s, x) = Same(e, x)
  BY <1>1, TodoPut, Zenon
<1>3. ASSUME NEW x \in Entry
      PROVE  itable'[x].ref + IpRef(thread[p], x) + DpRef(thread[p], x)
               = itable[x].ref + TodoRefs(s, x)
  <2>1. /\ itable'[x].ref = itable[x].ref /\ itable[x].ref \in Nat
        /\ IpRef(thread[p], x) = Same(e, x) /\ DpRef(thread[p], x) = 0
        /\ TodoRefs(s, x) = Same(e, x) /\ Same(e, x) \in Nat
    BY <1>2, PointsAt, OwnType, Zenon DEF SameRefs, IInv, TableInv
  <2> HIDE DEF s, e
  <2> QED
    BY <2>1
<1> QED
  BY <1>1, <1>2, <1>3, Ends, Zenon DEF SameRefs

(* t is r but for what is left to do.                                      *)
Same5(r, t) ==
  t.at = r.at /\ t.ip = r.ip /\ t.dp = r.dp /\ t.call = r.call /\ t.path = r.path

LEMMA Balance ==
  ASSUME NEW r, NEW t, NEW c, NEW e, IpRef(t, e) = IpRef(r, e), DpRef(t, e) = DpRef(r, e),
         NEW a \in Nat, NEW b \in Nat, a + TodoRefs(r.todo, e) = b + TodoRefs(t.todo, e)
  PROVE  a + Own(c, r, e) = b + Own(c, t, e)
<1>1. /\ Own(c, t, e) = Same(c, e) + IpRef(t, e) + DpRef(t, e) + TodoRefs(t.todo, e)
      /\ TodoRefs(t.todo, e) \in Nat /\ Same(c, e) \in Nat
      /\ IpRef(t, e) \in Nat /\ DpRef(t, e) \in Nat
  BY OwnParts, Zenon
<1>2. /\ Own(c, r, e) = Same(c, e) + IpRef(r, e) + DpRef(r, e) + TodoRefs(r.todo, e)
      /\ TodoRefs(r.todo, e) \in Nat
  BY OwnType, Zenon
<1> QED
  BY <1>1, <1>2

(* A step through what is left to do.                                      *)
LEMMA StaysAt ==
  ASSUME IInv, NEW p \in Process, UNCHANGED <<ftable, ofile, cwd>>, thread[p].todo # << >>,
         NEW t \in Thread, thread' = [thread EXCEPT ![p] = t], Same5(thread[p], t),
         GoodTodo(t.todo), dirs' \in Dirs, durable'.dirs \in Dirs, TableInv(itable'),
         \A e \in Entry : itable'[e].ref + TodoRefs(thread[p].todo, e)
                            = itable[e].ref + TodoRefs(t.todo, e)
  PROVE  IInv'
<1>1. /\ cwd[p] \in Entry \union {NoEntry} /\ cwd' = [cwd EXCEPT ![p] = cwd[p]]
      /\ ThreadInv(cwd[p], ofile[p], thread[p])
  BY Typed, Zenon
<1>2. HoldsDp(t) <=> HoldsDp(thread[p])
  BY Zenon DEF HoldsDp, Same5
<1>3. ThreadInv(cwd[p], ofile[p], t)
  <2>1. thread[p].at # "absent"
    BY <1>1, Zenon DEF ThreadInv
  <2>2. /\ t.at \in HoldsIp => t.ip \in Entry
        /\ HoldsDp(t) => t.dp \in Entry
    BY <1>1, <1>2, Zenon DEF ThreadInv, Same5
  <2>3. /\ t.at = "walk" => t.call # "none"
        /\ t.at = "linkto" => t.call = "linkto"
        /\ t.at \in Naming => t.path # << >>
        /\ t.at \notin {"absent", "exiting"} => cwd[p] \in Entry
    BY <1>1, Zenon DEF ThreadInv, Same5
  <2>4. t.at # "absent"
    BY <2>1, Zenon DEF Same5
  <2> QED
    BY <2>2, <2>3, <2>4, Zenon DEF ThreadInv
<1>4. ASSUME NEW e \in Entry
      PROVE  itable'[e].ref + Own(cwd[p], thread[p], e) = itable[e].ref + Own(cwd[p], t, e)
  <2>1. IpRef(t, e) = IpRef(thread[p], e)
    BY DEF IpRef, Same5
  <2>2. DpRef(t, e) = DpRef(thread[p], e)
    BY <1>2 DEF DpRef, Same5
  <2>3. itable[e].ref \in Nat /\ itable'[e].ref \in Nat
    BY Zenon DEF TableInv, IInv
  <2>4. itable'[e].ref + TodoRefs(thread[p].todo, e) = itable[e].ref + TodoRefs(t.todo, e)
    OBVIOUS
  <2> QED
    BY <2>1, <2>2, <2>3, <2>4, Balance, SMT
<1> QED
  BY <1>1, <1>3, <1>4, Steps, Zenon

LEMMA UserThread == User \in Thread /\ Absent \in Thread /\ Boot \in Thread
<1>1. /\ << >> \in Seq(Item) /\ << >> \in Path /\ NoPath \in PathType
  BY DEF Path, PathType, NoPath
<1> QED
  BY <1>1 DEF User, Absent, Boot, Thread, Places, Calls

LEMMA Idle ==
  ASSUME NEW c, NEW e
  PROVE  Own(c, User, e) = Same(c, e) /\ Own(c, Absent, e) = Same(c, e)
         /\ Own(c, Boot, e) = Same(c, e)
<1>1. /\ User.at = "user" /\ User.todo = << >> /\ Absent.at = "absent" /\ Absent.todo = << >>
      /\ Boot.at = "reclaim" /\ Boot.todo = << >>
  BY DEF User, Absent, Boot
<1>2. "user" \in Pointless /\ "absent" \in Pointless /\ "reclaim" \in Pointless
  BY DEF Pointless
<1> HIDE DEF User, Absent, Boot
<1>3. Same(c, e) \in Nat /\ TodoRefs(<< >>, e) = 0
  BY OwnType, NothingToDo, Zenon
<1>4. ASSUME NEW t, t.at \in Pointless, t.todo = << >>
      PROVE  Own(c, t, e) = Same(c, e)
  <2>1. IpRef(t, e) = 0 /\ DpRef(t, e) = 0 /\ TodoRefs(t.todo, e) = 0
    BY <1>3, <1>4, PointsAt, Zenon
  <2> QED
    BY <1>3, <2>1, OwnType
<1> QED
  BY <1>1, <1>2, <1>4, Zenon

LEMMA IdleInv ==
  /\ \A c \in Entry : \A fds : ThreadInv(c, fds, User) /\ ThreadInv(c, fds, Boot)
  /\ \A fds : (\A fd \in Fd : fds[fd] = NoFile) => ThreadInv(NoEntry, fds, Absent)
<1>1. /\ User.at = "user" /\ User.todo = << >> /\ Absent.at = "absent" /\ Absent.todo = << >>
      /\ Boot.at = "reclaim" /\ Boot.todo = << >>
  BY DEF User, Absent, Boot
<1>2. "user" \in Pointless /\ "absent" \in Pointless /\ "reclaim" \in Pointless
  BY DEF Pointless
<1> HIDE DEF User, Absent, Boot
<1>3. \A t \in {User, Absent, Boot} : t.at \notin HoldsIp /\ ~ HoldsDp(t) /\ GoodTodo(t.todo)
  BY <1>1, <1>2, PointsAt, TodoNone, Zenon
<1>4. \A t \in {User, Absent, Boot} : t.at # "walk" /\ t.at # "linkto" /\ t.at \notin Naming
  BY <1>1 DEF Naming
<1> QED
  BY <1>1, <1>3, <1>4 DEF ThreadInv

-----------------------------------------------------------------------------
(* What is left to do                                                      *)

LEMMA DoesWhat ==
  ASSUME IInv, NEW p \in Process, NEW what, Does(p, what)
  PROVE  LET s == thread[p].todo IN
         /\ s # << >> /\ GoodTodo(s) /\ Head(s).do = what /\ GoodTodo(Tail(s))
         /\ Head(s) \in Item /\ (what = "end" => Tail(s) = << >>)
         /\ what # "end" => Head(s).e \in Entry
         /\ \A e : TodoRefs(s, e) = (IF what \in Puts THEN Same(Head(s).e, e) ELSE 0)
                                    + TodoRefs(Tail(s), e)
<1> DEFINE s == thread[p].todo
<1>1. s # << >> /\ GoodTodo(s) /\ Head(s).do = what
  BY Typed, Zenon DEF Does
<1>2. /\ GoodTodo(Tail(s)) /\ Head(s) \in Item
      /\ Head(s).do = "end" => Tail(s) = << >>
      /\ \A e : TodoRefs(s, e) = (IF Head(s).do \in Puts THEN Same(Head(s).e, e) ELSE 0)
                                 + TodoRefs(Tail(s), e)
  <2> HIDE DEF s
  <2> QED
    BY <1>1, TodoRest, Zenon
<1>3. what # "end" => Head(s).e \in Entry
  <2>1. End.do = "end"
    BY Items, Zenon
  <2>2. what # "end" => Head(s) # End
    BY <1>1, <2>1, Zenon
  <2> HIDE DEF s, End
  <2> QED
    BY <1>2, <2>2 DEF Item
<1> HIDE DEF s
<1> QED
  BY <1>1, <1>2, <1>3, Zenon DEF s

LEMMA RestIs ==
  ASSUME IInv, NEW p \in Process, thread[p].todo # << >>, GoodTodo(Tail(thread[p].todo)),
         thread' = Rest(p)
  PROVE  LET t == [thread[p] EXCEPT !.todo = Tail(@)] IN
         /\ t \in Thread /\ thread' = [thread EXCEPT ![p] = t] /\ Same5(thread[p], t)
         /\ t.todo = Tail(thread[p].todo)
<1>1. thread[p] \in Thread /\ thread \in [Process -> Thread]
  BY Typed, Zenon
<1>2. Tail(thread[p].todo) \in Seq(Item)
  BY Zenon DEF GoodTodo
<1>3. thread' = [thread EXCEPT ![p] = [thread[p] EXCEPT !.todo = Tail(thread[p].todo)]]
  BY Zenon DEF Rest
<1>4. \A s \in Seq(Item) : LET t == [thread[p] EXCEPT !.todo = s] IN
        t \in Thread /\ Same5(thread[p], t) /\ t.todo = s
  BY <1>1 DEF Thread, Same5
<1> QED
  BY <1>2, <1>3, <1>4, Zenon

LEMMA BecomesIs ==
  ASSUME IInv, NEW p \in Process, thread[p].todo # << >>, Head(thread[p].todo).do \in Puts,
         NEW d \in Puts, thread' = Becomes(p, d)
  PROVE  \E t \in Thread :
           /\ thread' = [thread EXCEPT ![p] = t] /\ Same5(thread[p], t)
           /\ GoodTodo(t.todo) /\ t.todo # << >> /\ Head(t.todo).do = d
           /\ Head(t.todo).e = Head(thread[p].todo).e
           /\ \A e : TodoRefs(t.todo, e) = TodoRefs(thread[p].todo, e)
<1> DEFINE s == thread[p].todo
           s2 == [s EXCEPT ![1].do = d]
<1>1. thread[p] \in Thread /\ thread \in [Process -> Thread] /\ GoodTodo(s)
  BY Typed, Zenon
<1>2. thread' = [thread EXCEPT ![p] = [thread[p] EXCEPT !.todo = s2]]
  BY DEF Becomes
<1>3. /\ GoodTodo(s2) /\ s2 # << >> /\ Head(s2).do = d /\ Head(s2).e = Head(s).e
      /\ \A e : TodoRefs(s2, e) = TodoRefs(s, e)
  <2> HIDE DEF s
  <2> QED
    BY <1>1, TodoBecomes, Zenon DEF s
<1>4. s2 \in Seq(Item)
  BY <1>3, Zenon DEF GoodTodo
<1>5. \A x \in Seq(Item) : LET t == [thread[p] EXCEPT !.todo = x] IN
        t \in Thread /\ Same5(thread[p], t) /\ t.todo = x
  BY <1>1 DEF Thread, Same5
<1> DEFINE t == [thread[p] EXCEPT !.todo = s2]
<1>6. t \in Thread /\ Same5(thread[p], t) /\ t.todo = s2
  <2> HIDE DEF s2
  <2> QED
    BY <1>4, <1>5, Zenon
<1>7. thread' = [thread EXCEPT ![p] = t]
  BY <1>2
<1> HIDE DEF t, s2
<1> QED
  BY <1>3, <1>6, <1>7, Zenon DEF s

LEMMA EndOpKeeps == ASSUME IInv, NEW p \in Process, EndOp(p) PROVE IInv'
<1>1. /\ Does(p, "end") /\ UNCHANGED <<dirs, itable, cwd, ftable, ofile>>
      /\ durable' = IF LastOp(p) THEN Disk ELSE durable
  BY DEF EndOp, Commits, disk, files
<1>2. /\ thread[p].todo # << >> /\ \A e : TodoRefs(thread[p].todo, e) = 0
  <2>1. /\ thread[p].todo # << >> /\ Tail(thread[p].todo) = << >>
        /\ \A e : TodoRefs(thread[p].todo, e)
                    = (IF "end" \in Puts THEN Same(Head(thread[p].todo).e, e) ELSE 0)
                      + TodoRefs(Tail(thread[p].todo), e)
    BY <1>1, DoesWhat, Zenon
  <2>2. "end" \notin Puts
    BY DEF Puts
  <2>3. \A e : TodoRefs(Tail(thread[p].todo), e) = 0
    BY <2>1, NothingToDo, Zenon
  <2> QED
    BY <2>1, <2>2, <2>3
<1>3. /\ dirs' \in Dirs /\ durable'.dirs \in Dirs /\ TableInv(itable')
  <2>1. Disk.dirs = dirs /\ dirs \in Dirs /\ durable.dirs \in Dirs /\ TableInv(itable)
    BY Typed DEF Disk
  <2> QED
    BY <1>1, <2>1, Zenon
<1>4. CASE thread[p].at = "return"
  <2>1. thread' = [thread EXCEPT ![p] = User]
    BY <1>4, Zenon DEF EndOp
  <2>2. cwd[p] \in Entry /\ ThreadInv(cwd[p], ofile[p], thread[p]) /\ cwd' = [cwd EXCEPT ![p] = cwd[p]]
    <3>1. thread[p].at \notin {"absent", "exiting"}
      BY <1>4
    <3> QED
      BY <1>1, <3>1, Typed, Zenon DEF ThreadInv
  <2>3. ThreadInv(cwd[p], ofile[p], User)
    BY <2>2, IdleInv, Zenon
  <2>4. ASSUME NEW e \in Entry
        PROVE  itable'[e].ref + Own(cwd[p], thread[p], e) = itable[e].ref + Own(cwd[p], User, e)
    <3>1. IpRef(thread[p], e) = 0 /\ DpRef(thread[p], e) = 0 /\ TodoRefs(thread[p].todo, e) = 0
      <4>1. thread[p].at \in Pointless
        BY <1>4 DEF Pointless
      <4> QED
        BY <1>2, <4>1, PointsAt, Zenon
    <3>2. Own(cwd[p], thread[p], e) = Same(cwd[p], e)
      BY <3>1, OwnType
    <3> QED
      BY <1>1, <3>2, Idle, Zenon
  <2>5. cwd[p] \in Entry \union {NoEntry} /\ User \in Thread /\ UNCHANGED <<ftable, ofile>>
    BY <1>1, <2>2, UserThread, Zenon
  <2> QED
    BY <1>3, <2>1, <2>2, <2>3, <2>4, <2>5, Steps, Zenon
<1>5. CASE thread[p].at # "return"
  <2> DEFINE t == [thread[p] EXCEPT !.todo = << >>, !.op = FALSE]
  <2>1. thread[p] \in Thread /\ thread \in [Process -> Thread]
    BY Typed, Zenon
  <2>2. thread' = [thread EXCEPT ![p] = t]
    <3>1. thread' = [thread EXCEPT ![p].todo = << >>, ![p].op = FALSE]
      BY <1>5, Zenon DEF EndOp
    <3> QED
      BY <2>1, <3>1
  <2>3. t \in Thread /\ Same5(thread[p], t) /\ t.todo = << >>
    <3>1. << >> \in Seq(Item)
      OBVIOUS
    <3> QED
      BY <2>1, <3>1 DEF Thread, Same5
  <2> HIDE DEF t
  <2>4. GoodTodo(t.todo) /\ \A e : TodoRefs(t.todo, e) = 0
    BY <2>3, TodoNone, Zenon
  <2>5. \A e \in Entry : itable'[e].ref + TodoRefs(thread[p].todo, e)
                           = itable[e].ref + TodoRefs(t.todo, e)
    BY <1>1, <1>2, <2>4, Zenon
  <2> QED
    BY <1>1, <1>2, <1>3, <2>2, <2>3, <2>4, <2>5, StaysAt, Zenon
<1> QED
  BY <1>4, <1>5, Zenon

(* What is done is taken off: a put with its reference.                    *)
PutRef(what, a, x) == IF what \in Puts THEN Same(x, a) ELSE 0

LEMMA RestKeeps ==
  ASSUME IInv, NEW p \in Process, UNCHANGED <<dirs, durable, ftable, ofile, cwd>>,
         NEW what, Does(p, what), thread' = Rest(p), TableInv(itable'),
         \A x \in Entry :
           itable[x].ref = itable'[x].ref + PutRef(what, Head(thread[p].todo).e, x)
  PROVE  IInv'
<1> DEFINE t == [thread[p] EXCEPT !.todo = Tail(@)]
           s == thread[p].todo
<1>1. s # << >> /\ GoodTodo(Tail(s))
      /\ \A e : TodoRefs(s, e) = (IF what \in Puts THEN Same(Head(s).e, e) ELSE 0)
                                 + TodoRefs(Tail(s), e)
  BY DoesWhat, Zenon
<1>2. t \in Thread /\ thread' = [thread EXCEPT ![p] = t] /\ Same5(thread[p], t) /\ t.todo = Tail(s)
  BY <1>1, RestIs, Zenon
<1> HIDE DEF t
<1>3. ASSUME NEW x \in Entry
      PROVE  itable'[x].ref + TodoRefs(s, x) = itable[x].ref + TodoRefs(t.todo, x)
  <2> DEFINE m == PutRef(what, Head(s).e, x)
             k == TodoRefs(Tail(s), x)
             a == itable[x].ref
             b == itable'[x].ref
  <2>1. TodoRefs(s, x) = m + k /\ TodoRefs(t.todo, x) = k /\ k \in Nat
    <3>1. TodoRefs(t.todo, x) \in Nat
      BY OwnType, Zenon
    <3>2. Same(x, Head(s).e) = Same(Head(s).e, x)
      BY DEF Same
    <3> QED
      BY <1>1, <1>2, <3>1, <3>2, Zenon DEF PutRef
  <2>2. a = b + m /\ m \in Nat
    <3>1. m \in Nat
      BY DEF Same, PutRef
    <3> QED
      BY <3>1, Zenon
  <2>3. a \in Nat /\ b \in Nat
    BY Zenon DEF TableInv, IInv
  <2> HIDE DEF m, k, a, b
  <2>4. b + (m + k) = a + k
    BY <2>1, <2>2, <2>3
  <2> QED
    BY <2>1, <2>4, Zenon DEF a, b
<1>4. dirs' \in Dirs /\ durable'.dirs \in Dirs /\ UNCHANGED <<ftable, ofile, cwd>>
  BY Typed, Zenon
<1>5. GoodTodo(t.todo)
  BY <1>1, <1>2, Zenon
<1> QED
  BY <1>1, <1>2, <1>3, <1>4, <1>5, StaysAt, Zenon

(* A step of iput that leaves the references as they are.                  *)
LEMMA BecomesKeeps ==
  ASSUME IInv, NEW p \in Process, UNCHANGED <<durable, ftable, ofile, cwd>>, dirs' \in Dirs,
         NEW what \in Puts, Does(p, what), NEW d \in Puts, thread' = Becomes(p, d),
         SameRefs(itable, itable')
  PROVE  IInv'
<1>1. thread[p].todo # << >> /\ Head(thread[p].todo).do \in Puts
  BY DoesWhat, Zenon
<1>2. PICK t \in Thread :
        /\ thread' = [thread EXCEPT ![p] = t] /\ Same5(thread[p], t)
        /\ GoodTodo(t.todo) /\ t.todo # << >> /\ Head(t.todo).do = d
        /\ Head(t.todo).e = Head(thread[p].todo).e
        /\ \A e : TodoRefs(t.todo, e) = TodoRefs(thread[p].todo, e)
  BY <1>1, BecomesIs, Zenon
<1>3. durable'.dirs \in Dirs /\ TableInv(itable') /\ UNCHANGED <<ftable, ofile, cwd>>
  BY Typed, Zenon DEF SameRefs
<1>4. \A e \in Entry : itable'[e].ref + TodoRefs(thread[p].todo, e)
                         = itable[e].ref + TodoRefs(t.todo, e)
  BY <1>2, Zenon DEF SameRefs
<1> QED
  BY <1>1, <1>2, <1>3, <1>4, StaysAt, Zenon

LEMMA IunlockKeeps == ASSUME IInv, NEW p \in Process, Iunlock(p) PROVE IInv'
<1>1. /\ Does(p, "unlock") /\ thread' = Rest(p)
      /\ UNCHANGED <<dirs, durable, ftable, ofile, cwd>>
  BY DEF Iunlock, disk, files
<1>2. SameRefs(itable, itable')
  BY UnlockKeeps, Zenon DEF Iunlock, IInv
<1>3. "unlock" \notin Puts
  BY DEF Puts
<1>4. \A x \in Entry : itable'[x].ref = itable[x].ref /\ itable[x].ref \in Nat
  BY <1>2, Zenon DEF SameRefs, IInv, TableInv
<1>5. \A x \in Entry :
        itable[x].ref = itable'[x].ref + PutRef("unlock", Head(thread[p].todo).e, x)
  BY <1>3, <1>4 DEF PutRef
<1>6. TableInv(itable')
  BY <1>2, Zenon DEF SameRefs
<1> QED
  BY <1>1, <1>5, <1>6, RestKeeps, Zenon

(* The reference of what is to be put is there.                            *)
LEMMA PutIsThere ==
  ASSUME IInv, NEW p \in Process, NEW what \in Puts, Does(p, what)
  PROVE  LET e == Head(thread[p].todo).e IN e \in Entry /\ itable[e].ref > 0
<1> DEFINE e == Head(thread[p].todo).e
<1>1. "end" \notin Puts
  BY DEF Puts
<1>2. e \in Entry /\ TodoRefs(thread[p].todo, e) = Same(e, e) + TodoRefs(Tail(thread[p].todo), e)
  BY <1>1, DoesWhat, Zenon
<1> HIDE DEF e
<1>3. CountInv
  BY Zenon DEF IInv
<1>4. /\ itable[e].ref \in Nat /\ Own(cwd[p], thread[p], e) \in Nat
      /\ Own(cwd[p], thread[p], e) <= itable[e].ref
  BY <1>2, <1>3, PointedTo, Zenon
<1>5. Own(cwd[p], thread[p], e) >= 1
  <2>1. /\ Own(cwd[p], thread[p], e) = Same(cwd[p], e) + IpRef(thread[p], e)
             + DpRef(thread[p], e) + TodoRefs(thread[p].todo, e)
        /\ Same(cwd[p], e) \in Nat /\ IpRef(thread[p], e) \in Nat /\ DpRef(thread[p], e) \in Nat
    BY OwnType, PointsAt, Zenon
  <2>2. TodoRefs(Tail(thread[p].todo), e) \in Nat /\ Same(e, e) = 1
    <3> DEFINE u == [todo |-> Tail(thread[p].todo)]
    <3>1. u.todo = Tail(thread[p].todo)
      BY Zenon
    <3>2. TodoRefs(u.todo, e) \in Nat
      BY TodoCount
    <3> QED
      BY <3>1, <3>2, Zenon DEF Same
  <2> QED
    BY <1>2, <2>1, <2>2
<1> QED
  BY <1>2, <1>4, <1>5 DEF e

LEMMA DropKeeps ==
  ASSUME IInv, NEW p \in Process, UNCHANGED <<dirs, durable, ftable, ofile, cwd>>,
         NEW what \in Puts, Does(p, what), thread' = Rest(p),
         itable' = Dropped(itable, Head(thread[p].todo).e)
  PROVE  IInv'
<1> DEFINE e == Head(thread[p].todo).e
<1>1. e \in Entry /\ itable[e].ref > 0 /\ TableInv(itable)
  BY PutIsThere, Zenon DEF IInv
<1>2. OneLess(itable, itable', e)
  BY <1>1, DroppedCounts, Zenon
<1>3. \A x \in Entry : itable[x].ref = itable'[x].ref + PutRef(what, e, x)
  BY <1>2, Zenon DEF OneLess, PutRef
<1> QED
  BY <1>2, <1>3, RestKeeps, Zenon DEF OneLess

LEMMA IputTestsKeeps == ASSUME IInv, NEW p \in Process, IputTests(p) PROVE IInv'
<1> DEFINE e == Head(thread[p].todo).e
<1>1. Does(p, "put") /\ UNCHANGED <<dirs, durable, ftable, ofile, cwd>> /\ dirs' \in Dirs
  BY Typed DEF IputTests, disk, files
<1>2. "put" \in Puts /\ "free" \in Puts
  BY DEF Puts
<1>3. CASE itable' = Lock(itable, e, p) /\ thread' = Becomes(p, "free")
  <2>1. SameRefs(itable, itable')
    BY <1>3, LockKeeps, Zenon DEF IInv
  <2> QED
    BY <1>1, <1>2, <1>3, <2>1, BecomesKeeps, Zenon
<1>4. CASE itable' = Dropped(itable, e) /\ thread' = Rest(p)
  BY <1>1, <1>2, <1>4, DropKeeps, Zenon
<1> QED
  BY <1>3, <1>4, Zenon DEF IputTests

LEMMA DirsCleared ==
  ASSUME dirs \in Dirs, NEW i
  PROVE  [dirs EXCEPT ![i] = << >>] \in Dirs
<1>1. << >> \in Seq(Slot)
  OBVIOUS
<1> HIDE DEF Slot
<1> QED
  BY <1>1 DEF Dirs

LEMMA IputFreesKeeps == ASSUME IInv, NEW p \in Process, IputFrees(p) PROVE IInv'
<1> DEFINE e == Head(thread[p].todo).e
<1>1. /\ Does(p, "free") /\ UNCHANGED <<durable, ftable, ofile, cwd>>
      /\ dirs' = [dirs EXCEPT ![itable[e].inum] = << >>]
      /\ itable' = [itable EXCEPT ![e].node = FreeInode] /\ thread' = Becomes(p, "forget")
  BY DEF IputFrees, files
<1>2. "free" \in Puts /\ "forget" \in Puts
  BY DEF Puts
<1>3. SameRefs(itable, itable')
  <2>1. TableInv(itable)
    BY Zenon DEF IInv
  <2>2. IsTable(itable)
    BY <2>1, Zenon DEF TableInv
  <2>3. \A x \in Entry : IsEntry(itable[x])
    BY <2>1, Zenon DEF TableInv
  <2>4. IsTable(itable')
    BY <1>1, <2>2 DEF IsTable
  <2>5. ASSUME NEW x \in Entry
        PROVE  IsEntry(itable'[x]) /\ itable'[x].ref = itable[x].ref /\ itable'[x].inum = itable[x].inum
    <3>1. itable'[x] = IF x = e THEN [itable[x] EXCEPT !.node = FreeInode] ELSE itable[x]
      BY <1>1, <2>2 DEF IsTable
    <3> QED
      BY <2>3, <3>1 DEF IsEntry
  <2> QED
    BY <2>1, <2>4, <2>5, SameTable, Zenon
<1>4. dirs' \in Dirs
  BY <1>1, DirsCleared, Zenon DEF IInv, TypeInv
<1> QED
  BY <1>1, <1>2, <1>3, <1>4, BecomesKeeps, Zenon

LEMMA IputForgetsKeeps == ASSUME IInv, NEW p \in Process, IputForgets(p) PROVE IInv'
<1>1. /\ Does(p, "forget") /\ UNCHANGED <<durable, ftable, ofile, cwd>> /\ dirs' \in Dirs
      /\ thread' = Becomes(p, "drop")
  BY Typed DEF IputForgets, disk, files
<1>2. "drop" \in Puts /\ "forget" \in Puts
  BY DEF Puts
<1>3. SameRefs(itable, itable')
  BY ForgottenKeeps, Zenon DEF IputForgets, IInv
<1> QED
  BY <1>1, <1>2, <1>3, BecomesKeeps, Zenon

LEMMA IputDropsKeeps == ASSUME IInv, NEW p \in Process, IputDrops(p) PROVE IInv'
<1>1. /\ Does(p, "drop") /\ UNCHANGED <<dirs, durable, ftable, ofile, cwd>>
      /\ thread' = Rest(p) /\ itable' = Dropped(itable, Head(thread[p].todo).e)
  BY DEF IputDrops, disk, files
<1>2. "drop" \in Puts
  BY DEF Puts
<1> QED
  BY <1>1, <1>2, DropKeeps, Zenon

-----------------------------------------------------------------------------
(* A call that goes on                                                     *)

(* What a call under way keeps to.                                         *)
GoodCall(t) ==
  /\ GoodTodo(t.todo) /\ t.at \notin {"absent", "exiting"}
  /\ t.at \in HoldsIp => t.ip \in Entry
  /\ HoldsDp(t) => t.dp \in Entry
  /\ t.at = "walk" => t.call # "none"
  /\ t.at = "linkto" => t.call = "linkto"
  /\ t.at \in Naming => t.path # << >>

LEMMA MovesBalance ==
  ASSUME NEW r, NEW t, NEW c, NEW d, NEW e, NEW a \in Nat, NEW b \in Nat, r.todo = << >>,
         a + Same(c, e) + IpRef(r, e) + DpRef(r, e)
           = b + Same(d, e) + IpRef(t, e) + DpRef(t, e) + TodoRefs(t.todo, e)
  PROVE  a + Own(c, r, e) = b + Own(d, t, e)
<1>1. /\ Own(c, r, e) = Same(c, e) + IpRef(r, e) + DpRef(r, e) + TodoRefs(r.todo, e)
      /\ Same(c, e) \in Nat /\ IpRef(r, e) \in Nat /\ DpRef(r, e) \in Nat
      /\ TodoRefs(r.todo, e) = 0
  BY OwnParts, NothingToDo, Zenon
<1>2. /\ Own(d, t, e) = Same(d, e) + IpRef(t, e) + DpRef(t, e) + TodoRefs(t.todo, e)
      /\ Same(d, e) \in Nat /\ IpRef(t, e) \in Nat /\ DpRef(t, e) \in Nat
      /\ TodoRefs(t.todo, e) \in Nat
  BY OwnParts, Zenon
<1>3. PICK C \in Nat, I \in Nat, D \in Nat :
        C = Same(c, e) /\ I = IpRef(r, e) /\ D = DpRef(r, e)
  BY <1>1, Zenon
<1>4. PICK C2 \in Nat, I2 \in Nat, D2 \in Nat, N2 \in Nat :
        C2 = Same(d, e) /\ I2 = IpRef(t, e) /\ D2 = DpRef(t, e) /\ N2 = TodoRefs(t.todo, e)
  BY <1>2, Zenon
<1>5. a + C + I + D = b + C2 + I2 + D2 + N2
  BY <1>3, <1>4, Zenon
<1>6. Own(c, r, e) = C + I + D + 0
  BY <1>1, <1>3, Zenon
<1>7. Own(d, t, e) = C2 + I2 + D2 + N2
  BY <1>2, <1>4, Zenon
<1> QED
  BY <1>5, <1>6, <1>7

LEMMA MovesOnBalance ==
  ASSUME NEW r, NEW t, NEW c, NEW e, NEW a \in Nat, NEW b \in Nat,
         a + IpRef(r, e) + DpRef(r, e) = b + IpRef(t, e) + DpRef(t, e) + TodoRefs(t.todo, e)
  PROVE  a + Same(c, e) + IpRef(r, e) + DpRef(r, e)
           = b + Same(c, e) + IpRef(t, e) + DpRef(t, e) + TodoRefs(t.todo, e)
<1>1. /\ Same(c, e) \in Nat /\ IpRef(r, e) \in Nat /\ DpRef(r, e) \in Nat
      /\ IpRef(t, e) \in Nat /\ DpRef(t, e) \in Nat /\ TodoRefs(t.todo, e) \in Nat
  BY OwnParts, Zenon
<1> DEFINE S == Same(c, e)
           I == IpRef(r, e)
           D == DpRef(r, e)
           x == IpRef(t, e)
           y == DpRef(t, e)
           z == TodoRefs(t.todo, e)
<1>2. S \in Nat /\ I \in Nat /\ D \in Nat /\ x \in Nat /\ y \in Nat /\ z \in Nat
  BY <1>1, Zenon
<1>3. a + I + D = b + x + y + z
  OBVIOUS
<1> HIDE DEF S, I, D, x, y, z
<1>4. a + S + I + D = b + S + x + y + z
  BY <1>2, <1>3
<1> QED
  BY <1>4, Zenon DEF S, I, D, x, y, z

LEMMA Moves ==
  ASSUME IInv, NEW p \in Process, UNCHANGED <<ftable, ofile>>,
         NEW c \in Entry, cwd' = [cwd EXCEPT ![p] = c],
         thread[p].at \notin {"absent", "exiting"}, thread[p].todo = << >>,
         NEW t \in Thread, thread' = [thread EXCEPT ![p] = t], GoodCall(t),
         dirs' \in Dirs, durable'.dirs \in Dirs, TableInv(itable'),
         \A e \in Entry : itable'[e].ref + Same(cwd[p], e) + IpRef(thread[p], e) + DpRef(thread[p], e)
                            = itable[e].ref + Same(c, e) + IpRef(t, e) + DpRef(t, e)
                              + TodoRefs(t.todo, e)
  PROVE  IInv'
<1>1. cwd[p] \in Entry \union {NoEntry} /\ c \in Entry \union {NoEntry}
  BY Typed, Zenon
<1>2. ThreadInv(c, ofile[p], t)
  BY Zenon DEF ThreadInv, GoodCall
<1>3. ASSUME NEW e \in Entry
      PROVE  itable'[e].ref + Own(cwd[p], thread[p], e) = itable[e].ref + Own(c, t, e)
  <2>1. itable[e].ref \in Nat /\ itable'[e].ref \in Nat
    BY Zenon DEF TableInv, IInv
  <2>2. itable'[e].ref + Same(cwd[p], e) + IpRef(thread[p], e) + DpRef(thread[p], e)
          = itable[e].ref + Same(c, e) + IpRef(t, e) + DpRef(t, e) + TodoRefs(t.todo, e)
    OBVIOUS
  <2> QED
    BY <2>1, <2>2, MovesBalance, SMT
<1> QED
  BY <1>1, <1>2, <1>3, Steps, Zenon

(* The same, in the same directory.                                        *)
LEMMA MovesOn ==
  ASSUME IInv, NEW p \in Process, UNCHANGED <<ftable, ofile, cwd>>,
         thread[p].at \notin {"absent", "exiting"}, thread[p].todo = << >>,
         NEW t \in Thread, thread' = [thread EXCEPT ![p] = t], GoodCall(t),
         dirs' \in Dirs, durable'.dirs \in Dirs, TableInv(itable'),
         \A e \in Entry : itable'[e].ref + IpRef(thread[p], e) + DpRef(thread[p], e)
                            = itable[e].ref + IpRef(t, e) + DpRef(t, e) + TodoRefs(t.todo, e)
  PROVE  IInv'
<1>1. cwd[p] \in Entry /\ cwd' = [cwd EXCEPT ![p] = cwd[p]]
  BY Typed, Zenon DEF ThreadInv
<1>2. ASSUME NEW e \in Entry
      PROVE  itable'[e].ref + Same(cwd[p], e) + IpRef(thread[p], e) + DpRef(thread[p], e)
               = itable[e].ref + Same(cwd[p], e) + IpRef(t, e) + DpRef(t, e) + TodoRefs(t.todo, e)
  <2>1. itable[e].ref \in Nat /\ itable'[e].ref \in Nat
    BY Zenon DEF TableInv, IInv
  <2>2. itable'[e].ref + IpRef(thread[p], e) + DpRef(thread[p], e)
          = itable[e].ref + IpRef(t, e) + DpRef(t, e) + TodoRefs(t.todo, e)
    OBVIOUS
  <2> QED
    BY <2>1, <2>2, MovesOnBalance, SMT
<1> QED
  BY <1>1, <1>2, Moves, Zenon

(* What the references of the calls under way come to.                     *)
LEMMA Under ==
  ASSUME IInv, NEW p \in Process, NEW l, At(p, l), l \notin {"absent", "exiting"}
  PROVE  /\ thread[p] \in Thread /\ thread \in [Process -> Thread]
         /\ thread[p].at = l /\ thread[p].todo = << >> /\ GoodCall(thread[p])
         /\ thread[p].at \notin {"absent", "exiting"}
         /\ cwd[p] \in Entry /\ TableInv(itable) /\ dirs \in Dirs /\ durable.dirs \in Dirs
BY Typed, Zenon DEF At, ThreadInv, GoodCall

(* The entries a call points to are in use.                                *)
LEMMA InUse ==
  ASSUME IInv, NEW p \in Process
  PROVE  /\ \A e \in Entry : cwd[p] = e => itable[e].ref > 0
         /\ \A e \in Entry : thread[p].at \in HoldsIp /\ thread[p].ip = e => itable[e].ref > 0
         /\ \A e \in Entry : HoldsDp(thread[p]) /\ thread[p].dp = e => itable[e].ref > 0
<1> DEFINE r == thread[p]
<1>1. ASSUME NEW e \in Entry, Same(cwd[p], e) = 1 \/ IpRef(r, e) = 1 \/ DpRef(r, e) = 1
      PROVE  itable[e].ref > 0
  <2>1. /\ Own(cwd[p], r, e) = Same(cwd[p], e) + IpRef(r, e) + DpRef(r, e) + TodoRefs(r.todo, e)
        /\ Same(cwd[p], e) \in Nat /\ IpRef(r, e) \in Nat /\ DpRef(r, e) \in Nat
        /\ TodoRefs(r.todo, e) \in Nat
    BY OwnType, PointsAt, Zenon
  <2>2. itable[e].ref \in Nat /\ Own(cwd[p], r, e) <= itable[e].ref
    BY PointedTo, Zenon DEF IInv
  <2> QED
    BY <1>1, <2>1, <2>2
<1> HIDE DEF r
<1>2. \A e : /\ cwd[p] = e => Same(cwd[p], e) = 1
             /\ r.at \in HoldsIp /\ r.ip = e => IpRef(r, e) = 1
             /\ HoldsDp(r) /\ r.dp = e => DpRef(r, e) = 1
  BY DEF Same, IpRef, DpRef
<1> QED
  BY <1>1, <1>2, Zenon DEF r

(* What is kept in the failing part of a lookup.                           *)
LEMMA FailsKeeps ==
  ASSUME IInv, NEW p \in Process, UNCHANGED <<ftable, ofile, cwd>>,
         At(p, "walk") \/ At(p, "linkto"),
         thread' = Fails(p, <<Put(thread[p].ip)>>),
         dirs' \in Dirs, durable'.dirs \in Dirs, SameRefs(itable, itable')
  PROVE  IInv'
<1> DEFINE r == thread[p]
           s == <<Put(r.ip)>>
           t == [thread[p] EXCEPT !.at = "link_undo", !.todo = s]
<1>1. /\ r \in Thread /\ thread \in [Process -> Thread] /\ r.todo = << >> /\ GoodCall(r)
      /\ r.at \notin {"absent", "exiting"}
  <2>1. "walk" \notin {"absent", "exiting"} /\ "linkto" \notin {"absent", "exiting"}
    OBVIOUS
  <2> QED
    BY <2>1, Under, Zenon
<1>2. r.at \in HoldsIp /\ r.ip \in Entry /\ (r.at = "walk" \/ r.at = "linkto")
  <2>1. r.at = "walk" \/ r.at = "linkto"
    BY Zenon DEF At
  <2>2. r.at \in HoldsIp
    BY <2>1 DEF HoldsIp, LocksIp
  <2> QED
    BY <1>1, <2>1, <2>2, Zenon DEF GoodCall
<1>3. OpenTodo(s) /\ GoodTodo(s) /\ s \in Seq(Item) /\ \A e : TodoRefs(s, e) = Same(r.ip, e)
  BY <1>2, TodoPut, TodoEnds, Zenon DEF OpenTodo
<1>4. CASE r.call # "linkto"
  <2>1. ~ HoldsDp(r)
    <3>1. r.at # "linkto"
      BY <1>1, <1>4, Zenon DEF GoodCall
    <3> QED
      BY <1>2, <1>4, <3>1 DEF HoldsDp
  <2>2. thread' = Returns(p, s)
    BY <1>4, Zenon DEF Fails
  <2> QED
    BY <1>1, <1>2, <2>1, <2>2, EndsWithPut, Zenon
<1>5. CASE r.call = "linkto"
  <2>1. thread' = Goes(p, "link_undo", s)
    BY <1>5, Zenon DEF Fails
  <2>2. thread' = [thread EXCEPT ![p] = t] /\ Resumes(r, t, "link_undo", s)
    <3>1. "link_undo" \in Places
      BY DEF Places
    <3> HIDE DEF s
    <3> QED
      BY <1>1, <1>3, <2>1, <3>1, GoesAt, Zenon
  <2> HIDE DEF t, s
  <2>3. /\ t \in Thread /\ t.at = "link_undo" /\ t.todo = s /\ t.ip = r.ip /\ t.dp = r.dp
        /\ t.call = r.call /\ t.path = r.path
    BY <2>2, Zenon DEF Resumes
  <2>4. HoldsDp(r) /\ HoldsDp(t) /\ t.at \notin HoldsIp
    BY <1>2, <1>5, <2>3 DEF HoldsDp, HoldsIp, LocksIp
  <2>5. GoodCall(t)
    <3>1. t.at # "walk" /\ t.at # "linkto" /\ t.at \notin Naming /\ t.at \notin {"absent", "exiting"}
      BY <2>3 DEF Naming
    <3>2. t.dp \in Entry
      BY <1>1, <2>3, <2>4, Zenon DEF GoodCall
    <3> QED
      BY <1>3, <2>3, <2>4, <3>1, <3>2, Zenon DEF GoodCall
  <2>6. ASSUME NEW e \in Entry
        PROVE  itable'[e].ref + IpRef(r, e) + DpRef(r, e)
                 = itable[e].ref + IpRef(t, e) + DpRef(t, e) + TodoRefs(t.todo, e)
    <3>1. /\ itable'[e].ref = itable[e].ref /\ itable[e].ref \in Nat
          /\ IpRef(r, e) = Same(r.ip, e) /\ DpRef(r, e) = Same(r.dp, e)
          /\ IpRef(t, e) = 0 /\ DpRef(t, e) = Same(r.dp, e)
          /\ TodoRefs(t.todo, e) = Same(r.ip, e)
      BY <1>2, <1>3, <2>3, <2>4, PointsAt, Zenon DEF SameRefs, IInv, TableInv
    <3>2. Same(r.ip, e) \in Nat /\ Same(r.dp, e) \in Nat
      BY DEF Same
    <3> HIDE DEF r
    <3> QED
      BY <3>1, <3>2
  <2>7. TableInv(itable')
    BY Zenon DEF SameRefs
  <2> QED
    BY <1>1, <2>2, <2>3, <2>5, <2>6, <2>7, MovesOn, Zenon
<1> QED
  BY <1>4, <1>5, Zenon

-----------------------------------------------------------------------------
(* Path names                                                              *)

(* The place a walk arrives at.                                            *)
LEMMA Arrives ==
  ASSUME NEW call \in Calls, call # "none"
  PROVE  /\ Arrival(call) \in Places /\ Arrival(call) \in LocksIp /\ Arrival(call) \in HoldsIp
         /\ Arrival(call) \notin {"absent", "exiting", "walk"}
         /\ Arrival(call) = "linkto" <=> call = "linkto"
         /\ Arrival(call) \notin {"create_alloc", "create_fill", "unlink_erase", "link_undo"}
         /\ Arrival(call) \in Naming => call \in OfParent
BY DEF Calls, Arrival, Places, LocksIp, HoldsIp, Naming, OfParent, Creations, FileCreations

LEMMA ArrivesKeeps ==
  ASSUME IInv, NEW p \in Process, UNCHANGED <<ftable, ofile, cwd, dirs, durable>>,
         At(p, "walk"), thread[p].call \in OfParent => thread[p].path # << >>,
         thread' = [thread EXCEPT ![p].at = Arrival(thread[p].call)],
         SameRefs(itable, itable')
  PROVE  IInv'
<1> DEFINE r == thread[p]
           l == Arrival(thread[p].call)
           t == [thread[p] EXCEPT !.at = l]
<1>1. /\ r \in Thread /\ thread \in [Process -> Thread] /\ r.todo = << >> /\ GoodCall(r)
      /\ r.at = "walk" /\ r.at \notin {"absent", "exiting"}
      /\ dirs \in Dirs /\ durable.dirs \in Dirs
  <2>1. "walk" \notin {"absent", "exiting"}
    OBVIOUS
  <2> QED
    BY <2>1, Under, Zenon
<1>2. r.call \in Calls /\ r.call # "none"
  <2>1. r.call \in Calls
    BY <1>1 DEF Thread
  <2> QED
    BY <1>1, <2>1, Zenon DEF GoodCall
<1>3. /\ l \in Places /\ l \in HoldsIp
      /\ l \notin {"absent", "exiting", "walk"}
      /\ l = "linkto" <=> r.call = "linkto"
      /\ l \notin {"create_alloc", "create_fill", "unlink_erase", "link_undo"}
      /\ l \in Naming => r.call \in OfParent
  BY <1>2, Arrives, Zenon
<1> HIDE DEF l
<1>4. thread' = [thread EXCEPT ![p] = t]
  BY DEF l
<1>5. /\ t \in Thread /\ t.at = l /\ t.todo = r.todo /\ t.ip = r.ip /\ t.dp = r.dp
      /\ t.call = r.call /\ t.path = r.path
  BY <1>1, <1>3 DEF Thread
<1> HIDE DEF t
<1>6. r.at \in HoldsIp /\ (HoldsDp(r) <=> HoldsDp(t))
  BY <1>1, <1>3, <1>5 DEF HoldsIp, LocksIp, HoldsDp
<1>7. GoodCall(t)
  <2>1. t.at \notin {"absent", "exiting"} /\ t.at # "walk"
    BY <1>3, <1>5
  <2> QED
    BY <1>1, <1>3, <1>5, <1>6, <2>1, Zenon DEF GoodCall
<1>8. ASSUME NEW e \in Entry
      PROVE  itable'[e].ref + IpRef(r, e) + DpRef(r, e)
               = itable[e].ref + IpRef(t, e) + DpRef(t, e) + TodoRefs(t.todo, e)
  <2>1. /\ itable'[e].ref = itable[e].ref /\ itable[e].ref \in Nat
        /\ IpRef(r, e) = IpRef(t, e) /\ IpRef(t, e) \in Nat
    <3>1. IpRef(r, e) = IpRef(t, e)
      BY <1>3, <1>5, <1>6, Zenon DEF IpRef
    <3> QED
      BY <3>1, PointsAt, Zenon DEF SameRefs, IInv, TableInv
  <2>2. DpRef(r, e) = DpRef(t, e) /\ DpRef(t, e) \in Nat
    BY <1>5, <1>6 DEF DpRef
  <2>3. TodoRefs(t.todo, e) = 0
    BY <1>1, <1>5, NothingToDo, Zenon
  <2> HIDE DEF r
  <2> QED
    BY <2>1, <2>2, <2>3
<1>9. TableInv(itable') /\ UNCHANGED <<ftable, ofile, cwd>> /\ dirs' \in Dirs /\ durable'.dirs \in Dirs
  BY <1>1, Zenon DEF SameRefs
<1> QED
  BY <1>1, <1>4, <1>5, <1>7, <1>8, <1>9, MovesOn, Zenon

LEMMA SameSame ==
  ASSUME NEW t, TableInv(t)
  PROVE  SameRefs(t, t)
BY Zenon DEF SameRefs

LEMMA WalkEndsKeeps == ASSUME IInv, NEW p \in Process, WalkEnds(p) PROVE IInv'
<1>1. /\ At(p, "walk") /\ thread[p].path = << >>
      /\ UNCHANGED <<ftable, ofile, cwd, dirs, durable>> /\ itable' = itable
  BY DEF WalkEnds, disk, files
<1>2. SameRefs(itable, itable') /\ dirs' \in Dirs /\ durable'.dirs \in Dirs
  BY <1>1, SameSame, Typed, Zenon
<1>3. CASE thread[p].call \in OfParent
  <2>1. thread' = Fails(p, <<Put(thread[p].ip)>>)
    BY <1>3, Zenon DEF WalkEnds
  <2> QED
    BY <1>1, <1>2, <2>1, FailsKeeps, Zenon
<1>4. CASE thread[p].call \notin OfParent
  <2>1. thread' = [thread EXCEPT ![p].at = Arrival(thread[p].call)]
    BY <1>4, Zenon DEF WalkEnds
  <2> QED
    BY <1>1, <1>2, <1>4, <2>1, ArrivesKeeps, Zenon
<1> QED
  BY <1>3, <1>4, Zenon

(* The first inode of a walk is that of the root or of the directory.      *)
LEMMA WalkBegins ==
  ASSUME IInv, NEW p \in Process, cwd[p] \in Entry, NEW t, TableInv(t),
         \A e \in Entry : t[e].ref = itable[e].ref, NEW path, WalkFrom(t, p, path).ok
  PROVE  LET w == WalkFrom(t, p, path) IN \E i : OneMore(t, w.table, w.e, i)
<1>1. CASE path.abs
  <2>1. ROOTINO \in Inum
    BY Sizes DEF Inum, ROOTINO
  <2>2. /\ WalkFrom(t, p, path).table = Taken(t, ROOTINO)
        /\ WalkFrom(t, p, path).e = Iget(t, ROOTINO) /\ HasRoom(t, ROOTINO)
    BY <1>1 DEF WalkFrom
  <2> QED
    BY <2>1, <2>2, TakenCounts, Zenon
<1>2. CASE ~ path.abs
  <2>1. WalkFrom(t, p, path).table = Idup(t, cwd[p]) /\ WalkFrom(t, p, path).e = cwd[p]
    BY <1>2 DEF WalkFrom
  <2>2. t[cwd[p]].ref > 0
    BY InUse, Zenon
  <2> QED
    BY <2>1, <2>2, IdupCounts, Zenon
<1> QED
  BY <1>1, <1>2, Zenon

LEMMA RequestIs ==
  ASSUME NEW r \in Request
  PROVE  /\ r.call \in Calls /\ r.call # "none" /\ r.call # "linkto"
         /\ r.path.elems \in Path /\ r.new \in PathType
<1>1. r \in [call : {"open", "trunc", "creat", "rewrite", "chdir", "mkdir", "mknod", "unlink", "link"},
             path : PathType, new : PathType]
  BY FsAssumption
<1>2. /\ r.call \in {"open", "trunc", "creat", "rewrite", "chdir", "mkdir", "mknod", "unlink", "link"}
      /\ r.path \in PathType /\ r.new \in PathType
  BY <1>1
<1>3. r.path.elems \in Path
  BY <1>2 DEF PathType, Path, Names
<1> QED
  BY <1>2, <1>3 DEF Calls

LEMMA EnterKeeps ==
  ASSUME IInv, NEW p \in Process, NEW r \in Request, Enter(p, r)
  PROVE  IInv'
<1> DEFINE w == WalkFrom(itable, p, r.path)
           t == [User EXCEPT !.at = "walk", !.op = TRUE, !.call = r.call, !.path = r.path.elems,
                             !.new = r.new, !.ip = w.e]
<1>1. /\ At(p, "user") /\ w.ok /\ UNCHANGED <<ftable, ofile, cwd, dirs, durable>>
      /\ itable' = w.table /\ thread' = [thread EXCEPT ![p] = t]
  BY DEF Enter, disk, files
<1>2. /\ thread[p].at = "user" /\ thread[p].todo = << >> /\ thread[p].at \notin {"absent", "exiting"}
      /\ cwd[p] \in Entry /\ TableInv(itable) /\ dirs \in Dirs /\ durable.dirs \in Dirs
  <2>1. "user" \notin {"absent", "exiting"}
    OBVIOUS
  <2> QED
    BY <1>1, <2>1, Under, Zenon
<1>3. PICK i : OneMore(itable, w.table, w.e, i)
  BY <1>1, <1>2, WalkBegins, Zenon
<1> HIDE DEF w
<1>4. w.e \in Entry /\ TableInv(itable')
      /\ \A x \in Entry : itable'[x].ref = itable[x].ref + Same(x, w.e)
  BY <1>1, <1>3, Zenon DEF OneMore
<1>5. /\ t \in Thread /\ t.at = "walk" /\ t.todo = << >> /\ t.ip = w.e /\ t.call = r.call
  <2>1. /\ r.call \in Calls /\ r.path.elems \in Path /\ r.new \in PathType
    BY RequestIs, Zenon
  <2>2. "walk" \in Places
    BY DEF Places
  <2>3. User \in Thread /\ User.todo = << >>
    BY UserThread DEF User
  <2> QED
    BY <1>4, <2>1, <2>2, <2>3 DEF Thread
<1> HIDE DEF t
<1>6. ~ HoldsDp(t) /\ t.at \in HoldsIp
  <2>1. t.call # "linkto"
    BY <1>5, RequestIs, Zenon
  <2> QED
    BY <1>5, <2>1 DEF HoldsDp, HoldsIp
<1>7. GoodCall(t)
  <2>1. t.at \notin {"absent", "exiting"} /\ t.at # "linkto" /\ t.at \notin Naming
    BY <1>5 DEF Naming
  <2>2. t.call # "none"
    BY <1>5, RequestIs, Zenon
  <2> QED
    BY <1>4, <1>5, <1>6, <2>1, <2>2, TodoNone, Zenon DEF GoodCall
<1>8. ASSUME NEW e \in Entry
      PROVE  itable'[e].ref + IpRef(thread[p], e) + DpRef(thread[p], e)
               = itable[e].ref + IpRef(t, e) + DpRef(t, e) + TodoRefs(t.todo, e)
  <2>1. IpRef(thread[p], e) = 0 /\ DpRef(thread[p], e) = 0
    <3>1. thread[p].at \in Pointless
      BY <1>2 DEF Pointless
    <3> QED
      BY <3>1, PointsAt, Zenon
  <2>2. IpRef(t, e) = Same(e, w.e) /\ DpRef(t, e) = 0 /\ TodoRefs(t.todo, e) = 0
    <3>1. Same(e, w.e) = Same(w.e, e)
      BY DEF Same
    <3> QED
      BY <1>5, <1>6, <3>1, PointsAt, NothingToDo, Zenon
  <2>3. itable'[e].ref = itable[e].ref + Same(e, w.e) /\ itable[e].ref \in Nat /\ Same(e, w.e) \in Nat
    <3>1. Same(e, w.e) \in Nat
      BY DEF Same
    <3> QED
      BY <1>2, <1>4, <3>1, Zenon DEF TableInv
  <2> QED
    BY <2>1, <2>2, <2>3
<1>9. UNCHANGED <<ftable, ofile, cwd>> /\ dirs' \in Dirs /\ durable'.dirs \in Dirs
  BY <1>1, <1>2, Zenon
<1> QED
  BY <1>1, <1>2, <1>4, <1>5, <1>7, <1>8, <1>9, MovesOn, Zenon

LEMMA LookupFinds ==
  ASSUME NEW d \in Seq(Slot), NEW name, Dirlookup(d, name) # 0
  PROVE  Dirlookup(d, name) \in 1..Len(d) /\ d[Dirlookup(d, name)].inum \in Inum
<1> DEFINE S == {i \in 1..Len(d) : d[i].inum # 0 /\ d[i].name = name}
<1>1. S # {} /\ Dirlookup(d, name) = Min(S)
  BY DEF Dirlookup
<1>2. S \in SUBSET Nat /\ Len(d) \in Nat
  OBVIOUS
<1>3. Min(S) \in S
  <2> HIDE DEF S
  <2> QED
    BY <1>1, <1>2, LeastIsIn, Zenon
<1>4. \A i \in S : i \in 1..Len(d) /\ d[i].inum # 0
  BY Zenon
<1>5. \A i \in 1..Len(d) : d[i] \in Slot
  OBVIOUS
<1>6. \A x \in Slot : x.inum # 0 => x.inum \in Inum
  BY DEF Slot
<1> QED
  BY <1>1, <1>3, <1>4, <1>5, <1>6, Zenon

(* The entry of a process' inode is in use, and its number is that of an   *)
(* inode, which may have a directory.                                      *)
LEMMA IpIsThere ==
  ASSUME IInv, NEW p \in Process, thread[p].at \in HoldsIp, GoodCall(thread[p])
  PROVE  LET e == thread[p].ip IN
         e \in Entry /\ itable[e].ref > 0 /\ itable[e].inum \in Inum
         /\ dirs[itable[e].inum] \in Seq(Slot)
<1> DEFINE e == thread[p].ip
<1>1. e \in Entry
  BY Zenon DEF GoodCall
<1>2. itable[e].ref > 0 /\ TableInv(itable) /\ dirs \in Dirs
  BY <1>1, InUse, Zenon DEF IInv, TypeInv
<1>3. itable[e].inum \in Inum
  BY <1>1, <1>2, Zenon DEF TableInv
<1> QED
  BY <1>1, <1>2, <1>3, Zenon DEF Dirs

LEMMA DpIsThere ==
  ASSUME IInv, NEW p \in Process, HoldsDp(thread[p]), GoodCall(thread[p])
  PROVE  LET e == thread[p].dp IN
         e \in Entry /\ itable[e].ref > 0 /\ itable[e].inum \in Inum
         /\ dirs[itable[e].inum] \in Seq(Slot)
<1> DEFINE e == thread[p].dp
<1>1. e \in Entry
  BY Zenon DEF GoodCall
<1>2. itable[e].ref > 0 /\ TableInv(itable) /\ dirs \in Dirs
  BY <1>1, InUse, Zenon DEF IInv, TypeInv
<1>3. itable[e].inum \in Inum
  BY <1>1, <1>2, Zenon DEF TableInv
<1> QED
  BY <1>1, <1>2, <1>3, Zenon DEF Dirs

(* A reference more, in a table whose inodes were read meanwhile.          *)
LEMMA TakenFrom ==
  ASSUME NEW t, NEW t2, SameRefs(t, t2), NEW i \in Inum, HasRoom(t2, i)
  PROVE  /\ Iget(t2, i) \in Entry /\ TableInv(Taken(t2, i))
         /\ \A x \in Entry : Taken(t2, i)[x].ref = t[x].ref + Same(Iget(t2, i), x)
<1>1. OneMore(t2, Taken(t2, i), Iget(t2, i), i)
  BY TakenCounts, Zenon DEF SameRefs
<1>2. \A x, y : Same(x, y) = Same(y, x)
  BY DEF Same
<1> QED
  BY <1>1, <1>2, Zenon DEF OneMore, SameRefs

LEMMA WalkKeeps == ASSUME IInv, NEW p \in Process, Walk(p) PROVE IInv'
<1> DEFINE r == thread[p]
           e == r.ip
           d == dirs[itable[e].inum]
           i == Dirlookup(d, Head(r.path))
           loaded == Loaded(itable, e, Node(e))
           t == [thread[p] EXCEPT !.ip = Iget(loaded, d[i].inum), !.path = Tail(@),
                                  !.todo = <<Put(e)>>]
<1>1. /\ At(p, "walk") /\ r.path # << >> /\ UNCHANGED <<ftable, ofile, cwd, dirs, durable>>
  BY DEF Walk, disk, files
<1>2. /\ r \in Thread /\ thread \in [Process -> Thread] /\ r.at = "walk" /\ r.todo = << >>
      /\ GoodCall(r) /\ r.at \notin {"absent", "exiting"} /\ cwd[p] \in Entry
      /\ dirs \in Dirs /\ durable.dirs \in Dirs
  <2>1. "walk" \notin {"absent", "exiting"}
    OBVIOUS
  <2> QED
    BY <1>1, <2>1, Under, Zenon
<1>3. SameRefs(itable, loaded)
  BY LoadedKeeps, Zenon DEF IInv
<1>4. r.at \in HoldsIp
  BY <1>2 DEF HoldsIp
<1>5. e \in Entry /\ d \in Seq(Slot)
  BY <1>2, <1>4, IpIsThere, Zenon
<1> HIDE DEF loaded
<1>6. /\ dirs' \in Dirs /\ durable'.dirs \in Dirs
      /\ \A j \in Inum : HasRoom(loaded, j) =>
                         /\ Iget(loaded, j) \in Entry /\ TableInv(Taken(loaded, j))
                         /\ \A x \in Entry :
                              Taken(loaded, j)[x].ref = itable[x].ref + Same(Iget(loaded, j), x)
  <2>1. \A j \in Inum : HasRoom(loaded, j) =>
                         /\ Iget(loaded, j) \in Entry /\ TableInv(Taken(loaded, j))
                         /\ \A x \in Entry :
                              Taken(loaded, j)[x].ref = itable[x].ref + Same(Iget(loaded, j), x)
    BY <1>3, TakenFrom
  <2> QED
    BY <1>1, <1>2, <2>1, Zenon
<1>7. CASE itable' = loaded /\ thread' = Fails(p, <<Put(e)>>)
  BY <1>1, <1>3, <1>6, <1>7, FailsKeeps, Zenon
<1>8. CASE itable' = loaded /\ thread' = [thread EXCEPT ![p].at = Arrival(r.call)]
  BY <1>1, <1>3, <1>8, ArrivesKeeps, Zenon
<1>9. CASE /\ i # 0 /\ HasRoom(loaded, d[i].inum) /\ itable' = Taken(loaded, d[i].inum)
           /\ thread' = [thread EXCEPT ![p].ip = Iget(loaded, d[i].inum),
                                       ![p].path = Tail(@), ![p].todo = <<Put(e)>>]
  <2>1. d[i].inum \in Inum
    BY <1>5, <1>9, LookupFinds, Zenon
  <2> DEFINE n == Iget(loaded, d[i].inum)
  <2>2. /\ n \in Entry /\ TableInv(itable')
        /\ \A x \in Entry : itable'[x].ref = itable[x].ref + Same(n, x)
    <3>1. itable' = Taken(loaded, d[i].inum) /\ HasRoom(loaded, d[i].inum)
      BY <1>9, Zenon
    <3> HIDE DEF i, d
    <3> QED
      BY <1>6, <2>1, <3>1, Zenon
  <2>3. thread' = [thread EXCEPT ![p] = t]
    BY <1>9
  <2>4. OpenTodo(<<Put(e)>>) /\ GoodTodo(<<Put(e)>>) /\ <<Put(e)>> \in Seq(Item)
        /\ \A x : TodoRefs(<<Put(e)>>, x) = Same(e, x)
    BY <1>5, TodoPut, TodoEnds, Zenon DEF OpenTodo
  <2>5. Tail(r.path) \in Path
    <3>1. r.path \in Path
      BY <1>2 DEF Thread
    <3> QED
      BY <1>1, <3>1 DEF Path
  <2> DEFINE s == <<Put(e)>>
  <2> HIDE DEF n, s, i, d, e
  <2>6. t \in Thread /\ t.at = "walk" /\ t.todo = s /\ t.ip = n /\ t.dp = r.dp /\ t.call = r.call
    BY <1>2, <2>2, <2>4, <2>5 DEF Thread, n, s
  <2> HIDE DEF t
  <2>7. t.at \in HoldsIp /\ (HoldsDp(t) <=> HoldsDp(r))
    BY <1>2, <1>4, <2>6 DEF HoldsDp
  <2>8. GoodCall(t)
    <3>1. t.at \notin {"absent", "exiting"} /\ t.at # "linkto" /\ t.at \notin Naming
      BY <2>6 DEF Naming
    <3>2. t.call # "none"
      BY <1>2, <2>6, Zenon DEF GoodCall
    <3>3. HoldsDp(t) => t.dp \in Entry
      BY <1>2, <2>6, <2>7, Zenon DEF GoodCall
    <3> QED
      BY <2>2, <2>4, <2>6, <3>1, <3>2, <3>3, Zenon DEF GoodCall, s
  <2>9. ASSUME NEW x \in Entry
        PROVE  itable'[x].ref + IpRef(r, x) + DpRef(r, x)
                 = itable[x].ref + IpRef(t, x) + DpRef(t, x) + TodoRefs(t.todo, x)
    <3>1. IpRef(r, x) = Same(e, x) /\ IpRef(t, x) = Same(n, x) /\ TodoRefs(t.todo, x) = Same(e, x)
      BY <1>4, <2>4, <2>6, <2>7, PointsAt, Zenon DEF s, e
    <3>2. DpRef(r, x) = DpRef(t, x) /\ DpRef(r, x) \in Nat
      BY <2>6, <2>7 DEF DpRef
    <3>3. itable'[x].ref = itable[x].ref + Same(n, x) /\ itable[x].ref \in Nat
          /\ Same(n, x) \in Nat /\ Same(e, x) \in Nat
      <4>1. Same(n, x) \in Nat /\ Same(e, x) \in Nat
        BY DEF Same
      <4>2. itable[x].ref \in Nat
        BY Zenon DEF IInv, TableInv
      <4> QED
        BY <2>2, <4>1, <4>2, Zenon
    <3> HIDE DEF r
    <3> QED
      BY <3>1, <3>2, <3>3
  <2> QED
    BY <1>1, <1>2, <1>6, <2>2, <2>3, <2>6, <2>8, <2>9, MovesOn, Zenon
<1> QED
  BY <1>7, <1>8, <1>9, Zenon DEF Walk, PutsIt, loaded

-----------------------------------------------------------------------------
(* Open files                                                              *)

LEMMA Allocated ==
  /\ FileAlloc(ftable) # NoFile =>
       FileAlloc(ftable) \in File /\ ftable[FileAlloc(ftable)].ref = 0
  /\ \A fds : FdAlloc(fds) # NoFd =>
       FdAlloc(fds) \in Fd /\ fds[FdAlloc(fds)] = NoFile
<1>1. ASSUME FileAlloc(ftable) # NoFile
      PROVE  FileAlloc(ftable) \in FreeFiles(ftable)
  <2>1. FreeFiles(ftable) # {} /\ FileAlloc(ftable) = Min(FreeFiles(ftable))
    BY <1>1, Zenon DEF FileAlloc
  <2>2. FreeFiles(ftable) \in SUBSET Nat
    BY DEF FreeFiles, File
  <2> QED
    BY <2>1, <2>2, LeastIsIn, Zenon
<1>2. ASSUME NEW fds, FdAlloc(fds) # NoFd
      PROVE  FdAlloc(fds) \in FreeFds(fds)
  <2>1. FreeFds(fds) # {} /\ FdAlloc(fds) = Min(FreeFds(fds))
    BY <1>2, Zenon DEF FdAlloc
  <2>2. FreeFds(fds) \in SUBSET Nat
    BY DEF FreeFds, Fd
  <2> QED
    BY <2>1, <2>2, LeastIsIn, Zenon
<1> QED
  BY <1>1, <1>2 DEF FreeFiles, FreeFds

(* What one file adds to the pointers to x.                                *)
FileRef(r, x) == IF r.ref > 0 /\ r.obj = x THEN 1 ELSE 0

OneFile(ft, ft2, f) == \A g \in File \ {f} : ft2[g] = ft[g]

LEMMA FilesToMoves ==
  ASSUME NEW ft, NEW ft2, NEW f \in File, OneFile(ft, ft2, f), NEW x
  PROVE  /\ FilesTo(ft2, x) \in Nat /\ FilesTo(ft, x) \in Nat
         /\ FilesTo(ft2, x) + FileRef(ft[f], x) = FilesTo(ft, x) + FileRef(ft2[f], x)
<1> DEFINE A == {g \in File : ft[g].ref > 0 /\ ft[g].obj = x}
           B == {g \in File : ft2[g].ref > 0 /\ ft2[g].obj = x}
<1>1. IsFiniteSet(A) /\ IsFiniteSet(B) /\ FilesTo(ft2, x) \in Nat /\ FilesTo(ft, x) \in Nat
  BY FilesToType
<1>2. A \ {f} = B \ {f}
  BY Zenon DEF OneFile
<1>3. /\ FileRef(ft[f], x) = IF f \in A THEN 1 ELSE 0
      /\ FileRef(ft2[f], x) = IF f \in B THEN 1 ELSE 0
  BY Zenon DEF FileRef
<1>4. FilesTo(ft, x) = Cardinality(A) /\ FilesTo(ft2, x) = Cardinality(B)
  BY Zenon DEF FilesTo
<1> HIDE DEF A, B
<1>5. /\ Cardinality(A \ {f}) \in Nat
      /\ Cardinality(A) = Cardinality(A \ {f}) + (IF f \in A THEN 1 ELSE 0)
      /\ Cardinality(B) = Cardinality(B \ {f}) + (IF f \in B THEN 1 ELSE 0)
  BY <1>1, <1>2, Without
<1> QED
  BY <1>1, <1>2, <1>3, <1>4, <1>5

ObjsOk(ft) == \A g \in File : ft[g].ref > 0 => ft[g].obj \in Entry

(* One descriptor x of p changes, and the file table with it.              *)
OneFd(p, x) ==
  /\ FilesTypeOK'
  /\ Differs(ofile[p], ofile'[p], x) /\ \A q \in Process \ {p} : ofile'[q] = ofile[q]
  /\ \A g \in File : ftable'[g].ref + Same(ofile[p][x], g)
                       = ftable[g].ref + Same(ofile'[p][x], g)
  /\ ObjsOk(ftable')

LEMMA OneFdStep ==
  ASSUME IInv, NEW p \in Process, NEW x \in Fd, OneFd(p, x),
         NEW c \in Entry \union {NoEntry}, NEW t \in Thread,
         cwd' = [cwd EXCEPT ![p] = c], thread' = [thread EXCEPT ![p] = t],
         dirs' \in Dirs, durable'.dirs \in Dirs, TableInv(itable'), ThreadInv(c, ofile'[p], t),
         \A e \in Entry :
           itable'[e].ref + FilesTo(ftable, e) + Own(cwd[p], thread[p], e)
             = itable[e].ref + FilesTo(ftable', e) + Own(c, t, e)
  PROVE  IInv'
BY FileStep, Zenon DEF OneFd, ObjsOk

(* The file that an open makes.                                            *)
OpensFile(p, e, w, f, fd) ==
  /\ ftable[f].ref = 0 /\ ofile[p][fd] = NoFile
  /\ ftable' = [ftable EXCEPT ![f] = [ref |-> 1, type |-> "inode", obj |-> e, writable |-> w]]
  /\ ofile' = [ofile EXCEPT ![p][fd] = f]

LEMMA FilesOpened ==
  ASSUME FilesTypeOK, ObjsOk(ftable), NEW p \in Process, NEW e \in Entry, NEW w \in BOOLEAN,
         NEW f \in File, NEW fd \in Fd, OpensFile(p, e, w, f, fd)
  PROVE  /\ OneFd(p, fd)
         /\ \A x \in Entry : FilesTo(ftable', x) = FilesTo(ftable, x) + Same(e, x)
                             /\ FilesTo(ftable, x) \in Nat
<1> DEFINE R == [ref : Nat, type : {"none", "pipe", "inode"}, obj : Nat, writable : BOOLEAN]
           n == [ref |-> 1, type |-> "inode", obj |-> e, writable |-> w]
<1>1. ftable \in [File -> R] /\ ofile \in [Process -> [Fd -> File \union {NoFile}]]
  BY DEF FilesTypeOK
<1>2. n \in R /\ n.ref = 1 /\ n.obj = e
  <2>1. e \in Nat
    BY Sizes DEF Entry
  <2> QED
    BY <2>1
<1> HIDE DEF R, n
<1>3. /\ ftable' = [ftable EXCEPT ![f] = n] /\ ofile' = [ofile EXCEPT ![p][fd] = f]
      /\ ftable[f].ref = 0 /\ ofile[p][fd] = NoFile
  BY Zenon DEF n, OpensFile
<1>4. /\ ftable' \in [File -> R] /\ ftable'[f] = n
      /\ \A g \in File \ {f} : ftable'[g] = ftable[g]
  BY <1>1, <1>2, <1>3
<1>5. /\ ofile' \in [Process -> [Fd -> File \union {NoFile}]]
      /\ \A q \in Process \ {p} : ofile'[q] = ofile[q]
      /\ ofile'[p][fd] = f /\ \A g \in Fd : g # fd => ofile'[p][g] = ofile[p][g]
  BY <1>1, <1>3
<1>6. FilesTypeOK'
  BY <1>4, <1>5 DEF FilesTypeOK, R
<1>7. ASSUME NEW g \in File
      PROVE  ftable'[g].ref + Same(ofile[p][fd], g) = ftable[g].ref + Same(ofile'[p][fd], g)
  <2>1. Same(ofile[p][fd], g) = 0 /\ ftable[f].ref = 0
    BY <1>3 DEF Same, File
  <2>2. ftable[g].ref \in Nat
    BY <1>1 DEF R
  <2>3. CASE g = f
    BY <1>2, <1>4, <1>5, <2>1, <2>3 DEF Same
  <2>4. CASE g # f
    BY <1>4, <1>5, <2>1, <2>2, <2>4 DEF Same
  <2> QED
    BY <2>3, <2>4
<1>8. ASSUME NEW x \in Entry
      PROVE  FilesTo(ftable', x) = FilesTo(ftable, x) + Same(e, x) /\ FilesTo(ftable, x) \in Nat
  <2>1. /\ FilesTo(ftable', x) \in Nat /\ FilesTo(ftable, x) \in Nat
        /\ FilesTo(ftable', x) + FileRef(ftable[f], x) = FilesTo(ftable, x) + FileRef(ftable'[f], x)
    <3>1. OneFile(ftable, ftable', f)
      BY <1>4, Zenon DEF OneFile
    <3> QED
      BY <3>1, FilesToMoves, SMT
  <2>2. FileRef(ftable[f], x) = 0 /\ FileRef(ftable'[f], x) = Same(e, x)
    BY <1>2, <1>3, <1>4 DEF FileRef, Same
  <2>3. Same(e, x) \in Nat
    BY DEF Same
  <2> HIDE DEF n
  <2> QED
    BY <2>1, <2>2, <2>3
<1>9. ObjsOk(ftable')
  BY <1>2, <1>4, Zenon DEF ObjsOk
<1> QED
  BY <1>5, <1>6, <1>7, <1>8, <1>9, Zenon DEF Differs, OneFd

(* Where sys_open has the inode locked.                                    *)
Opening == {"open", "trunc", "create_found", "open_made"}

LEMMA OpenFailsKeeps ==
  ASSUME IInv, NEW p \in Process, NEW l \in Opening, At(p, l),
         NEW t, SameRefs(itable, t), OpenFails(p, t, thread[p].ip),
         UNCHANGED <<durable, cwd>>
  PROVE  IInv'
<1>1. l \notin {"absent", "exiting"}
  BY DEF Opening
<1>2. /\ thread[p].at = l /\ thread[p].todo = << >> /\ GoodCall(thread[p])
      /\ dirs \in Dirs /\ durable.dirs \in Dirs
  BY <1>1, Under, Zenon
<1>3. thread[p].at \in HoldsIp /\ ~ HoldsDp(thread[p])
  BY <1>2 DEF Opening, HoldsIp, LocksIp, HoldsDp
<1>4. /\ itable' = Unlock(t, thread[p].ip) /\ thread' = Returns(p, <<Put(thread[p].ip)>>)
      /\ UNCHANGED <<dirs, ftable, ofile>>
  BY DEF OpenFails, disk, files
<1>5. SameRefs(itable, itable')
  <2>1. TableInv(t)
    BY Zenon DEF SameRefs
  <2>2. SameRefs(t, itable')
    BY <1>4, <2>1, UnlockKeeps, Zenon
  <2> QED
    BY <2>2, SameRefsTwice, Zenon
<1>6. UNCHANGED <<ftable, ofile, cwd>> /\ dirs' \in Dirs /\ durable'.dirs \in Dirs
  BY <1>2, <1>4, Zenon
<1> QED
  BY <1>2, <1>3, <1>4, <1>5, <1>6, EndsWithPut, Zenon

LEMMA OpenSucceedsKeeps ==
  ASSUME IInv, NEW p \in Process, NEW l \in Opening, At(p, l),
         NEW u, SameRefs(itable, u), OpenSucceeds(p, u, thread[p].ip),
         UNCHANGED <<durable, cwd>>
  PROVE  IInv'
<1> DEFINE r == thread[p]
           e == r.ip
           f == FileAlloc(ftable)
           fd == FdAlloc(ofile[p])
           w == thread[p].call # "open"
           s == Append(<< >>, End)
           t == [thread[p] EXCEPT !.at = "return", !.todo = s]
<1>1. l \notin {"absent", "exiting"}
  BY DEF Opening
<1>2. /\ r \in Thread /\ thread \in [Process -> Thread]
      /\ r.at = l /\ r.todo = << >> /\ GoodCall(r) /\ cwd[p] \in Entry
      /\ dirs \in Dirs /\ durable.dirs \in Dirs
  BY <1>1, Under, Zenon
<1>3. r.at \in HoldsIp /\ ~ HoldsDp(r)
  BY <1>2 DEF Opening, HoldsIp, LocksIp, HoldsDp
<1>4. e \in Entry
  BY <1>2, <1>3, Zenon DEF GoodCall
<1>5. /\ f \in File /\ ftable[f].ref = 0 /\ fd \in Fd /\ ofile[p][fd] = NoFile
  <2>1. f # NoFile /\ fd # NoFd
    BY DEF OpenSucceeds
  <2> QED
    BY <2>1, Allocated, Zenon
<1>6. /\ ftable' = [ftable EXCEPT ![f] = [ref |-> 1, type |-> "inode", obj |-> e, writable |-> w]]
      /\ ofile' = [ofile EXCEPT ![p][fd] = f] /\ thread' = Returns(p, << >>) /\ dirs' = dirs
      /\ (itable' = Unlock(u, e) \/ \E node : itable' = Unlock(Loaded(u, e, node), e))
  BY DEF OpenSucceeds
<1>7. SameRefs(itable, itable')
  <2>1. ASSUME NEW v, SameRefs(itable, v), itable' = Unlock(v, e)
        PROVE  SameRefs(itable, itable')
    <3>1. TableInv(v)
      BY <2>1, Zenon DEF SameRefs
    <3>2. SameRefs(v, Unlock(v, e))
      BY <3>1, UnlockKeeps, Zenon
    <3>3. SameRefs(v, itable')
      BY <2>1, <3>2, Zenon
    <3> QED
      BY <2>1, <3>3, SameRefsTwice, Zenon
  <2>2. ASSUME NEW node
        PROVE  SameRefs(itable, Loaded(u, e, node))
    <3>1. TableInv(u)
      BY Zenon DEF SameRefs
    <3>2. SameRefs(u, Loaded(u, e, node))
      BY <3>1, LoadedKeeps, Zenon
    <3> QED
      BY <3>2, SameRefsTwice, Zenon
  <2> QED
    BY <1>6, <2>1, <2>2, Zenon
<1>8. w \in BOOLEAN /\ FilesTypeOK /\ ObjsOk(ftable) /\ OpensFile(p, e, w, f, fd)
  BY <1>5, <1>6, Zenon DEF IInv, TypeInv, FilesInv, OpensFile, ObjsOk
<1> HIDE DEF f, fd, w
<1>9. /\ OneFd(p, fd)
      /\ \A x \in Entry : FilesTo(ftable', x) = FilesTo(ftable, x) + Same(e, x)
                          /\ FilesTo(ftable, x) \in Nat
  <2> HIDE DEF e
  <2> QED
    BY <1>4, <1>5, <1>8, FilesOpened, SMT
<1>10. s \in Seq(Item) /\ GoodTodo(s) /\ \A x : TodoRefs(s, x) = 0
  BY NothingToDo, TodoEnds, Zenon DEF GoodTodo
<1> HIDE DEF s
<1>11. /\ thread' = [thread EXCEPT ![p] = t]
       /\ t \in Thread /\ t.at = "return" /\ t.todo = s
  <2>1. "return" \in Places /\ thread' = Goes(p, "return", s)
    BY <1>6 DEF Places, Returns, End, s
  <2>2. thread' = [thread EXCEPT ![p] = t] /\ Resumes(r, t, "return", s)
    BY <1>2, <1>10, <2>1, GoesAt, Zenon
  <2> HIDE DEF t
  <2> QED
    BY <2>2, Zenon DEF Resumes
<1> HIDE DEF t
<1>12. t.at \notin HoldsIp /\ ~ HoldsDp(t) /\ \A x : IpRef(t, x) = 0 /\ DpRef(t, x) = 0
  <2>1. "return" \in Pointless
    BY DEF Pointless
  <2> QED
    BY <1>11, <2>1, PointsAt, Zenon
<1>13. ThreadInv(cwd[p], ofile'[p], t)
  <2>1. t.at # "walk" /\ t.at # "linkto" /\ t.at \notin Naming /\ t.at # "absent"
    BY <1>11 DEF Naming
  <2> QED
    BY <1>2, <1>10, <1>11, <1>12, <2>1, Zenon DEF ThreadInv
<1>14. ASSUME NEW x \in Entry
       PROVE  itable'[x].ref + FilesTo(ftable, x) + Own(cwd[p], r, x)
                = itable[x].ref + FilesTo(ftable', x) + Own(cwd[p], t, x)
  <2> DEFINE c == cwd[p]
             S == Same(e, x)
             C == Same(c, x)
  <2>1. Own(c, r, x) = C + S /\ C \in Nat /\ S \in Nat
    <3>1. /\ Own(c, r, x) = C + IpRef(r, x) + DpRef(r, x) + TodoRefs(r.todo, x)
          /\ C \in Nat
      BY OwnParts, Zenon
    <3>2. IpRef(r, x) = S /\ DpRef(r, x) = 0 /\ TodoRefs(r.todo, x) = 0
      BY <1>2, <1>3, PointsAt, NothingToDo, Zenon
    <3>3. S \in Nat
      BY DEF Same
    <3> HIDE DEF C, S, c, e, r
    <3> QED
      BY <3>1, <3>2, <3>3
  <2>2. Own(c, t, x) = C
    <3>1. Own(c, t, x) = C + IpRef(t, x) + DpRef(t, x) + TodoRefs(t.todo, x)
      BY OwnParts, Zenon
    <3>2. IpRef(t, x) = 0 /\ DpRef(t, x) = 0 /\ TodoRefs(t.todo, x) = 0
      BY <1>10, <1>11, <1>12, Zenon
    <3> HIDE DEF C, S, c
    <3> QED
      BY <2>1, <3>1, <3>2
  <2>3. itable'[x].ref = itable[x].ref /\ itable[x].ref \in Nat
    BY <1>7, Zenon DEF SameRefs, IInv, TableInv
  <2>4. FilesTo(ftable', x) = FilesTo(ftable, x) + S /\ FilesTo(ftable, x) \in Nat
    BY <1>9, Zenon
  <2> HIDE DEF C, S, c, e, r
  <2>5. itable'[x].ref + FilesTo(ftable, x) + Own(c, r, x)
          = itable[x].ref + FilesTo(ftable', x) + Own(c, t, x)
    BY <2>1, <2>2, <2>3, <2>4
  <2> QED
    BY <2>5, Zenon DEF c
<1>15. /\ cwd' = [cwd EXCEPT ![p] = cwd[p]] /\ cwd[p] \in Entry \union {NoEntry}
       /\ dirs' \in Dirs /\ durable'.dirs \in Dirs /\ TableInv(itable')
  BY <1>2, <1>6, <1>7, Typed, Zenon DEF SameRefs
<1> QED
  <2>1. fd \in Fd /\ OneFd(p, fd)
    BY <1>5, <1>9, Zenon
  <2>2. t \in Thread /\ thread' = [thread EXCEPT ![p] = t]
    BY <1>11, Zenon
  <2> QED
    BY <1>13, <1>14, <1>15, <2>1, <2>2, OneFdStep, Zenon

LEMMA OpensKeeps ==
  ASSUME IInv, NEW p \in Process, NEW l \in Opening, At(p, l),
         NEW t, SameRefs(itable, t), Opens(p, t, thread[p].ip), UNCHANGED <<durable, cwd>>
  PROVE  IInv'
<1>1. CASE OpenFails(p, t, thread[p].ip)
  BY <1>1, OpenFailsKeeps, Zenon
<1>2. CASE OpenSucceeds(p, t, thread[p].ip)
  BY <1>2, OpenSucceedsKeeps, Zenon
<1> QED
  BY <1>1, <1>2, Zenon DEF Opens

(* An inode found by its path is put, and the call is over.                *)
GivingUp == Opening \union {"chdir", "unlink", "link", "unlink_drop"}

LEMMA GivesUp ==
  ASSUME IInv, NEW p \in Process, NEW l, At(p, l),
         l \in GivingUp,
         UNCHANGED <<ftable, ofile, cwd, dirs, durable>>,
         thread' = Returns(p, <<Put(thread[p].ip)>>), SameRefs(itable, itable')
  PROVE  IInv'
<1>1. l \notin {"absent", "exiting"}
  BY DEF Opening, GivingUp
<1>2. /\ thread[p].at = l /\ thread[p].todo = << >> /\ dirs \in Dirs /\ durable.dirs \in Dirs
  BY <1>1, Under, Zenon
<1>3. thread[p].at \in HoldsIp /\ ~ HoldsDp(thread[p])
  BY <1>2 DEF Opening, GivingUp, HoldsIp, LocksIp, HoldsDp
<1>4. UNCHANGED <<ftable, ofile, cwd>> /\ dirs' \in Dirs /\ durable'.dirs \in Dirs
  BY <1>2, Zenon
<1> QED
  BY <1>2, <1>3, <1>4, EndsWithPut, Zenon

LEMMA OpenKeeps == ASSUME IInv, NEW p \in Process, Open(p) PROVE IInv'
<1> DEFINE e == thread[p].ip
           t == Loaded(itable, e, Node(e))
<1>1. SameRefs(itable, t)
  BY LoadedKeeps, Zenon DEF IInv
<1>2. PICK l \in {"open", "trunc"} : At(p, l)
  BY DEF Open
<1>3. l \in Opening /\ l \in GivingUp
  BY DEF Opening, GivingUp
<1> HIDE DEF t
<1>4. CASE itable' = t /\ thread' = Returns(p, <<Put(e)>>) /\ UNCHANGED <<disk, files>>
  <2>1. UNCHANGED <<ftable, ofile, cwd, dirs, durable>>
    BY <1>4 DEF Open, disk, files
  <2> QED
    BY <1>1, <1>2, <1>3, <1>4, <2>1, GivesUp, Zenon
<1>5. CASE Opens(p, t, e)
  <2>1. UNCHANGED <<durable, cwd>>
    BY Zenon DEF Open
  <2> QED
    BY <1>1, <1>2, <1>3, <1>5, <2>1, OpensKeeps, Zenon
<1> QED
  BY <1>4, <1>5, Zenon DEF Open, t

LEMMA CreateFoundKeeps == ASSUME IInv, NEW p \in Process, CreateFound(p) PROVE IInv'
<1> DEFINE e == thread[p].ip
           t == Loaded(itable, e, Node(e))
           l == "create_found"
<1>1. SameRefs(itable, t)
  BY LoadedKeeps, Zenon DEF IInv
<1>2. At(p, l)
  BY DEF CreateFound
<1>3. l \in Opening /\ l \in GivingUp
  BY DEF Opening, GivingUp
<1> HIDE DEF t, l
<1>4. CASE itable' = t /\ thread' = Returns(p, <<Put(e)>>) /\ UNCHANGED <<disk, files>>
  <2>1. UNCHANGED <<ftable, ofile, cwd, dirs, durable>>
    BY <1>4 DEF CreateFound, disk, files
  <2> QED
    BY <1>1, <1>2, <1>3, <1>4, <2>1, GivesUp, Zenon
<1>5. CASE Opens(p, t, e)
  <2>1. UNCHANGED <<durable, cwd>>
    BY Zenon DEF CreateFound
  <2> QED
    BY <1>1, <1>2, <1>3, <1>5, <2>1, OpensKeeps, Zenon
<1> QED
  BY <1>4, <1>5, Zenon DEF CreateFound, t

LEMMA OpenMadeKeeps == ASSUME IInv, NEW p \in Process, OpenMade(p) PROVE IInv'
<1>1. SameRefs(itable, itable)
  BY SameSame, Zenon DEF IInv
<1>2. "open_made" \in Opening
  BY DEF Opening
<1> QED
  BY <1>1, <1>2, OpensKeeps, Zenon DEF OpenMade

LEMMA ChdirKeeps == ASSUME IInv, NEW p \in Process, Chdir(p) PROVE IInv'
<1> DEFINE r == thread[p]
           e == r.ip
           a == cwd[p]
           s == Append(<<Put(a)>>, End)
           t == [thread[p] EXCEPT !.at = "return", !.todo = s]
           l == "chdir"
<1>1. At(p, l) /\ UNCHANGED <<ftable, ofile, dirs, durable>>
      /\ itable' = Loaded(itable, e, Node(e))
  BY DEF Chdir, disk, files
<1>2. SameRefs(itable, itable')
  BY <1>1, LoadedKeeps, Zenon DEF IInv
<1>3. l \in GivingUp /\ l \notin {"absent", "exiting"}
  BY DEF GivingUp
<1>4. /\ r \in Thread /\ thread \in [Process -> Thread]
      /\ r.at = l /\ r.todo = << >> /\ GoodCall(r) /\ a \in Entry
      /\ r.at \notin {"absent", "exiting"} /\ dirs \in Dirs /\ durable.dirs \in Dirs
  BY <1>1, <1>3, Under, Zenon
<1>5. r.at \in HoldsIp /\ ~ HoldsDp(r)
  BY <1>4 DEF HoldsIp, LocksIp, HoldsDp
<1> HIDE DEF l
<1>6. CASE thread' = Returns(p, <<Put(e)>>) /\ UNCHANGED cwd
  BY <1>1, <1>2, <1>3, <1>6, GivesUp, Zenon
<1>7. CASE cwd' = [cwd EXCEPT ![p] = e] /\ thread' = Returns(p, <<Put(a)>>)
  <2>1. e \in Entry
    BY <1>4, <1>5, Zenon DEF GoodCall
  <2>2. /\ GoodTodo(s) /\ s \in Seq(Item) /\ \A x : TodoRefs(s, x) = Same(a, x)
    <3>1. OpenTodo(<<Put(a)>>) /\ \A x : TodoRefs(<<Put(a)>>, x) = Same(a, x)
      BY <1>4, TodoPut, Zenon
    <3> QED
      BY <3>1, TodoEnds, Zenon DEF GoodTodo
  <2>3. "return" \in Places /\ thread' = Goes(p, "return", s)
    BY <1>7 DEF Places, Returns, End
  <2> HIDE DEF s
  <2>4. thread' = [thread EXCEPT ![p] = t] /\ Resumes(r, t, "return", s)
    BY <1>4, <2>2, <2>3, GoesAt, Zenon
  <2> HIDE DEF t
  <2>5. t \in Thread /\ t.at = "return" /\ t.todo = s
    BY <2>4, Zenon DEF Resumes
  <2>6. t.at \notin HoldsIp /\ ~ HoldsDp(t) /\ \A x : IpRef(t, x) = 0 /\ DpRef(t, x) = 0
    <3>1. "return" \in Pointless
      BY DEF Pointless
    <3> QED
      BY <2>5, <3>1, PointsAt, Zenon
  <2>7. GoodCall(t)
    <3>1. t.at # "walk" /\ t.at # "linkto" /\ t.at \notin Naming /\ t.at \notin {"absent", "exiting"}
      BY <2>5 DEF Naming
    <3> QED
      BY <2>2, <2>5, <2>6, <3>1, Zenon DEF GoodCall
  <2>8. ASSUME NEW x \in Entry
        PROVE  itable'[x].ref + Same(cwd[p], x) + IpRef(r, x) + DpRef(r, x)
                 = itable[x].ref + Same(e, x) + IpRef(t, x) + DpRef(t, x) + TodoRefs(t.todo, x)
    <3>1. /\ IpRef(r, x) = Same(e, x) /\ DpRef(r, x) = 0
          /\ IpRef(t, x) = 0 /\ DpRef(t, x) = 0 /\ TodoRefs(t.todo, x) = Same(a, x)
      BY <1>5, <2>2, <2>5, <2>6, PointsAt, Zenon
    <3>2. Same(e, x) \in Nat /\ Same(a, x) \in Nat /\ Same(cwd[p], x) = Same(a, x)
      BY DEF Same
    <3>3. itable'[x].ref = itable[x].ref /\ itable[x].ref \in Nat
      BY <1>2, Zenon DEF SameRefs, IInv, TableInv
    <3> HIDE DEF r, e, a
    <3> QED
      BY <3>1, <3>2, <3>3
  <2>9. UNCHANGED <<ftable, ofile>> /\ dirs' \in Dirs /\ durable'.dirs \in Dirs /\ TableInv(itable')
    BY <1>1, <1>2, <1>4, Zenon DEF SameRefs
  <2> QED
    BY <1>4, <1>7, <2>1, <2>4, <2>5, <2>7, <2>8, <2>9, Moves, Zenon
<1> QED
  BY <1>6, <1>7, Zenon DEF Chdir

-----------------------------------------------------------------------------
(* create                                                                  *)

LEMMA CreateLookupKeeps == ASSUME IInv, NEW p \in Process, CreateLookup(p) PROVE IInv'
<1> DEFINE r == thread[p]
           e == r.ip
           d == dirs[itable[e].inum]
           i == Dirlookup(d, NameOf(p))
           loaded == Loaded(itable, e, Node(e))
           s == <<Put(e)>>
<1>1. At(p, "create") /\ UNCHANGED <<ftable, ofile, cwd, dirs, durable>>
  BY DEF CreateLookup, disk, files
<1>2. /\ r \in Thread /\ thread \in [Process -> Thread] /\ r.at = "create" /\ r.todo = << >>
      /\ GoodCall(r) /\ r.at \notin {"absent", "exiting"} /\ cwd[p] \in Entry
      /\ dirs \in Dirs /\ durable.dirs \in Dirs
  <2>1. "create" \notin {"absent", "exiting"}
    OBVIOUS
  <2> QED
    BY <1>1, <2>1, Under, Zenon
<1>3. SameRefs(itable, loaded)
  BY LoadedKeeps, Zenon DEF IInv
<1>4. r.at \in HoldsIp /\ ~ HoldsDp(r)
  BY <1>2 DEF HoldsIp, LocksIp, HoldsDp
<1>5. e \in Entry /\ d \in Seq(Slot)
  BY <1>2, <1>4, IpIsThere, Zenon
<1>6. /\ dirs' \in Dirs /\ durable'.dirs \in Dirs
      /\ \A j \in Inum : HasRoom(loaded, j) =>
                         /\ Iget(loaded, j) \in Entry /\ TableInv(Taken(loaded, j))
                         /\ \A x \in Entry :
                              Taken(loaded, j)[x].ref = itable[x].ref + Same(Iget(loaded, j), x)
  <2> HIDE DEF loaded
  <2>1. \A j \in Inum : HasRoom(loaded, j) =>
                         /\ Iget(loaded, j) \in Entry /\ TableInv(Taken(loaded, j))
                         /\ \A x \in Entry :
                              Taken(loaded, j)[x].ref = itable[x].ref + Same(Iget(loaded, j), x)
    BY <1>3, TakenFrom
  <2> QED
    BY <1>1, <1>2, <2>1, Zenon
<1>7. OpenTodo(s) /\ GoodTodo(s) /\ s \in Seq(Item) /\ \A x : TodoRefs(s, x) = Same(e, x)
  BY <1>5, TodoPut, TodoEnds, Zenon DEF OpenTodo
<1>8. r.path # << >> /\ \A x \in Entry : itable[x].ref \in Nat
  <2>1. r.at \in Naming
    BY <1>2 DEF Naming
  <2> QED
    BY <1>2, <2>1, Zenon DEF GoodCall, IInv, TableInv
<1> HIDE DEF loaded
<1>9. CASE /\ i # 0 /\ HasRoom(loaded, d[i].inum) /\ itable' = Taken(loaded, d[i].inum)
           /\ thread' = [thread EXCEPT ![p].at = "create_found", ![p].todo = <<Put(e)>>,
                                       ![p].ip = Iget(loaded, d[i].inum)]
  <2> DEFINE n == Iget(loaded, d[i].inum)
             t == [thread[p] EXCEPT !.at = "create_found", !.todo = <<Put(e)>>, !.ip = n]
  <2>1. d[i].inum \in Inum
    BY <1>5, <1>9, LookupFinds, Zenon
  <2>2. /\ n \in Entry /\ TableInv(itable')
        /\ \A x \in Entry : itable'[x].ref = itable[x].ref + Same(n, x)
    <3>1. itable' = Taken(loaded, d[i].inum) /\ HasRoom(loaded, d[i].inum)
      BY <1>9, Zenon
    <3> HIDE DEF i, d
    <3> QED
      BY <1>6, <2>1, <3>1, Zenon
  <2>3. thread' = [thread EXCEPT ![p] = t]
    BY <1>9
  <2> HIDE DEF n, i, d
  <2>4. t \in Thread /\ t.at = "create_found" /\ t.todo = s /\ t.ip = n
    <3>1. "create_found" \in Places
      BY DEF Places
    <3> QED
      BY <1>2, <1>7, <2>2, <3>1 DEF Thread
  <2> HIDE DEF t, s
  <2>5. t.at \in HoldsIp /\ ~ HoldsDp(t)
    BY <2>4 DEF HoldsIp, LocksIp, HoldsDp
  <2>6. GoodCall(t)
    <3>1. t.at # "walk" /\ t.at # "linkto" /\ t.at \notin Naming /\ t.at \notin {"absent", "exiting"}
      BY <2>4 DEF Naming
    <3> QED
      BY <1>7, <2>2, <2>4, <2>5, <3>1, Zenon DEF GoodCall
  <2>7. ASSUME NEW x \in Entry
        PROVE  itable'[x].ref + IpRef(r, x) + DpRef(r, x)
                 = itable[x].ref + IpRef(t, x) + DpRef(t, x) + TodoRefs(t.todo, x)
    <3>1. /\ IpRef(r, x) = Same(e, x) /\ IpRef(t, x) = Same(n, x) /\ TodoRefs(t.todo, x) = Same(e, x)
          /\ DpRef(r, x) = 0 /\ DpRef(t, x) = 0
      BY <1>4, <1>7, <2>4, <2>5, PointsAt, Zenon
    <3>2. itable'[x].ref = itable[x].ref + Same(n, x) /\ itable[x].ref \in Nat
      BY <1>8, <2>2, Zenon
    <3>3. Same(n, x) \in Nat /\ Same(e, x) \in Nat
      BY DEF Same
    <3> HIDE DEF r, e
    <3> QED
      BY <3>1, <3>2, <3>3
  <2> QED
    BY <1>1, <1>2, <1>6, <2>2, <2>3, <2>4, <2>6, <2>7, MovesOn, Zenon
<1>10. CASE /\ itable' = Lock(loaded, e, p)
            /\ thread' = [thread EXCEPT ![p].at = "create_alloc", ![p].dp = e, ![p].ip = NoEntry]
  <2> DEFINE t == [thread[p] EXCEPT !.at = "create_alloc", !.dp = e, !.ip = NoEntry]
  <2>1. thread' = [thread EXCEPT ![p] = t]
    BY <1>10
  <2>2. t \in Thread /\ t.at = "create_alloc" /\ t.todo = << >> /\ t.dp = e /\ t.path = r.path
    <3>1. "create_alloc" \in Places
      BY DEF Places
    <3> QED
      BY <1>2, <1>5, <3>1 DEF Thread
  <2> HIDE DEF t
  <2>3. t.at \notin HoldsIp /\ HoldsDp(t)
    BY <2>2 DEF HoldsIp, LocksIp, HoldsDp
  <2>4. GoodCall(t)
    <3>1. t.at # "walk" /\ t.at # "linkto" /\ t.at \notin {"absent", "exiting"}
      BY <2>2
    <3> QED
      BY <1>5, <1>8, <2>2, <2>3, <3>1, TodoNone, Zenon DEF GoodCall
  <2>5. SameRefs(itable, itable')
    <3>1. TableInv(loaded)
      BY <1>3, Zenon DEF SameRefs
    <3>2. SameRefs(loaded, itable')
      BY <1>10, <3>1, LockKeeps, Zenon
    <3> QED
      BY <1>3, <3>2, SameRefsTwice, Zenon
  <2>6. ASSUME NEW x \in Entry
        PROVE  itable'[x].ref + IpRef(r, x) + DpRef(r, x)
                 = itable[x].ref + IpRef(t, x) + DpRef(t, x) + TodoRefs(t.todo, x)
    <3>1. /\ IpRef(r, x) = Same(e, x) /\ IpRef(t, x) = 0 /\ TodoRefs(t.todo, x) = 0
          /\ DpRef(r, x) = 0 /\ DpRef(t, x) = Same(e, x)
      BY <1>4, <2>2, <2>3, PointsAt, NothingToDo, Zenon
    <3>2. itable'[x].ref = itable[x].ref /\ itable[x].ref \in Nat
      BY <1>8, <2>5, Zenon DEF SameRefs
    <3>3. Same(e, x) \in Nat
      BY DEF Same
    <3> HIDE DEF r, e
    <3> QED
      BY <3>1, <3>2, <3>3
  <2>7. TableInv(itable')
    BY <2>5, Zenon DEF SameRefs
  <2> QED
    BY <1>1, <1>2, <1>6, <2>1, <2>2, <2>4, <2>6, <2>7, MovesOn, Zenon
<1> QED
  BY <1>9, <1>10, Zenon DEF CreateLookup, loaded

LEMMA CreateAllocKeeps == ASSUME IInv, NEW p \in Process, CreateAlloc(p) PROVE IInv'
<1> DEFINE r == thread[p]
           e == r.dp
           i == Min(FreeInums)
           s == <<Put(e)>>
<1>1. At(p, "create_alloc") /\ UNCHANGED <<ftable, ofile, cwd, dirs, durable>>
  BY DEF CreateAlloc, files
<1>2. /\ r \in Thread /\ thread \in [Process -> Thread] /\ r.at = "create_alloc" /\ r.todo = << >>
      /\ GoodCall(r) /\ r.at \notin {"absent", "exiting"} /\ cwd[p] \in Entry
      /\ dirs \in Dirs /\ durable.dirs \in Dirs
  <2>1. "create_alloc" \notin {"absent", "exiting"}
    OBVIOUS
  <2> QED
    BY <1>1, <2>1, Under, Zenon
<1>3. r.at \notin HoldsIp /\ HoldsDp(r)
  BY <1>2 DEF HoldsIp, LocksIp, HoldsDp
<1>4. e \in Entry /\ dirs' \in Dirs /\ durable'.dirs \in Dirs
  BY <1>1, <1>2, <1>3, Zenon DEF GoodCall
<1>5. OpenTodo(s) /\ \A x : TodoRefs(s, x) = Same(e, x)
  BY <1>4, TodoPut, Zenon
<1>6. r.path # << >> /\ \A x \in Entry : itable[x].ref \in Nat
  <2>1. r.at \in Naming
    BY <1>2 DEF Naming
  <2> QED
    BY <1>2, <2>1, Zenon DEF GoodCall, IInv, TableInv
<1>7. CASE itable' = Unlock(itable, e) /\ thread' = Returns(p, s)
  <2>1. SameRefs(itable, itable')
    BY <1>7, UnlockKeeps, Zenon DEF IInv
  <2> HIDE DEF s
  <2>2. ASSUME NEW x \in Entry
        PROVE  itable'[x].ref + IpRef(r, x) + DpRef(r, x) = itable[x].ref + TodoRefs(s, x)
    <3>1. IpRef(r, x) = 0 /\ DpRef(r, x) = Same(e, x) /\ TodoRefs(s, x) = Same(e, x)
      BY <1>3, <1>5, PointsAt, Zenon
    <3>2. itable'[x].ref = itable[x].ref /\ itable[x].ref \in Nat
      BY <1>6, <2>1, Zenon DEF SameRefs
    <3>3. Same(e, x) \in Nat
      BY DEF Same
    <3> HIDE DEF r, e
    <3> QED
      BY <3>1, <3>2, <3>3
  <2> QED
    BY <1>1, <1>2, <1>4, <1>5, <1>7, <2>1, <2>2, Ends, Zenon DEF SameRefs
<1>8. CASE /\ FreeInums # {} /\ HasRoom(itable, i) /\ itable' = Taken(itable, i)
           /\ thread' = [thread EXCEPT ![p].at = "create_fill", ![p].ip = Iget(itable, i)]
  <2> DEFINE n == Iget(itable, i)
             t == [thread[p] EXCEPT !.at = "create_fill", !.ip = n]
  <2>1. i \in Inum
    <3>1. FreeInums \in SUBSET Nat /\ FreeInums \in SUBSET Inum
      BY Sizes DEF FreeInums, Inum
    <3> QED
      BY <1>8, <3>1, LeastIsIn, Zenon
  <2>2. /\ n \in Entry /\ TableInv(itable')
        /\ \A x \in Entry : itable'[x].ref = itable[x].ref + Same(n, x)
    <3>1. SameRefs(itable, itable)
      BY SameSame, Zenon DEF IInv
    <3> HIDE DEF i
    <3> QED
      BY <1>8, <2>1, <3>1, TakenFrom
  <2>3. thread' = [thread EXCEPT ![p] = t]
    BY <1>8
  <2> HIDE DEF n, i
  <2>4. t \in Thread /\ t.at = "create_fill" /\ t.todo = << >> /\ t.ip = n /\ t.dp = e /\ t.path = r.path
    <3>1. "create_fill" \in Places
      BY DEF Places
    <3> QED
      BY <1>2, <2>2, <3>1 DEF Thread
  <2> HIDE DEF t
  <2>5. t.at \in HoldsIp /\ HoldsDp(t)
    BY <2>4 DEF HoldsIp, LocksIp, HoldsDp
  <2>6. GoodCall(t)
    <3>1. t.at # "walk" /\ t.at # "linkto" /\ t.at \notin {"absent", "exiting"}
      BY <2>4
    <3> QED
      BY <1>4, <1>6, <2>2, <2>4, <2>5, <3>1, TodoNone, Zenon DEF GoodCall
  <2>7. ASSUME NEW x \in Entry
        PROVE  itable'[x].ref + IpRef(r, x) + DpRef(r, x)
                 = itable[x].ref + IpRef(t, x) + DpRef(t, x) + TodoRefs(t.todo, x)
    <3>1. /\ IpRef(r, x) = 0 /\ IpRef(t, x) = Same(n, x) /\ TodoRefs(t.todo, x) = 0
          /\ DpRef(r, x) = Same(e, x) /\ DpRef(t, x) = Same(e, x)
      BY <1>3, <2>4, <2>5, PointsAt, NothingToDo, Zenon
    <3>2. itable'[x].ref = itable[x].ref + Same(n, x) /\ itable[x].ref \in Nat
      BY <1>6, <2>2, Zenon
    <3>3. Same(n, x) \in Nat /\ Same(e, x) \in Nat
      BY DEF Same
    <3> HIDE DEF r, e
    <3> QED
      BY <3>1, <3>2, <3>3
  <2> QED
    BY <1>1, <1>2, <1>4, <2>2, <2>3, <2>4, <2>6, <2>7, MovesOn, Zenon
<1> QED
  BY <1>7, <1>8, Zenon DEF CreateAlloc

(* The state of a directory that gets entries.                             *)
IsLinking(s) ==
  s = [used |-> s.used, node |-> s.node, dir |-> s.dir, ok |-> s.ok] /\ s.dir \in Seq(Slot)

LEMMA Linked ==
  ASSUME NEW s, IsLinking(s), NEW name \in Names, NEW inum \in Inum
  PROVE  IsLinking(Dirlink(s, name, inum))
<1> DEFINE i == DirSlot(s.dir)
           w == Writei(s, i - 1, (i - 1) \div DPB)
           entry == [name |-> name, inum |-> inum]
           S == EmptySlots(s.dir)
           linked == IF i > Len(s.dir) THEN Append(s.dir, entry) ELSE [s.dir EXCEPT ![i] = entry]
<1>1. s.dir \in Seq(Slot) /\ entry \in Slot
  BY DEF IsLinking, Slot
<1>2. i = Len(s.dir) + 1 \/ i \in 1..Len(s.dir)
  <2>1. S \in SUBSET Nat /\ S \in SUBSET (1..Len(s.dir))
    BY DEF EmptySlots
  <2>2. S # {} => Min(S) \in S
    BY <2>1, LeastIsIn, Zenon
  <2> QED
    BY <2>1, <2>2, Zenon DEF DirSlot
<1> HIDE DEF i, entry
<1>3. linked \in Seq(Slot)
  <2>1. Append(s.dir, entry) \in Seq(Slot)
    <3> HIDE DEF Slot
    <3> QED
      BY <1>1
  <2>2. CASE i = Len(s.dir) + 1
    BY <1>1, <2>1, <2>2
  <2>3. CASE i \in 1..Len(s.dir)
    <3>1. [s.dir EXCEPT ![i] = entry] \in Seq(Slot)
      BY <1>1, <2>3, ExceptSeq, Zenon
    <3> QED
      BY <2>1, <3>1, Zenon
  <2> QED
    BY <1>2, <2>2, <2>3, Zenon
<1>4. CASE ~ s.ok \/ Dirlookup(s.dir, name) # 0
  <2>1. Dirlink(s, name, inum) = [s EXCEPT !.ok = FALSE]
    BY <1>4, Zenon DEF Dirlink
  <2> QED
    BY <2>1 DEF IsLinking
<1>5. CASE ~ (~ s.ok \/ Dirlookup(s.dir, name) # 0)
  <2> DEFINE result == [used |-> w.used, node |-> w.node, ok |-> w.ok,
                        dir |-> IF ~ w.ok THEN s.dir ELSE linked]
  <2>1. Dirlink(s, name, inum) = result
    BY <1>5, Zenon DEF Dirlink, i, entry
  <2> HIDE DEF w, linked
  <2>2. result.dir \in Seq(Slot)
    BY <1>1, <1>3
  <2>3. result = [used |-> result.used, node |-> result.node, dir |-> result.dir, ok |-> result.ok]
    OBVIOUS
  <2> HIDE DEF result
  <2> QED
    BY <2>1, <2>2, <2>3, Zenon DEF IsLinking
<1> QED
  BY <1>4, <1>5, Zenon

LEMMA ThenLoaded ==
  ASSUME NEW t, NEW u, SameRefs(t, u), NEW e, NEW node
  PROVE  SameRefs(t, Loaded(u, e, node))
<1>1. TableInv(u)
  BY Zenon DEF SameRefs
<1> QED
  BY <1>1, LoadedKeeps, SameRefsTwice, Zenon

LEMMA ThenLock ==
  ASSUME NEW t, NEW u, SameRefs(t, u), NEW e, NEW p
  PROVE  SameRefs(t, Lock(u, e, p)) /\ SameRefs(t, Unlock(u, e))
<1>1. TableInv(u)
  BY Zenon DEF SameRefs
<1> QED
  BY <1>1, LockKeeps, UnlockKeeps, SameRefsTwice, Zenon

LEMMA NameIs ==
  ASSUME NEW p, thread[p] \in Thread, thread[p].path # << >>
  PROVE  NameOf(p) \in Names
<1>1. thread[p].path \in Seq(Names)
  BY DEF Thread, Path
<1> QED
  BY <1>1 DEF NameOf, Last

LEMMA DirsChanged ==
  ASSUME NEW ds \in Dirs, NEW i, NEW d \in Seq(Slot)
  PROVE  [ds EXCEPT ![i] = d] \in Dirs
<1> HIDE DEF Slot
<1> QED
  BY DEF Dirs

(* The call gives back both inodes.                                        *)
LEMMA EndsWithBoth ==
  ASSUME IInv, NEW p \in Process, UNCHANGED <<ftable, ofile, cwd>>,
         thread[p].at \in HoldsIp, HoldsDp(thread[p]), thread[p].todo = << >>,
         NEW a, NEW b, {a, b} = {thread[p].ip, thread[p].dp},
         thread' = Returns(p, <<Put(a), Release(b), Put(b)>>) \/ thread' = Returns(p, <<Put(a), Put(b)>>),
         dirs' \in Dirs, durable'.dirs \in Dirs, SameRefs(itable, itable')
  PROVE  IInv'
<1> DEFINE r == thread[p]
<1>1. r.ip \in Entry /\ r.dp \in Entry /\ r.at \notin {"absent", "exiting"}
  <2>1. r.at \notin {"absent", "exiting"}
    BY DEF HoldsIp, LocksIp
  <2> QED
    BY <2>1, Typed, Zenon DEF ThreadInv
<1>2. (a = r.ip /\ b = r.dp) \/ (a = r.dp /\ b = r.ip)
  BY Zenon
<1>3. a \in Entry /\ b \in Entry
  BY <1>1, <1>2, Zenon
<1>4. ASSUME NEW s, thread' = Returns(p, s), OpenTodo(s),
             \A x : TodoRefs(s, x) = Same(a, x) + Same(b, x)
      PROVE  IInv'
  <2>1. ASSUME NEW x \in Entry
        PROVE  itable'[x].ref + IpRef(r, x) + DpRef(r, x) = itable[x].ref + TodoRefs(s, x)
    <3>1. IpRef(r, x) = Same(r.ip, x) /\ DpRef(r, x) = Same(r.dp, x)
      BY PointsAt, Zenon
    <3>2. itable'[x].ref = itable[x].ref /\ itable[x].ref \in Nat
      BY Zenon DEF SameRefs, IInv, TableInv
    <3>3. Same(a, x) \in Nat /\ Same(b, x) \in Nat
      BY DEF Same
    <3>4. TodoRefs(s, x) = Same(a, x) + Same(b, x)
      BY <1>4, Zenon
    <3> HIDE DEF r
    <3>5. CASE a = r.ip /\ b = r.dp
      BY <3>1, <3>2, <3>3, <3>4, <3>5
    <3>6. CASE a = r.dp /\ b = r.ip
      BY <3>1, <3>2, <3>3, <3>4, <3>6
    <3> QED
      BY <1>2, <3>5, <3>6, Zenon
  <2> QED
    BY <1>1, <1>4, <2>1, Ends, Zenon DEF SameRefs
<1>5. /\ OpenTodo(<<Put(a), Release(b), Put(b)>>)
      /\ \A x : TodoRefs(<<Put(a), Release(b), Put(b)>>, x) = Same(a, x) + Same(b, x)
      /\ OpenTodo(<<Put(a), Put(b)>>)
      /\ \A x : TodoRefs(<<Put(a), Put(b)>>, x) = Same(a, x) + Same(b, x)
  BY <1>3, TodoTwoPuts, TodoPutReleasePut, Zenon
<1> QED
  BY <1>4, <1>5, Zenon

(* Two inodes were held, one is put and the other is the call's still.     *)
LEMMA KeepsIp ==
  ASSUME IInv, NEW p \in Process, UNCHANGED <<ftable, ofile, cwd>>,
         thread[p].at \in HoldsIp, HoldsDp(thread[p]), thread[p].todo = << >>,
         NEW l \in {"open_made", "unlink_drop"},
         thread' = [thread EXCEPT ![p].at = l, ![p].todo = <<Put(thread[p].dp)>>,
                                  ![p].dp = NoEntry],
         dirs' \in Dirs, durable'.dirs \in Dirs, SameRefs(itable, itable')
  PROVE  IInv'
<1> DEFINE r == thread[p]
           e == r.dp
           s == <<Put(e)>>
           t == [thread[p] EXCEPT !.at = l, !.todo = s, !.dp = NoEntry]
<1>1. r.ip \in Entry /\ e \in Entry /\ r.at \notin {"absent", "exiting"}
  <2>1. r.at \notin {"absent", "exiting"}
    BY DEF HoldsIp, LocksIp
  <2> QED
    BY <2>1, Typed, Zenon DEF ThreadInv
<1>2. r \in Thread /\ thread \in [Process -> Thread]
  BY Typed, Zenon
<1>3. GoodTodo(s) /\ s \in Seq(Item) /\ \A x : TodoRefs(s, x) = Same(e, x)
  BY <1>1, TodoPut, TodoEnds, Zenon DEF OpenTodo
<1>4. thread' = [thread EXCEPT ![p] = t]
  OBVIOUS
<1> HIDE DEF s
<1>5. t \in Thread /\ t.at = l /\ t.todo = s /\ t.ip = r.ip
  <2>1. l \in Places
    BY DEF Places
  <2> QED
    BY <1>2, <1>3, <2>1 DEF Thread
<1> HIDE DEF t
<1>6. t.at \in HoldsIp /\ ~ HoldsDp(t)
  BY <1>5 DEF HoldsIp, HoldsDp
<1>7. GoodCall(t)
  <2>1. t.at # "walk" /\ t.at # "linkto" /\ t.at \notin Naming /\ t.at \notin {"absent", "exiting"}
    BY <1>5 DEF Naming
  <2> QED
    BY <1>1, <1>3, <1>5, <1>6, <2>1, Zenon DEF GoodCall
<1>8. ASSUME NEW x \in Entry
      PROVE  itable'[x].ref + IpRef(r, x) + DpRef(r, x)
               = itable[x].ref + IpRef(t, x) + DpRef(t, x) + TodoRefs(t.todo, x)
  <2>1. /\ IpRef(r, x) = Same(r.ip, x) /\ IpRef(t, x) = Same(r.ip, x) /\ TodoRefs(t.todo, x) = Same(e, x)
        /\ DpRef(r, x) = Same(e, x) /\ DpRef(t, x) = 0
    BY <1>3, <1>5, <1>6, PointsAt, Zenon
  <2>2. itable'[x].ref = itable[x].ref /\ itable[x].ref \in Nat
    BY Zenon DEF SameRefs, IInv, TableInv
  <2>3. Same(r.ip, x) \in Nat /\ Same(e, x) \in Nat
    BY DEF Same
  <2> HIDE DEF r, e
  <2> QED
    BY <2>1, <2>2, <2>3
<1>9. TableInv(itable')
  BY Zenon DEF SameRefs
<1> QED
  BY <1>1, <1>4, <1>5, <1>7, <1>8, <1>9, MovesOn, Zenon

LEMMA CreateFillKeeps == ASSUME IInv, NEW p \in Process, CreateFill(p) PROVE IInv'
<1> DEFINE r == thread[p]
           ip == r.ip
           dp == r.dp
           i == itable[ip].inum
           d == itable[dp].inum
           new == NewDir(p)
           parent == InParent(p, new)
           node == [new.node EXCEPT !.nlink = IF parent.ok THEN 1 ELSE 0]
           above == IF parent.ok THEN LinkFromChild(p, parent.node) ELSE parent.node
           t == Lock(Loaded(Loaded(itable, ip, node), dp, above), ip, p)
<1>1. At(p, "create_fill") /\ UNCHANGED <<ftable, ofile, cwd, durable>>
  BY DEF CreateFill, files
<1>2. /\ r \in Thread /\ thread \in [Process -> Thread] /\ r.at = "create_fill" /\ r.todo = << >>
      /\ GoodCall(r) /\ r.at \notin {"absent", "exiting"} /\ cwd[p] \in Entry
      /\ dirs \in Dirs /\ durable.dirs \in Dirs
  <2>1. "create_fill" \notin {"absent", "exiting"}
    OBVIOUS
  <2> QED
    BY <1>1, <2>1, Under, Zenon
<1>3. r.at \in HoldsIp /\ HoldsDp(r)
  BY <1>2 DEF HoldsIp, LocksIp, HoldsDp
<1>4. NameOf(p) \in Names
  <2>1. r.path # << >>
    <3>1. r.at \in Naming
      BY <1>2 DEF Naming
    <3> QED
      BY <1>2, <3>1, Zenon DEF GoodCall
  <2> QED
    BY <1>2, <2>1, NameIs, Zenon
<1>5. i \in Inum /\ d \in Inum /\ dirs[d] \in Seq(Slot)
  BY <1>2, <1>3, IpIsThere, DpIsThere, Zenon
<1>6. IsLinking(new)
  <2> DEFINE start == [used |-> used, dir |-> << >>, ok |-> TRUE,
                       node |-> [Node(ip) EXCEPT !.nlink = 1]]
  <2>1. IsLinking(start)
    <3>1. << >> \in Seq(Slot)
      OBVIOUS
    <3> HIDE DEF Slot
    <3> QED
      BY <3>1 DEF IsLinking
  <2>2. "." \in Names /\ ".." \in Names
    BY DEF Names
  <2>3. new = start \/ new = Dirlink(Dirlink(start, ".", i), "..", d)
    BY Zenon DEF NewDir
  <2> HIDE DEF start, i, d, new
  <2>4. IsLinking(Dirlink(start, ".", i))
    BY <1>5, <2>1, <2>2, Linked, Zenon
  <2>5. IsLinking(Dirlink(Dirlink(start, ".", i), "..", d))
    BY <1>5, <2>2, <2>4, Linked, Zenon
  <2> QED
    BY <2>1, <2>3, <2>5, Zenon
<1>7. IsLinking(parent)
  <2> DEFINE start == [used |-> new.used, node |-> itable[dp].node, dir |-> dirs[d], ok |-> new.ok]
  <2>1. IsLinking(start)
    BY <1>5 DEF IsLinking
  <2>2. parent = Dirlink(start, NameOf(p), i)
    BY Zenon DEF InParent
  <2> HIDE DEF start, i, d, new, parent
  <2> QED
    BY <1>4, <1>5, <2>1, <2>2, Linked, Zenon
<1>8. dirs' \in Dirs
  <2>1. dirs' = [dirs EXCEPT ![i] = new.dir, ![d] = parent.dir]
    BY Zenon DEF CreateFill
  <2>2. new.dir \in Seq(Slot) /\ parent.dir \in Seq(Slot)
    BY <1>6, <1>7, Zenon DEF IsLinking
  <2> HIDE DEF i, d, new, parent
  <2>3. [dirs EXCEPT ![i] = new.dir] \in Dirs
    BY <1>2, <2>2, DirsChanged, Zenon
  <2>4. [[dirs EXCEPT ![i] = new.dir] EXCEPT ![d] = parent.dir] \in Dirs
    BY <2>2, <2>3, DirsChanged, Zenon
  <2> QED
    BY <2>1, <2>4, Zenon
<1>9. SameRefs(itable, t)
  <2> HIDE DEF node, above
  <2>1. SameRefs(itable, Loaded(itable, ip, node))
    BY LoadedKeeps, Zenon DEF IInv
  <2>2. SameRefs(itable, Loaded(Loaded(itable, ip, node), dp, above))
    BY <2>1, ThenLoaded, Zenon
  <2> QED
    BY <2>2, ThenLock, Zenon
<1>10. SameRefs(itable, Unlock(t, dp)) /\ SameRefs(itable, Unlock(t, ip))
  <2> HIDE DEF t
  <2> QED
    BY <1>9, ThenLock, Zenon
<1>11. /\ itable' = Unlock(t, dp) \/ itable' = Unlock(t, ip)
       /\ \/ thread' = [thread EXCEPT ![p].at = "open_made", ![p].todo = <<Put(dp)>>,
                                      ![p].dp = NoEntry]
          \/ thread' = Returns(p, <<Put(dp), Release(ip), Put(ip)>>)
          \/ thread' = Returns(p, <<Put(ip), Release(dp), Put(dp)>>)
  BY Zenon DEF CreateFill
<1>12. SameRefs(itable, itable')
  BY <1>10, <1>11, Zenon
<1>13. UNCHANGED <<ftable, ofile, cwd>> /\ durable'.dirs \in Dirs
  BY <1>1, <1>2, Zenon
<1> HIDE DEF t, node, above, new, parent, i, d
<1>14. CASE thread' = [thread EXCEPT ![p].at = "open_made", ![p].todo = <<Put(dp)>>,
                                     ![p].dp = NoEntry]
  <2>1. "open_made" \in {"open_made", "unlink_drop"}
    OBVIOUS
  <2> QED
    BY <1>2, <1>3, <1>8, <1>12, <1>13, <1>14, <2>1, KeepsIp, Zenon
<1>15. CASE thread' = Returns(p, <<Put(dp), Release(ip), Put(ip)>>)
  <2>1. {dp, ip} = {r.ip, r.dp}
    BY Zenon
  <2> QED
    BY <1>2, <1>3, <1>8, <1>12, <1>13, <1>15, <2>1, EndsWithBoth, Zenon
<1>16. CASE thread' = Returns(p, <<Put(ip), Release(dp), Put(dp)>>)
  BY <1>2, <1>3, <1>8, <1>12, <1>13, <1>16, EndsWithBoth, Zenon
<1> QED
  BY <1>11, <1>14, <1>15, <1>16, Zenon

-----------------------------------------------------------------------------
(* unlink                                                                  *)

LEMMA UnlinkLookupKeeps == ASSUME IInv, NEW p \in Process, UnlinkLookup(p) PROVE IInv'
<1> DEFINE r == thread[p]
           e == r.ip
           d == dirs[itable[e].inum]
           i == Dirlookup(d, NameOf(p))
           loaded == Loaded(itable, e, Node(e))
<1>1. At(p, "unlink") /\ UNCHANGED <<ftable, ofile, cwd, dirs, durable>>
  BY DEF UnlinkLookup, disk, files
<1>2. /\ r \in Thread /\ thread \in [Process -> Thread] /\ r.at = "unlink" /\ r.todo = << >>
      /\ GoodCall(r) /\ r.at \notin {"absent", "exiting"} /\ cwd[p] \in Entry
      /\ dirs \in Dirs /\ durable.dirs \in Dirs
  <2>1. "unlink" \notin {"absent", "exiting"}
    OBVIOUS
  <2> QED
    BY <1>1, <2>1, Under, Zenon
<1>3. SameRefs(itable, loaded)
  BY LoadedKeeps, Zenon DEF IInv
<1>4. r.at \in HoldsIp /\ ~ HoldsDp(r)
  BY <1>2 DEF HoldsIp, LocksIp, HoldsDp
<1>5. e \in Entry /\ d \in Seq(Slot) /\ \A x \in Entry : itable[x].ref \in Nat
  BY <1>2, <1>4, IpIsThere, Zenon DEF IInv, TableInv
<1>6. /\ dirs' \in Dirs /\ durable'.dirs \in Dirs
      /\ \A j \in Inum : HasRoom(loaded, j) =>
                         /\ Iget(loaded, j) \in Entry /\ TableInv(Taken(loaded, j))
                         /\ \A x \in Entry :
                              Taken(loaded, j)[x].ref = itable[x].ref + Same(Iget(loaded, j), x)
  <2> HIDE DEF loaded
  <2>1. \A j \in Inum : HasRoom(loaded, j) =>
                         /\ Iget(loaded, j) \in Entry /\ TableInv(Taken(loaded, j))
                         /\ \A x \in Entry :
                              Taken(loaded, j)[x].ref = itable[x].ref + Same(Iget(loaded, j), x)
    BY <1>3, TakenFrom
  <2> QED
    BY <1>1, <1>2, <2>1, Zenon
<1> HIDE DEF loaded
<1>7. CASE itable' = loaded /\ thread' = Returns(p, <<Put(e)>>)
  <2>1. "unlink" \in GivingUp
    BY DEF GivingUp
  <2> QED
    BY <1>1, <1>3, <1>7, <2>1, GivesUp, Zenon
<1>8. CASE /\ i # 0 /\ HasRoom(loaded, d[i].inum)
           /\ itable' = Lock(Taken(loaded, d[i].inum), e, p)
           /\ thread' = [thread EXCEPT ![p].at = "unlink_erase", ![p].dp = e,
                                       ![p].ip = Iget(loaded, d[i].inum)]
  <2> DEFINE n == Iget(loaded, d[i].inum)
             u == Taken(loaded, d[i].inum)
             t == [thread[p] EXCEPT !.at = "unlink_erase", !.dp = e, !.ip = n]
  <2>1. d[i].inum \in Inum
    BY <1>5, <1>8, LookupFinds, Zenon
  <2>2. /\ n \in Entry /\ TableInv(u)
        /\ \A x \in Entry : u[x].ref = itable[x].ref + Same(n, x)
    <3>1. HasRoom(loaded, d[i].inum)
      BY <1>8, Zenon
    <3> HIDE DEF i, d
    <3> QED
      BY <1>6, <2>1, <3>1, Zenon
  <2>3. thread' = [thread EXCEPT ![p] = t] /\ itable' = Lock(u, e, p)
    BY <1>8
  <2> HIDE DEF n, i, d, u
  <2>4. TableInv(itable') /\ \A x \in Entry : itable'[x].ref = itable[x].ref + Same(n, x)
    <3>1. SameRefs(u, itable')
      BY <2>2, <2>3, LockKeeps, Zenon
    <3> QED
      BY <2>2, <3>1, Zenon DEF SameRefs
  <2>5. t \in Thread /\ t.at = "unlink_erase" /\ t.todo = << >> /\ t.ip = n /\ t.dp = e
    <3>1. "unlink_erase" \in Places
      BY DEF Places
    <3> QED
      BY <1>2, <1>5, <2>2, <3>1 DEF Thread
  <2> HIDE DEF t
  <2>6. t.at \in HoldsIp /\ HoldsDp(t)
    BY <2>5 DEF HoldsIp, LocksIp, HoldsDp
  <2>7. GoodCall(t)
    <3>1. t.at # "walk" /\ t.at # "linkto" /\ t.at \notin Naming /\ t.at \notin {"absent", "exiting"}
      BY <2>5 DEF Naming
    <3> QED
      BY <1>5, <2>2, <2>5, <2>6, <3>1, TodoNone, Zenon DEF GoodCall
  <2>8. ASSUME NEW x \in Entry
        PROVE  itable'[x].ref + IpRef(r, x) + DpRef(r, x)
                 = itable[x].ref + IpRef(t, x) + DpRef(t, x) + TodoRefs(t.todo, x)
    <3>1. /\ IpRef(r, x) = Same(e, x) /\ IpRef(t, x) = Same(n, x) /\ TodoRefs(t.todo, x) = 0
          /\ DpRef(r, x) = 0 /\ DpRef(t, x) = Same(e, x)
      BY <1>4, <2>5, <2>6, PointsAt, NothingToDo, Zenon
    <3>2. itable'[x].ref = itable[x].ref + Same(n, x) /\ itable[x].ref \in Nat
      BY <1>5, <2>4, Zenon
    <3>3. Same(n, x) \in Nat /\ Same(e, x) \in Nat
      BY DEF Same
    <3> HIDE DEF r, e
    <3> QED
      BY <3>1, <3>2, <3>3
  <2> QED
    BY <1>1, <1>2, <1>6, <2>3, <2>4, <2>5, <2>7, <2>8, MovesOn, Zenon
<1> QED
  BY <1>7, <1>8, Zenon DEF UnlinkLookup, loaded

LEMMA UnlinkEraseKeeps == ASSUME IInv, NEW p \in Process, UnlinkErase(p) PROVE IInv'
<1> DEFINE r == thread[p]
           ip == r.ip
           dp == r.dp
           d == itable[dp].inum
           node == Node(ip)
           above == IF node.type = "dir" THEN [itable[dp].node EXCEPT !.nlink = @ - 1]
                    ELSE itable[dp].node
           t == Loaded(itable, ip, node)
<1>1. At(p, "unlink_erase") /\ UNCHANGED <<ftable, ofile, cwd, durable>>
  BY DEF UnlinkErase, files
<1>2. /\ r \in Thread /\ thread \in [Process -> Thread] /\ r.at = "unlink_erase" /\ r.todo = << >>
      /\ GoodCall(r) /\ dirs \in Dirs /\ durable.dirs \in Dirs
  <2>1. "unlink_erase" \notin {"absent", "exiting"}
    OBVIOUS
  <2> QED
    BY <1>1, <2>1, Under, Zenon
<1>3. r.at \in HoldsIp /\ HoldsDp(r)
  BY <1>2 DEF HoldsIp, LocksIp, HoldsDp
<1>4. dirs[d] \in Seq(Slot)
  BY <1>2, <1>3, DpIsThere, Zenon
<1>5. SameRefs(itable, t)
  BY LoadedKeeps, Zenon DEF IInv
<1>6. UNCHANGED <<ftable, ofile, cwd>> /\ durable'.dirs \in Dirs
  BY <1>1, <1>2, Zenon
<1>7. CASE /\ itable' = t /\ thread' = Returns(p, <<Put(ip), Release(dp), Put(dp)>>)
           /\ UNCHANGED dirs
  <2>1. dirs' \in Dirs
    BY <1>2, <1>7, Zenon
  <2> HIDE DEF t
  <2> QED
    BY <1>2, <1>3, <1>5, <1>6, <1>7, <2>1, EndsWithBoth, Zenon
<1>8. CASE /\ dirs' = [dirs EXCEPT ![d][Dirlookup(dirs[d], NameOf(p))] = EmptySlot]
           /\ itable' = Lock(Unlock(Loaded(t, dp, above), dp), ip, p)
           /\ thread' = [thread EXCEPT ![p].at = "unlink_drop", ![p].todo = <<Put(dp)>>,
                                       ![p].dp = NoEntry]
  <2>1. dirs' \in Dirs
    <3> DEFINE i == Dirlookup(dirs[d], NameOf(p))
               new == [dirs[d] EXCEPT ![i] = EmptySlot]
    <3>1. EmptySlot \in Slot
      BY DEF EmptySlot, Slot
    <3>2. new \in Seq(Slot)
      <4> HIDE DEF d, i, Slot
      <4>1. DOMAIN new = DOMAIN dirs[d] /\ \A k \in DOMAIN new : new[k] \in Slot
        BY <1>4, <3>1
      <4>2. CASE i \in 1..Len(dirs[d])
        BY <1>4, <3>1, <4>2, ExceptSeq, Zenon
      <4>3. CASE i \notin 1..Len(dirs[d])
        <5>1. new = dirs[d]
          BY <1>4, <4>3
        <5> QED
          BY <1>4, <5>1, Zenon
      <4> QED
        BY <4>2, <4>3, Zenon
    <3>3. dirs' = [dirs EXCEPT ![d] = new]
      BY <1>8
    <3> HIDE DEF new, d
    <3> QED
      BY <1>2, <3>2, <3>3, DirsChanged, Zenon
  <2>2. SameRefs(itable, itable')
    <3> HIDE DEF t, above
    <3>1. SameRefs(itable, Loaded(t, dp, above))
      BY <1>5, ThenLoaded, Zenon
    <3>2. SameRefs(itable, Unlock(Loaded(t, dp, above), dp))
      BY <3>1, ThenLock, Zenon
    <3>3. SameRefs(itable, Lock(Unlock(Loaded(t, dp, above), dp), ip, p))
      BY <3>2, ThenLock, Zenon
    <3> QED
      BY <1>8, <3>3, Zenon
  <2>3. "unlink_drop" \in {"open_made", "unlink_drop"}
    OBVIOUS
  <2> HIDE DEF t, above, d, node
  <2> QED
    BY <1>2, <1>3, <1>6, <1>8, <2>1, <2>2, <2>3, KeepsIp, Zenon
<1> QED
  BY <1>7, <1>8, Zenon DEF UnlinkErase

LEMMA UnlinkDropKeeps == ASSUME IInv, NEW p \in Process, UnlinkDrop(p) PROVE IInv'
<1> DEFINE e == thread[p].ip
           node == [itable[e].node EXCEPT !.nlink = @ - 1]
<1>1. /\ At(p, "unlink_drop") /\ UNCHANGED <<ftable, ofile, cwd, dirs, durable>>
      /\ itable' = Unlock(Loaded(itable, e, node), e) /\ thread' = Returns(p, <<Put(e)>>)
  BY DEF UnlinkDrop, files
<1>2. SameRefs(itable, itable')
  <2> HIDE DEF node
  <2>1. SameRefs(itable, Loaded(itable, e, node))
    BY LoadedKeeps, Zenon DEF IInv
  <2> QED
    BY <1>1, <2>1, ThenLock, Zenon
<1>3. "unlink_drop" \in GivingUp
  BY DEF GivingUp
<1> QED
  BY <1>1, <1>2, <1>3, GivesUp, Zenon

-----------------------------------------------------------------------------
(* link                                                                    *)

LEMMA LinkCountKeeps == ASSUME IInv, NEW p \in Process, LinkCount(p) PROVE IInv'
<1> DEFINE r == thread[p]
           e == r.ip
           node == Node(e)
           loaded == Loaded(itable, e, CountedFirst(node))
           w == WalkFrom(loaded, p, r.new)
           t == [thread[p] EXCEPT !.at = "walk", !.call = "linkto", !.dp = e,
                                  !.path = r.new.elems, !.new = NoPath, !.ip = w.e]
<1>1. At(p, "link") /\ UNCHANGED <<ftable, ofile, cwd, dirs, durable>>
  BY DEF LinkCount, files
<1>2. /\ r \in Thread /\ thread \in [Process -> Thread] /\ r.at = "link" /\ r.todo = << >>
      /\ GoodCall(r) /\ r.at \notin {"absent", "exiting"} /\ cwd[p] \in Entry
      /\ dirs \in Dirs /\ durable.dirs \in Dirs
  <2>1. "link" \notin {"absent", "exiting"}
    OBVIOUS
  <2> QED
    BY <1>1, <2>1, Under, Zenon
<1>3. SameRefs(itable, loaded)
  BY LoadedKeeps, Zenon DEF IInv
<1>4. r.at \in HoldsIp /\ ~ HoldsDp(r)
  BY <1>2 DEF HoldsIp, LocksIp, HoldsDp
<1>5. e \in Entry /\ \A x \in Entry : itable[x].ref \in Nat
  BY <1>2, <1>4, Zenon DEF GoodCall, IInv, TableInv
<1>6. dirs' \in Dirs /\ durable'.dirs \in Dirs
  BY <1>1, <1>2, Zenon
<1>7. CASE itable' = Loaded(itable, e, node) /\ thread' = Returns(p, <<Put(e)>>)
  <2>1. "link" \in GivingUp
    BY DEF GivingUp
  <2>2. SameRefs(itable, itable')
    BY <1>7, LoadedKeeps, Zenon DEF IInv
  <2> QED
    BY <1>1, <1>7, <2>1, <2>2, GivesUp, Zenon
<1>8. CASE /\ w.ok /\ itable' = w.table
           /\ thread' = [thread EXCEPT ![p].at = "walk", ![p].call = "linkto", ![p].dp = e,
                                       ![p].path = thread[p].new.elems, ![p].new = NoPath,
                                       ![p].ip = w.e]
  <2>1. PICK i : OneMore(loaded, w.table, w.e, i)
    <3>1. TableInv(loaded) /\ \A x \in Entry : loaded[x].ref = itable[x].ref
      BY <1>3, Zenon DEF SameRefs
    <3> HIDE DEF loaded
    <3> QED
      BY <1>2, <1>8, <3>1, WalkBegins, Zenon
  <2>2. thread' = [thread EXCEPT ![p] = t]
    BY <1>8
  <2> HIDE DEF w
  <2>3. w.e \in Entry /\ TableInv(itable')
        /\ \A x \in Entry : itable'[x].ref = itable[x].ref + Same(x, w.e)
    BY <1>3, <1>8, <2>1, Zenon DEF OneMore, SameRefs
  <2>4. t \in Thread /\ t.at = "walk" /\ t.todo = << >> /\ t.ip = w.e /\ t.dp = e /\ t.call = "linkto"
    <3>1. "walk" \in Places /\ "linkto" \in Calls
      BY DEF Places, Calls
    <3>2. r.new \in PathType
      BY <1>2 DEF Thread
    <3>3. r.new.elems \in Path /\ NoPath \in PathType
      BY <3>2 DEF PathType, Path, Names, NoPath
    <3> HIDE DEF r
    <3> HIDE DEF e
    <3> QED
      BY <1>2, <1>5, <2>3, <3>1, <3>3 DEF Thread, r
  <2> HIDE DEF t
  <2>5. t.at \in HoldsIp /\ HoldsDp(t)
    BY <2>4 DEF HoldsIp, LocksIp, HoldsDp
  <2>6. GoodCall(t)
    <3>1. t.at # "linkto" /\ t.at \notin Naming /\ t.at \notin {"absent", "exiting"} /\ t.call # "none"
      BY <2>4 DEF Naming
    <3> QED
      BY <1>5, <2>3, <2>4, <2>5, <3>1, TodoNone, Zenon DEF GoodCall
  <2>7. ASSUME NEW x \in Entry
        PROVE  itable'[x].ref + IpRef(r, x) + DpRef(r, x)
                 = itable[x].ref + IpRef(t, x) + DpRef(t, x) + TodoRefs(t.todo, x)
    <3>1. /\ IpRef(r, x) = Same(e, x) /\ IpRef(t, x) = Same(w.e, x) /\ TodoRefs(t.todo, x) = 0
          /\ DpRef(r, x) = 0 /\ DpRef(t, x) = Same(e, x)
      BY <1>4, <2>4, <2>5, PointsAt, NothingToDo, Zenon
    <3>2. itable'[x].ref = itable[x].ref + Same(x, w.e) /\ itable[x].ref \in Nat
      BY <1>5, <2>3, Zenon
    <3>3. Same(w.e, x) \in Nat /\ Same(e, x) \in Nat /\ Same(x, w.e) = Same(w.e, x)
      BY DEF Same
    <3> HIDE DEF r, e
    <3> QED
      BY <3>1, <3>2, <3>3
  <2> QED
    BY <1>1, <1>2, <1>6, <2>2, <2>3, <2>4, <2>6, <2>7, MovesOn, Zenon
<1> QED
  BY <1>7, <1>8, Zenon DEF LinkCount

LEMMA LinkEnterKeeps == ASSUME IInv, NEW p \in Process, LinkEnter(p) PROVE IInv'
<1> DEFINE r == thread[p]
           e == r.ip
           i == itable[e].inum
           j == itable[r.dp].inum
           start == [used |-> used, node |-> Node(e), dir |-> dirs[i], ok |-> TRUE]
           s == Dirlink(start, NameOf(p), j)
<1>1. At(p, "linkto") /\ UNCHANGED <<ftable, ofile, cwd, durable>>
  BY DEF LinkEnter, files
<1>2. /\ r \in Thread /\ thread \in [Process -> Thread] /\ r.at = "linkto" /\ r.todo = << >>
      /\ GoodCall(r) /\ dirs \in Dirs /\ durable.dirs \in Dirs
  <2>1. "linkto" \notin {"absent", "exiting"}
    OBVIOUS
  <2> QED
    BY <1>1, <2>1, Under, Zenon
<1>3. r.at \in HoldsIp /\ HoldsDp(r)
  <2>1. r.call = "linkto"
    BY <1>2, Zenon DEF GoodCall
  <2> QED
    BY <1>2, <2>1 DEF HoldsIp, LocksIp, HoldsDp
<1>4. NameOf(p) \in Names
  <2>1. r.path # << >>
    <3>1. r.at \in Naming
      BY <1>2 DEF Naming
    <3> QED
      BY <1>2, <3>1, Zenon DEF GoodCall
  <2> QED
    BY <1>2, <2>1, NameIs, Zenon
<1>5. i \in Inum /\ dirs[i] \in Seq(Slot) /\ j \in Inum
  BY <1>2, <1>3, IpIsThere, DpIsThere, Zenon
<1>6. /\ dirs' = [dirs EXCEPT ![i] = s.dir] /\ itable' = Loaded(itable, e, s.node)
      /\ \/ thread' = Returns(p, <<Put(e), Put(r.dp)>>)
         \/ thread' = Fails(p, <<Put(e)>>)
  BY Zenon DEF LinkEnter
<1>7. SameRefs(itable, itable')
  <2> HIDE DEF s
  <2> QED
    BY <1>6, LoadedKeeps, Zenon DEF IInv
<1>8. dirs' \in Dirs
  <2>1. IsLinking(start)
    BY <1>5 DEF IsLinking
  <2> HIDE DEF start, i, j
  <2>2. IsLinking(s)
    BY <1>4, <1>5, <2>1, Linked, Zenon
  <2>3. s.dir \in Seq(Slot)
    BY <2>2, Zenon DEF IsLinking
  <2> HIDE DEF s
  <2> QED
    BY <1>2, <1>6, <2>3, DirsChanged, Zenon
<1>9. UNCHANGED <<ftable, ofile, cwd>> /\ durable'.dirs \in Dirs
  BY <1>1, <1>2, Zenon
<1> HIDE DEF s, start, i, j
<1>10. CASE thread' = Returns(p, <<Put(e), Put(r.dp)>>)
  BY <1>2, <1>3, <1>7, <1>8, <1>9, <1>10, EndsWithBoth, Zenon
<1>11. CASE thread' = Fails(p, <<Put(e)>>)
  BY <1>1, <1>7, <1>8, <1>9, <1>11, FailsKeeps, Zenon
<1> QED
  BY <1>6, <1>10, <1>11, Zenon

LEMMA LinkUndoKeeps == ASSUME IInv, NEW p \in Process, LinkUndo(p) PROVE IInv'
<1> DEFINE r == thread[p]
           e == r.dp
           s == <<Put(e)>>
<1>1. /\ At(p, "link_undo") /\ UNCHANGED <<ftable, ofile, cwd, dirs, durable>>
      /\ \E node : itable' = Loaded(itable, e, node)
      /\ thread' = Returns(p, s)
  BY DEF LinkUndo, files
<1>2. /\ r \in Thread /\ thread \in [Process -> Thread] /\ r.at = "link_undo" /\ r.todo = << >>
      /\ GoodCall(r) /\ r.at \notin {"absent", "exiting"} /\ dirs \in Dirs /\ durable.dirs \in Dirs
  <2>1. "link_undo" \notin {"absent", "exiting"}
    OBVIOUS
  <2> QED
    BY <1>1, <2>1, Under, Zenon
<1>3. r.at \notin HoldsIp /\ HoldsDp(r)
  BY <1>2 DEF HoldsIp, LocksIp, HoldsDp
<1>4. e \in Entry /\ dirs' \in Dirs /\ durable'.dirs \in Dirs
  BY <1>1, <1>2, <1>3, Zenon DEF GoodCall
<1>5. OpenTodo(s) /\ \A x : TodoRefs(s, x) = Same(e, x)
  BY <1>4, TodoPut, Zenon
<1>6. SameRefs(itable, itable')
  BY <1>1, LoadedKeeps, Zenon DEF IInv
<1> HIDE DEF s
<1>7. ASSUME NEW x \in Entry
      PROVE  itable'[x].ref + IpRef(r, x) + DpRef(r, x) = itable[x].ref + TodoRefs(s, x)
  <2>1. IpRef(r, x) = 0 /\ DpRef(r, x) = Same(e, x) /\ TodoRefs(s, x) = Same(e, x)
    BY <1>3, <1>5, PointsAt, Zenon
  <2>2. itable'[x].ref = itable[x].ref /\ itable[x].ref \in Nat
    BY <1>6, Zenon DEF SameRefs, IInv, TableInv
  <2>3. Same(e, x) \in Nat
    BY DEF Same
  <2> HIDE DEF r, e
  <2> QED
    BY <2>1, <2>2, <2>3
<1> QED
  BY <1>1, <1>2, <1>4, <1>5, <1>6, <1>7, Ends, Zenon DEF SameRefs

-----------------------------------------------------------------------------
(* Reads and writes                                                        *)

(* The locals of p change, and what they point to does not.                *)
LEMMA Idles ==
  ASSUME IInv, NEW p \in Process, UNCHANGED <<ftable, ofile, cwd, dirs>>,
         NEW l \in {"user", "write", "reclaim"}, At(p, l),
         NEW t \in Thread, thread' = [thread EXCEPT ![p] = t],
         t.at \in Pointless \ {"absent"}, t.todo = << >>,
         durable'.dirs \in Dirs, SameRefs(itable, itable')
  PROVE  IInv'
<1> DEFINE r == thread[p]
<1>1. l \notin {"absent", "exiting"} /\ l \in Pointless
  BY DEF Pointless
<1>2. /\ r.at = l /\ r.todo = << >> /\ cwd[p] \in Entry /\ dirs \in Dirs
      /\ cwd' = [cwd EXCEPT ![p] = cwd[p]] /\ cwd[p] \in Entry \union {NoEntry}
  BY <1>1, Under, Typed, Zenon
<1>3. t.at \notin HoldsIp /\ ~ HoldsDp(t)
  BY PointsAt
<1>4. ThreadInv(cwd[p], ofile[p], t)
  <2>1. t.at # "walk" /\ t.at # "linkto" /\ t.at \notin Naming /\ t.at # "absent"
    BY DEF Naming, Pointless
  <2> QED
    BY <1>2, <1>3, <2>1, TodoNone, Zenon DEF ThreadInv
<1>5. ASSUME NEW e \in Entry
      PROVE  itable'[e].ref + Own(cwd[p], r, e) = itable[e].ref + Own(cwd[p], t, e)
  <2>1. Own(cwd[p], r, e) = Own(cwd[p], t, e)
    <3>1. IpRef(r, e) = 0 /\ DpRef(r, e) = 0 /\ IpRef(t, e) = 0 /\ DpRef(t, e) = 0
      BY <1>1, <1>2, PointsAt
    <3> QED
      BY <1>2, <3>1, Zenon DEF Own
  <2> QED
    BY <2>1, Zenon DEF SameRefs
<1>6. UNCHANGED <<ftable, ofile>> /\ dirs' \in Dirs /\ TableInv(itable')
  BY <1>2, Zenon DEF SameRefs
<1> QED
  BY <1>2, <1>4, <1>5, <1>6, Steps, Zenon

LEMMA ReadsKeep ==
  ASSUME IInv, NEW p \in Process, At(p, "user"),
         UNCHANGED <<ftable, ofile, cwd, dirs, durable, thread>>, SameRefs(itable, itable')
  PROVE  IInv'
<1>1. thread[p].at = "user" /\ thread[p].todo = << >> /\ "user" \in {"user", "write", "reclaim"}
  BY DEF At
<1>2. thread[p].at \in Pointless \ {"absent"}
  BY <1>1 DEF Pointless
<1>3. /\ thread[p] \in Thread /\ thread' = [thread EXCEPT ![p] = thread[p]]
      /\ durable'.dirs \in Dirs
  <2>1. thread \in [Process -> Thread] /\ thread[p] \in Thread /\ durable.dirs \in Dirs
    BY Typed, Zenon
  <2> QED
    BY <2>1
<1>4. UNCHANGED <<ftable, ofile, cwd, dirs>>
  BY Zenon
<1> QED
  BY <1>1, <1>2, <1>3, <1>4, Idles, Zenon

LEMMA ReadKeeps == ASSUME IInv, NEW p \in Process, NEW fd, Read(p, fd) PROVE IInv'
<1>1. /\ At(p, "user") /\ UNCHANGED <<ftable, ofile, cwd, dirs, durable, thread>>
      /\ \E e, node : itable' = Loaded(itable, e, node)
  BY DEF Read, disk
<1>2. SameRefs(itable, itable')
  BY <1>1, LoadedKeeps, Zenon DEF IInv
<1> QED
  BY <1>1, <1>2, ReadsKeep, Zenon

LEMMA FstatKeeps == ASSUME IInv, NEW p \in Process, NEW fd, Fstat(p, fd) PROVE IInv'
<1>1. /\ At(p, "user") /\ UNCHANGED <<ftable, ofile, cwd, dirs, durable, thread>>
      /\ \E e, node : itable' = Loaded(itable, e, node)
  BY DEF Fstat, disk, files
<1>2. SameRefs(itable, itable')
  BY <1>1, LoadedKeeps, Zenon DEF IInv
<1> QED
  BY <1>1, <1>2, ReadsKeep, Zenon

LEMMA WriteBeginKeeps ==
  ASSUME IInv, NEW p \in Process, NEW fd \in Fd, NEW n \in Nat, WriteBegin(p, fd, n)
  PROVE  IInv'
<1> DEFINE f == ArgFd(p, fd)
           t == [User EXCEPT !.at = "write", !.f = f, !.n = n]
<1>1. /\ At(p, "user") /\ UNCHANGED <<ftable, ofile, cwd, dirs, durable>> /\ itable' = itable
      /\ thread' = [thread EXCEPT ![p] = t]
  BY DEF WriteBegin, disk, files
<1>2. f \in File \union {NoFile}
  BY DEF ArgFd, IInv, TypeInv, FilesTypeOK
<1> HIDE DEF f
<1>3. t \in Thread /\ t.at = "write" /\ t.todo = << >>
  <2>1. User \in Thread /\ User.todo = << >> /\ "write" \in Places
    BY UserThread DEF User, Places
  <2> QED
    BY <1>2, <2>1 DEF Thread
<1> HIDE DEF t
<1>4. t.at \in Pointless \ {"absent"}
  BY <1>3 DEF Pointless
<1>5. SameRefs(itable, itable') /\ durable'.dirs \in Dirs /\ UNCHANGED <<ftable, ofile, cwd, dirs>>
  BY <1>1, SameSame, Typed, Zenon
<1>6. "user" \in {"user", "write", "reclaim"}
  OBVIOUS
<1> QED
  BY <1>1, <1>3, <1>4, <1>5, <1>6, Idles, Zenon

LEMMA UserIsIdle ==
  User \in Thread /\ User.at \in Pointless \ {"absent"} /\ User.todo = << >>
<1>1. User.at = "user" /\ User.todo = << >>
  BY DEF User
<1> HIDE DEF User
<1> QED
  BY <1>1, UserThread DEF Pointless

LEMMA WriteChunkKeeps == ASSUME IInv, NEW p \in Process, WriteChunk(p) PROVE IInv'
<1> DEFINE r == thread[p]
           less == [thread[p] EXCEPT !.n = @ - 1]
<1>1. At(p, "write") /\ UNCHANGED <<ftable, ofile, cwd, dirs>> /\ "write" \in {"user", "write", "reclaim"}
  BY DEF WriteChunk
<1>2. SameRefs(itable, itable')
  <2>1. \E e, node : itable' = Loaded(itable, e, node)
    BY DEF WriteChunk
  <2> QED
    BY <2>1, LoadedKeeps, Zenon DEF IInv
<1>3. durable'.dirs \in Dirs
  <2>1. \E di, us : durable' = IF LastOp(p) THEN [dinode |-> di, dirs |-> dirs, used |-> us]
                               ELSE durable
    BY DEF WriteChunk, Commits
  <2>2. dirs \in Dirs /\ durable.dirs \in Dirs
    BY Typed, Zenon
  <2>3. durable'.dirs = dirs \/ durable' = durable
    BY <2>1
  <2> QED
    BY <2>2, <2>3, Zenon
<1>4. r.at = "write" /\ r.todo = << >> /\ r \in Thread /\ thread \in [Process -> Thread]
  BY <1>1, Typed, Zenon DEF At
<1>5. CASE thread' = [thread EXCEPT ![p] = User]
  BY <1>1, <1>2, <1>3, <1>5, UserIsIdle, Idles, Zenon
<1>6. CASE r.n > 1 /\ thread' = [thread EXCEPT ![p].n = @ - 1]
  <2>1. thread' = [thread EXCEPT ![p] = less]
    BY <1>6
  <2>2. less \in Thread /\ less.at = "write" /\ less.todo = << >>
    <3>1. r.n \in Nat
      BY <1>4 DEF Thread
    <3>2. r.n - 1 \in Nat
      BY <1>6, <3>1
    <3>3. \A m \in Nat : LET u == [r EXCEPT !.n = m] IN
            u \in Thread /\ u.at = r.at /\ u.todo = r.todo
      <4> HIDE DEF r
      <4> QED
        BY <1>4 DEF Thread
    <3> QED
      BY <1>4, <3>2, <3>3, Zenon
  <2> HIDE DEF less
  <2>3. less.at \in Pointless \ {"absent"}
    BY <2>2 DEF Pointless
  <2> QED
    BY <1>1, <1>2, <1>3, <2>1, <2>2, <2>3, Idles, Zenon
<1> QED
  BY <1>5, <1>6, Zenon DEF WriteChunk

-----------------------------------------------------------------------------
(* Closing files                                                           *)

(* A file that a descriptor has is referred to.                            *)
LEMMA FileIsOpen ==
  ASSUME IInv, NEW p \in Process, NEW fd \in Fd, ofile[p][fd] # NoFile
  PROVE  ofile[p][fd] \in File /\ ftable[ofile[p][fd]].ref \in Nat /\ ftable[ofile[p][fd]].ref > 0
         /\ ftable[ofile[p][fd]].obj \in Entry
<1> DEFINE f == ofile[p][fd]
           K == FdsIn(ofile[p], f)
<1>1. f \in File /\ ftable[f].ref \in Nat
  <2>1. f \in File \union {NoFile}
    BY DEF IInv, TypeInv, FilesTypeOK
  <2>2. f \in File
    BY <2>1, Zenon
  <2> HIDE DEF f
  <2> QED
    BY <2>2 DEF IInv, TypeInv, FilesTypeOK
<1>2. fd \in K
  BY DEF FdsIn
<1>3. IsFiniteSet(K)
  <2>1. IsFiniteSet(Fd)
    BY FS_Interval DEF Fd
  <2>2. K \in SUBSET Fd
    BY DEF FdsIn
  <2> HIDE DEF K
  <2> QED
    BY <2>1, <2>2, FS_Subset, Zenon
<1> HIDE DEF f, K
<1>4. Cardinality(K) \in Nat /\ Cardinality(K) > 0
  <2>1. /\ Cardinality(K \ {fd}) \in Nat
        /\ Cardinality(K) = Cardinality(K \ {fd}) + (IF fd \in K THEN 1 ELSE 0)
    BY <1>3, Without
  <2> QED
    BY <1>2, <2>1
<1>5. ftable[f].ref = Cardinality(RefsIn(ofile, f))
  BY <1>1, Zenon DEF IInv, FilesInv, FdRefs, RefsIn
<1>6. /\ Cardinality(OtherFds(ofile, p, f)) \in Nat
      /\ Cardinality(RefsIn(ofile, f)) = Cardinality(OtherFds(ofile, p, f)) + Cardinality(K)
  BY FdCount, Zenon DEF K
<1>7. ftable[f].ref > 0
  BY <1>4, <1>5, <1>6
<1> QED
  BY <1>1, <1>7, Zenon DEF f, IInv, FilesInv

(* What the last close of a file takes from the pointers to x.             *)
Loses(f, x) == IF LastClose(ftable, f) THEN Same(ftable[f].obj, x) ELSE 0

FilesLose(f) ==
  \A x \in Entry : FilesTo(ftable, x) = FilesTo(ftable', x) + Loses(f, x)
                   /\ FilesTo(ftable', x) \in Nat
ClosesFile(p, f, fd) ==
  /\ ofile[p][fd] = f /\ ftable[f].ref > 0 /\ ftable' = Unreferred(ftable, f)
  /\ ofile' = [ofile EXCEPT ![p][fd] = NoFile]

LEMMA FilesClosed ==
  ASSUME FilesTypeOK, ObjsOk(ftable), NEW p \in Process, NEW f \in File, NEW fd \in Fd,
         ClosesFile(p, f, fd)
  PROVE  OneFd(p, fd) /\ FilesLose(f)
<1> DEFINE R == [ref : Nat, type : {"none", "pipe", "inode"}, obj : Nat, writable : BOOLEAN]
           o == ftable[f]
           n == ftable'[f]
<1>0. /\ ofile[p][fd] = f /\ ftable[f].ref > 0 /\ ftable' = Unreferred(ftable, f)
      /\ ofile' = [ofile EXCEPT ![p][fd] = NoFile]
  BY Zenon DEF ClosesFile
<1>1. ftable \in [File -> R] /\ ofile \in [Process -> [Fd -> File \union {NoFile}]]
  BY DEF FilesTypeOK
<1>2. o \in R /\ o.ref \in Nat /\ o.ref > 0 /\ o.obj \in Entry
  <2>1. o \in R /\ o.obj \in Entry
    BY <1>0, <1>1, Zenon DEF ObjsOk
  <2> QED
    BY <1>0, <2>1
<1>3. /\ n = IF o.ref > 1 THEN [o EXCEPT !.ref = o.ref - 1] ELSE Closed
      /\ \A g \in File \ {f} : ftable'[g] = ftable[g]
      /\ DOMAIN ftable' = File /\ ftable' = [g \in File |-> ftable'[g]]
  BY <1>0, <1>1 DEF Unreferred
<1> HIDE DEF o, n
<1>4. n \in R /\ n.ref = o.ref - 1 /\ (o.ref > 1 => n.obj = o.obj)
      /\ (LastClose(ftable, f) <=> o.ref = 1)
  <2>1. CASE o.ref > 1
    BY <1>2, <1>3, <2>1 DEF LastClose, o
  <2>2. CASE ~ (o.ref > 1)
    BY <1>2, <1>3, <2>2 DEF LastClose, o, Closed, NoObject
  <2> QED
    BY <2>1, <2>2
<1>5. ftable' \in [File -> R]
  <2>1. \A g \in File : ftable'[g] \in R
    BY <1>1, <1>3, <1>4 DEF n
  <2> HIDE DEF R
  <2> QED
    BY <1>3, <2>1
<1>6. /\ ofile' \in [Process -> [Fd -> File \union {NoFile}]]
      /\ \A q \in Process \ {p} : ofile'[q] = ofile[q]
      /\ ofile'[p][fd] = NoFile /\ \A g \in Fd : g # fd => ofile'[p][g] = ofile[p][g]
  BY <1>0, <1>1
<1>7. FilesTypeOK'
  BY <1>5, <1>6 DEF FilesTypeOK
<1>8. ASSUME NEW g \in File
      PROVE  ftable'[g].ref + Same(ofile[p][fd], g) = ftable[g].ref + Same(ofile'[p][fd], g)
  <2>1. Same(ofile'[p][fd], g) = 0
    BY <1>6 DEF Same, File
  <2>2. ftable[g].ref \in Nat
    BY <1>1
  <2>3. CASE g = f
    <3>1. Same(ofile[p][fd], g) = 1 /\ ftable'[g].ref = o.ref - 1 /\ ftable[g].ref = o.ref
      BY <1>0, <1>4, <2>3, Zenon DEF Same, n, o
    <3> QED
      BY <1>2, <2>1, <3>1
  <2>4. CASE g # f
    <3>1. Same(ofile[p][fd], g) = 0 /\ ftable'[g].ref = ftable[g].ref
      BY <1>0, <1>3, <2>4 DEF Same
    <3> QED
      BY <2>1, <2>2, <3>1
  <2> QED
    BY <2>3, <2>4
<1>9. ASSUME NEW x \in Entry
      PROVE  FilesTo(ftable, x) = FilesTo(ftable', x) + Loses(f, x) /\ FilesTo(ftable', x) \in Nat
  <2>1. /\ FilesTo(ftable', x) \in Nat /\ FilesTo(ftable, x) \in Nat
        /\ FilesTo(ftable', x) + FileRef(ftable[f], x) = FilesTo(ftable, x) + FileRef(ftable'[f], x)
    <3>1. OneFile(ftable, ftable', f)
      BY <1>3, Zenon DEF OneFile
    <3> QED
      BY <3>1, FilesToMoves, SMT
  <2>2. FileRef(o, x) = Same(o.obj, x)
    BY <1>2 DEF FileRef, Same
  <2>3. Loses(f, x) = IF o.ref = 1 THEN Same(o.obj, x) ELSE 0
    BY <1>4, Zenon DEF Loses, o
  <2>4. FileRef(n, x) = IF o.ref = 1 THEN 0 ELSE Same(o.obj, x)
    BY <1>2, <1>4 DEF FileRef, Same
  <2>5. Same(o.obj, x) \in Nat
    BY DEF Same
  <2>6. FilesTo(ftable', x) + FileRef(o, x) = FilesTo(ftable, x) + FileRef(n, x)
    BY <2>1, Zenon DEF o, n
  <2> HIDE DEF Same
  <2> QED
    BY <2>1, <2>2, <2>3, <2>4, <2>5, <2>6
<1>10. ObjsOk(ftable')
  <2>1. n.ref > 0 => n.obj \in Entry
    BY <1>2, <1>4
  <2> QED
    BY <1>3, <2>1, Zenon DEF ObjsOk, n
<1> QED
  BY <1>6, <1>7, <1>8, <1>9, <1>10, Zenon DEF Differs, OneFd, FilesLose

(* The places a process closes a file at.                                  *)
LEMMA CloseFdKeeps ==
  ASSUME IInv, NEW p \in Process, NEW fd \in Fd, NEW at, NEW l,
         (at = "return" /\ l = "user") \/ (at = "exiting" /\ l = "exiting"),
         At(p, l), CloseFd(p, fd, at)
  PROVE  IInv'
<1> DEFINE r == thread[p]
           f == ofile[p][fd]
           a == ftable[f].obj
           s == <<Put(a), End>>
           last == [User EXCEPT !.at = at, !.op = TRUE, !.todo = s]
           left == [thread[p] EXCEPT !.at = l]
<1>1. /\ f # NoFile /\ ofile' = [ofile EXCEPT ![p][fd] = NoFile]
      /\ ftable' = Unreferred(ftable, f)
      /\ IF LastClose(ftable, f) THEN thread' = [thread EXCEPT ![p] = last]
         ELSE thread' = [thread EXCEPT ![p].at = IF at = "return" THEN "user" ELSE at]
      /\ UNCHANGED <<cwd, dirs, durable, itable>>
  BY DEF CloseFd, ArgFd, disk, End
<1>2. f \in File /\ ftable[f].ref \in Nat /\ ftable[f].ref > 0 /\ a \in Entry
  BY <1>1, FileIsOpen, Zenon
<1>3. r.at = l /\ r.todo = << >> /\ l \in Pointless /\ at \in Pointless /\ l # "absent"
      /\ at # "absent" /\ l \in Places /\ at \in Places
  BY DEF At, Pointless, Places
<1>4. /\ thread \in [Process -> Thread] /\ r \in Thread /\ cwd[p] \in Entry \union {NoEntry}
      /\ cwd = [cwd EXCEPT ![p] = cwd[p]]
      /\ TableInv(itable) /\ dirs \in Dirs /\ durable.dirs \in Dirs
      /\ ThreadInv(cwd[p], ofile[p], r)
  BY Typed, Zenon
<1>5. FilesTypeOK /\ ObjsOk(ftable)
  BY Zenon DEF IInv, TypeInv, FilesInv, ObjsOk
<1>6. OneFd(p, fd) /\ FilesLose(f)
  <2>1. ClosesFile(p, f, fd)
    BY <1>1, <1>2, Zenon DEF ClosesFile
  <2> HIDE DEF f
  <2> QED
    BY <1>2, <1>5, <2>1, FilesClosed, Zenon
<1>7. GoodTodo(s) /\ (\A x : TodoRefs(s, x) = Same(a, x)) /\ s \in Seq(Item)
  BY <1>2, TodoPutEnd, Zenon DEF GoodTodo
<1> HIDE DEF f, a, s
<1>8. last \in Thread /\ last.at = at /\ last.todo = s
  <2>1. User \in Thread
    BY UserThread
  <2>2. last = [User EXCEPT !.at = at, !.op = TRUE, !.todo = s]
    OBVIOUS
  <2> HIDE DEF User, last
  <2> QED
    BY <1>3, <1>7, <2>1, <2>2 DEF Thread
<1>9. left \in Thread /\ left.at = l /\ left.todo = << >>
  <2> HIDE DEF r
  <2>1. left = [r EXCEPT !.at = l]
    BY DEF r
  <2> HIDE DEF left
  <2> QED
    BY <1>3, <1>4, <2>1 DEF Thread
<1>10. l = "user" => cwd[p] \in Entry
  BY <1>3, <1>4, Zenon DEF ThreadInv
<1>11. ASSUME NEW t \in Thread, t.at \in {at, l}, GoodTodo(t.todo)
       PROVE  /\ ThreadInv(cwd[p], ofile'[p], t)
              /\ \A x : Own(cwd[p], t, x) = Same(cwd[p], x) + TodoRefs(t.todo, x)
  <2>1. t.at \in Pointless /\ t.at # "absent"
    BY <1>3, <1>11, Zenon
  <2>2. t.at \notin HoldsIp /\ ~ HoldsDp(t) /\ \A x : IpRef(t, x) = 0 /\ DpRef(t, x) = 0
    BY <2>1, PointsAt, Zenon
  <2>3. t.at # "walk" /\ t.at # "linkto" /\ t.at \notin Naming
    BY <2>1 DEF Naming, Pointless
  <2>4. t.at # "exiting" => cwd[p] \in Entry
    <3>1. l = "user" \/ t.at = "exiting"
      BY <1>11, Zenon
    <3> QED
      BY <1>10, <3>1, Zenon
  <2>5. ASSUME NEW x
        PROVE  Own(cwd[p], t, x) = Same(cwd[p], x) + TodoRefs(t.todo, x)
    <3>1. /\ Own(cwd[p], t, x) = Same(cwd[p], x) + IpRef(t, x) + DpRef(t, x) + TodoRefs(t.todo, x)
          /\ Same(cwd[p], x) \in Nat /\ TodoRefs(t.todo, x) \in Nat
      BY OwnParts, Zenon
    <3>2. IpRef(t, x) = 0 /\ DpRef(t, x) = 0
      BY <2>2, Zenon
    <3> QED
      BY <3>1, <3>2
  <2> QED
    BY <1>11, <2>1, <2>2, <2>3, <2>4, <2>5, Zenon DEF ThreadInv
<1>12. ASSUME NEW t \in Thread, thread' = [thread EXCEPT ![p] = t], t.at \in {at, l},
              GoodTodo(t.todo), \A x \in Entry : TodoRefs(t.todo, x) = Loses(f, x)
       PROVE  IInv'
  <2>1. ASSUME NEW x \in Entry
        PROVE  itable'[x].ref + FilesTo(ftable, x) + Own(cwd[p], r, x)
                 = itable[x].ref + FilesTo(ftable', x) + Own(cwd[p], t, x)
    <3>1. FilesTo(ftable, x) = FilesTo(ftable', x) + Loses(f, x) /\ FilesTo(ftable', x) \in Nat
      BY <1>6, Zenon DEF FilesLose
    <3>2. Own(cwd[p], t, x) = Same(cwd[p], x) + Loses(f, x)
      BY <1>11, <1>12, Zenon
    <3>3. Own(cwd[p], r, x) = Same(cwd[p], x)
      <4>1. /\ Own(cwd[p], r, x) = Same(cwd[p], x) + IpRef(r, x) + DpRef(r, x) + TodoRefs(r.todo, x)
            /\ Same(cwd[p], x) \in Nat
        BY OwnParts, Zenon
      <4>2. IpRef(r, x) = 0 /\ DpRef(r, x) = 0 /\ TodoRefs(r.todo, x) = 0
        BY <1>3, PointsAt, NothingToDo, Zenon
      <4> QED
        BY <4>1, <4>2
    <3>4. Loses(f, x) \in Nat /\ Same(cwd[p], x) \in Nat
      BY DEF Loses, Same
    <3>5. itable'[x].ref = itable[x].ref /\ itable[x].ref \in Nat
      BY <1>1, <1>4, Zenon DEF TableInv
    <3> QED
      BY <3>1, <3>2, <3>3, <3>4, <3>5
  <2>2. ThreadInv(cwd[p], ofile'[p], t)
    BY <1>11, <1>12, Zenon
  <2>3. /\ cwd' = [cwd EXCEPT ![p] = cwd[p]] /\ dirs' \in Dirs /\ durable'.dirs \in Dirs
        /\ TableInv(itable')
    BY <1>1, <1>4, Zenon
  <2>4. thread' = [thread EXCEPT ![p] = t] /\ cwd[p] \in Entry \union {NoEntry}
    BY <1>4, <1>12, Zenon
  <2> HIDE DEF last, left
  <2> QED
    BY <1>6, <2>1, <2>2, <2>3, <2>4, OneFdStep, Zenon
<1>13. CASE LastClose(ftable, f)
  <2>1. thread' = [thread EXCEPT ![p] = last]
    BY <1>1, <1>13, Zenon
  <2>2. \A x \in Entry : TodoRefs(last.todo, x) = Loses(f, x)
    BY <1>7, <1>8, <1>13, Zenon DEF Loses, a
  <2> HIDE DEF last
  <2> QED
    BY <1>7, <1>8, <1>12, <2>1, <2>2, Zenon
<1>14. CASE ~ LastClose(ftable, f)
  <2>1. thread' = [thread EXCEPT ![p] = left]
    BY <1>1, <1>14
  <2>2. GoodTodo(left.todo) /\ \A x \in Entry : TodoRefs(left.todo, x) = Loses(f, x)
    BY <1>9, <1>14, NothingToDo, TodoNone, Zenon DEF Loses
  <2> HIDE DEF left
  <2> QED
    BY <1>9, <1>12, <2>1, <2>2, Zenon
<1> QED
  BY <1>13, <1>14, Zenon

LEMMA CloseKeeps == ASSUME IInv, NEW p \in Process, NEW fd \in Fd, Close(p, fd) PROVE IInv'
<1>1. At(p, "user") /\ CloseFd(p, fd, "return")
  BY Zenon DEF Close
<1> QED
  BY <1>1, CloseFdKeeps, Zenon

-----------------------------------------------------------------------------
(* Exit, and the inodes that a crash left                                  *)

(* A step between two places where the process has only its directory, and *)
(* what is left to do.                                                     *)
LEMMA Settles ==
  ASSUME IInv, NEW p \in Process, UNCHANGED <<ftable, ofile, dirs, durable>>,
         NEW l \in Pointless, At(p, l),
         NEW c \in Entry \union {NoEntry}, cwd' = [cwd EXCEPT ![p] = c],
         NEW t \in Thread, thread' = [thread EXCEPT ![p] = t],
         t.at \in Pointless, TableInv(itable'), ThreadInv(c, ofile[p], t),
         \A e \in Entry : itable'[e].ref + Same(cwd[p], e)
                            = itable[e].ref + Same(c, e) + TodoRefs(t.todo, e)
  PROVE  IInv'
<1> DEFINE r == thread[p]
<1>1. r.at = l /\ r.todo = << >> /\ dirs \in Dirs /\ durable.dirs \in Dirs /\ TableInv(itable)
  BY Typed, Zenon DEF At
<1>2. ASSUME NEW e \in Entry
      PROVE  itable'[e].ref + Own(cwd[p], r, e) = itable[e].ref + Own(c, t, e)
  <2>1. /\ Own(cwd[p], r, e) = Same(cwd[p], e) + IpRef(r, e) + DpRef(r, e) + TodoRefs(r.todo, e)
        /\ Same(cwd[p], e) \in Nat
    BY OwnParts, Zenon
  <2>2. IpRef(r, e) = 0 /\ DpRef(r, e) = 0 /\ TodoRefs(r.todo, e) = 0
    BY <1>1, PointsAt, NothingToDo, Zenon
  <2>3. /\ Own(c, t, e) = Same(c, e) + IpRef(t, e) + DpRef(t, e) + TodoRefs(t.todo, e)
        /\ Same(c, e) \in Nat /\ TodoRefs(t.todo, e) \in Nat
    BY OwnParts, Zenon
  <2>4. IpRef(t, e) = 0 /\ DpRef(t, e) = 0
    BY PointsAt, Zenon
  <2>5. itable'[e].ref + Same(cwd[p], e) = itable[e].ref + Same(c, e) + TodoRefs(t.todo, e)
    OBVIOUS
  <2>6. itable[e].ref \in Nat /\ itable'[e].ref \in Nat
    BY <1>1, Zenon DEF TableInv
  <2> HIDE DEF r
  <2> QED
    BY <2>1, <2>2, <2>3, <2>4, <2>5, <2>6
<1>3. UNCHANGED <<ftable, ofile>> /\ dirs' \in Dirs /\ durable'.dirs \in Dirs
  BY <1>1, Zenon
<1> QED
  BY <1>2, <1>3, Steps, Zenon

(* What a thread is that has nothing in hand.                              *)
LEMMA HandsFree ==
  ASSUME NEW c, NEW fds, NEW t, t.at \in Pointless \ {"absent"}, GoodTodo(t.todo),
         t.at # "exiting" => c \in Entry
  PROVE  ThreadInv(c, fds, t)
<1>1. t.at \notin HoldsIp /\ ~ HoldsDp(t)
  BY PointsAt
<1>2. t.at # "walk" /\ t.at # "linkto" /\ t.at \notin Naming /\ t.at # "absent"
  BY DEF Naming, Pointless
<1> QED
  BY <1>1, <1>2, Zenon DEF ThreadInv

LEMMA ExitKeeps == ASSUME IInv, NEW p \in Process, Exit(p) PROVE IInv'
<1> DEFINE r == thread[p]
           t == [thread[p] EXCEPT !.at = "exiting"]
<1>1. /\ At(p, "user") /\ UNCHANGED <<ftable, ofile, dirs, durable>> /\ cwd' = cwd /\ itable' = itable
      /\ thread' = [thread EXCEPT ![p] = t]
  BY DEF Exit, disk, files
<1>2. "user" \in Pointless /\ "user" \notin {"absent", "exiting"}
  BY DEF Pointless
<1>3. /\ r \in Thread /\ r.todo = << >> /\ cwd[p] \in Entry /\ cwd[p] \in Entry \union {NoEntry}
      /\ cwd = [cwd EXCEPT ![p] = cwd[p]] /\ TableInv(itable)
  BY <1>1, <1>2, Under, Typed, Zenon
<1>4. t \in Thread /\ t.at = "exiting" /\ t.todo = << >>
  <2> HIDE DEF r
  <2>1. t = [r EXCEPT !.at = "exiting"]
    BY DEF r
  <2> HIDE DEF t
  <2> QED
    BY <1>3, <2>1 DEF Thread, Places
<1> HIDE DEF r, t
<1>5. t.at \in Pointless /\ t.at \in Pointless \ {"absent"}
  BY <1>4 DEF Pointless
<1>6. ThreadInv(cwd[p], ofile[p], t)
  BY <1>3, <1>4, <1>5, HandsFree, TodoNone, Zenon
<1>7. ASSUME NEW e \in Entry
      PROVE  itable'[e].ref + Same(cwd[p], e) = itable[e].ref + Same(cwd[p], e) + TodoRefs(t.todo, e)
  <2>1. itable[e].ref \in Nat /\ Same(cwd[p], e) \in Nat /\ TodoRefs(t.todo, e) = 0
    BY <1>3, <1>4, NothingToDo, OwnParts, Zenon DEF TableInv
  <2> QED
    BY <1>1, <2>1
<1>8. cwd' = [cwd EXCEPT ![p] = cwd[p]] /\ TableInv(itable')
  BY <1>1, <1>3, Zenon
<1> QED
  BY <1>1, <1>2, <1>3, <1>4, <1>5, <1>6, <1>7, <1>8, Settles, Zenon

(* The directory of an exiting process goes.                               *)
LEMMA LeavesKeeps ==
  ASSUME IInv, NEW p \in Process, At(p, "exiting"), cwd[p] # NoEntry,
         cwd' = [cwd EXCEPT ![p] = NoEntry],
         thread' = [thread EXCEPT ![p].op = TRUE, ![p].todo = <<Put(cwd[p]), End>>],
         UNCHANGED <<ftable, ofile, dirs, durable, itable>>
  PROVE  IInv'
<1> DEFINE r == thread[p]
           s == <<Put(cwd[p]), End>>
           t == [thread[p] EXCEPT !.op = TRUE, !.todo = s]
<1>1. "exiting" \in Pointless
  BY DEF Pointless
<1>2. /\ thread \in [Process -> Thread] /\ r \in Thread /\ cwd[p] \in Entry /\ TableInv(itable)
      /\ r.at = "exiting"
  BY Typed DEF At
<1>3. GoodTodo(s) /\ (\A x : TodoRefs(s, x) = Same(cwd[p], x)) /\ s \in Seq(Item)
  BY <1>2, TodoPutEnd, Zenon DEF GoodTodo
<1> HIDE DEF s
<1>4. thread' = [thread EXCEPT ![p] = t]
  BY <1>2 DEF s
<1>5. t \in Thread /\ t.at = "exiting" /\ t.todo = s
  <2> HIDE DEF r
  <2>1. t = [r EXCEPT !.op = TRUE, !.todo = s]
    BY DEF r
  <2> HIDE DEF t
  <2> QED
    BY <1>2, <1>3, <2>1 DEF Thread
<1> HIDE DEF r, t
<1>6. t.at \in Pointless /\ t.at \in Pointless \ {"absent"}
  BY <1>5 DEF Pointless
<1>7. ThreadInv(NoEntry, ofile[p], t)
  BY <1>3, <1>5, <1>6, HandsFree, Zenon
<1>8. ASSUME NEW e \in Entry
      PROVE  itable'[e].ref + Same(cwd[p], e) = itable[e].ref + Same(NoEntry, e) + TodoRefs(t.todo, e)
  <2>1. itable[e].ref \in Nat /\ Same(cwd[p], e) \in Nat /\ TodoRefs(t.todo, e) = Same(cwd[p], e)
    BY <1>2, <1>3, <1>5, OwnParts, Zenon DEF TableInv
  <2>2. Same(NoEntry, e) = 0
    BY DEF Same, Entry
  <2> HIDE DEF Same
  <2> QED
    BY <2>1, <2>2
<1>9. TableInv(itable') /\ UNCHANGED <<ftable, ofile, dirs, durable>>
  BY <1>2, Zenon
<1>10. NoEntry \in Entry \union {NoEntry}
  OBVIOUS
<1> QED
  BY <1>1, <1>4, <1>5, <1>6, <1>7, <1>8, <1>9, <1>10, Settles, Zenon

LEMMA ExitClosesKeeps == ASSUME IInv, NEW p \in Process, ExitCloses(p) PROVE IInv'
<1>0. At(p, "exiting") /\ "exiting" \in Pointless
  BY DEF ExitCloses, Pointless
<1>1. CASE OpenFds(p) # {} /\ CloseFd(p, Min(OpenFds(p)), "exiting")
  <2>1. OpenFds(p) \in SUBSET Nat
    BY DEF OpenFds, Fd
  <2>2. Min(OpenFds(p)) \in Fd
    BY <1>1, <2>1, LeastIsIn, Zenon DEF OpenFds
  <2> QED
    BY <1>0, <1>1, <2>2, CloseFdKeeps, Zenon
<1>2. CASE /\ OpenFds(p) = {} /\ cwd[p] # NoEntry
           /\ cwd' = [cwd EXCEPT ![p] = NoEntry]
           /\ thread' = [thread EXCEPT ![p].op = TRUE,
                ![p].todo = <<Put(cwd[p]), [do |-> "end", e |-> NoEntry]>>]
           /\ UNCHANGED <<disk, durable, itable, files>>
  <2>1. /\ thread' = [thread EXCEPT ![p].op = TRUE, ![p].todo = <<Put(cwd[p]), End>>]
        /\ UNCHANGED <<ftable, ofile, dirs, durable, itable>>
    BY <1>2 DEF End, disk, files
  <2> QED
    BY <1>0, <1>2, <2>1, LeavesKeeps, Zenon
<1>3. CASE /\ OpenFds(p) = {} /\ cwd[p] = NoEntry
           /\ thread' = [thread EXCEPT ![p] = Absent]
           /\ UNCHANGED <<disk, durable, itable, cwd, files>>
  <2>1. /\ UNCHANGED <<ftable, ofile, dirs, durable>> /\ itable' = itable /\ cwd' = cwd
        /\ thread' = [thread EXCEPT ![p] = Absent]
    BY <1>3 DEF disk, files
  <2>2. Absent \in Thread /\ Absent.at \in Pointless /\ Absent.todo = << >>
    <3>1. Absent.at = "absent" /\ Absent.todo = << >>
      BY DEF Absent, User
    <3> HIDE DEF Absent
    <3> QED
      BY <3>1, UserThread DEF Pointless
  <2>3. ThreadInv(NoEntry, ofile[p], Absent)
    <3>1. \A fd \in Fd : ofile[p][fd] = NoFile
      BY <1>3, Zenon DEF OpenFds
    <3> QED
      BY <3>1, IdleInv, Zenon
  <2>4. ASSUME NEW e \in Entry
        PROVE  itable'[e].ref + Same(cwd[p], e) = itable[e].ref + Same(NoEntry, e)
                                                  + TodoRefs(Absent.todo, e)
    <3>1. itable[e].ref \in Nat /\ Same(NoEntry, e) \in Nat /\ TodoRefs(Absent.todo, e) = 0
      BY <2>2, NothingToDo, OwnParts, Typed, Zenon DEF TableInv
    <3>2. cwd[p] = NoEntry
      BY <1>3, Zenon
    <3> HIDE DEF Absent
    <3> QED
      BY <2>1, <3>1, <3>2
  <2>5. cwd' = [cwd EXCEPT ![p] = NoEntry] /\ TableInv(itable') /\ NoEntry \in Entry \union {NoEntry}
    <3>1. cwd = [cwd EXCEPT ![p] = cwd[p]] /\ TableInv(itable)
      BY Typed, Zenon
    <3>2. cwd[p] = NoEntry
      BY <1>3, Zenon
    <3>3. NoEntry \in Entry \union {NoEntry}
      OBVIOUS
    <3> QED
      BY <2>1, <3>1, <3>2, <3>3, Zenon
  <2> HIDE DEF Absent
  <2> QED
    BY <1>0, <2>1, <2>2, <2>3, <2>4, <2>5, Settles, Zenon
<1> QED
  BY <1>1, <1>2, <1>3, Zenon DEF ExitCloses

LEMMA IreclaimKeeps == ASSUME IInv, NEW p \in Process, Ireclaim(p) PROVE IInv'
<1> DEFINE r == thread[p]
           found == ToReclaim(thread[p].n)
           i == Min(found)
           e == Iget(itable, i)
           v == Taken(itable, i)
           s == <<Put(e), End>>
           t == [thread[p] EXCEPT !.n = i + 1, !.op = TRUE, !.todo = s]
<1>0. /\ At(p, "reclaim") /\ UNCHANGED <<ftable, ofile, dirs, durable>> /\ cwd' = cwd
      /\ \/ found = {} /\ thread' = [thread EXCEPT ![p] = User] /\ itable' = itable
         \/ /\ found # {} /\ HasRoom(itable, i) /\ itable' = Loaded(v, e, dinode[i])
            /\ thread' = [thread EXCEPT ![p].n = i + 1, ![p].op = TRUE, ![p].todo = s]
  BY DEF Ireclaim, disk, files, End
<1>1. "reclaim" \in Pointless /\ "reclaim" \notin {"absent", "exiting"}
      /\ "reclaim" \in {"user", "write", "reclaim"}
  BY DEF Pointless
<1>2. /\ thread \in [Process -> Thread] /\ r \in Thread /\ cwd[p] \in Entry /\ TableInv(itable)
      /\ r.at = "reclaim" /\ cwd = [cwd EXCEPT ![p] = cwd[p]]
      /\ cwd[p] \in Entry \union {NoEntry} /\ durable.dirs \in Dirs
  BY <1>0, <1>1, Under, Typed, Zenon
<1>3. CASE thread' = [thread EXCEPT ![p] = User] /\ itable' = itable
  <2>1. SameRefs(itable, itable') /\ durable'.dirs \in Dirs /\ UNCHANGED <<ftable, ofile, cwd, dirs>>
    BY <1>0, <1>2, <1>3, SameSame, Zenon
  <2>2. At(p, "reclaim")
    BY <1>0, Zenon
  <2> HIDE DEF found, i, e, v, s, t, r
  <2> QED
    BY <1>1, <1>3, <2>1, <2>2, UserIsIdle, Idles, Zenon
<1>4. CASE /\ found # {} /\ HasRoom(itable, i) /\ itable' = Loaded(v, e, dinode[i])
           /\ thread' = [thread EXCEPT ![p].n = i + 1, ![p].op = TRUE, ![p].todo = s]
  <2>1. i \in Inum
    <3>1. found \in SUBSET Nat /\ found \in SUBSET Inum
      BY DEF ToReclaim, Orphans, Inum
    <3> HIDE DEF found
    <3>2. i \in found
      BY <1>4, <3>1, LeastIsIn, Zenon
    <3> QED
      BY <3>1, <3>2
  <2> HIDE DEF found, i
  <2>2. OneMore(itable, v, e, i)
    BY <1>2, <1>4, <2>1, TakenCounts, Zenon
  <2>3. e \in Entry /\ TableInv(v) /\ \A x \in Entry : v[x].ref = itable[x].ref + Same(x, e)
    BY <2>2, Zenon DEF OneMore
  <2>4. SameRefs(v, itable')
    <3> HIDE DEF v, e
    <3> QED
      BY <1>4, <2>3, LoadedKeeps, Zenon
  <2>5. GoodTodo(s) /\ (\A x : TodoRefs(s, x) = Same(e, x)) /\ s \in Seq(Item)
    BY <2>3, TodoPutEnd, Zenon DEF GoodTodo
  <2> HIDE DEF v, e, s
  <2>6. thread' = [thread EXCEPT ![p] = t]
    BY <1>2, <1>4
  <2>7. t \in Thread /\ t.at = "reclaim" /\ t.todo = s
    <3>1. i + 1 \in Nat
      BY <2>1 DEF Inum
    <3> HIDE DEF r
    <3>2. t = [r EXCEPT !.n = i + 1, !.op = TRUE, !.todo = s]
      BY DEF r
    <3> HIDE DEF t
    <3> QED
      BY <1>2, <2>5, <3>1, <3>2 DEF Thread
  <2> HIDE DEF r, t
  <2>8. t.at \in Pointless /\ t.at \in Pointless \ {"absent"}
    BY <2>7 DEF Pointless
  <2>9. ThreadInv(cwd[p], ofile[p], t)
    BY <1>2, <2>5, <2>7, <2>8, HandsFree, Zenon
  <2>10. ASSUME NEW x \in Entry
         PROVE  itable'[x].ref + Same(cwd[p], x)
                  = itable[x].ref + Same(cwd[p], x) + TodoRefs(t.todo, x)
    <3>1. itable[x].ref \in Nat /\ Same(cwd[p], x) \in Nat /\ TodoRefs(t.todo, x) = Same(e, x)
      BY <1>2, <2>5, <2>7, OwnParts, Zenon DEF TableInv
    <3>2. itable'[x].ref = v[x].ref /\ v[x].ref = itable[x].ref + Same(x, e)
      BY <2>3, <2>4, Zenon DEF SameRefs
    <3>3. Same(x, e) = Same(e, x) /\ Same(e, x) \in Nat
      BY DEF Same
    <3> HIDE DEF Same
    <3> QED
      BY <3>1, <3>2, <3>3
  <2>11. cwd' = [cwd EXCEPT ![p] = cwd[p]] /\ TableInv(itable')
    BY <1>0, <1>2, <2>4, Zenon DEF SameRefs
  <2>12. At(p, "reclaim") /\ UNCHANGED <<ftable, ofile, dirs, durable>>
    BY <1>0, Zenon
  <2> QED
    BY <1>1, <1>2, <2>6, <2>7, <2>8, <2>9, <2>10, <2>11, <2>12, Settles, Zenon
<1> QED
  BY <1>0, <1>3, <1>4, Zenon

-----------------------------------------------------------------------------
(* Fork                                                                    *)

(* The files of the parent have one reference more for each descriptor.    *)
LEMMA FilesShared ==
  ASSUME IInv, NEW p \in Process, NEW child \in Process, p # child,
         \A fd \in Fd : ofile[child][fd] = NoFile, FilesFork(p, child)
  PROVE  /\ FilesTypeOK' /\ FilesInv'
         /\ \A x \in Entry : FilesTo(ftable', x) = FilesTo(ftable, x)
         /\ \A q \in Process \ {child} : ofile'[q] = ofile[q]
<1> DEFINE R == [ref : Nat, type : {"none", "pipe", "inode"}, obj : Nat, writable : BOOLEAN]
           k(f) == Cardinality(FdsIn(ofile[p], f))
<1>1. ftable \in [File -> R] /\ ofile \in [Process -> [Fd -> File \union {NoFile}]]
  BY DEF IInv, TypeInv, FilesTypeOK
<1>2. /\ ofile' = [ofile EXCEPT ![child] = ofile[p]]
      /\ ftable' = [f \in File |-> [ftable[f] EXCEPT !.ref = @ + k(f)]]
  BY Zenon DEF FilesFork, FdsIn
<1>3. /\ ofile' \in [Process -> [Fd -> File \union {NoFile}]]
      /\ ofile'[child] = ofile[p] /\ \A q \in Process \ {child} : ofile'[q] = ofile[q]
  BY <1>1, <1>2
<1>4. ASSUME NEW f \in File
      PROVE  /\ k(f) \in Nat /\ ftable[f].ref \in Nat /\ k(f) <= ftable[f].ref
             /\ Cardinality(RefsIn(ofile', f)) = ftable[f].ref + k(f)
  <2>1. ftable[f].ref = Cardinality(RefsIn(ofile, f)) /\ ftable[f].ref \in Nat
    <3>1. ftable[f].ref \in Nat
      BY <1>1
    <3> QED
      BY <3>1, Zenon DEF IInv, FilesInv, FdRefs, RefsIn
  <2>2. /\ k(f) \in Nat /\ Cardinality(OtherFds(ofile, p, f)) \in Nat
        /\ Cardinality(RefsIn(ofile, f)) = Cardinality(OtherFds(ofile, p, f)) + k(f)
    BY FdCount, Zenon
  <2>3. /\ Cardinality(OtherFds(ofile, child, f)) \in Nat
        /\ Cardinality(RefsIn(ofile, f))
             = Cardinality(OtherFds(ofile, child, f)) + Cardinality(FdsIn(ofile[child], f))
    BY FdCount, Zenon
  <2>4. Cardinality(FdsIn(ofile[child], f)) = 0
    <3>1. FdsIn(ofile[child], f) = {}
      BY DEF FdsIn, File
    <3> QED
      BY <3>1, FS_EmptySet, Zenon
  <2>5. Cardinality(RefsIn(ofile', f))
          = Cardinality(OtherFds(ofile', child, f)) + Cardinality(FdsIn(ofile'[child], f))
    BY FdCount
  <2>6. OtherFds(ofile', child, f) = OtherFds(ofile, child, f) /\ Cardinality(FdsIn(ofile'[child], f)) = k(f)
    BY <1>3 DEF OtherFds, RefsIn
  <2> HIDE DEF k
  <2> QED
    BY <2>1, <2>2, <2>3, <2>4, <2>5, <2>6
<1> HIDE DEF k
<1>5. ASSUME NEW f \in File
      PROVE  /\ ftable'[f] \in R /\ ftable'[f].ref = ftable[f].ref + k(f)
             /\ ftable'[f].obj = ftable[f].obj
  <2>1. ftable[f] \in R /\ ftable'[f] = [ftable[f] EXCEPT !.ref = @ + k(f)]
    BY <1>1, <1>2
  <2>2. ftable[f].ref + k(f) \in Nat
    BY <1>4
  <2> QED
    BY <2>1, <2>2
<1>6. FilesTypeOK'
  <2>1. ftable' = [f \in File |-> ftable'[f]]
    BY <1>2
  <2>2. ftable' \in [File -> R]
    <3> HIDE DEF R
    <3> QED
      BY <1>5, <2>1
  <2> QED
    BY <1>3, <2>2 DEF FilesTypeOK
<1>7. ASSUME NEW f \in File
      PROVE  (ftable'[f].ref > 0) <=> (ftable[f].ref > 0)
  BY <1>4, <1>5
<1>8. FilesInv'
  <2> SUFFICES ASSUME NEW f \in File
               PROVE  /\ ftable'[f].ref = Cardinality(RefsIn(ofile', f))
                      /\ ftable'[f].ref > 0 => ftable'[f].obj \in Entry
    BY Zenon DEF FilesInv, FdRefs, RefsIn
  <2>1. ftable[f].ref > 0 => ftable[f].obj \in Entry
    BY Zenon DEF IInv, FilesInv
  <2> QED
    BY <1>4, <1>5, <1>7, <2>1, Zenon
<1>9. ASSUME NEW x \in Entry
      PROVE  FilesTo(ftable', x) = FilesTo(ftable, x)
  <2>1. {f \in File : ftable'[f].ref > 0 /\ ftable'[f].obj = x}
          = {f \in File : ftable[f].ref > 0 /\ ftable[f].obj = x}
    BY <1>5, <1>7, Zenon
  <2> QED
    BY <2>1, Zenon DEF FilesTo
<1> QED
  BY <1>3, <1>6, <1>8, <1>9, Zenon

LEMMA ForkKeeps ==
  ASSUME IInv, NEW p \in Process, NEW child \in Process, Fork(p, child)
  PROVE  IInv'
<1> DEFINE c == cwd[p]
<1>1. /\ At(p, "user") /\ At(child, "absent") /\ FilesFork(p, child)
      /\ itable' = Idup(itable, c) /\ cwd' = [cwd EXCEPT ![child] = c]
      /\ thread' = [thread EXCEPT ![child] = User] /\ dirs' = dirs /\ durable' = durable
  BY DEF Fork, disk
<1>2. p # child
  BY <1>1 DEF At
<1>3. c \in Entry /\ itable[c].ref > 0
  <2>1. "user" \notin {"absent", "exiting"}
    OBVIOUS
  <2>2. cwd[p] \in Entry
    BY <1>1, <2>1, Under, Zenon
  <2> QED
    BY <2>2, InUse, Zenon
<1>4. /\ cwd \in [Process -> Entry \union {NoEntry}] /\ thread \in [Process -> Thread]
      /\ TableInv(itable) /\ dirs \in Dirs /\ durable.dirs \in Dirs
  BY Typed, Zenon
<1>5. /\ thread[child].at = "absent" /\ thread[child].todo = << >> /\ cwd[child] = NoEntry
      /\ \A fd \in Fd : ofile[child][fd] = NoFile
  BY <1>1, Typed, Zenon DEF At, ThreadInv
<1>6. /\ FilesTypeOK' /\ FilesInv'
      /\ \A x \in Entry : FilesTo(ftable', x) = FilesTo(ftable, x)
      /\ \A q \in Process \ {child} : ofile'[q] = ofile[q]
  BY <1>1, <1>2, <1>5, FilesShared, Zenon
<1> HIDE DEF c
<1>7. OneMore(itable, itable', c, itable[c].inum)
  BY <1>1, <1>3, <1>4, IdupCounts, Zenon
<1>8. TableInv(itable') /\ \A x \in Entry : itable'[x].ref = itable[x].ref + Same(x, c)
  BY <1>7, Zenon DEF OneMore
<1>9. /\ cwd'[child] = c /\ thread'[child] = User
      /\ \A q \in Process \ {child} : cwd'[q] = cwd[q] /\ thread'[q] = thread[q]
  BY <1>1, <1>4
<1>10. TypeInv'
  <2>1. cwd' \in [Process -> Entry \union {NoEntry}] /\ thread' \in [Process -> Thread]
    <3>1. User \in Thread
      BY UserThread
    <3> HIDE DEF User
    <3> QED
      BY <1>1, <1>3, <1>4, <3>1
  <2> QED
    BY <1>1, <1>4, <1>6, <2>1, Zenon DEF TypeInv
<1>11. CountInv'
  <2>1. ASSUME NEW e \in Entry
        PROVE  itable'[e].ref + FilesTo(ftable, e) + Own(cwd[child], thread[child], e)
                 = itable[e].ref + FilesTo(ftable', e) + Own(cwd'[child], thread'[child], e)
    <3>1. Own(cwd'[child], thread'[child], e) = Same(c, e)
      BY <1>9, Idle, Zenon
    <3>2. Own(cwd[child], thread[child], e) = 0
      <4> DEFINE r == thread[child]
      <4>1. Own(NoEntry, r, e) = Same(NoEntry, e) + IpRef(r, e) + DpRef(r, e) + TodoRefs(r.todo, e)
        BY OwnParts, Zenon
      <4>2. "absent" \in Pointless
        BY DEF Pointless
      <4>3. IpRef(r, e) = 0 /\ DpRef(r, e) = 0 /\ TodoRefs(r.todo, e) = 0
        BY <1>5, <4>2, PointsAt, NothingToDo, Zenon
      <4>4. Same(NoEntry, e) = 0
        BY DEF Same, Entry
      <4> HIDE DEF r
      <4>5. Own(NoEntry, r, e) = 0
        BY <4>1, <4>3, <4>4
      <4> QED
        BY <1>5, <4>5, Zenon DEF r
    <3>3. itable'[e].ref = itable[e].ref + Same(e, c) /\ itable[e].ref \in Nat
      BY <1>4, <1>8, Zenon DEF TableInv
    <3>4. Same(e, c) = Same(c, e) /\ Same(c, e) \in Nat
      BY DEF Same
    <3>5. FilesTo(ftable', e) = FilesTo(ftable, e) /\ FilesTo(ftable, e) \in Nat
      BY <1>6, FilesToType, Zenon
    <3> HIDE DEF Same
    <3> QED
      BY <3>1, <3>2, <3>3, <3>4, <3>5
  <2>2. \A e \in Entry : itable'[e].ref \in Nat
    BY <1>8, Zenon DEF TableInv
  <2> QED
    BY <1>9, <2>1, <2>2, Recount, Zenon DEF IInv
<1>12. ASSUME NEW q \in Process
       PROVE  ThreadInv(cwd'[q], ofile'[q], thread'[q])
  <2>1. CASE q = child
    BY <1>3, <1>9, <2>1, IdleInv, Zenon
  <2>2. CASE q # child
    <3>1. q \in Process \ {child}
      BY <2>2
    <3>2. cwd'[q] = cwd[q] /\ thread'[q] = thread[q] /\ ofile'[q] = ofile[q]
      BY <1>6, <1>9, <3>1, Zenon
    <3>3. ThreadInv(cwd[q], ofile[q], thread[q])
      BY Zenon DEF IInv
    <3> QED
      BY <3>2, <3>3, Zenon
  <2> QED
    BY <2>1, <2>2, Zenon
<1> QED
  BY <1>6, <1>8, <1>10, <1>11, <1>12, Zenon DEF IInv

-----------------------------------------------------------------------------
(* Boot and crash                                                          *)

(* The kernel has just started: initproc is in the root directory.         *)
Fresh ==
  /\ ftable = [f \in File |-> Closed] /\ ofile = [p \in Process |-> [fd \in Fd |-> NoFile]]
  /\ cwd = [p \in Process |-> IF p = InitProcess THEN 1 ELSE NoEntry]
  /\ thread = [p \in Process |-> IF p = InitProcess THEN Boot ELSE Absent]
  /\ TableInv(itable) /\ \A e \in Entry : itable[e].ref = Same(1, e)
  /\ dirs \in Dirs /\ durable.dirs \in Dirs

LEMMA FreshIs == Fresh => IInv
<1> SUFFICES ASSUME Fresh
             PROVE  IInv
  OBVIOUS
<1>0. InitProcess \in Process /\ 1 \in Entry
  BY Sizes DEF Entry
<1>1. /\ ftable = [f \in File |-> Closed] /\ ofile = [p \in Process |-> [fd \in Fd |-> NoFile]]
      /\ cwd = [p \in Process |-> IF p = InitProcess THEN 1 ELSE NoEntry]
      /\ thread = [p \in Process |-> IF p = InitProcess THEN Boot ELSE Absent]
      /\ TableInv(itable) /\ (\A e \in Entry : itable[e].ref = Same(1, e))
      /\ dirs \in Dirs /\ durable.dirs \in Dirs
  BY Zenon DEF Fresh
<1>2. TypeInv
  <2>1. FilesTypeOK
    BY <1>1 DEF FilesTypeOK, Closed, NoObject
  <2>2. cwd \in [Process -> Entry \union {NoEntry}]
    BY <1>0, <1>1
  <2>3. thread \in [Process -> Thread]
    <3> HIDE DEF Boot, Absent
    <3> QED
      BY <1>1, UserThread
  <2> QED
    BY <1>1, <2>1, <2>2, <2>3, Zenon DEF TypeInv
<1>3. \A f \in File : ftable[f].ref = 0
  BY <1>1 DEF Closed
<1>4. FilesInv
  <2> SUFFICES ASSUME NEW f \in File
               PROVE  FdRefs(f) = 0
    BY <1>3 DEF FilesInv
  <2>1. {d \in Process \X Fd : ofile[d[1]][d[2]] = f} = {}
    BY <1>1 DEF File
  <2> QED
    BY <2>1, FS_EmptySet, Zenon DEF FdRefs
<1>5. ASSUME NEW q \in Process, q # InitProcess
      PROVE  cwd[q] = NoEntry /\ thread[q] = Absent
  BY <1>1, <1>5, Zenon
<1>6. cwd[InitProcess] = 1 /\ thread[InitProcess] = Boot
  BY <1>0, <1>1, Zenon
<1>7. ASSUME NEW q \in Process
      PROVE  ThreadInv(cwd[q], ofile[q], thread[q])
  <2>1. CASE q = InitProcess
    BY <1>0, <1>6, <2>1, IdleInv, Zenon
  <2>2. CASE q # InitProcess
    <3>1. \A fd \in Fd : ofile[q][fd] = NoFile
      BY <1>1
    <3> QED
      BY <1>5, <2>2, <3>1, IdleInv, Zenon
  <2> QED
    BY <2>1, <2>2, Zenon
<1>8. CountInv
  <2> SUFFICES ASSUME NEW e \in Entry
               PROVE  itable[e].ref = PointersIn(cwd, ftable, thread, e)
    BY Zenon DEF CountInv, PointersIn, Pointers, FilesTo
  <2> DEFINE p == InitProcess
  <2>1. PointersIn(cwd, ftable, thread, e)
          = Others(cwd, thread, p, e) + FilesTo(ftable, e) + Own(cwd[p], thread[p], e)
    <3>1. p \in Process
      BY <1>0
    <3> HIDE DEF p
    <3> QED
      BY <3>1, PointersOf
  <2>2. Own(cwd[p], thread[p], e) = Same(1, e)
    BY <1>6, Idle, Zenon
  <2>3. FilesTo(ftable, e) = 0
    <3>1. {f \in File : ftable[f].ref > 0 /\ ftable[f].obj = e} = {}
      BY <1>3
    <3> QED
      BY <3>1, FS_EmptySet, Zenon DEF FilesTo
  <2>4. /\ Absent.at \notin HoldsIp /\ ~ HoldsDp(Absent) /\ Putting(Absent) = {}
    <3>1. Absent.at = "absent" /\ Absent.todo = << >> /\ "absent" \in Pointless
      BY DEF Absent, User, Pointless
    <3>2. Putting(Absent) = {}
      BY <3>1 DEF Putting
    <3> HIDE DEF Absent
    <3> QED
      BY <3>1, <3>2, PointsAt, Zenon
  <2>5. /\ OthersIn(cwd, p, e) = {} /\ OthersAtIp(thread, p, e) = {}
        /\ OthersAtDp(thread, p, e) = {} /\ OthersTodo(thread, p, e) = {}
    <3>1. e # NoEntry
      BY DEF Entry
    <3>2. OthersIn(cwd, p, e) = {}
      BY <1>5, <3>1 DEF OthersIn
    <3>3. OthersAtIp(thread, p, e) = {}
      BY <1>5, <2>4, Zenon DEF OthersAtIp
    <3>4. OthersAtDp(thread, p, e) = {}
      BY <1>5, <2>4, Zenon DEF OthersAtDp
    <3>5. OthersTodo(thread, p, e) = {}
      <4> HIDE DEF Absent
      <4> QED
        BY <1>5, <2>4 DEF OthersTodo
    <3> QED
      BY <3>2, <3>3, <3>4, <3>5
  <2>6. Others(cwd, thread, p, e) = 0
    <3>1. Cardinality({}) = 0
      BY FS_EmptySet
    <3>2. Others(cwd, thread, p, e) = 0 + 0 + 0 + 0
      BY <2>5, <3>1, Zenon DEF Others
    <3> QED
      BY <3>2
  <2>7. Same(1, e) \in Nat /\ itable[e].ref = Same(1, e)
    BY <1>1 DEF Same
  <2> HIDE DEF Same, p
  <2> QED
    BY <2>1, <2>2, <2>3, <2>6, <2>7
<1> QED
  BY <1>1, <1>2, <1>4, <1>7, <1>8, Zenon DEF IInv

LEMMA FreshNext == Fresh' => IInv'
BY FreshIs, PTL

(* The table that a kernel starts with.                                    *)
LEMMA EmptyTable ==
  LET t == [e \in Entry |-> EmptyEntry] IN
  /\ TableInv(t) /\ (\A e \in Entry : t[e].ref = 0)
  /\ TableInv(Taken(t, ROOTINO)) /\ \A e \in Entry : Taken(t, ROOTINO)[e].ref = Same(1, e)
<1> DEFINE t == [e \in Entry |-> EmptyEntry]
<1>1. \A e \in Entry : t[e] = EmptyEntry
  OBVIOUS
<1>2. IsEntry(EmptyEntry) /\ EmptyEntry.ref = 0
  BY DEF IsEntry, EmptyEntry
<1>3. TableInv(t) /\ \A e \in Entry : t[e].ref = 0
  <2>1. IsTable(t)
    BY DEF IsTable
  <2> HIDE DEF t, EmptyEntry
  <2> QED
    BY <1>1, <1>2, <2>1 DEF TableInv
<1>4. ROOTINO \in Inum /\ 1 \in Entry
  BY Sizes DEF ROOTINO, Inum, Entry
<1> HIDE DEF t
<1>0. EntryOf(t, ROOTINO) = {} /\ UnusedEntries(t) = Entry /\ HasRoom(t, ROOTINO)
  BY <1>3, <1>4 DEF EntryOf, UnusedEntries, HasRoom
<1>5. OneMore(t, Taken(t, ROOTINO), Iget(t, ROOTINO), ROOTINO)
  BY <1>0, <1>3, <1>4, TakenCounts, Zenon
<1>6. Iget(t, ROOTINO) = 1
  <2>1. Min(Entry) = 1
    <3>1. \A x \in Entry : 1 <= x /\ x \in Nat
      BY Sizes DEF Entry
    <3>2. \A x \in Entry : (\A y \in Entry : x <= y) => x = 1
      BY <1>4, <3>1
    <3>3. Min(Entry) \in Entry /\ \A y \in Entry : Min(Entry) <= y
      BY <1>4, <3>1, Zenon DEF Min
    <3> QED
      BY <3>2, <3>3, Zenon
  <2> QED
    BY <1>0, <2>1, Zenon DEF Iget
<1>7. \A e \in Entry : Taken(t, ROOTINO)[e].ref = t[e].ref + Same(e, 1)
  BY <1>5, <1>6, Zenon DEF OneMore
<1>8. \A e : Same(e, 1) = Same(1, e) /\ Same(1, e) \in Nat
  BY DEF Same
<1>9. \A e \in Entry : Taken(t, ROOTINO)[e].ref = Same(1, e)
  <2> HIDE DEF Same
  <2> QED
    BY <1>3, <1>7, <1>8
<1> QED
  BY <1>3, <1>5, <1>9, Zenon DEF OneMore, t

LEMMA CrashKeeps == ASSUME IInv, Crash PROVE IInv'
<1>1. dirs' = durable.dirs /\ durable' = durable /\ durable.dirs \in Dirs
  BY Zenon DEF Crash, IInv, TypeInv
<1>2. /\ ftable' = [f \in File |-> Closed] /\ ofile' = [p \in Process |-> [fd \in Fd |-> NoFile]]
      /\ cwd' = [p \in Process |-> IF p = InitProcess THEN 1 ELSE NoEntry]
      /\ thread' = [p \in Process |-> IF p = InitProcess THEN Boot ELSE Absent]
      /\ itable' = Taken([e \in Entry |-> EmptyEntry], ROOTINO)
  BY Zenon DEF Crash
<1>3. TableInv(itable') /\ \A e \in Entry : itable'[e].ref = Same(1, e)
  BY <1>2, EmptyTable, Zenon
<1>4. Fresh'
  BY <1>1, <1>2, <1>3, Zenon DEF Fresh
<1> QED
  BY <1>4, FreshNext, Zenon

LEMMA InitFresh == Init => Fresh
<1> SUFFICES ASSUME Init
             PROVE  Fresh
  OBVIOUS
<1>1. /\ ftable = [f \in File |-> Closed] /\ ofile = [p \in Process |-> [fd \in Fd |-> NoFile]]
      /\ cwd = [p \in Process |-> IF p = InitProcess THEN 1 ELSE NoEntry]
      /\ thread = [p \in Process |-> IF p = InitProcess THEN Boot ELSE Absent]
      /\ itable = [e \in Entry |-> IF e = 1 THEN [EmptyEntry EXCEPT !.inum = ROOTINO, !.ref = 1]
                                    ELSE EmptyEntry]
      /\ durable \in {Mkfs} \union Grown /\ dirs = durable.dirs
  BY Zenon DEF Init, FilesInit
<1>2. TableInv(itable) /\ \A e \in Entry : itable[e].ref = Same(1, e)
  <2> DEFINE root == [EmptyEntry EXCEPT !.inum = ROOTINO, !.ref = 1]
  <2>1. /\ IsEntry(root) /\ root.ref = 1 /\ root.inum = ROOTINO
        /\ IsEntry(EmptyEntry) /\ EmptyEntry.ref = 0
    <3>1. root = [EmptyEntry EXCEPT !.inum = ROOTINO, !.ref = 1]
      OBVIOUS
    <3>2. IsEntry(EmptyEntry) /\ EmptyEntry.ref = 0
      BY DEF IsEntry, EmptyEntry
    <3> HIDE DEF root
    <3> QED
      BY <3>1, <3>2 DEF IsEntry, EmptyEntry
  <2>2. \A e \in Entry : itable[e] = IF e = 1 THEN root ELSE EmptyEntry
    BY <1>1
  <2>3. IsTable(itable) /\ ROOTINO \in Inum
    <3>1. IsTable(itable)
      BY <1>1 DEF IsTable
    <3> QED
      BY <3>1, Sizes DEF ROOTINO, Inum
  <2> HIDE DEF root, EmptyEntry
  <2> QED
    BY <2>1, <2>2, <2>3 DEF TableInv, Same
<1>3. durable.dirs \in Dirs
  <2>1. CASE durable \in Grown
    <3>1. durable \in DiskType
      BY <2>1, GrownAssumption
    <3> QED
      BY <3>1 DEF DiskType, Dirs, Slot, Names
  <2>2. CASE durable = Mkfs
    <3>1. MkfsRoot \in Seq(Slot)
      <4> DEFINE a == << [name |-> ".", inum |-> ROOTINO], [name |-> "..", inum |-> ROOTINO] >>
                 b == [i \in 1..DPB - 2 |-> EmptySlot]
      <4>1. EmptySlot \in Slot /\ [name |-> ".", inum |-> ROOTINO] \in Slot
            /\ [name |-> "..", inum |-> ROOTINO] \in Slot
        BY Sizes DEF EmptySlot, Slot, Names, Inum, ROOTINO
      <4>2. a \in Seq(Slot)
        BY <4>1
      <4>3. b \in Seq(Slot)
        <5>1. DPB - 2 \in Nat
          BY FsAssumption
        <5> QED
          BY <4>1, <5>1
      <4>4. MkfsRoot = a \o b
        BY DEF MkfsRoot
      <4> HIDE DEF a, b
      <4> QED
        BY <4>2, <4>3, <4>4
    <3>2. Mkfs.dirs = [i \in Inum |-> IF i = ROOTINO THEN MkfsRoot ELSE << >>]
      BY DEF Mkfs
    <3> HIDE DEF MkfsRoot
    <3>3. << >> \in Seq(Slot)
      OBVIOUS
    <3> QED
      BY <2>2, <3>1, <3>2, <3>3 DEF Dirs
  <2> QED
    BY <1>1, <2>1, <2>2
<1> QED
  BY <1>1, <1>2, <1>3, Zenon DEF Fresh

-----------------------------------------------------------------------------
(* The theorem                                                             *)

LEMMA StepKeeps == ASSUME IInv, NEW p \in Process, Step(p) PROVE IInv'
<1>1. CASE EndOp(p) \/ Iunlock(p)
  BY <1>1, EndOpKeeps, IunlockKeeps, Zenon
<1>2. CASE Iput(p)
  BY <1>2, IputTestsKeeps, IputFreesKeeps, IputForgetsKeeps, IputDropsKeeps, Zenon DEF Iput
<1>3. CASE Namex(p)
  BY <1>3, WalkEndsKeeps, WalkKeeps, Zenon DEF Namex
<1>4. CASE SysOpen(p)
  <2>1. CASE Create(p)
    BY <2>1, CreateLookupKeeps, CreateFoundKeeps, CreateAllocKeeps, CreateFillKeeps, Zenon DEF Create
  <2> QED
    BY <1>4, <2>1, OpenKeeps, OpenMadeKeeps, Zenon DEF SysOpen
<1>5. CASE Chdir(p)
  BY <1>5, ChdirKeeps, Zenon
<1>6. CASE SysUnlink(p)
  BY <1>6, UnlinkLookupKeeps, UnlinkEraseKeeps, UnlinkDropKeeps, Zenon DEF SysUnlink
<1>7. CASE SysLink(p)
  BY <1>7, LinkCountKeeps, LinkEnterKeeps, LinkUndoKeeps, Zenon DEF SysLink
<1>8. CASE WriteChunk(p) \/ ExitCloses(p) \/ Ireclaim(p)
  BY <1>8, WriteChunkKeeps, ExitClosesKeeps, IreclaimKeeps, Zenon
<1> QED
  BY <1>1, <1>2, <1>3, <1>4, <1>5, <1>6, <1>7, <1>8, Zenon DEF Step

LEMMA CallKeeps == ASSUME IInv, NEW p \in Process, Call(p) PROVE IInv'
<1>1. CASE \E r \in Request : Enter(p, r)
  BY <1>1, EnterKeeps, Zenon
<1>2. ASSUME NEW fd \in Fd, Close(p, fd) \/ Read(p, fd) \/ Fstat(p, fd)
      PROVE  IInv'
  BY <1>2, CloseKeeps, ReadKeeps, FstatKeeps, Zenon
<1>3. ASSUME NEW fd \in Fd, NEW n \in 1..MaxCount, WriteBegin(p, fd, n)
      PROVE  IInv'
  <2>1. n \in Nat
    BY FsAssumption
  <2> QED
    BY <1>3, <2>1, WriteBeginKeeps, Zenon
<1>4. CASE Exit(p)
  BY <1>4, ExitKeeps, Zenon
<1> QED
  BY <1>1, <1>2, <1>3, <1>4, Zenon DEF Call

LEMMA NextKeeps == ASSUME IInv, [Next]_vars PROVE IInv'
<1>1. ASSUME NEW p \in Process, Step(p) \/ (\E child \in Process : Fork(p, child)) \/ Call(p)
      PROVE  IInv'
  BY <1>1, StepKeeps, ForkKeeps, CallKeeps, Zenon
<1>2. CASE Crash
  BY <1>2, CrashKeeps, Zenon
<1>3. CASE UNCHANGED vars
  <2>1. /\ dirs' = dirs /\ durable' = durable /\ itable' = itable /\ cwd' = cwd
        /\ ftable' = ftable /\ ofile' = ofile /\ thread' = thread
    BY <1>3 DEF vars, disk, files
  <2>2. TypeInv'
    BY <2>1 DEF IInv, TypeInv, FilesTypeOK
  <2>3. FilesInv' /\ CountInv'
    <3>1. FilesInv'
      BY <2>1, Zenon DEF IInv, FilesInv, FdRefs
    <3>2. CountInv'
      BY <2>1, Zenon DEF IInv, CountInv, Pointers, HoldsDp, Putting
    <3> QED
      BY <3>1, <3>2
  <2> QED
    BY <2>1, <2>2, <2>3, Zenon DEF IInv
<1> QED
  BY <1>1, <1>2, <1>3, Zenon DEF Next

THEOREM SpecIInv == Spec => []IInv
<1>1. Init => IInv
  BY InitFresh, FreshIs, Zenon
<1>2. IInv /\ [Next]_vars => IInv'
  BY NextKeeps, Zenon
<1> QED
  BY <1>1, <1>2, PTL DEF Spec

(* "ip->ref tracks the number of in-memory pointers to the entry" (fs.c):  *)
(* whatever the calls, their failures and crashes, the count of an inode in*)
(* the table is the number of directories, files and calls that point to   *)
(* it, an inode has one entry at most, and a file is counted as often as   *)
(* descriptors have it.                                                    *)
THEOREM ReferencesCounted == Spec => []RefsCounted
<1>1. IInv => RefsCounted
  <2> SUFFICES ASSUME IInv
               PROVE  RefsCounted
    OBVIOUS
  <2>1. \A e \in Entry : itable[e].ref = Pointers(e)
    BY Zenon DEF IInv, CountInv
  <2>2. \A f \in File : ftable[f].ref = FdRefs(f)
    BY Zenon DEF IInv, FilesInv
  <2>3. ASSUME NEW i \in Inum
        PROVE  Cardinality(EntryOf(itable, i)) <= 1
    <3>1. CASE EntryOf(itable, i) = {}
      <4>1. Cardinality(EntryOf(itable, i)) = 0
        BY <3>1, FS_EmptySet, Zenon
      <4> QED
        BY <4>1
    <3>2. CASE EntryOf(itable, i) # {}
      <4>1. PICK e \in EntryOf(itable, i) : TRUE
        BY <3>2, Zenon
      <4>2. EntryOf(itable, i) = {e}
        BY <4>1, Zenon DEF EntryOf, IInv, TableInv
      <4>3. Cardinality(EntryOf(itable, i)) = 1
        BY <4>2, FS_Singleton, Zenon
      <4> QED
        BY <4>3
    <3> QED
      BY <3>1, <3>2, Zenon
  <2> QED
    BY <2>1, <2>2, <2>3, Zenon DEF RefsCounted
<1> QED
  BY <1>1, SpecIInv, PTL

=============================================================================
