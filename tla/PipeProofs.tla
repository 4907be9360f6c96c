-------------------------------- MODULE PipeProofs --------------------------------
(***************************************************************************)
(* A pipe is freed with its last holder, loses no wakeup and implements    *)
(* PipeFifo, for any number of processes, files, descriptors and pipes, any*)
(* size of the ring and any width of its counters.                         *)
(***************************************************************************)
EXTENDS Pipe, FiniteSetTheorems, SequenceTheorems, TLAPS

-----------------------------------------------------------------------------
(* The inductive invariant                                                 *)

Reading == {"read", "r_sleep", "r_asleep", "r_return"}
Writing == {"write", "w_loop", "w_sleep", "w_asleep"}
InPipe(p) == thread[p].at \in Reading \union Writing
Making == {"pipe_second", "pipe_page"}
Closing == {"closing", "pipeclose"}

(* ref counts descriptors and files in hand.                               *)
CountInv == \A f \in File : ftable[f].ref = FdRefs(f) + LocalRefs(f)

(* A file is free, new, or the end of a pipe; descriptors are of ends.     *)
FileInv ==
  /\ \A f \in File :
       /\ ftable[f].type \in {"none", "pipe"}
       /\ ftable[f].ref = 0 => ftable[f] = Closed
       /\ ftable[f].type = "none" => ~ ftable[f].writable
       /\ ftable[f].type = "pipe" => ftable[f].obj \in PipeId
  /\ \A p \in Process, fd \in Fd :
       ofile[p][fd] # NoFile => ftable[ofile[p][fd]].type = "pipe"

(* Only calls that make or close files hold any; those that are being made *)
(* nobody else knows.                                                      *)
HeldInv ==
  \A p \in Process :
    /\ thread[p].at = "absent" => \A fd \in Fd : ofile[p][fd] = NoFile
    /\ Len(thread[p].held) <= 2
    /\ thread[p].at = "pipe_second" => Len(thread[p].held) = 1
    /\ thread[p].at = "pipe_page" => Len(thread[p].held) = 2
    /\ thread[p].at \notin Making \union Closing => thread[p].held = << >>
    /\ thread[p].exiting => thread[p].at \in Closing /\ thread[p].held = << >>
    /\ thread[p].at \in Making => \A i \in DOMAIN thread[p].held :
         ftable[thread[p].held[i]].ref = 1 /\ ftable[thread[p].held[i]].type = "none"
    /\ thread[p].at = "pipeclose" => thread[p].obj \in PipeId

(* Who stands for an end of a pipe: a file, or a pipeclose on its way.     *)
IsEnd(f, pi, wr) ==
  ftable[f].type = "pipe" /\ ftable[f].obj = pi /\ ftable[f].writable = wr
ClosesEnd(p, pi, wr) ==
  thread[p].at = "pipeclose" /\ thread[p].obj = pi /\ thread[p].writable = wr
IsOpen(pi, wr) == IF wr THEN pipe[pi].writeopen ELSE pipe[pi].readopen

(* Each open end has exactly one of them, and a closed end none.           *)
EndInv ==
  /\ \A pi \in PipeId : pipe[pi].used <=> pipe[pi].readopen \/ pipe[pi].writeopen
  /\ \A pi \in PipeId, wr \in BOOLEAN :
       /\ IsOpen(pi, wr) => \/ \E f \in File : IsEnd(f, pi, wr)
                            \/ \E p \in Process : ClosesEnd(p, pi, wr)
       /\ \A f \in File : IsEnd(f, pi, wr) => IsOpen(pi, wr)
       /\ \A p \in Process : ClosesEnd(p, pi, wr) => IsOpen(pi, wr)
       /\ \A f, g \in File : IsEnd(f, pi, wr) /\ IsEnd(g, pi, wr) => f = g
       /\ \A f \in File, p \in Process : ~ (IsEnd(f, pi, wr) /\ ClosesEnd(p, pi, wr))
       /\ \A p, q \in Process : ClosesEnd(p, pi, wr) /\ ClosesEnd(q, pi, wr) => p = q

(* A call keeps the descriptor it works on, and pi->lock where it says so. *)
UseInv ==
  \A p \in Process : InPipe(p) =>
    /\ \E fd \in Fd : ofile[p][fd] = thread[p].f
    /\ thread[p].f \in File
    /\ ftable[thread[p].f].writable = (thread[p].at \in Writing)
    /\ thread[p].at # "r_return" => thread[p].n > 0
    /\ thread[p].at \in {"r_sleep", "w_loop", "w_sleep"} => pipe[Obj(p)].lock = p

(* The ring never holds more than it has room for.                         *)
RingInv == \A pi \in PipeId : Held(pi) <= PIPESIZE

(* What a sleeper waits for is not there, or somebody who holds the lock is*)
(* about to wake it up, or a killed writer left it.                        *)
WaitInv ==
  \A p \in Process :
    /\ At(p, "w_sleep") \/ At(p, "w_asleep") => Occupied(Obj(p)) /\ pipe[Obj(p)].readopen
    /\ At(p, "r_sleep") => MustWait(Obj(p))
    /\ At(p, "w_loop") => thread[p].i = 1
    /\ At(p, "r_asleep") =>
         \/ MustWait(Obj(p))
         \/ torn[Obj(p)] /\ pipe[Obj(p)].writeopen
         \/ \E q \in Process : At(q, "w_loop") /\ Obj(q) = Obj(p)

IInv ==
  /\ TypeOK
  /\ CountInv
  /\ FileInv
  /\ HeldInv
  /\ EndInv
  /\ UseInv
  /\ RingInv
  /\ WaitInv

USE FileTableAssumption, PipeAssumption DEF NoFile, NoObject

-----------------------------------------------------------------------------
(* Counting                                                                *)

LEMMA LeastIsIn ==
  ASSUME NEW S \in SUBSET Nat, S # {}
  PROVE  Min(S) \in S
<1> DEFINE Less == {ss \in Nat \X Nat : ss[1] < ss[2]}
<1>0. IsWellFoundedOn(Less, Nat)
  BY NatLessThanWellFounded, Zenon DEF OpToRel
<1>1. PICK n \in S : \A m \in S : ~ (<<m, n>> \in Less)
  <2> HIDE DEF Less
  <2> QED
    BY <1>0, WFMin, Zenon
<1>2. ASSUME NEW m \in S
      PROVE  n <= m
  <2>1. m \in Nat /\ n \in Nat /\ <<m, n>> \in Nat \X Nat /\ <<m, n>>[1] = m /\ <<m, n>>[2] = n
    OBVIOUS
  <2>2. ~ (m < n)
    BY <1>1, <2>1, Zenon
  <2> QED
    BY <2>1, <2>2
<1> QED
  BY <1>1, <1>2, Zenon DEF Min

LEMMA Allocated ==
  /\ FileAlloc(ftable) # NoFile =>
       FileAlloc(ftable) \in File /\ ftable[FileAlloc(ftable)].ref = 0
  /\ \A fds : FdAlloc(fds) # NoFd =>
       FdAlloc(fds) \in Fd /\ fds[FdAlloc(fds)] = NoFile
<1>1. ASSUME FileAlloc(ftable) # NoFile
      PROVE  FileAlloc(ftable) \in FreeFiles(ftable)
  <2>1. FreeFiles(ftable) # {} /\ FileAlloc(ftable) = Min(FreeFiles(ftable))
    BY <1>1, Zenon DEF FileAlloc
  <2>2. FreeFiles(ftable) \in SUBSET Nat
    BY DEF FreeFiles, File
  <2> QED
    BY <2>1, <2>2, LeastIsIn, Zenon
<1>2. ASSUME NEW fds, FdAlloc(fds) # NoFd
      PROVE  FdAlloc(fds) \in FreeFds(fds)
  <2>1. FreeFds(fds) # {} /\ FdAlloc(fds) = Min(FreeFds(fds))
    BY <1>2, Zenon DEF FdAlloc
  <2>2. FreeFds(fds) \in SUBSET Nat
    BY DEF FreeFds, Fd
  <2> QED
    BY <2>1, <2>2, LeastIsIn, Zenon
<1> QED
  BY <1>1, <1>2 DEF FreeFiles, FreeFds

(* How often a set of pairs counts what belongs to p, and to the others.   *)
FdsIn(fds, f) == {fd \in Fd : fds[fd] = f}
OtherFds(p, f) == {d \in Process \X Fd : d[1] # p /\ ofile[d[1]][d[2]] = f}
OtherHeld(p, f) ==
  {h \in Process \X (1..2) : h[1] # p /\ h[2] \in DOMAIN thread[h[1]].held
                                     /\ thread[h[1]].held[h[2]] = f}
Times(s, f) ==
  (IF Len(s) >= 1 /\ s[1] = f THEN 1 ELSE 0) + (IF Len(s) >= 2 /\ s[2] = f THEN 1 ELSE 0)

LEMMA Disjoint ==
  ASSUME NEW S, NEW T, IsFiniteSet(S), IsFiniteSet(T), S \cap T = {}
  PROVE  /\ IsFiniteSet(S \union T) /\ Cardinality(S \union T) \in Nat
         /\ Cardinality(S) \in Nat /\ Cardinality(T) \in Nat
         /\ Cardinality(S \union T) = Cardinality(S) + Cardinality(T)
<1>1. /\ IsFiniteSet(S \union T)
      /\ Cardinality(S \union T) = Cardinality(S) + Cardinality(T) - Cardinality(S \cap T)
  BY FS_Union, Zenon
<1>2. Cardinality(S \cap T) = 0
  BY FS_EmptySet, Zenon
<1>3. Cardinality(S) \in Nat /\ Cardinality(T) \in Nat /\ Cardinality(S \union T) \in Nat
  BY <1>1, FS_CardinalityType, Zenon
<1> QED
  BY <1>1, <1>2, <1>3

(* One row of a table counts as its second column does.                    *)
LEMMA Row ==
  ASSUME NEW p, NEW S, IsFiniteSet(S)
  PROVE  IsFiniteSet({p} \X S) /\ Cardinality({p} \X S) = Cardinality(S)
<1>1. IsFiniteSet({p}) /\ Cardinality({p}) = 1 /\ Cardinality(S) \in Nat
  BY FS_Singleton, FS_CardinalityType
<1>2. IsFiniteSet({p} \X S) /\ Cardinality({p} \X S) = Cardinality({p}) * Cardinality(S)
  BY <1>1, FS_Product, Zenon
<1> QED
  BY <1>1, <1>2

LEMMA FdCount ==
  ASSUME NEW p \in Process, NEW f
  PROVE  /\ Cardinality(OtherFds(p, f)) \in Nat /\ Cardinality(FdsIn(ofile[p], f)) \in Nat
         /\ IsFiniteSet(FdsIn(ofile[p], f)) /\ IsFiniteSet(OtherFds(p, f))
         /\ FdRefs(f) = Cardinality(OtherFds(p, f)) + Cardinality(FdsIn(ofile[p], f))
<1>1. IsFiniteSet(Fd) /\ IsFiniteSet(Process)
  BY FS_Interval DEF Fd
<1>2. IsFiniteSet(Process \X Fd)
  BY <1>1, FS_Product
<1>3. OtherFds(p, f) \in SUBSET (Process \X Fd) /\ FdsIn(ofile[p], f) \in SUBSET Fd
  BY DEF OtherFds, FdsIn
<1>4. IsFiniteSet(OtherFds(p, f)) /\ IsFiniteSet(FdsIn(ofile[p], f))
  BY <1>1, <1>2, <1>3, FS_Subset
<1>5. {d \in Process \X Fd : ofile[d[1]][d[2]] = f} = OtherFds(p, f) \union ({p} \X FdsIn(ofile[p], f))
  BY DEF OtherFds, FdsIn
<1>6. OtherFds(p, f) \cap ({p} \X FdsIn(ofile[p], f)) = {}
  BY DEF OtherFds, FdsIn
<1>7. /\ IsFiniteSet({p} \X FdsIn(ofile[p], f))
      /\ Cardinality({p} \X FdsIn(ofile[p], f)) = Cardinality(FdsIn(ofile[p], f))
  BY <1>4, Row
<1>8. Cardinality(OtherFds(p, f) \union ({p} \X FdsIn(ofile[p], f)))
        = Cardinality(OtherFds(p, f)) + Cardinality({p} \X FdsIn(ofile[p], f))
  BY <1>4, <1>6, <1>7, Disjoint
<1> QED
  BY <1>4, <1>5, <1>7, <1>8, FS_CardinalityType DEF FdRefs

LEMMA HeldCount ==
  ASSUME NEW p \in Process, NEW f, thread[p].held \in Seq(File), Len(thread[p].held) <= 2
  PROVE  /\ Cardinality(OtherHeld(p, f)) \in Nat /\ Times(thread[p].held, f) \in 0..2
         /\ IsFiniteSet(OtherHeld(p, f))
         /\ LocalRefs(f) = Cardinality(OtherHeld(p, f)) + Times(thread[p].held, f)
<1> DEFINE s == thread[p].held
           S == {i \in 1..2 : i \in DOMAIN s /\ s[i] = f}
<1>1. IsFiniteSet(1..2) /\ IsFiniteSet(Process)
  <2>1. 1 \in Int /\ 2 \in Int
    OBVIOUS
  <2> QED
    BY <2>1, FS_Interval, Zenon DEF FileTableAssumption
<1>2. IsFiniteSet(Process \X (1..2))
  BY <1>1, FS_Product
<1>3. OtherHeld(p, f) \in SUBSET (Process \X (1..2)) /\ S \in SUBSET (1..2)
  BY DEF OtherHeld
<1>4. IsFiniteSet(OtherHeld(p, f)) /\ IsFiniteSet(S)
  BY <1>1, <1>2, <1>3, FS_Subset
<1>5. {h \in Process \X (1..2) : h[2] \in DOMAIN thread[h[1]].held /\ thread[h[1]].held[h[2]] = f}
        = OtherHeld(p, f) \union ({p} \X S)
  BY DEF OtherHeld
<1>6. OtherHeld(p, f) \cap ({p} \X S) = {}
  BY DEF OtherHeld
<1>7. IsFiniteSet({p} \X S) /\ Cardinality({p} \X S) = Cardinality(S)
  BY <1>4, Row
<1>8. Cardinality(OtherHeld(p, f) \union ({p} \X S))
        = Cardinality(OtherHeld(p, f)) + Cardinality({p} \X S)
  BY <1>4, <1>6, <1>7, Disjoint
<1>9. Cardinality(S) = Times(s, f)
  <2>0. DOMAIN s = 1..Len(s) /\ Len(s) \in Nat /\ Len(s) <= 2
    OBVIOUS
  <2>1. Cardinality({}) = 0 /\ Cardinality({1}) = 1 /\ Cardinality({2}) = 1
        /\ IsFiniteSet({1}) /\ IsFiniteSet({2})
    BY FS_EmptySet, FS_Singleton, Zenon
  <2>2. Cardinality({1} \union {2}) = 2
    <3>1. {1} \cap {2} = {}
      OBVIOUS
    <3>2. Cardinality({1} \union {2}) = Cardinality({1}) + Cardinality({2})
      BY <2>1, <3>1, Disjoint, Zenon
    <3>3. Cardinality({1}) = 1 /\ Cardinality({2}) = 1
      BY <2>1, Zenon
    <3>4. PICK a, b : a = Cardinality({1}) /\ b = Cardinality({2})
      OBVIOUS
    <3>5. a = 1 /\ b = 1 /\ Cardinality({1} \union {2}) = a + b
      BY <3>2, <3>3, <3>4, Zenon
    <3>6. a + b = 2
      BY <3>5
    <3> QED
      BY <3>5, <3>6, Zenon
  <2>3. (1 \in S <=> Len(s) >= 1 /\ s[1] = f) /\ (2 \in S <=> Len(s) >= 2 /\ s[2] = f)
    BY <2>0
  <2>4. S = (IF 1 \in S THEN {1} ELSE {}) \union (IF 2 \in S THEN {2} ELSE {})
    OBVIOUS
  <2> HIDE DEF S
  <2>5. CASE 1 \in S /\ 2 \in S
    <3>1. S = {1} \union {2}
      BY <2>4, <2>5, SMTT(60)
    <3>2. Times(s, f) = 2
      BY <2>3, <2>5 DEF Times
    <3> QED
      BY <2>2, <3>1, <3>2, Zenon
  <2>6. CASE 1 \in S /\ 2 \notin S
    <3>1. S = {1}
      BY <2>4, <2>6
    <3> QED
      BY <2>1, <2>3, <2>6, <3>1 DEF Times
  <2>7. CASE 1 \notin S /\ 2 \in S
    <3>1. S = {2}
      BY <2>4, <2>7
    <3> QED
      BY <2>1, <2>3, <2>7, <3>1 DEF Times
  <2>8. CASE 1 \notin S /\ 2 \notin S
    <3>1. S = {}
      BY <2>4, <2>8
    <3> QED
      BY <2>1, <2>3, <2>8, <3>1 DEF Times
  <2> QED
    BY <2>5, <2>6, <2>7, <2>8
<1>10. LocalRefs(f) = Cardinality(OtherHeld(p, f)) + Times(s, f)
  BY <1>5, <1>7, <1>8, <1>9 DEF LocalRefs
<1>11. Times(s, f) \in 0..2
  BY DEF Times
<1> QED
  BY <1>4, <1>10, <1>11, FS_CardinalityType

(* What somebody refers to is referred to.                                 *)
Sized == \A p \in Process : thread[p].held \in Seq(File) /\ Len(thread[p].held) <= 2
Alive ==
  \A f \in File, p \in Process :
    /\ \A fd \in Fd : ofile[p][fd] = f => ftable[f].ref > 0
    /\ \A i \in DOMAIN thread[p].held : thread[p].held[i] = f => ftable[f].ref > 0

LEMMA ReferencesCount == Sized /\ CountInv => Alive
<1> SUFFICES ASSUME Sized, CountInv, NEW f \in File, NEW p \in Process
             PROVE  /\ \A fd \in Fd : ofile[p][fd] = f => ftable[f].ref > 0
                    /\ \A i \in DOMAIN thread[p].held :
                         thread[p].held[i] = f => ftable[f].ref > 0
  BY DEF Alive
<1>1. PICK a \in Nat, b \in Nat, c \in Nat, d \in Nat :
        /\ ftable[f].ref = (a + b) + (c + d)
        /\ b = Cardinality(FdsIn(ofile[p], f)) /\ IsFiniteSet(FdsIn(ofile[p], f))
        /\ d = Times(thread[p].held, f)
  <2>1. thread[p].held \in Seq(File) /\ Len(thread[p].held) <= 2
    BY DEF Sized
  <2>2. ftable[f].ref = FdRefs(f) + LocalRefs(f)
    BY DEF CountInv
  <2>3. Times(thread[p].held, f) \in Nat
    BY <2>1, HeldCount
  <2> QED
    BY <2>1, <2>2, <2>3, FdCount, HeldCount
<1>2. ASSUME NEW fd \in Fd, ofile[p][fd] = f
      PROVE  ftable[f].ref > 0
  <2>1. FdsIn(ofile[p], f) # {}
    BY <1>2 DEF FdsIn
  <2>2. b # 0
    BY <1>1, <2>1, FS_EmptySet, Zenon
  <2> QED
    BY <1>1, <2>2
<1>3. ASSUME NEW i \in DOMAIN thread[p].held, thread[p].held[i] = f
      PROVE  ftable[f].ref > 0
  <2>1. i \in 1..Len(thread[p].held) /\ Len(thread[p].held) \in Nat /\ Len(thread[p].held) <= 2
    BY DEF Sized
  <2>2. d > 0
    BY <1>1, <1>3, <2>1 DEF Times
  <2> QED
    BY <1>1, <2>2
<1> QED
  BY <1>2, <1>3

-----------------------------------------------------------------------------
(* What the invariant says                                                 *)

LEMMA Sizes == IInv => Sized /\ Alive
<1>1. ASSUME IInv
      PROVE  Sized
  BY <1>1 DEF IInv, TypeOK, HeldInv, Sized, Thread
<1> QED
  BY <1>1, ReferencesCount DEF IInv

(* A call in a pipe stands on an open end.                                 *)
LEMMA Uses ==
  ASSUME IInv, NEW p \in Process, InPipe(p)
  PROVE  /\ thread[p].f \in File /\ Obj(p) \in PipeId
         /\ ftable[thread[p].f].ref > 0
         /\ IsEnd(thread[p].f, Obj(p), ftable[thread[p].f].writable)
         /\ thread[p].at \in Reading <=> ~ ftable[thread[p].f].writable
         /\ thread[p].at \in Reading => pipe[Obj(p)].readopen
         /\ thread[p].at \in Writing => pipe[Obj(p)].writeopen
         /\ pipe[Obj(p)].used
<1>1. PICK fd \in Fd : ofile[p][fd] = thread[p].f
  BY DEF IInv, UseInv
<1>2. thread[p].f \in File /\ ftable[thread[p].f].writable = (thread[p].at \in Writing)
  BY DEF IInv, UseInv
<1>3. ftable[thread[p].f].ref > 0
  BY <1>1, <1>2, Sizes DEF Alive
<1>4. thread[p].f # NoFile
  BY <1>2 DEF File
<1>5. ftable[thread[p].f].type = "pipe" /\ ftable[thread[p].f].obj \in PipeId
  BY <1>1, <1>2, <1>4 DEF IInv, FileInv
<1>6. thread[p].at \in Reading <=> ~ (thread[p].at \in Writing)
  BY DEF InPipe, Reading, Writing
<1>7. ftable[thread[p].f].writable \in BOOLEAN
  BY <1>2 DEF IInv, TypeOK, FilesTypeOK
<1>8. Obj(p) \in PipeId /\ IsEnd(thread[p].f, Obj(p), ftable[thread[p].f].writable)
  BY <1>5 DEF IsEnd, Obj
<1>9. IsOpen(Obj(p), ftable[thread[p].f].writable)
  BY <1>2, <1>7, <1>8 DEF IInv, EndInv
<1> QED
  BY <1>2, <1>3, <1>6, <1>7, <1>8, <1>9 DEF IsOpen, IInv, EndInv

LEMMA Freed == IInv => FreedWithLastHolder
<1> SUFFICES ASSUME IInv
             PROVE  FreedWithLastHolder
  OBVIOUS
<1>1. \A f \in File : ftable[f].type = "pipe" => ftable[f].ref > 0
  BY DEF IInv, TypeOK, FilesTypeOK, FileInv, Closed
<1>2. ASSUME NEW pi \in PipeId, NEW wr \in BOOLEAN
      PROVE  IsOpen(pi, wr) <=> EndHeld(pi, wr)
  BY <1>1 DEF IInv, EndInv, EndHeld, IsEnd, ClosesEnd, At
<1>3. ASSUME NEW pi \in PipeId
      PROVE  /\ pipe[pi].readopen = EndHeld(pi, FALSE)
             /\ pipe[pi].writeopen = EndHeld(pi, TRUE)
             /\ pipe[pi].used = (pipe[pi].readopen \/ pipe[pi].writeopen)
  <2>1. pipe[pi].readopen \in BOOLEAN /\ pipe[pi].writeopen \in BOOLEAN /\ pipe[pi].used \in BOOLEAN
    BY DEF IInv, TypeOK, StructPipe
  <2>2. EndHeld(pi, FALSE) \in BOOLEAN /\ EndHeld(pi, TRUE) \in BOOLEAN
    BY DEF EndHeld
  <2>3. (pipe[pi].readopen <=> EndHeld(pi, FALSE)) /\ (pipe[pi].writeopen <=> EndHeld(pi, TRUE))
    BY <1>2 DEF IsOpen
  <2>4. pipe[pi].used <=> (pipe[pi].readopen \/ pipe[pi].writeopen)
    BY DEF IInv, EndInv
  <2> QED
    BY <2>1, <2>2, <2>3, <2>4
<1>4. ASSUME NEW p \in Process,
             thread[p].at \in {"read", "r_sleep", "r_asleep", "write", "w_loop", "w_sleep",
                               "w_asleep"}
      PROVE  ftable[thread[p].f].type = "pipe" /\ pipe[Obj(p)].used
  <2>1. InPipe(p)
    BY <1>4 DEF InPipe, Reading, Writing
  <2> QED
    BY <2>1, Uses DEF IsEnd
<1> QED
  BY <1>3, <1>4 DEF FreedWithLastHolder, IInv, CountInv

LEMMA Woken == IInv => NoLostWakeup
<1> SUFFICES ASSUME IInv
             PROVE  NoLostWakeup
  OBVIOUS
<1>1. \A q \in Process : At(q, "w_loop") => pipe[Obj(q)].lock # NoProcess
  BY DEF IInv, UseInv, InPipe, Writing, At
<1> QED
  BY <1>1 DEF IInv, WaitInv, NoLostWakeup, At


-----------------------------------------------------------------------------
(* The locals of a process change                                          *)

LEMMA Continues ==
  ASSUME NEW t \in Thread, NEW l \in Location, NEW o \in PipeId, NEW b \in BOOLEAN,
         NEW n \in Nat, NEW i \in 0..1, NEW g \in Seq(Byte), NEW h \in Seq(File)
  PROVE  /\ [t EXCEPT !.held = h] \in Thread
         /\ [t EXCEPT !.at = l, !.held = h] \in Thread
         /\ [t EXCEPT !.at = l, !.obj = o, !.writable = b] \in Thread
         /\ [t EXCEPT !.at = l, !.got = g] \in Thread
         /\ [t EXCEPT !.at = l, !.i = i] \in Thread
         /\ [t EXCEPT !.at = l, !.n = n, !.i = i] \in Thread
<1>1. o \in PipeId \union {NoObject}
  OBVIOUS
<1> SUFFICES ASSUME NEW L, NEW F, NEW O, NEW N, NEW I, NEW G, NEW H,
                    l \in L, o \in O, n \in N, i \in I, g \in G, h \in H,
                    NEW u \in [at : L, f : F, obj : O, writable : BOOLEAN, n : N, i : I,
                               got : G, held : H, exiting : BOOLEAN]
             PROVE  LET T == [at : L, f : F, obj : O, writable : BOOLEAN, n : N, i : I,
                              got : G, held : H, exiting : BOOLEAN]
                    IN  /\ [u EXCEPT !.held = h] \in T
                        /\ [u EXCEPT !.at = l, !.held = h] \in T
                        /\ [u EXCEPT !.at = l, !.obj = o, !.writable = b] \in T
                        /\ [u EXCEPT !.at = l, !.got = g] \in T
                        /\ [u EXCEPT !.at = l, !.i = i] \in T
                        /\ [u EXCEPT !.at = l, !.n = n, !.i = i] \in T
  BY <1>1, ZenonT(60) DEF Thread
<1> QED
  BY Zenon

LEMMA GoesTo ==
  ASSUME NEW t \in Thread, NEW l \in Location
  PROVE  /\ [t EXCEPT !.at = l] \in Thread
         /\ [t EXCEPT !.at = l, !.obj = NoObject, !.writable = FALSE] \in Thread
<1>1. NoObject \in PipeId \union {NoObject}
  OBVIOUS
<1> SUFFICES ASSUME NEW L, NEW F, NEW O, NEW N, NEW I, NEW G, NEW H,
                    l \in L, NoObject \in O,
                    NEW u \in [at : L, f : F, obj : O, writable : BOOLEAN, n : N, i : I,
                               got : G, held : H, exiting : BOOLEAN]
             PROVE  LET T == [at : L, f : F, obj : O, writable : BOOLEAN, n : N, i : I,
                              got : G, held : H, exiting : BOOLEAN]
                    IN  /\ [u EXCEPT !.at = l] \in T
                        /\ [u EXCEPT !.at = l, !.obj = NoObject, !.writable = FALSE] \in T
  BY <1>1, Zenon DEF Thread
<1> QED
  BY Zenon

LEMMA Idle == User \in Thread /\ Absent \in Thread
<1>1. /\ "user" \in Location /\ "absent" \in Location /\ NoFile \in File \union {NoFile}
      /\ NoObject \in PipeId \union {NoObject} /\ 0 \in Nat /\ 0 \in 0..1
      /\ << >> \in Seq(Byte) /\ << >> \in Seq(File)
  BY DEF Location
<1>2. User \in Thread
  BY <1>1, Zenon DEF User, Thread
<1> QED
  BY <1>1, <1>2, GoesTo, Zenon DEF Absent

LEMMA Begins ==
  ASSUME NEW l \in Location, NEW f \in File, NEW b \in BOOLEAN, NEW n \in Nat,
         NEW h \in Seq(File)
  PROVE  /\ [User EXCEPT !.at = l, !.held = h] \in Thread
         /\ [User EXCEPT !.at = l, !.exiting = b] \in Thread
         /\ [User EXCEPT !.at = l, !.f = f, !.n = n] \in Thread
<1>1. f \in File \union {NoFile}
  OBVIOUS
<1> SUFFICES ASSUME NEW L, NEW F, NEW O, NEW N, NEW I, NEW G, NEW H,
                    l \in L, f \in F, n \in N, h \in H,
                    NEW u \in [at : L, f : F, obj : O, writable : BOOLEAN, n : N, i : I,
                               got : G, held : H, exiting : BOOLEAN]
             PROVE  LET T == [at : L, f : F, obj : O, writable : BOOLEAN, n : N, i : I,
                              got : G, held : H, exiting : BOOLEAN]
                    IN  /\ [u EXCEPT !.at = l, !.held = h] \in T
                        /\ [u EXCEPT !.at = l, !.exiting = b] \in T
                        /\ [u EXCEPT !.at = l, !.f = f, !.n = n] \in T
  BY <1>1, Idle, ZenonT(60) DEF Thread
<1> QED
  BY Zenon

LEMMA Becomes ==
  ASSUME TypeOK, NEW p \in Process, NEW t \in Thread, thread' = [thread EXCEPT ![p] = t]
  PROVE  /\ thread' \in [Process -> Thread] /\ thread'[p] = t
         /\ \A q \in Process : q # p => thread'[q] = thread[q]
BY DEF TypeOK

(* A process is woken up in pipe pi.                                       *)
WokenAt(q, t, pi) ==
  /\ Obj(q) = pi
  /\ \/ t.at = "r_asleep" /\ thread'[q].at = "read"
     \/ t.at = "w_asleep" /\ thread'[q].at = "write"
  /\ thread'[q].f = t.f /\ thread'[q].n = t.n /\ thread'[q].i = t.i
  /\ thread'[q].held = t.held /\ thread'[q].exiting = t.exiting

LEMMA Wakes ==
  ASSUME NEW t \in [Process -> Thread], NEW pi, NEW place \in {"r_asleep", "w_asleep"},
         thread' = Wake(t, pi, place)
  PROVE  /\ thread' \in [Process -> Thread]
         /\ \A q \in Process : thread'[q] = t[q] \/ WokenAt(q, t[q], pi)
         /\ \A q \in Process : t[q].at # place => thread'[q] = t[q]
         /\ \A q \in Process : thread'[q].at = place => Obj(q) # pi
<1>1. WakeAt[place] \in Location /\ WakeAt[place] # place
      /\ (place = "r_asleep" => WakeAt[place] = "read")
      /\ (place = "w_asleep" => WakeAt[place] = "write")
  BY DEF WakeAt, Location
<1>2. ASSUME NEW q \in Process
      PROVE  /\ thread'[q] \in Thread
             /\ thread'[q] = t[q] \/ WokenAt(q, t[q], pi)
             /\ t[q].at # place => thread'[q] = t[q]
             /\ thread'[q].at = place => Obj(q) # pi
  <2>1. CASE t[q].at = place /\ Obj(q) = pi
    <3>1. thread'[q] = [t[q] EXCEPT !.at = WakeAt[place]] /\ t[q] \in Thread
      BY <2>1 DEF Wake
    <3>2. thread'[q] \in Thread
      BY <1>1, <3>1, GoesTo, ZenonT(60)
    <3>3. /\ thread'[q].at = WakeAt[place]
          /\ thread'[q].f = t[q].f /\ thread'[q].n = t[q].n /\ thread'[q].i = t[q].i
          /\ thread'[q].held = t[q].held /\ thread'[q].exiting = t[q].exiting
      BY <3>1 DEF Thread
    <3> QED
      BY <1>1, <2>1, <3>2, <3>3 DEF WokenAt
  <2>2. CASE ~ (t[q].at = place /\ Obj(q) = pi)
    <3>1. thread'[q] = t[q]
      BY <2>2 DEF Wake
    <3> QED
      BY <2>2, <3>1
  <2> QED
    BY <2>1, <2>2
<1>3. thread' = [q \in Process |-> thread'[q]]
  BY DEF Wake
<1>4. thread' \in [Process -> Thread]
  BY <1>2, <1>3
<1> QED
  BY <1>2, <1>4

-----------------------------------------------------------------------------
(* Steps that leave the files alone                                        *)

(* A process moves in user mode and in calls that make or close no file.   *)
Working == {"user"} \union Reading \union Writing
Moves(q) ==
  \/ thread'[q] = thread[q]
  \/ /\ thread[q].at \in Working /\ thread'[q].at \in Working
     /\ thread'[q].held = << >> /\ ~ thread'[q].exiting

LEMMA FilesKept ==
  ASSUME IInv, UNCHANGED <<ftable, ofile>>, \A q \in Process : Moves(q),
         \A pi \in PipeId : /\ pipe'[pi].used = pipe[pi].used
                            /\ pipe'[pi].readopen = pipe[pi].readopen
                            /\ pipe'[pi].writeopen = pipe[pi].writeopen
  PROVE  CountInv' /\ FileInv' /\ HeldInv' /\ EndInv'
<1>1. ASSUME NEW q \in Process
      PROVE  /\ thread'[q].held = thread[q].held
             /\ thread'[q].at \in Making \union Closing
                  \/ thread[q].at \in Making \union Closing
                  \/ thread'[q].at = "absent" \/ thread[q].at = "absent"
                  => thread'[q] = thread[q]
  BY DEF Moves, Working, Reading, Writing, Making, Closing, IInv, HeldInv
<1>2. CountInv'
  <2>1. ASSUME NEW f \in File
        PROVE  FdRefs(f)' = FdRefs(f) /\ LocalRefs(f)' = LocalRefs(f)
    <3>1. {h \in Process \X (1..2) : h[2] \in DOMAIN thread'[h[1]].held
                                      /\ thread'[h[1]].held[h[2]] = f}
            = {h \in Process \X (1..2) : h[2] \in DOMAIN thread[h[1]].held
                                      /\ thread[h[1]].held[h[2]] = f}
      BY <1>1
    <3> QED
      BY <3>1, Zenon DEF FdRefs, LocalRefs
  <2> QED
    BY <2>1 DEF CountInv, IInv
<1>3. FileInv'
  BY DEF IInv, FileInv
<1>4. HeldInv'
  <2>1. ASSUME NEW q \in Process, thread'[q] = thread[q]
        PROVE  /\ thread'[q].at = "absent" => \A fd \in Fd : ofile'[q][fd] = NoFile
               /\ Len(thread'[q].held) <= 2
               /\ thread'[q].at = "pipe_second" => Len(thread'[q].held) = 1
               /\ thread'[q].at = "pipe_page" => Len(thread'[q].held) = 2
               /\ thread'[q].at \notin Making \union Closing => thread'[q].held = << >>
               /\ thread'[q].exiting => thread'[q].at \in Closing /\ thread'[q].held = << >>
               /\ thread'[q].at \in Making => \A i \in DOMAIN thread'[q].held :
                    ftable'[thread'[q].held[i]].ref = 1
                    /\ ftable'[thread'[q].held[i]].type = "none"
               /\ thread'[q].at = "pipeclose" => thread'[q].obj \in PipeId
    BY <2>1 DEF IInv, HeldInv
  <2>2. ASSUME NEW q \in Process, thread'[q].at \in Working, thread'[q].held = << >>,
               ~ thread'[q].exiting
        PROVE  /\ thread'[q].at = "absent" => \A fd \in Fd : ofile'[q][fd] = NoFile
               /\ Len(thread'[q].held) <= 2
               /\ thread'[q].at = "pipe_second" => Len(thread'[q].held) = 1
               /\ thread'[q].at = "pipe_page" => Len(thread'[q].held) = 2
               /\ thread'[q].at \notin Making \union Closing => thread'[q].held = << >>
               /\ thread'[q].exiting => thread'[q].at \in Closing /\ thread'[q].held = << >>
               /\ thread'[q].at \in Making => \A i \in DOMAIN thread'[q].held :
                    ftable'[thread'[q].held[i]].ref = 1
                    /\ ftable'[thread'[q].held[i]].type = "none"
               /\ thread'[q].at = "pipeclose" => thread'[q].obj \in PipeId
    BY <2>2 DEF Working, Reading, Writing, Making, Closing
  <2> QED
    BY <2>1, <2>2 DEF Moves, HeldInv
<1>5. EndInv'
  <2>1. \A f \in File, pi \in PipeId, wr \in BOOLEAN : IsEnd(f, pi, wr)' = IsEnd(f, pi, wr)
    BY DEF IsEnd
  <2>2. \A q \in Process, pi \in PipeId, wr \in BOOLEAN :
          ClosesEnd(q, pi, wr)' = ClosesEnd(q, pi, wr)
    BY <1>1 DEF ClosesEnd, Closing
  <2>3. \A pi \in PipeId, wr \in BOOLEAN : IsOpen(pi, wr)' = IsOpen(pi, wr)
    BY DEF IsOpen
  <2> QED
    BY <2>1, <2>2, <2>3 DEF IInv, EndInv
<1> QED
  BY <1>2, <1>3, <1>4, <1>5

(* What UseInv and WaitInv say of one process.                             *)
Use(p) ==
  InPipe(p) =>
    /\ \E fd \in Fd : ofile[p][fd] = thread[p].f
    /\ thread[p].f \in File
    /\ ftable[thread[p].f].writable = (thread[p].at \in Writing)
    /\ thread[p].at # "r_return" => thread[p].n > 0
    /\ thread[p].at \in {"r_sleep", "w_loop", "w_sleep"} => pipe[Obj(p)].lock = p
Waits(p) ==
  /\ At(p, "w_sleep") \/ At(p, "w_asleep") => Occupied(Obj(p)) /\ pipe[Obj(p)].readopen
  /\ At(p, "r_sleep") => MustWait(Obj(p))
  /\ At(p, "w_loop") => thread[p].i = 1
  /\ At(p, "r_asleep") =>
       \/ MustWait(Obj(p))
       \/ torn[Obj(p)] /\ pipe[Obj(p)].writeopen
       \/ \E q \in Process : At(q, "w_loop") /\ Obj(q) = Obj(p)

LEMMA OneByOne == (UseInv <=> \A q \in Process : Use(q)) /\ (WaitInv <=> \A q \in Process : Waits(q))
BY Zenon DEF UseInv, Use, WaitInv, Waits

LEMMA OneByOneNext ==
  (UseInv <=> \A q \in Process : Use(q))' /\ (WaitInv <=> \A q \in Process : Waits(q))'
BY OneByOne, PTL

(* A process goes on undisturbed in its pipe.                              *)
Undisturbed(q) ==
  /\ thread'[q] = thread[q] /\ ofile'[q] = ofile[q]
  /\ ftable'[thread[q].f].obj = ftable[thread[q].f].obj
  /\ ftable'[thread[q].f].writable = ftable[thread[q].f].writable
  /\ pipe'[Obj(q)] = pipe[Obj(q)] /\ torn'[Obj(q)] = torn[Obj(q)]

LEMMA PipesKept ==
  ASSUME IInv,
         \A q \in Process : InPipe(q)' =>
           \/ Undisturbed(q)
           \/ Use(q)' /\ thread'[q].at \in {"read", "write", "r_return"},
         \A q \in Process : thread[q].at = "w_loop" => Undisturbed(q)
  PROVE  UseInv' /\ WaitInv'
<1>1. ASSUME NEW q \in Process, Undisturbed(q)
      PROVE  Obj(q)' = Obj(q) /\ Use(q)' /\ Waits(q)'
  <2>1. Obj(q)' = Obj(q)
    BY <1>1 DEF Undisturbed, Obj
  <2>2. Use(q)
    BY OneByOne DEF IInv
  <2>3. Use(q)'
    <3>1. InPipe(q)' = InPipe(q)
      BY <1>1 DEF Undisturbed, InPipe
    <3> QED
      BY <1>1, <2>1, <2>2, <3>1 DEF Undisturbed, Use
  <2>4. Waits(q)
    BY OneByOne DEF IInv
  <2>5. \A l : At(q, l)' = At(q, l)
    BY <1>1 DEF Undisturbed, At
  <2>6. /\ Occupied(Obj(q))' = Occupied(Obj(q)) /\ MustWait(Obj(q))' = MustWait(Obj(q))
        /\ pipe[Obj(q)]' = pipe[Obj(q)] /\ torn[Obj(q)]' = torn[Obj(q)]
    BY <1>1, <2>1 DEF Undisturbed, Occupied, MustWait, Vacant
  <2>7. ASSUME NEW x \in Process, At(x, "w_loop") /\ Obj(x) = Obj(q)
        PROVE  (At(x, "w_loop") /\ Obj(x) = Obj(q))'
    BY <2>1, <2>7 DEF Undisturbed, At, Obj
  <2>8. thread'[q] = thread[q]
    BY <1>1 DEF Undisturbed
  <2>9. Waits(q)'
    BY <2>4, <2>5, <2>6, <2>7, <2>8 DEF Waits
  <2> QED
    BY <2>1, <2>3, <2>9
<1>2. ASSUME NEW q \in Process, ~ Undisturbed(q)
      PROVE  Use(q)' /\ Waits(q)'
  BY <1>2 DEF Use, Waits, At, InPipe, Reading, Writing
<1>3. \A q \in Process : Use(q)' /\ Waits(q)'
  BY <1>1, <1>2
<1> QED
  BY <1>3, OneByOneNext

-----------------------------------------------------------------------------
(* Steps that work in a pipe                                               *)

LEMMA PipeMoves ==
  ASSUME NEW x \in StructPipe, NEW l \in Process \union {NoProcess}, NEW k \in Byte,
         NEW d \in [0..PIPESIZE - 1 -> Byte]
  PROVE  /\ [x EXCEPT !.lock = l] \in StructPipe
         /\ [x EXCEPT !.nread = k] \in StructPipe
         /\ [x EXCEPT !.readopen = FALSE] \in StructPipe
         /\ [x EXCEPT !.writeopen = FALSE] \in StructPipe
         /\ [x EXCEPT !.used = TRUE, !.readopen = TRUE, !.writeopen = TRUE] \in StructPipe
         /\ [x EXCEPT !.data = d, !.nwrite = k, !.lock = l] \in StructPipe
<1> SUFFICES ASSUME NEW D, NEW K, NEW L, l \in L, k \in K, d \in D,
                    NEW y \in [used : BOOLEAN, data : D, nread : K, nwrite : K,
                               readopen : BOOLEAN, writeopen : BOOLEAN, lock : L]
             PROVE  LET T == [used : BOOLEAN, data : D, nread : K, nwrite : K,
                              readopen : BOOLEAN, writeopen : BOOLEAN, lock : L]
                    IN  /\ [y EXCEPT !.lock = l] \in T
                        /\ [y EXCEPT !.nread = k] \in T
                        /\ [y EXCEPT !.readopen = FALSE] \in T
                        /\ [y EXCEPT !.writeopen = FALSE] \in T
                        /\ [y EXCEPT !.used = TRUE, !.readopen = TRUE, !.writeopen = TRUE] \in T
                        /\ [y EXCEPT !.data = d, !.nwrite = k, !.lock = l] \in T
  BY Zenon DEF StructPipe
<1> QED
  BY Zenon

LEMMA Locks ==
  ASSUME TypeOK, NEW pi \in PipeId, NEW l \in Process \union {NoProcess},
         pipe' = [pipe EXCEPT ![pi].lock = l]
  PROVE  /\ pipe' \in [PipeId -> StructPipe]
         /\ \A x \in PipeId : x # pi => pipe'[x] = pipe[x]
         /\ pipe'[pi].lock = l
         /\ \A x \in PipeId :
              /\ pipe'[x].used = pipe[x].used /\ pipe'[x].data = pipe[x].data
              /\ pipe'[x].nread = pipe[x].nread /\ pipe'[x].nwrite = pipe[x].nwrite
              /\ pipe'[x].readopen = pipe[x].readopen
              /\ pipe'[x].writeopen = pipe[x].writeopen
<1>1. pipe[pi] \in StructPipe /\ pipe \in [PipeId -> StructPipe]
  BY DEF TypeOK
<1>2. /\ pipe'[pi] = [pipe[pi] EXCEPT !.lock = l]
      /\ \A x \in PipeId : x # pi => pipe'[x] = pipe[x]
      /\ pipe' = [x \in PipeId |-> pipe'[x]]
  BY <1>1
<1>3. pipe'[pi] \in StructPipe
  <2>1. 0 \in Byte /\ [s \in 0..PIPESIZE - 1 |-> 0] \in [0..PIPESIZE - 1 -> Byte]
    BY DEF Byte
  <2> QED
    BY <1>1, <1>2, <2>1, PipeMoves, Zenon
<1>4. pipe' \in [PipeId -> StructPipe]
  BY <1>1, <1>2, <1>3
<1>5. /\ pipe'[pi].lock = l
      /\ pipe'[pi].used = pipe[pi].used /\ pipe'[pi].data = pipe[pi].data
      /\ pipe'[pi].nread = pipe[pi].nread /\ pipe'[pi].nwrite = pipe[pi].nwrite
      /\ pipe'[pi].readopen = pipe[pi].readopen /\ pipe'[pi].writeopen = pipe[pi].writeopen
  BY <1>1, <1>2 DEF StructPipe
<1> QED
  BY <1>2, <1>4, <1>5

(* p, which has the lock or finds it free, moves in pipe pi and wakes up   *)
(* some of the others.                                                     *)
LEMMA PipeStep ==
  ASSUME IInv, TypeOK', NEW p \in Process, NEW pi \in PipeId, pi = Obj(p),
         UNCHANGED <<ftable, ofile>>,
         pipe[pi].lock \in {NoProcess, p},
         Moves(p), Use(p)', Waits(p)',
         \A q \in Process : q # p => thread'[q] = thread[q] \/ WokenAt(q, thread[q], pi),
         \A x \in PipeId : x # pi => pipe'[x] = pipe[x] /\ torn'[x] = torn[x],
         /\ pipe'[pi].used = pipe[pi].used
         /\ pipe'[pi].readopen = pipe[pi].readopen
         /\ pipe'[pi].writeopen = pipe[pi].writeopen,
         (Held(pi) <= PIPESIZE)',
         \A q \in Process : q # p /\ Obj(q) = pi /\ thread'[q].at \in {"r_asleep", "w_asleep"}
           => Waits(q)'
  PROVE  IInv'
<1>1. ASSUME NEW q \in Process, q # p
      PROVE  /\ Moves(q) /\ Obj(q)' = Obj(q)
             /\ InPipe(q)' <=> InPipe(q)
             /\ thread'[q].at \in Writing <=> thread[q].at \in Writing
             /\ InPipe(q) => thread'[q].n = thread[q].n /\ thread'[q].f = thread[q].f
  <2>1. CASE thread'[q] = thread[q]
    BY <2>1 DEF Moves, Obj, InPipe
  <2>2. CASE WokenAt(q, thread[q], pi)
    <3>1. thread[q].at \notin Making \union Closing => thread[q].held = << >>
      BY DEF IInv, HeldInv
    <3>2. thread[q].exiting => thread[q].at \in Closing
      BY DEF IInv, HeldInv
    <3> QED
      BY <2>2, <3>1, <3>2 DEF WokenAt, Moves, Working, Reading, Writing, Making, Closing,
                              InPipe, Obj
  <2> QED
    BY <1>1, <2>1, <2>2
<1>2. CountInv' /\ FileInv' /\ HeldInv' /\ EndInv'
  BY <1>1, FilesKept
<1>3. ASSUME NEW q \in Process, q # p
      PROVE  /\ thread'[q].at \in {"r_sleep", "w_loop", "w_sleep"} => Obj(q) # pi
             /\ thread'[q] # thread[q] => thread'[q].at \in {"read", "write"} /\ Obj(q) = pi
             /\ InPipe(q) => Obj(q) \in PipeId
  <2>1. thread'[q] # thread[q] => thread'[q].at \in {"read", "write"} /\ Obj(q) = pi
    BY <1>3 DEF WokenAt
  <2>2. ASSUME thread'[q].at \in {"r_sleep", "w_loop", "w_sleep"}
        PROVE  Obj(q) # pi
    <3>1. thread'[q] = thread[q]
      BY <2>1, <2>2
    <3>2. InPipe(q)
      BY <2>2, <3>1 DEF InPipe, Reading, Writing
    <3>3. pipe[Obj(q)].lock = q
      BY <2>2, <3>1, <3>2 DEF IInv, UseInv
    <3> QED
      BY <1>3, <3>3
  <2> QED
    BY <2>1, <2>2, Uses
<1>4. ASSUME NEW q \in Process, q # p
      PROVE  Use(q)'
  <2>1. Use(q)
    BY OneByOne DEF IInv
  <2>2. Obj(q) # pi => pipe'[Obj(q)] = pipe[Obj(q)] \/ ~ InPipe(q)
    BY <1>3, <1>4
  <2>3. SUFFICES ASSUME InPipe(q)
                 PROVE  Use(q)'
    BY <1>1, <1>4 DEF Use
  <2>4. \E fd \in Fd : ofile'[q][fd] = thread'[q].f
    BY <1>1, <1>4, <2>1, <2>3 DEF Use
  <2>5. /\ thread'[q].f \in File
        /\ ftable'[thread'[q].f].writable = (thread'[q].at \in Writing)
    <3>1. thread'[q].f = thread[q].f
      BY <1>1, <1>4, <2>3
    <3>2. (thread'[q].at \in Writing) = (thread[q].at \in Writing)
      BY <1>1, <1>4
    <3> QED
      BY <2>1, <2>3, <3>1, <3>2 DEF Use
  <2>6. thread'[q].at # "r_return" => thread'[q].n > 0
    <3>1. thread[q].at = "r_return" => thread'[q].at = "r_return"
      BY <1>4 DEF WokenAt
    <3> QED
      BY <1>1, <1>4, <2>1, <2>3, <3>1 DEF Use
  <2>7. thread'[q].at \in {"r_sleep", "w_loop", "w_sleep"} => pipe'[Obj(q)'].lock = q
    BY <1>1, <1>3, <1>4, <2>1, <2>2, <2>3 DEF Use
  <2> QED
    BY <2>4, <2>5, <2>6, <2>7 DEF Use
<1>5. ASSUME NEW q \in Process, q # p
      PROVE  Waits(q)'
  <2>1. Waits(q)
    BY OneByOne DEF IInv
  <2>2. CASE thread'[q].at \notin {"r_sleep", "w_loop", "w_sleep", "r_asleep", "w_asleep"}
    BY <2>2 DEF Waits, At
  <2>3. CASE thread'[q].at \in {"r_sleep", "w_loop", "w_sleep", "r_asleep", "w_asleep"}
    <3>1. CASE Obj(q) = pi
      BY <1>3, <1>5, <2>3, <3>1
    <3>2. CASE Obj(q) # pi
      <4>1. thread'[q] = thread[q] /\ Obj(q)' = Obj(q)
        BY <1>1, <1>3, <1>5, <3>2
      <4>2. Obj(q) \in PipeId
        BY <1>3, <1>5, <2>3, <4>1 DEF InPipe, Reading, Writing
      <4>3. pipe'[Obj(q)] = pipe[Obj(q)] /\ torn'[Obj(q)] = torn[Obj(q)]
        BY <3>2, <4>2
      <4>4. ASSUME NEW x \in Process, At(x, "w_loop"), Obj(x) = Obj(q)
            PROVE  (At(x, "w_loop") /\ Obj(x) = Obj(q))'
        <5>1. x # p
          BY <3>2, <4>4
        <5>2. Obj(x) # pi
          BY <3>2, <4>4
        <5> QED
          BY <1>1, <1>3, <4>1, <4>4, <5>1, <5>2 DEF At
      <4>5. /\ Occupied(Obj(q))' = Occupied(Obj(q)) /\ MustWait(Obj(q))' = MustWait(Obj(q))
            /\ pipe[Obj(q)]' = pipe[Obj(q)] /\ torn[Obj(q)]' = torn[Obj(q)]
        BY <4>1, <4>3 DEF Occupied, MustWait, Vacant
      <4>6. \A l : At(q, l)' = At(q, l)
        BY <4>1 DEF At
      <4> QED
        BY <2>1, <4>1, <4>4, <4>5, <4>6 DEF Waits
    <3> QED
      BY <3>1, <3>2
  <2> QED
    BY <2>2, <2>3
<1>6. UseInv' /\ WaitInv'
  BY <1>4, <1>5, OneByOneNext
<1>7. RingInv'
  <2>1. ASSUME NEW x \in PipeId, x # pi
        PROVE  (Held(x) <= PIPESIZE)'
    BY <2>1 DEF IInv, RingInv, Held
  <2> QED
    BY <2>1 DEF RingInv
<1> QED
  BY <1>2, <1>6, <1>7 DEF IInv

-----------------------------------------------------------------------------
(* The ring                                                                *)

LEMMA Remainder ==
  ASSUME NEW x \in Int, -UintMod <= x, x < 2 * UintMod
  PROVE  x % UintMod = IF x < 0 THEN x + UintMod ELSE IF x < UintMod THEN x ELSE x - UintMod
<1>1. UintMod \in Nat \ {0}
  OBVIOUS
<1>2. ASSUME NEW b \in Nat \ {0}
      PROVE  /\ \A y \in 0..b - 1 : y % b = y
             /\ \A y \in b..2 * b - 1 : y % b = y - b
             /\ \A y \in -b..-1 : y % b = y + b
  OBVIOUS
<1>3. /\ \A y \in 0..UintMod - 1 : y % UintMod = y
      /\ \A y \in UintMod..2 * UintMod - 1 : y % UintMod = y - UintMod
      /\ \A y \in -UintMod..-1 : y % UintMod = y + UintMod
  BY <1>1, <1>2, Zenon
<1> QED
  BY <1>1, <1>3

LEMMA RingSteps ==
  ASSUME NEW r \in Byte, NEW w \in Byte
  PROVE  /\ (w - r) % UintMod = IF w >= r THEN w - r ELSE w - r + UintMod
         /\ (w - r) % UintMod \in Byte
         /\ w = r <=> (w - r) % UintMod = 0
         /\ w = (r + PIPESIZE) % UintMod <=> (w - r) % UintMod = PIPESIZE
         /\ \A k \in Nat : k <= (w - r) % UintMod =>
              /\ (r + k) % UintMod \in Byte
              /\ (w - ((r + k) % UintMod)) % UintMod = ((w - r) % UintMod) - k
         /\ (w + 1) % UintMod \in Byte
         /\ (w - r) % UintMod < PIPESIZE =>
              (((w + 1) % UintMod) - r) % UintMod = ((w - r) % UintMod) + 1
<1>1. /\ UintMod \in Nat /\ PIPESIZE \in Nat /\ PIPESIZE > 0 /\ UintMod > PIPESIZE
      /\ r \in Int /\ w \in Int /\ 0 <= r /\ r < UintMod /\ 0 <= w /\ w < UintMod
  BY DEF Byte
<1>2. (w - r) % UintMod = IF w >= r THEN w - r ELSE w - r + UintMod
  BY <1>1, Remainder
<1>3. PICK h \in Byte : h = (w - r) % UintMod /\ h = IF w >= r THEN w - r ELSE w - r + UintMod
  BY <1>1, <1>2 DEF Byte
<1>4. ASSUME NEW k \in Nat, k < UintMod
      PROVE  (r + k) % UintMod = IF r + k < UintMod THEN r + k ELSE r + k - UintMod
  BY <1>1, <1>4, Remainder
<1>5. (w + 1) % UintMod = IF w + 1 < UintMod THEN w + 1 ELSE w + 1 - UintMod
  BY <1>1, Remainder
<1>6. w = (r + PIPESIZE) % UintMod <=> h = PIPESIZE
  BY <1>1, <1>3, <1>4
<1>7. ASSUME NEW k \in Nat, k <= h
      PROVE  (r + k) % UintMod \in Byte /\ (w - ((r + k) % UintMod)) % UintMod = h - k
  <2>1. h < UintMod
    BY <1>3 DEF Byte
  <2>2. PICK m \in Byte : m = (r + k) % UintMod
                          /\ m = IF r + k < UintMod THEN r + k ELSE r + k - UintMod
    BY <1>1, <1>4, <1>7, <2>1 DEF Byte
  <2>3. m \in Int /\ 0 <= m /\ m < UintMod
    BY <2>2 DEF Byte
  <2>4. (w - m) % UintMod = IF w - m < 0 THEN w - m + UintMod ELSE w - m
    BY <1>1, <2>3, Remainder
  <2> QED
    BY <1>1, <1>3, <1>7, <2>1, <2>2, <2>3, <2>4
<1>8. PICK m \in Byte : m = (w + 1) % UintMod
                        /\ m = IF w + 1 < UintMod THEN w + 1 ELSE w + 1 - UintMod
  BY <1>1, <1>5 DEF Byte
<1>9. ASSUME h < PIPESIZE
      PROVE  (m - r) % UintMod = h + 1
  <2>1. m \in Int /\ 0 <= m /\ m < UintMod
    BY <1>8 DEF Byte
  <2>2. (m - r) % UintMod = IF m - r < 0 THEN m - r + UintMod ELSE m - r
    BY <1>1, <2>1, Remainder
  <2> QED
    BY <1>1, <1>3, <1>8, <1>9, <2>1, <2>2
<1> QED
  BY <1>1, <1>2, <1>3, <1>6, <1>7, <1>8, <1>9

-----------------------------------------------------------------------------
(* The calls read and write                                                *)

LEMMA Awakens ==
  ASSUME TypeOK, NEW p \in Process, NEW t \in Thread, NEW pi,
         NEW place \in {"r_asleep", "w_asleep"}, t.at # place,
         thread' = Wake([thread EXCEPT ![p] = t], pi, place)
  PROVE  /\ thread' \in [Process -> Thread] /\ thread'[p] = t
         /\ \A q \in Process : q # p => thread'[q] = thread[q] \/ WokenAt(q, thread[q], pi)
         /\ \A q \in Process : thread'[q].at = place => Obj(q) # pi
<1>1. PICK tt \in [Process -> Thread] : tt = [thread EXCEPT ![p] = t]
  BY DEF TypeOK
<1>2. tt[p] = t /\ \A q \in Process : q # p => tt[q] = thread[q]
  BY <1>1 DEF TypeOK
<1>3. thread' = Wake(tt, pi, place)
  BY <1>1
<1>4. /\ thread' \in [Process -> Thread]
      /\ \A q \in Process : thread'[q] = tt[q] \/ WokenAt(q, tt[q], pi)
      /\ \A q \in Process : tt[q].at # place => thread'[q] = tt[q]
      /\ \A q \in Process : thread'[q].at = place => Obj(q) # pi
  BY <1>3, Wakes
<1>5. thread'[p] = t
  BY <1>2, <1>4
<1>6. ASSUME NEW q \in Process, q # p
      PROVE  thread'[q] = thread[q] \/ WokenAt(q, thread[q], pi)
  <2>1. tt[q] = thread[q]
    BY <1>2, <1>6
  <2> QED
    BY <1>4, <2>1
<1> QED
  BY <1>4, <1>5, <1>6

(* The call gives the lock back or keeps it, and moves no byte.            *)
LEMMA LockStep ==
  ASSUME IInv, NEW p \in Process, InPipe(p), NEW pi \in PipeId, pi = Obj(p),
         UNCHANGED <<ftable, ofile, killed>>,
         thread' \in [Process -> Thread], torn' \in [PipeId -> BOOLEAN],
         pipe[pi].lock \in {NoProcess, p},
         NEW l \in {NoProcess, p}, pipe' = [pipe EXCEPT ![pi].lock = l],
         Moves(p), Use(p)', Waits(p)',
         \A q \in Process : q # p => thread'[q] = thread[q] \/ WokenAt(q, thread[q], pi),
         \A x \in PipeId : x # pi => torn'[x] = torn[x],
         \A q \in Process : q # p /\ Obj(q) = pi /\ thread'[q].at = "r_asleep" =>
           (torn[pi] \/ At(p, "w_loop") => torn'[pi])
  PROVE  IInv'
<1>1. TypeOK
  BY DEF IInv
<1>2. l \in Process \union {NoProcess}
  OBVIOUS
<1>3. /\ pipe' \in [PipeId -> StructPipe]
      /\ \A x \in PipeId : x # pi => pipe'[x] = pipe[x]
      /\ \A x \in PipeId :
           /\ pipe'[x].used = pipe[x].used /\ pipe'[x].data = pipe[x].data
           /\ pipe'[x].nread = pipe[x].nread /\ pipe'[x].nwrite = pipe[x].nwrite
           /\ pipe'[x].readopen = pipe[x].readopen
           /\ pipe'[x].writeopen = pipe[x].writeopen
  BY <1>1, <1>2, Locks
<1>4. TypeOK'
  BY <1>1, <1>3 DEF TypeOK, FilesTypeOK
<1>5. /\ Occupied(pi)' = Occupied(pi) /\ MustWait(pi)' = MustWait(pi)
      /\ (Held(pi) <= PIPESIZE)'
  BY <1>3 DEF IInv, RingInv, Held, Occupied, MustWait, Vacant
<1>6. ASSUME NEW q \in Process, q # p, Obj(q) = pi, thread'[q].at \in {"r_asleep", "w_asleep"}
      PROVE  Waits(q)'
  <2>1. thread'[q] = thread[q] /\ Obj(q)' = pi
    BY <1>6 DEF WokenAt, Obj
  <2>2. Waits(q)
    BY OneByOne DEF IInv
  <2>3. CASE thread'[q].at = "w_asleep"
    BY <1>3, <1>5, <1>6, <2>1, <2>2, <2>3 DEF Waits, At
  <2>4. CASE thread'[q].at = "r_asleep"
    <3>1. torn[pi] \/ At(p, "w_loop") => torn'[pi]
      BY <1>6, <2>4
    <3>2. At(p, "w_loop") => pipe[pi].writeopen
      BY Uses DEF At, Writing
    <3>3. ASSUME NEW x \in Process, At(x, "w_loop"), Obj(x) = pi
          PROVE  x = p
      BY <3>3 DEF IInv, UseInv, InPipe, Writing, At
    <3>4. \/ MustWait(pi)
          \/ torn[pi] /\ pipe[pi].writeopen
          \/ At(p, "w_loop")
      BY <1>6, <2>1, <2>2, <2>4, <3>3 DEF Waits, At
    <3>5. MustWait(pi)' \/ (torn'[pi] /\ pipe'[pi].writeopen)
      BY <1>3, <1>5, <3>1, <3>2, <3>4
    <3> QED
      BY <2>1, <2>4, <3>5 DEF Waits, At
  <2> QED
    BY <1>6, <2>3, <2>4
<1> QED
  BY <1>3, <1>4, <1>5, <1>6, PipeStep

LEMMA ReadSleepsKeeps == ASSUME IInv, NEW p \in Process, ReadSleeps(p) PROVE IInv'
<1>1. InPipe(p) /\ thread[p].at = "r_sleep" /\ TypeOK
  BY DEF ReadSleeps, At, InPipe, Reading, IInv
<1>2. PICK pi \in PipeId : pi = Obj(p)
  BY <1>1, Uses
<1>3. PICK t \in Thread : t = [thread[p] EXCEPT !.at = "r_asleep"]
  BY <1>1, GoesTo DEF TypeOK, Location
<1>4. /\ thread' \in [Process -> Thread] /\ thread'[p] = t
      /\ \A q \in Process : q # p => thread'[q] = thread[q]
  BY <1>1, <1>3, Becomes DEF ReadSleeps, Goto
<1>5. /\ t.at = "r_asleep" /\ t.f = thread[p].f /\ t.n = thread[p].n
      /\ t.held = thread[p].held /\ t.exiting = thread[p].exiting
  BY <1>1, <1>3 DEF TypeOK, Thread
<1>6. /\ UNCHANGED <<ftable, ofile, killed, torn>>
      /\ pipe' = [pipe EXCEPT ![pi].lock = NoProcess]
  BY <1>2 DEF ReadSleeps
<1>7. pipe[pi].lock = p /\ Use(p) /\ Waits(p)
  BY <1>1, <1>2, OneByOne DEF Use, IInv
<1>8. Moves(p) /\ Use(p)'
  BY <1>1, <1>4, <1>5, <1>6, <1>7
     DEF IInv, HeldInv, Moves, Working, Reading, Writing, Making, Closing, Use, InPipe
<1>9. Waits(p)'
  <2>1. MustWait(pi)
    BY <1>1, <1>2, <1>7 DEF Waits, At
  <2>2. MustWait(pi)'
    BY <1>1, <1>6, <2>1, Locks DEF MustWait, Vacant
  <2>3. Obj(p)' = pi
    BY <1>2, <1>4, <1>5, <1>6 DEF Obj
  <2> QED
    BY <1>4, <1>5, <2>2, <2>3 DEF Waits, At
<1> QED
  BY <1>1, <1>2, <1>4, <1>6, <1>7, <1>8, <1>9, LockStep DEF TypeOK, At

LEMMA WriteSleepsKeeps == ASSUME IInv, NEW p \in Process, WriteSleeps(p) PROVE IInv'
<1>1. InPipe(p) /\ thread[p].at = "w_sleep" /\ TypeOK
  BY DEF WriteSleeps, At, InPipe, Writing, IInv
<1>2. PICK pi \in PipeId : pi = Obj(p)
  BY <1>1, Uses
<1>3. PICK t \in Thread : t = [thread[p] EXCEPT !.at = "w_asleep"]
  BY <1>1, GoesTo DEF TypeOK, Location
<1>4. /\ thread' \in [Process -> Thread] /\ thread'[p] = t
      /\ \A q \in Process : q # p => thread'[q] = thread[q]
  BY <1>1, <1>3, Becomes DEF WriteSleeps, Goto
<1>5. /\ t.at = "w_asleep" /\ t.f = thread[p].f /\ t.n = thread[p].n
      /\ t.held = thread[p].held /\ t.exiting = thread[p].exiting
  BY <1>1, <1>3 DEF TypeOK, Thread
<1>6. /\ UNCHANGED <<ftable, ofile, killed, torn>>
      /\ pipe' = [pipe EXCEPT ![pi].lock = NoProcess]
  BY <1>2 DEF WriteSleeps
<1>7. pipe[pi].lock = p /\ Use(p) /\ Waits(p)
  BY <1>1, <1>2, OneByOne DEF Use, IInv
<1>8. Moves(p) /\ Use(p)'
  BY <1>1, <1>4, <1>5, <1>6, <1>7
     DEF IInv, HeldInv, Moves, Working, Reading, Writing, Making, Closing, Use, InPipe
<1>9. Waits(p)'
  <2>1. Occupied(pi) /\ pipe[pi].readopen
    BY <1>1, <1>2, <1>7 DEF Waits, At
  <2>2. (Occupied(pi) /\ pipe[pi].readopen)'
    BY <1>1, <1>6, <2>1, Locks DEF Occupied
  <2>3. Obj(p)' = pi
    BY <1>2, <1>4, <1>5, <1>6 DEF Obj
  <2> QED
    BY <1>4, <1>5, <2>2, <2>3 DEF Waits, At
<1> QED
  BY <1>1, <1>2, <1>4, <1>6, <1>7, <1>8, <1>9, LockStep DEF TypeOK, At

LEMMA ComesBack ==
  ASSUME NEW p \in Process, InPipe(p), thread'[p] = User
  PROVE  Moves(p) /\ Use(p)' /\ Waits(p)'
BY DEF User, InPipe, Moves, Working, Reading, Writing, Use, Waits, At

LEMMA WorksIn ==
  ASSUME IInv, NEW p \in Process, InLoop(p)
  PROVE  /\ InPipe(p) /\ thread[p].at \in {"write", "w_loop"} /\ Obj(p) \in PipeId
         /\ pipe[Obj(p)].lock \in {NoProcess, p} /\ ~ At(p, "r_asleep")
         /\ Use(p) /\ pipe[Obj(p)].writeopen
<1>1. InPipe(p) /\ thread[p].at \in {"write", "w_loop"}
  BY DEF InLoop, At, InPipe, Writing
<1>2. Use(p)
  BY OneByOne DEF IInv
<1>3. pipe[Obj(p)].lock \in {NoProcess, p}
  BY <1>1, <1>2 DEF InLoop, At, Use
<1>4. Obj(p) \in PipeId /\ pipe[Obj(p)].writeopen
  BY <1>1, Uses DEF Writing
<1> QED
  BY <1>1, <1>2, <1>3, <1>4 DEF At

LEMMA ReadWaitsKeeps == ASSUME IInv, NEW p \in Process, ReadWaits(p) PROVE IInv'
<1>1. InPipe(p) /\ thread[p].at = "read" /\ TypeOK
  BY DEF ReadWaits, At, InPipe, Reading, IInv
<1>2. PICK pi \in PipeId : pi = Obj(p)
  BY <1>1, Uses
<1>3. /\ UNCHANGED <<ftable, ofile, killed, torn>> /\ pipe[pi].lock = NoProcess /\ MustWait(pi)
      /\ \A q \in Process : q # p => torn[Obj(q)] = torn'[Obj(q)]
  BY <1>2 DEF ReadWaits
<1>4. CASE killed[p] /\ thread' = Return(p) /\ UNCHANGED pipe
  <2>1. User \in Thread
    BY Idle, Zenon
  <2>2. /\ thread' \in [Process -> Thread] /\ thread'[p] = User
        /\ \A q \in Process : q # p => thread'[q] = thread[q]
    BY <1>1, <1>4, <2>1, Becomes DEF Return
  <2>3. Moves(p) /\ Use(p)' /\ Waits(p)' /\ ~ InPipe(p)'
    BY <1>1, <2>2, ComesBack DEF InPipe, User, Reading, Writing
  <2>4. CountInv' /\ FileInv' /\ HeldInv' /\ EndInv'
    BY <1>3, <1>4, <2>2, <2>3, FilesKept DEF Moves
  <2>5. UseInv' /\ WaitInv'
    BY <1>1, <1>3, <1>4, <2>2, <2>3, PipesKept DEF Undisturbed
  <2>6. TypeOK' /\ RingInv'
    BY <1>1, <1>3, <1>4, <2>2 DEF TypeOK, FilesTypeOK, IInv, RingInv, Held
  <2> QED
    BY <2>4, <2>5, <2>6 DEF IInv
<1>5. CASE thread' = Goto(p, "r_sleep") /\ pipe' = [pipe EXCEPT ![pi].lock = p]
  <2>1. PICK t \in Thread : t = [thread[p] EXCEPT !.at = "r_sleep"]
    BY <1>1, GoesTo DEF TypeOK, Location
  <2>2. /\ thread' \in [Process -> Thread] /\ thread'[p] = t
        /\ \A q \in Process : q # p => thread'[q] = thread[q]
    BY <1>1, <1>5, <2>1, Becomes DEF Goto
  <2>3. /\ t.at = "r_sleep" /\ t.f = thread[p].f /\ t.n = thread[p].n
        /\ t.held = thread[p].held /\ t.exiting = thread[p].exiting
    BY <1>1, <2>1 DEF TypeOK, Thread
  <2>4. Use(p) /\ Obj(p)' = pi
    BY <1>2, <1>3, <2>2, <2>3, OneByOne DEF IInv, Obj
  <2>5. /\ pipe'[pi].lock = p /\ MustWait(pi)'
    BY <1>1, <1>3, <1>5, Locks DEF MustWait, Vacant
  <2>6. Moves(p) /\ Use(p)'
    BY <1>1, <1>2, <1>3, <2>2, <2>3, <2>4, <2>5
       DEF IInv, HeldInv, Moves, Working, Reading, Writing, Making, Closing, Use, InPipe
  <2>7. Waits(p)'
    BY <2>2, <2>3, <2>4, <2>5 DEF Waits, At
  <2> QED
    BY <1>1, <1>2, <1>3, <1>5, <2>2, <2>6, <2>7, LockStep DEF TypeOK, At
<1> QED
  BY <1>2, <1>4, <1>5 DEF ReadWaits

LEMMA WriteBreaksKeeps == ASSUME IInv, NEW p \in Process, WriteBreaks(p) PROVE IInv'
<1>1. InLoop(p) /\ TypeOK
  BY DEF WriteBreaks, IInv
<1>2. PICK pi \in PipeId : pi = Obj(p)
  BY <1>1, WorksIn
<1>3. /\ UNCHANGED <<ftable, ofile, killed>> /\ thread' = Return(p)
      /\ pipe' = [pipe EXCEPT ![pi].lock = NoProcess]
      /\ torn' = [torn EXCEPT ![pi] = @ \/ thread[p].i > 0]
  BY <1>2 DEF WriteBreaks
<1>4. User \in Thread
  BY Idle, Zenon
<1>5. /\ thread' \in [Process -> Thread] /\ thread'[p] = User
      /\ \A q \in Process : q # p => thread'[q] = thread[q]
  BY <1>1, <1>3, <1>4, Becomes DEF Return
<1>6. Moves(p) /\ Use(p)' /\ Waits(p)'
  BY <1>1, <1>5, WorksIn, ComesBack
<1>7. thread[p].i \in 0..1 /\ torn \in [PipeId -> BOOLEAN]
  BY <1>1 DEF TypeOK, Thread
<1>8. /\ torn' \in [PipeId -> BOOLEAN] /\ \A x \in PipeId : x # pi => torn'[x] = torn[x]
      /\ torn'[pi] = (torn[pi] \/ thread[p].i > 0)
  BY <1>3, <1>7
<1>9. At(p, "w_loop") => thread[p].i > 0
  BY DEF IInv, WaitInv
<1> QED
  BY <1>1, <1>2, <1>3, <1>5, <1>6, <1>8, <1>9, WorksIn, LockStep, ZenonT(60)

LEMMA WriteFaultsKeeps == ASSUME IInv, NEW p \in Process, WriteFaults(p) PROVE IInv'
<1>1. InLoop(p) /\ TypeOK
  BY DEF WriteFaults, IInv
<1>2. PICK pi \in PipeId : pi = Obj(p)
  BY <1>1, WorksIn
<1>3. /\ UNCHANGED <<ftable, ofile, killed>> /\ thread' = Wake(Return(p), pi, "r_asleep")
      /\ pipe' = [pipe EXCEPT ![pi].lock = NoProcess] /\ torn' = [torn EXCEPT ![pi] = FALSE]
  BY <1>2 DEF WriteFaults, WriteEnds
<1>4. User \in Thread /\ User.at # "r_asleep"
  BY Idle, Zenon DEF User
<1>5. /\ thread' \in [Process -> Thread] /\ thread'[p] = User
      /\ \A q \in Process : q # p => thread'[q] = thread[q] \/ WokenAt(q, thread[q], pi)
      /\ \A q \in Process : thread'[q].at = "r_asleep" => Obj(q) # pi
  BY <1>1, <1>3, <1>4, Awakens DEF Return
<1>6. Moves(p) /\ Use(p)' /\ Waits(p)'
  BY <1>1, <1>5, WorksIn, ComesBack
<1>7. /\ torn' \in [PipeId -> BOOLEAN] /\ \A x \in PipeId : x # pi => torn'[x] = torn[x]
  BY <1>1, <1>3 DEF TypeOK
<1>8. /\ InPipe(p) /\ pipe[pi].lock \in {NoProcess, p} /\ NoProcess \in {NoProcess, p}
      /\ \A q \in Process : q # p /\ Obj(q) = pi /\ thread'[q].at = "r_asleep" =>
           (torn[pi] \/ At(p, "w_loop") => torn'[pi])
  BY <1>1, <1>2, <1>5, WorksIn
<1> QED
  BY <1>1, <1>2, <1>3, <1>5, <1>6, <1>7, <1>8, LockStep

LEMMA WriteWaitsKeeps == ASSUME IInv, NEW p \in Process, WriteWaits(p) PROVE IInv'
<1>1. InLoop(p) /\ TypeOK
  BY DEF WriteWaits, IInv
<1>2. PICK pi \in PipeId : pi = Obj(p)
  BY <1>1, WorksIn
<1>3. /\ UNCHANGED <<ftable, ofile, killed>>
      /\ pipe' = [pipe EXCEPT ![pi].lock = p] /\ torn' = [torn EXCEPT ![pi] = FALSE]
      /\ Occupied(pi) /\ pipe[pi].readopen
  BY <1>2 DEF WriteWaits, Broken
<1>4. PICK t \in Thread : t = [thread[p] EXCEPT !.at = "w_sleep", !.i = 0]
  <2>1. "w_sleep" \in Location /\ 0 \in 0..1 /\ thread[p] \in Thread
    BY <1>1 DEF Location, TypeOK
  <2>2. \A o \in PipeId, b \in BOOLEAN, n \in Nat, g \in Seq(Byte), h \in Seq(File) :
          [thread[p] EXCEPT !.at = "w_sleep", !.i = 0] \in Thread
    BY <2>1, Continues, Zenon
  <2>3. << >> \in Seq(Byte) /\ << >> \in Seq(File)
    OBVIOUS
  <2> QED
    BY <2>2, <2>3
<1>5. /\ t.at = "w_sleep" /\ t.f = thread[p].f /\ t.n = thread[p].n
      /\ t.held = thread[p].held /\ t.exiting = thread[p].exiting
  BY <1>1, <1>4 DEF TypeOK, Thread
<1>6. thread' = Wake([thread EXCEPT ![p] = t], pi, "r_asleep")
  BY <1>1, <1>2, <1>4 DEF WriteWaits, TypeOK
<1>7. /\ thread' \in [Process -> Thread] /\ thread'[p] = t
      /\ \A q \in Process : q # p => thread'[q] = thread[q] \/ WokenAt(q, thread[q], pi)
      /\ \A q \in Process : thread'[q].at = "r_asleep" => Obj(q) # pi
  BY <1>1, <1>5, <1>6, Awakens, ZenonT(60)
<1>8. Use(p) /\ InPipe(p) /\ Obj(p)' = pi /\ thread[p].at \in {"write", "w_loop"}
  BY <1>1, <1>2, <1>3, <1>5, <1>7, WorksIn DEF Obj
<1>9. pipe'[pi].lock = p /\ (Occupied(pi) /\ pipe[pi].readopen)'
  BY <1>1, <1>3, Locks DEF Occupied
<1>10. Moves(p) /\ Use(p)'
  BY <1>3, <1>5, <1>7, <1>8, <1>9
     DEF IInv, HeldInv, Moves, Working, Reading, Writing, Making, Closing, Use, InPipe
<1>11. Waits(p)'
  BY <1>5, <1>7, <1>8, <1>9 DEF Waits, At
<1>12. /\ torn' \in [PipeId -> BOOLEAN] /\ \A x \in PipeId : x # pi => torn'[x] = torn[x]
  BY <1>1, <1>3 DEF TypeOK
<1>13. /\ InPipe(p) /\ pipe[pi].lock \in {NoProcess, p} /\ p \in {NoProcess, p}
       /\ \A q \in Process : q # p /\ Obj(q) = pi /\ thread'[q].at = "r_asleep" =>
            (torn[pi] \/ At(p, "w_loop") => torn'[pi])
  BY <1>1, <1>2, <1>7, WorksIn
<1> QED
  BY <1>1, <1>2, <1>3, <1>7, <1>10, <1>11, <1>12, <1>13, LockStep

LEMMA WriteByteKeeps == ASSUME IInv, NEW p \in Process, WriteByte(p) PROVE IInv'
<1>1. /\ InLoop(p) /\ TypeOK /\ InPipe(p) /\ thread[p].at \in {"write", "w_loop"}
      /\ thread[p] \in Thread /\ Use(p)
  BY WorksIn DEF WriteByte, IInv, TypeOK
<1>2. PICK pi \in PipeId : pi = Obj(p) /\ pipe[pi].lock \in {NoProcess, p}
  BY <1>1, WorksIn
<1>3. PICK l \in {NoProcess, p} : l = IF thread[p].n = 1 THEN NoProcess ELSE p
  OBVIOUS
<1>4. PICK x \in StructPipe, r \in Byte, w \in Byte :
        x = pipe[pi] /\ r = pipe[pi].nread /\ w = pipe[pi].nwrite
  BY <1>1 DEF TypeOK, StructPipe
<1>5. PICK d \in [0..PIPESIZE - 1 -> Byte] : d = [x.data EXCEPT ![w % PIPESIZE] = w]
  BY <1>4 DEF StructPipe
<1>6. /\ UNCHANGED <<ftable, ofile, killed>> /\ ~ Occupied(pi) /\ pipe[pi].readopen
      /\ pipe' = [pipe EXCEPT ![pi] = [x EXCEPT !.data = d, !.nwrite = (w + 1) % UintMod,
                                               !.lock = l]]
  <2>1. pipe' = [pipe EXCEPT ![pi] =
                  [@ EXCEPT !.data = [pipe[pi].data EXCEPT ![pipe[pi].nwrite % PIPESIZE] =
                                        pipe[pi].nwrite],
                            !.nwrite = (pipe[pi].nwrite + 1) % UintMod,
                            !.lock = IF thread[p].n = 1 THEN NoProcess ELSE p]]
    BY <1>2 DEF WriteByte
  <2>2. [x EXCEPT !.data = [x.data EXCEPT ![w % PIPESIZE] = w],
                  !.nwrite = (w + 1) % UintMod,
                  !.lock = IF thread[p].n = 1 THEN NoProcess ELSE p]
          = [x EXCEPT !.data = d, !.nwrite = (w + 1) % UintMod, !.lock = l]
    BY <1>3, <1>4, <1>5, Zenon
  <2>3. UNCHANGED <<ftable, ofile, killed>> /\ ~ Occupied(pi) /\ pipe[pi].readopen
    BY <1>2 DEF WriteByte, Broken
  <2>4. pipe' = [pipe EXCEPT ![pi] = [x EXCEPT !.data = d, !.nwrite = (w + 1) % UintMod,
                                               !.lock = l]]
    BY <1>4, <2>1, <2>2, Zenon
  <2> QED
    BY <2>3, <2>4
<1>7. (w - r) % UintMod # PIPESIZE /\ (w - r) % UintMod <= PIPESIZE
  BY <1>4, <1>6, RingSteps DEF Occupied, IInv, RingInv, Held
<1>8. /\ (w + 1) % UintMod \in Byte
      /\ (((w + 1) % UintMod) - r) % UintMod = ((w - r) % UintMod) + 1
      /\ (w - r) % UintMod \in Int
  <2>1. PICK h \in Byte : h = (w - r) % UintMod
    BY RingSteps
  <2>2. h < PIPESIZE /\ h \in Int
    BY <1>7, <2>1 DEF Byte
  <2> QED
    BY <2>1, <2>2, RingSteps
<1>9. PICK y \in StructPipe : y = [x EXCEPT !.data = d, !.nwrite = (w + 1) % UintMod, !.lock = l]
  BY <1>8, PipeMoves, Zenon
<1>10. /\ y.used = x.used /\ y.nread = r /\ y.nwrite = (w + 1) % UintMod /\ y.lock = l
       /\ y.readopen = x.readopen /\ y.writeopen = x.writeopen
  BY <1>4, <1>9 DEF StructPipe
<1>11. /\ pipe' \in [PipeId -> StructPipe] /\ pipe'[pi] = y
       /\ \A z \in PipeId : z # pi => pipe'[z] = pipe[z]
  BY <1>1, <1>6, <1>9 DEF TypeOK
<1>12. (Held(pi) <= PIPESIZE)'
  BY <1>7, <1>8, <1>10, <1>11 DEF Held
<1>13. /\ pipe'[pi].used = pipe[pi].used
       /\ pipe'[pi].readopen = pipe[pi].readopen
       /\ pipe'[pi].writeopen = pipe[pi].writeopen
  BY <1>4, <1>10, <1>11
<1>14. \A q \in Process : q # p /\ Obj(q) = pi => ~ At(q, "w_asleep")
  BY <1>6 DEF IInv, WaitInv
<1>15. CASE thread[p].n = 1 /\ WriteEnds(p, pi)
  <2>1. User \in Thread /\ User.at # "r_asleep"
    BY Idle, Zenon DEF User
  <2>2. thread' = Wake([thread EXCEPT ![p] = User], pi, "r_asleep")
    BY <1>15 DEF WriteEnds, Return
  <2>3. /\ thread' \in [Process -> Thread] /\ thread'[p] = User
        /\ \A q \in Process : q # p => thread'[q] = thread[q] \/ WokenAt(q, thread[q], pi)
        /\ \A q \in Process : thread'[q].at = "r_asleep" => Obj(q) # pi
    BY <1>1, <2>1, <2>2, Awakens, Zenon
  <2>4. Moves(p) /\ Use(p)' /\ Waits(p)'
    BY <1>1, <2>3, ComesBack
  <2>5. /\ torn' \in [PipeId -> BOOLEAN] /\ \A z \in PipeId : z # pi => torn'[z] = torn[z]
    BY <1>1, <1>15 DEF TypeOK, WriteEnds
  <2>6. TypeOK'
    BY <1>1, <1>6, <1>11, <2>3, <2>5 DEF TypeOK, FilesTypeOK
  <2>7. \A q \in Process : q # p /\ Obj(q) = pi /\ thread'[q].at \in {"r_asleep", "w_asleep"}
          => Waits(q)'
    BY <1>14, <2>3 DEF WokenAt, At
  <2> QED
    BY <1>2, <1>6, <1>11, <1>12, <1>13, <2>3, <2>4, <2>5, <2>6, <2>7, PipeStep, ZenonT(60)
<1>16. CASE /\ thread[p].n # 1 /\ UNCHANGED torn
            /\ thread' = [thread EXCEPT ![p] = [@ EXCEPT !.at = "w_loop",
                                                         !.n = thread[p].n - 1, !.i = 1]]
  <2>1. thread[p].n - 1 \in Nat /\ thread[p].n - 1 > 0
    BY <1>1, <1>16 DEF Use, Thread
  <2>2. PICK t \in Thread :
          t = [thread[p] EXCEPT !.at = "w_loop", !.n = thread[p].n - 1, !.i = 1]
    <3>1. "w_loop" \in Location /\ 1 \in 0..1 /\ << >> \in Seq(Byte) /\ << >> \in Seq(File)
      BY DEF Location
    <3>2. [thread[p] EXCEPT !.at = "w_loop", !.n = thread[p].n - 1, !.i = 1] \in Thread
      <4>1. \A o \in PipeId, b \in BOOLEAN, g \in Seq(Byte), h \in Seq(File) :
              [thread[p] EXCEPT !.at = "w_loop", !.n = thread[p].n - 1, !.i = 1] \in Thread
        BY <1>1, <2>1, <3>1, Continues, ZenonT(60)
      <4> QED
        BY <1>2, <3>1, <4>1
    <3> QED
      BY <3>2
  <2>3. /\ t.at = "w_loop" /\ t.f = thread[p].f /\ t.n = thread[p].n - 1 /\ t.i = 1
        /\ t.held = thread[p].held /\ t.exiting = thread[p].exiting
    BY <1>1, <2>2 DEF Thread
  <2>4. /\ thread' \in [Process -> Thread] /\ thread'[p] = t
        /\ \A q \in Process : q # p => thread'[q] = thread[q]
    <3>1. thread' = [thread EXCEPT ![p] = t]
      BY <1>16, <2>2, Zenon
    <3> QED
      BY <1>1, <3>1, Becomes
  <2>5. Obj(p)' = pi
    BY <1>2, <1>6, <2>3, <2>4 DEF Obj
  <2>6. Moves(p) /\ Use(p)'
    <3>1. pipe'[pi].lock = p
      BY <1>3, <1>10, <1>11, <1>16
    <3> QED
      BY <1>1, <1>6, <2>1, <2>3, <2>4, <2>5, <3>1
         DEF IInv, HeldInv, Moves, Working, Reading, Writing, Making, Closing, Use, InPipe
  <2>7. Waits(p)'
    BY <2>3, <2>4 DEF Waits, At
  <2>8. TypeOK'
    BY <1>1, <1>6, <1>11, <1>16, <2>4 DEF TypeOK, FilesTypeOK
  <2>9. ASSUME NEW q \in Process, q # p, Obj(q) = pi, thread'[q].at \in {"r_asleep", "w_asleep"}
        PROVE  Waits(q)'
    <3>1. Obj(q)' = pi /\ thread'[q].at = "r_asleep"
      BY <1>6, <1>14, <2>4, <2>9 DEF Obj, At
    <3>2. (At(p, "w_loop") /\ Obj(p) = Obj(q))'
      BY <2>3, <2>4, <2>5, <3>1 DEF At
    <3> QED
      BY <3>1, <3>2 DEF Waits, At
  <2>10. /\ \A z \in PipeId : z # pi => pipe'[z] = pipe[z] /\ torn'[z] = torn[z]
         /\ \A q \in Process : q # p => thread'[q] = thread[q] \/ WokenAt(q, thread[q], pi)
         /\ UNCHANGED <<ftable, ofile>>
    BY <1>6, <1>11, <1>16, <2>4
  <2> QED
    BY <1>2, <1>12, <1>13, <2>6, <2>7, <2>8, <2>9, <2>10, PipeStep
<1> QED
  BY <1>2, <1>15, <1>16 DEF WriteByte

LEMMA LesserOfTwo ==
  ASSUME NEW a \in Nat, NEW b \in Nat
  PROVE  Min({a, b}) \in Nat /\ Min({a, b}) <= a /\ Min({a, b}) <= b
<1> DEFINE S == {a, b}
<1>1. \E x \in S : \A y \in S : x <= y
  OBVIOUS
<1>2. Min(S) \in S /\ \A y \in S : Min(S) <= y
  <2> HIDE DEF S
  <2> QED
    BY <1>1, Zenon DEF Min
<1> QED
  BY <1>2

LEMMA TakenIsBytes ==
  ASSUME TypeOK, NEW pi \in PipeId, NEW k \in Nat
  PROVE  Taken(pi, k) \in Seq(Byte) /\ Len(Taken(pi, k)) = k
<1>1. pipe[pi].data \in [0..PIPESIZE - 1 -> Byte] /\ pipe[pi].nread \in Byte
  BY DEF TypeOK, StructPipe
<1>2. ASSUME NEW i \in 1..k
      PROVE  pipe[pi].data[(pipe[pi].nread + i - 1) % PIPESIZE] \in Byte
  <2>1. pipe[pi].nread + i - 1 \in Int
    BY <1>1 DEF Byte
  <2>2. (pipe[pi].nread + i - 1) % PIPESIZE \in 0..PIPESIZE - 1
    BY <2>1
  <2> QED
    BY <1>1, <2>2
<1> QED
  BY <1>2 DEF Taken

LEMMA HeldIsByte ==
  ASSUME TypeOK, NEW pi \in PipeId
  PROVE  Held(pi) \in Byte /\ Held(pi) \in Nat
<1>1. PICK r \in Byte, w \in Byte : r = pipe[pi].nread /\ w = pipe[pi].nwrite
  BY DEF TypeOK, StructPipe
<1> QED
  BY <1>1, RingSteps DEF Held, Byte

LEMMA ReadCopyKeeps ==
  ASSUME IInv, NEW p \in Process, At(p, "read"),
         pipe[Obj(p)].lock = NoProcess, ~ MustWait(Obj(p)),
         NEW k \in Nat, k <= Held(Obj(p)), ReadCopy(p, k),
         UNCHANGED <<ftable, ofile, killed, torn>>
  PROVE  IInv'
<1>1. /\ InPipe(p) /\ thread[p].at = "read" /\ TypeOK /\ thread[p] \in Thread /\ Use(p)
  BY OneByOne DEF At, InPipe, Reading, IInv, TypeOK
<1>2. PICK pi \in PipeId :
        pi = Obj(p) /\ pipe[pi].lock = NoProcess /\ ~ MustWait(pi) /\ k <= Held(pi)
  BY <1>1, Uses
<1>3. PICK x \in StructPipe, r \in Byte, w \in Byte :
        x = pipe[pi] /\ r = pipe[pi].nread /\ w = pipe[pi].nwrite
  BY <1>1, <1>2 DEF TypeOK, StructPipe
<1>4. PICK h \in Byte : h = (w - r) % UintMod /\ k <= h /\ h <= PIPESIZE
  BY <1>2, <1>3, RingSteps DEF Held, IInv, RingInv
<1>5. PICK m \in Byte : m = (r + k) % UintMod /\ (w - m) % UintMod = h - k
  BY <1>4, RingSteps
<1>6. PICK y \in StructPipe : y = [x EXCEPT !.nread = m]
  <2>1. NoProcess \in Process \union {NoProcess} /\ x.data \in [0..PIPESIZE - 1 -> Byte]
    BY DEF StructPipe
  <2> QED
    BY <2>1, PipeMoves, Zenon
<1>7. /\ y.used = x.used /\ y.nread = m /\ y.nwrite = w /\ y.lock = NoProcess
      /\ y.readopen = x.readopen /\ y.writeopen = x.writeopen
  BY <1>2, <1>3, <1>6 DEF StructPipe
<1>8. /\ pipe' \in [PipeId -> StructPipe] /\ pipe'[pi] = y
      /\ \A z \in PipeId : z # pi => pipe'[z] = pipe[z]
  BY <1>1, <1>2, <1>3, <1>5, <1>6 DEF TypeOK, ReadCopy
<1>9. (Held(pi) <= PIPESIZE)'
  <2>1. h - k <= PIPESIZE
    BY <1>4 DEF Byte
  <2> QED
    BY <1>5, <1>7, <1>8, <2>1 DEF Held
<1>10. PICK t \in Thread : t = [thread[p] EXCEPT !.at = "r_return", !.got = Taken(pi, k)]
  <2>1. "r_return" \in Location /\ Taken(pi, k) \in Seq(Byte) /\ << >> \in Seq(File)
        /\ 0 \in 0..1 /\ 0 \in Nat
    BY <1>1, <1>2, TakenIsBytes DEF Location
  <2>2. \A b \in BOOLEAN :
          [thread[p] EXCEPT !.at = "r_return", !.got = Taken(pi, k)] \in Thread
    BY <1>1, <1>2, <2>1, Continues, ZenonT(60)
  <2> QED
    BY <2>2
<1>11. /\ t.at = "r_return" /\ t.f = thread[p].f /\ t.n = thread[p].n
       /\ t.held = thread[p].held /\ t.exiting = thread[p].exiting
  BY <1>1, <1>10 DEF Thread
<1>12. /\ thread' \in [Process -> Thread] /\ thread'[p] = t
       /\ \A q \in Process : q # p => thread'[q] = thread[q] \/ WokenAt(q, thread[q], pi)
       /\ \A q \in Process : thread'[q].at = "w_asleep" => Obj(q) # pi
  <2>1. thread' = Wake([thread EXCEPT ![p] = t], pi, "w_asleep")
    BY <1>2, <1>10, Zenon DEF ReadCopy
  <2>2. t.at # "w_asleep" /\ "w_asleep" \in {"r_asleep", "w_asleep"}
    BY <1>11
  <2> QED
    BY <1>1, <2>1, <2>2, Awakens
<1>13. Moves(p) /\ Use(p)' /\ Waits(p)'
  BY <1>1, <1>2, <1>11, <1>12
     DEF IInv, HeldInv, Moves, Working, Reading, Writing, Making, Closing, Use, InPipe, Waits, At
<1>14. TypeOK'
  BY <1>1, <1>8, <1>12 DEF TypeOK, FilesTypeOK
<1>15. ASSUME NEW q \in Process, q # p, Obj(q) = pi, thread'[q].at \in {"r_asleep", "w_asleep"}
       PROVE  Waits(q)'
  <2>1. thread'[q] = thread[q] /\ thread[q].at = "r_asleep" /\ Obj(q)' = pi
    BY <1>12, <1>15 DEF WokenAt, Obj
  <2>2. \A z \in Process : ~ (At(z, "w_loop") /\ Obj(z) = pi)
    BY <1>2 DEF IInv, UseInv, InPipe, Writing, At
  <2>3. torn[pi] /\ pipe[pi].writeopen
    BY <1>2, <1>15, <2>1, <2>2 DEF IInv, WaitInv, At
  <2> QED
    BY <1>3, <1>7, <1>8, <2>1, <2>3 DEF Waits, At
<1>16. /\ \A z \in PipeId : z # pi => pipe'[z] = pipe[z] /\ torn'[z] = torn[z]
       /\ pipe'[pi].used = pipe[pi].used
       /\ pipe'[pi].readopen = pipe[pi].readopen
       /\ pipe'[pi].writeopen = pipe[pi].writeopen
       /\ pipe[pi].lock \in {NoProcess, p}
  BY <1>2, <1>3, <1>7, <1>8
<1> QED
  BY <1>2, <1>9, <1>12, <1>13, <1>14, <1>15, <1>16, PipeStep

LEMMA ReadTakesKeeps == ASSUME IInv, NEW p \in Process, ReadTakes(p) PROVE IInv'
<1>1. /\ InPipe(p) /\ At(p, "read") /\ TypeOK /\ thread[p] \in Thread
  BY DEF ReadTakes, At, InPipe, Reading, IInv, TypeOK
<1>2. PICK pi \in PipeId : pi = Obj(p)
  BY <1>1, Uses
<1>3. PICK most \in Nat : most = Min({Held(pi), thread[p].n}) /\ most <= Held(pi)
  <2>1. Held(pi) \in Nat
    BY <1>1, HeldIsByte
  <2> QED
    BY <1>1, <2>1, LesserOfTwo DEF Thread
<1>4. /\ pipe[pi].lock = NoProcess /\ ~ MustWait(pi)
      /\ UNCHANGED <<ftable, ofile, killed, torn>>
  BY <1>2 DEF ReadTakes
<1>5. CASE ReadCopy(p, most)
  BY <1>1, <1>2, <1>3, <1>4, <1>5, ReadCopyKeeps
<1>6. CASE \E k \in 1..most - 1 : ReadCopy(p, k)
  <2>1. PICK k \in 1..most - 1 : ReadCopy(p, k)
    BY <1>6
  <2>2. k \in Nat /\ k <= Held(pi)
    <3>1. Held(pi) \in Int
      BY <1>1, HeldIsByte
    <3> QED
      BY <1>3, <3>1
  <2> QED
    BY <1>1, <1>2, <1>4, <2>1, <2>2, ReadCopyKeeps
<1>7. CASE thread' = Wake(Return(p), pi, "w_asleep") /\ UNCHANGED pipe
  <2>1. User \in Thread /\ User.at # "w_asleep"
    BY Idle, Zenon DEF User
  <2>2. /\ thread' \in [Process -> Thread] /\ thread'[p] = User
        /\ \A q \in Process : q # p => thread'[q] = thread[q] \/ WokenAt(q, thread[q], pi)
    BY <1>1, <1>7, <2>1, Awakens DEF Return
  <2>3. Moves(p) /\ Use(p)' /\ Waits(p)'
    BY <1>1, <2>2, ComesBack
  <2>4. pipe' = [pipe EXCEPT ![pi].lock = NoProcess]
    <3>1. pipe[pi] = [pipe[pi] EXCEPT !.lock = NoProcess]
      BY <1>1, <1>4 DEF TypeOK, StructPipe
    <3> QED
      BY <1>1, <1>7, <3>1 DEF TypeOK
  <2>5. /\ pipe[pi].lock \in {NoProcess, p} /\ NoProcess \in {NoProcess, p}
        /\ UNCHANGED <<ftable, ofile, killed>> /\ torn' \in [PipeId -> BOOLEAN]
        /\ \A x \in PipeId : x # pi => torn'[x] = torn[x]
        /\ \A q \in Process : q # p /\ Obj(q) = pi /\ thread'[q].at = "r_asleep" =>
             (torn[pi] \/ At(p, "w_loop") => torn'[pi])
    BY <1>1, <1>4 DEF TypeOK, At
  <2> QED
    BY <1>1, <1>2, <2>2, <2>3, <2>4, <2>5, LockStep
<1> QED
  BY <1>2, <1>3, <1>5, <1>6, <1>7 DEF ReadTakes

(* Nothing changes but where processes are.                                *)
LEMMA CallStep ==
  ASSUME IInv, UNCHANGED <<ftable, ofile, pipe, torn>>,
         thread' \in [Process -> Thread], killed' \in [Process -> BOOLEAN],
         \A q \in Process :
           \/ thread'[q] = thread[q]
           \/ /\ Moves(q) /\ thread[q].at # "w_loop"
              /\ InPipe(q)' => Use(q)' /\ thread'[q].at \in {"read", "write"}
  PROVE  IInv'
<1>1. CountInv' /\ FileInv' /\ HeldInv' /\ EndInv'
  BY FilesKept DEF Moves
<1>2. UseInv' /\ WaitInv'
  BY PipesKept DEF Undisturbed
<1>3. TypeOK' /\ RingInv'
  BY DEF TypeOK, FilesTypeOK, IInv, RingInv, Held
<1> QED
  BY <1>1, <1>2, <1>3 DEF IInv

LEMMA ReadReturnsKeeps == ASSUME IInv, NEW p \in Process, ReadReturns(p) PROVE IInv'
<1>1. InPipe(p) /\ thread[p].at = "r_return" /\ TypeOK
  BY DEF ReadReturns, At, InPipe, Reading, IInv
<1>2. User \in Thread /\ UNCHANGED <<ftable, ofile, pipe, killed, torn>>
  BY Idle DEF ReadReturns
<1>3. /\ thread' \in [Process -> Thread] /\ thread'[p] = User
      /\ \A q \in Process : q # p => thread'[q] = thread[q]
  BY <1>1, <1>2, Becomes DEF ReadReturns, Return
<1>4. Moves(p) /\ ~ InPipe(p)'
  BY <1>1, <1>3, ComesBack DEF InPipe, User, Reading, Writing
<1> QED
  BY <1>1, <1>2, <1>3, <1>4, CallStep DEF TypeOK

LEMMA CallsKeeps ==
  ASSUME IInv, NEW p \in Process, NEW fd \in Fd, NEW n \in Counts, Read(p, fd, n) \/ Write(p, fd, n)
  PROVE  IInv'
<1>1. PICK f \in File, l \in {"read", "write"} :
        /\ f = ofile[p][fd] /\ ftable[f].writable = (l = "write") /\ thread[p].at = "user"
        /\ thread' = [thread EXCEPT ![p] = [User EXCEPT !.at = l, !.f = f, !.n = n]]
        /\ UNCHANGED <<ftable, ofile, pipe, killed, torn>>
  <2>1. ofile[p][fd] \in File \union {NoFile} /\ ArgFd(p, fd) = ofile[p][fd]
    BY DEF IInv, TypeOK, FilesTypeOK, ArgFd
  <2>2. ofile[p][fd] \in File => ftable[ofile[p][fd]].writable \in BOOLEAN
    BY DEF IInv, TypeOK, FilesTypeOK
  <2>3. CASE Read(p, fd, n)
    BY <2>1, <2>2, <2>3 DEF Read, Calls, At
  <2>4. CASE Write(p, fd, n)
    BY <2>1, <2>2, <2>4 DEF Write, Calls, At
  <2> QED
    BY <2>3, <2>4
<1>2. n \in Nat /\ n > 0 /\ l \in Location /\ TypeOK
  BY DEF Location, IInv
<1>3. PICK t \in Thread : t = [User EXCEPT !.at = l, !.f = f, !.n = n]
  <2>1. \A b \in BOOLEAN, h \in Seq(File) :
          [User EXCEPT !.at = l, !.f = f, !.n = n] \in Thread
    BY <1>2, Begins, Zenon
  <2>2. << >> \in Seq(File)
    OBVIOUS
  <2> QED
    BY <2>1, <2>2
<1>4. t.at = l /\ t.f = f /\ t.n = n /\ t.held = << >> /\ ~ t.exiting
  BY <1>3 DEF User
<1>5. /\ thread' \in [Process -> Thread] /\ thread'[p] = t
      /\ \A q \in Process : q # p => thread'[q] = thread[q]
  BY <1>1, <1>2, <1>3, Becomes
<1>6. Moves(p)
  BY <1>1, <1>4, <1>5 DEF Moves, Working, Reading, Writing
<1>7. Use(p)'
  BY <1>1, <1>2, <1>4, <1>5 DEF Use, Writing
<1> QED
  BY <1>1, <1>2, <1>4, <1>5, <1>6, <1>7, CallStep DEF TypeOK

LEMMA KillKeeps == ASSUME IInv, NEW p \in Process, Kill(p) PROVE IInv'
<1>1. TypeOK /\ thread[p] \in Thread
  BY DEF IInv, TypeOK
<1>2. PICK l \in Location :
        /\ l = IF thread[p].at \in {"r_asleep", "w_asleep"} THEN WakeAt[thread[p].at]
                                                          ELSE thread[p].at
        /\ thread' = [thread EXCEPT ![p].at = l]
  <2>1. DOMAIN WakeAt = {"r_asleep", "w_asleep"} /\ WakeAt["r_asleep"] = "read"
        /\ WakeAt["w_asleep"] = "write"
    BY DEF WakeAt
  <2>2. thread' = [thread EXCEPT ![p].at = IF @ \in {"r_asleep", "w_asleep"} THEN WakeAt[@] ELSE @]
    BY <2>1, Zenon DEF Kill
  <2>3. WakeAt["r_asleep"] \in Location /\ WakeAt["w_asleep"] \in Location /\ thread[p].at \in Location
    BY <1>1, <2>1 DEF Location, Thread
  <2> QED
    BY <2>2, <2>3
<1>3. PICK t \in Thread : t = [thread[p] EXCEPT !.at = l]
  BY <1>1, GoesTo
<1>4. /\ t.at = l /\ t.f = thread[p].f /\ t.n = thread[p].n
      /\ t.held = thread[p].held /\ t.exiting = thread[p].exiting
      /\ l = thread[p].at => t = thread[p]
  BY <1>1, <1>3 DEF Thread
<1>5. /\ thread' \in [Process -> Thread] /\ thread'[p] = t
      /\ \A q \in Process : q # p => thread'[q] = thread[q]
  BY <1>1, <1>2, <1>3, Becomes
<1>6. UNCHANGED <<ftable, ofile, pipe, torn>> /\ killed' \in [Process -> BOOLEAN]
  BY <1>1 DEF Kill, TypeOK
<1>7. CASE thread[p].at \notin {"r_asleep", "w_asleep"}
  BY <1>2, <1>4, <1>5, <1>6, <1>7, CallStep
<1>8. CASE thread[p].at \in {"r_asleep", "w_asleep"}
  <2>1. l \in {"read", "write"} /\ (l = "write" <=> thread[p].at = "w_asleep")
    BY <1>2, <1>8 DEF WakeAt
  <2>2. InPipe(p) /\ Use(p)
    BY <1>8, OneByOne DEF InPipe, Reading, Writing, IInv
  <2>3. Moves(p)
    BY <1>4, <1>5, <1>8, <2>1 DEF Moves, Working, Reading, Writing, Making, Closing, IInv, HeldInv
  <2>4. Use(p)'
    BY <1>4, <1>5, <1>6, <1>8, <2>1, <2>2 DEF Use, Writing, InPipe
  <2> QED
    BY <1>4, <1>5, <1>6, <1>8, <2>1, <2>3, <2>4, CallStep
<1> QED
  BY <1>7, <1>8

-----------------------------------------------------------------------------
(* Steps that change the files                                             *)

LEMMA ReferencesCountNext == (Sized /\ CountInv => Alive)'
BY ReferencesCount, PTL

LEMMA FdCountNext ==
  \A p \in Process, f \in File :
    /\ Cardinality(FdsIn(ofile'[p], f)) \in Nat
    /\ FdRefs(f)' = Cardinality(OtherFds(p, f)') + Cardinality(FdsIn(ofile'[p], f))
<1> DEFINE P == \A p \in Process, f \in File :
             /\ Cardinality(FdsIn(ofile[p], f)) \in Nat
             /\ FdRefs(f) = Cardinality(OtherFds(p, f)) + Cardinality(FdsIn(ofile[p], f))
<1>1. P
  BY FdCount
<1>2. P'
  BY <1>1, PTL
<1> QED
  BY <1>2

LEMMA HeldCountNext ==
  \A p \in Process, f \in File :
    thread'[p].held \in Seq(File) /\ Len(thread'[p].held) <= 2 =>
      /\ Times(thread'[p].held, f) \in Nat
      /\ LocalRefs(f)' = Cardinality(OtherHeld(p, f)') + Times(thread'[p].held, f)
<1> DEFINE P == \A p \in Process, f \in File :
             thread[p].held \in Seq(File) /\ Len(thread[p].held) <= 2 =>
               /\ Times(thread[p].held, f) \in Nat
               /\ LocalRefs(f) = Cardinality(OtherHeld(p, f)) + Times(thread[p].held, f)
<1>1. P
  <2> SUFFICES ASSUME NEW p \in Process, NEW f \in File, thread[p].held \in Seq(File),
                      Len(thread[p].held) <= 2
               PROVE  /\ Times(thread[p].held, f) \in Nat
                      /\ LocalRefs(f) = Cardinality(OtherHeld(p, f)) + Times(thread[p].held, f)
    OBVIOUS
  <2> QED
    BY HeldCount
<1>2. P'
  BY <1>1, PTL
<1> QED
  BY <1>2

Same(f, g) == IF f = g THEN 1 ELSE 0

Differs(fds, new, x) == \A fd \in Fd : fd # x => new[fd] = fds[fd]

Exchanges(fds, new, x, f) ==
  /\ Cardinality(FdsIn(new, f)) \in Nat /\ Cardinality(FdsIn(fds, f)) \in Nat
  /\ Cardinality(FdsIn(new, f)) + Same(fds[x], f)
       = Cardinality(FdsIn(fds, f)) + Same(new[x], f)

LEMMA FdChanges ==
  ASSUME NEW fds, NEW new, NEW x \in Fd, NEW f, Differs(fds, new, x)
  PROVE  Exchanges(fds, new, x, f)
<1> DEFINE Rest == {fd \in Fd : fd # x /\ fds[fd] = f}
<1>1. IsFiniteSet(Rest) /\ IsFiniteSet({x}) /\ Cardinality({x}) = 1
  <2>1. IsFiniteSet(Fd)
    <3>1. 0 \in Int /\ NOFILE - 1 \in Int
      OBVIOUS
    <3> QED
      BY <3>1, FS_Interval, Zenon DEF Fd
  <2>2. Rest \in SUBSET Fd
    OBVIOUS
  <2> QED
    BY <2>1, <2>2, FS_Subset, FS_Singleton
<1>2. FdsIn(fds, f) = IF fds[x] = f THEN Rest \union {x} ELSE Rest
  BY DEF FdsIn, Differs
<1>3. FdsIn(new, f) = IF new[x] = f THEN Rest \union {x} ELSE Rest
  BY DEF FdsIn, Differs
<1>4. /\ Cardinality(Rest \union {x}) = Cardinality(Rest) + 1 /\ Cardinality(Rest) \in Nat
      /\ Cardinality(Rest \union {x}) \in Nat
  <2>1. Rest \cap {x} = {}
    OBVIOUS
  <2> HIDE DEF Rest
  <2>2. /\ Cardinality(Rest \union {x}) = Cardinality(Rest) + Cardinality({x})
        /\ Cardinality(Rest) \in Nat /\ Cardinality(Rest \union {x}) \in Nat
    BY <1>1, <2>1, Disjoint, Zenon
  <2> QED
    BY <1>1, <2>2
<1> HIDE DEF Rest
<1>5. /\ Cardinality(FdsIn(new, f)) \in Nat /\ Cardinality(FdsIn(fds, f)) \in Nat
      /\ Cardinality(FdsIn(new, f)) + Same(fds[x], f) = Cardinality(FdsIn(fds, f)) + Same(new[x], f)
  BY <1>2, <1>3, <1>4 DEF Same
<1> QED
  BY <1>5, Zenon DEF Exchanges

(* One descriptor of p changes.                                            *)
LEMMA FdMoves ==
  ASSUME NEW p \in Process, NEW x \in Fd, Differs(ofile[p], ofile'[p], x), NEW f \in File
  PROVE  \E c, d \in Nat : /\ c = Cardinality(FdsIn(ofile[p], f))
                           /\ d = Cardinality(FdsIn(ofile'[p], f))
                           /\ d + Same(ofile[p][x], f) = c + Same(ofile'[p][x], f)
<1>1. Exchanges(ofile[p], ofile'[p], x, f)
  BY FdChanges, Zenon
<1>2. PICK c \in Nat, d \in Nat : c = Cardinality(FdsIn(ofile[p], f))
                               /\ d = Cardinality(FdsIn(ofile'[p], f))
  BY <1>1 DEF Exchanges
<1>3. d + Same(ofile[p][x], f) = c + Same(ofile'[p][x], f)
  BY <1>1, <1>2 DEF Exchanges
<1> QED
  BY <1>2, <1>3

LEMMA TimesOf ==
  ASSUME NEW f
  PROVE  /\ Times(<< >>, f) = 0
         /\ \A g : Times(<<g>>, f) = Same(g, f)
         /\ \A g, h : Times(<<g, h>>, f) = Same(g, f) + Same(h, f)
         /\ \A s \in Seq(File) : Len(s) <= 2 /\ s # << >> =>
              Times(s, f) = Same(Head(s), f) + Times(Tail(s), f)
BY DEF Times, Same

LEMMA Balance ==
  ASSUME NEW a \in Nat, NEW b \in Nat, NEW c \in Nat, NEW d \in Nat, NEW e \in Nat,
         NEW g \in Nat, NEW x \in Nat, NEW y \in Nat,
         x = (a + b) + (c + d), y + b + d = x + e + g
  PROVE  y = (a + e) + (c + g)
OBVIOUS

(* The others keep what they have, and what p has more the count shows.    *)
LEMMA Recount ==
  ASSUME IInv, TypeOK', NEW p \in Process, Len(thread'[p].held) <= 2,
         \A q \in Process : q # p => thread'[q].held = thread[q].held /\ ofile'[q] = ofile[q],
         \A f \in File :
           ftable'[f].ref + Cardinality(FdsIn(ofile[p], f)) + Times(thread[p].held, f)
             = ftable[f].ref + Cardinality(FdsIn(ofile'[p], f)) + Times(thread'[p].held, f)
  PROVE  CountInv' /\ Alive'
<1>1. ASSUME NEW f \in File
      PROVE  ftable'[f].ref = FdRefs(f)' + LocalRefs(f)'
  <2>1. OtherFds(p, f)' = OtherFds(p, f)
    BY DEF OtherFds
  <2>2. OtherHeld(p, f)' = OtherHeld(p, f)
    BY DEF OtherHeld
  <2>3. /\ thread[p].held \in Seq(File) /\ Len(thread[p].held) <= 2
        /\ thread'[p].held \in Seq(File)
    BY DEF IInv, TypeOK, Thread, HeldInv
  <2>4. PICK a \in Nat, b \in Nat :
          /\ a = Cardinality(OtherFds(p, f)) /\ b = Cardinality(FdsIn(ofile[p], f))
          /\ FdRefs(f) = a + b
    BY FdCount, Zenon
  <2>5. PICK c \in Nat, d \in Nat :
          /\ c = Cardinality(OtherHeld(p, f)) /\ d = Times(thread[p].held, f)
          /\ LocalRefs(f) = c + d
    <3>1. Times(thread[p].held, f) \in 0..2
      BY <2>3, HeldCount, Zenon
    <3>2. Times(thread[p].held, f) \in Nat
      BY <3>1
    <3> QED
      BY <2>3, <3>2, HeldCount, ZenonT(60)
  <2>6. PICK e \in Nat :
          /\ e = Cardinality(FdsIn(ofile'[p], f))
          /\ FdRefs(f)' = a + e
    BY <2>1, <2>4, FdCountNext
  <2>7. PICK g \in Nat :
          /\ g = Times(thread'[p].held, f)
          /\ LocalRefs(f)' = c + g
    BY <2>2, <2>3, <2>5, HeldCountNext
  <2>8. PICK x \in Nat, y \in Nat :
          x = ftable[f].ref /\ y = ftable'[f].ref /\ x = (a + b) + (c + d)
    BY <2>4, <2>5 DEF IInv, CountInv, TypeOK, FilesTypeOK
  <2>9. y + b + d = x + e + g
    BY <2>4, <2>5, <2>6, <2>7, <2>8
  <2>10. y = (a + e) + (c + g)
    <3>1. x = (a + b) + (c + d)
      BY <2>8
    <3> QED
      BY <2>9, <3>1, Balance
  <2> QED
    BY <2>6, <2>7, <2>8, <2>10
<1>2. CountInv'
  BY <1>1 DEF CountInv
<1>3. Sized'
  BY DEF Sized, TypeOK, Thread, IInv, HeldInv
<1> QED
  BY <1>2, <1>3, ReferencesCountNext

(* What HeldInv says of one process.                                       *)
Hold(p) ==
  /\ thread[p].at = "absent" => \A fd \in Fd : ofile[p][fd] = NoFile
  /\ Len(thread[p].held) <= 2
  /\ thread[p].at = "pipe_second" => Len(thread[p].held) = 1
  /\ thread[p].at = "pipe_page" => Len(thread[p].held) = 2
  /\ thread[p].at \notin Making \union Closing => thread[p].held = << >>
  /\ thread[p].exiting => thread[p].at \in Closing /\ thread[p].held = << >>
  /\ thread[p].at \in Making => \A i \in DOMAIN thread[p].held :
       ftable[thread[p].held[i]].ref = 1 /\ ftable[thread[p].held[i]].type = "none"
  /\ thread[p].at = "pipeclose" => thread[p].obj \in PipeId

LEMMA HoldByHold == HeldInv <=> \A q \in Process : Hold(q)
BY Zenon DEF HeldInv, Hold

LEMMA HoldByHoldNext == (HeldInv <=> \A q \in Process : Hold(q))'
BY HoldByHold, PTL

LEMMA HoldsOn ==
  ASSUME IInv, NEW q \in Process, thread'[q].at = thread[q].at, thread'[q].held = thread[q].held,
         thread'[q].exiting = thread[q].exiting, thread'[q].obj = thread[q].obj,
         ofile'[q] = ofile[q],
         thread[q].at \in Making => \A i \in DOMAIN thread[q].held :
           /\ ftable'[thread[q].held[i]].ref = ftable[thread[q].held[i]].ref
           /\ ftable'[thread[q].held[i]].type = ftable[thread[q].held[i]].type
  PROVE  Hold(q)'
<1>1. Hold(q)
  BY HoldByHold DEF IInv
<1> QED
  BY <1>1 DEF Hold

(* A file that changes is no new file of another call, or nobody refers to *)
(* it any more.                                                            *)
Alters(f) ==
  \/ ftable'[f] = ftable[f]
  \/ /\ ftable'[f].type = ftable[f].type /\ ftable'[f].obj = ftable[f].obj
     /\ ftable'[f].writable = ftable[f].writable /\ ftable'[f].ref > 0
     /\ ~ (ftable[f].ref = 1 /\ ftable[f].type = "none")
  \/ ftable'[f] = Closed

(* Who stands for the ends of pipes: nobody else than before, or p instead *)
(* of a file.                                                              *)
Stands(p) ==
  \A pi \in PipeId, wr \in BOOLEAN :
    \/ /\ \A f \in File : IsEnd(f, pi, wr)' <=> IsEnd(f, pi, wr)
       /\ ClosesEnd(p, pi, wr)' <=> ClosesEnd(p, pi, wr)
    \/ /\ \A f \in File : ~ IsEnd(f, pi, wr)'
       /\ \E f \in File : IsEnd(f, pi, wr)
       /\ ClosesEnd(p, pi, wr)'

LEMMA FileStep ==
  ASSUME IInv, TypeOK', NEW p \in Process, UNCHANGED <<pipe, torn>>,
         \A q \in Process : q # p => thread'[q] = thread[q] /\ ofile'[q] = ofile[q],
         \A f \in File :
           ftable'[f].ref + Cardinality(FdsIn(ofile[p], f)) + Times(thread[p].held, f)
             = ftable[f].ref + Cardinality(FdsIn(ofile'[p], f)) + Times(thread'[p].held, f),
         ~ InPipe(p), ~ InPipe(p)', Hold(p)',
         \A f \in File : Alters(f),
         \A fd \in Fd : ofile'[p][fd] # NoFile => ftable[ofile'[p][fd]].type = "pipe",
         Stands(p)
  PROVE  IInv'
<1>1. CountInv' /\ Alive'
  BY Recount DEF Hold
<1>2. ASSUME NEW f \in File, NEW q \in Process,
             \/ \E fd \in Fd : ofile'[q][fd] = f
             \/ \E i \in DOMAIN thread'[q].held : thread'[q].held[i] = f
      PROVE  /\ ftable'[f].type = ftable[f].type /\ ftable'[f].obj = ftable[f].obj
             /\ ftable'[f].writable = ftable[f].writable
             /\ ftable[f].ref = 1 /\ ftable[f].type = "none" => ftable'[f].ref = 1
  <2>1. ftable'[f].ref > 0
    BY <1>1, <1>2 DEF Alive
  <2>2. ftable'[f] # Closed
    BY <2>1 DEF Closed
  <2> QED
    BY <2>2 DEF Alters
<1>3. HeldInv'
  <2>1. ASSUME NEW q \in Process, q # p
        PROVE  Hold(q)'
    <3>1. thread[q].held \in Seq(File) /\ thread'[q] = thread[q] /\ Hold(q)
      BY <2>1, HoldByHold DEF IInv, TypeOK, Thread
    <3>2. ASSUME thread[q].at \in Making, NEW i \in DOMAIN thread[q].held
          PROVE  /\ ftable'[thread[q].held[i]].ref = ftable[thread[q].held[i]].ref
                 /\ ftable'[thread[q].held[i]].type = ftable[thread[q].held[i]].type
      <4>1. PICK f \in File : f = thread[q].held[i]
        BY <3>1
      <4>2. ftable[f].ref = 1 /\ ftable[f].type = "none"
        BY <3>1, <3>2, <4>1 DEF Hold
      <4>3. \E j \in DOMAIN thread'[q].held : thread'[q].held[j] = f
        BY <3>1, <4>1
      <4> QED
        BY <1>2, <4>1, <4>2, <4>3
    <3> QED
      BY <2>1, <3>1, <3>2, HoldsOn
  <2> QED
    BY <2>1, HoldByHoldNext
<1>4. FileInv'
  <2>1. ASSUME NEW f \in File
        PROVE  /\ ftable'[f].type \in {"none", "pipe"}
               /\ ftable'[f].ref = 0 => ftable'[f] = Closed
               /\ ftable'[f].type = "none" => ~ ftable'[f].writable
               /\ ftable'[f].type = "pipe" => ftable'[f].obj \in PipeId
    <3>1. Closed.type = "none" /\ ~ Closed.writable
      BY DEF Closed
    <3>2. Alters(f)
      OBVIOUS
    <3> QED
      BY <3>1, <3>2 DEF Alters, IInv, FileInv
  <2>2. ASSUME NEW q \in Process, NEW fd \in Fd, ofile'[q][fd] # NoFile
        PROVE  ftable'[ofile'[q][fd]].type = "pipe"
    <3>1. PICK f \in File : f = ofile'[q][fd]
      BY <2>2 DEF TypeOK, FilesTypeOK
    <3>2. ftable[f].type = "pipe"
      BY <2>2, <3>1 DEF IInv, FileInv
    <3> QED
      BY <1>2, <3>1, <3>2
  <2> QED
    BY <2>1, <2>2 DEF FileInv
<1>5. EndInv'
  <2>1. ASSUME NEW pi \in PipeId, NEW wr \in BOOLEAN
        PROVE  /\ IsOpen(pi, wr)' <=> IsOpen(pi, wr)
               /\ \A q \in Process : q # p => (ClosesEnd(q, pi, wr)' <=> ClosesEnd(q, pi, wr))
               /\ \/ /\ \A f \in File : IsEnd(f, pi, wr)' <=> IsEnd(f, pi, wr)
                     /\ ClosesEnd(p, pi, wr)' <=> ClosesEnd(p, pi, wr)
                  \/ /\ \A f \in File : ~ IsEnd(f, pi, wr)'
                     /\ \E f \in File : IsEnd(f, pi, wr)
                     /\ ClosesEnd(p, pi, wr)'
    BY DEF IsOpen, ClosesEnd, Stands
  <2>2. \A pi \in PipeId : pipe'[pi].used <=> pipe'[pi].readopen \/ pipe'[pi].writeopen
    BY DEF IInv, EndInv
  <2>3. ASSUME NEW pi \in PipeId, NEW wr \in BOOLEAN
        PROVE  (/\ IsOpen(pi, wr) => \/ \E f \in File : IsEnd(f, pi, wr)
                                     \/ \E q \in Process : ClosesEnd(q, pi, wr)
                /\ \A f \in File : IsEnd(f, pi, wr) => IsOpen(pi, wr)
                /\ \A q \in Process : ClosesEnd(q, pi, wr) => IsOpen(pi, wr)
                /\ \A f, g \in File : IsEnd(f, pi, wr) /\ IsEnd(g, pi, wr) => f = g
                /\ \A f \in File, q \in Process : ~ (IsEnd(f, pi, wr) /\ ClosesEnd(q, pi, wr))
                /\ \A q, x \in Process : ClosesEnd(q, pi, wr) /\ ClosesEnd(x, pi, wr) => q = x)'
    <3>1. /\ IsOpen(pi, wr) => \/ \E f \in File : IsEnd(f, pi, wr)
                               \/ \E q \in Process : ClosesEnd(q, pi, wr)
          /\ \A f \in File : IsEnd(f, pi, wr) => IsOpen(pi, wr)
          /\ \A q \in Process : ClosesEnd(q, pi, wr) => IsOpen(pi, wr)
          /\ \A f, g \in File : IsEnd(f, pi, wr) /\ IsEnd(g, pi, wr) => f = g
          /\ \A f \in File, q \in Process : ~ (IsEnd(f, pi, wr) /\ ClosesEnd(q, pi, wr))
          /\ \A q, x \in Process : ClosesEnd(q, pi, wr) /\ ClosesEnd(x, pi, wr) => q = x
      BY DEF IInv, EndInv
    <3> QED
      BY <2>1, <3>1
  <2> QED
    BY <2>2, <2>3, Zenon DEF EndInv
<1>6. UseInv' /\ WaitInv'
  <2>1. ASSUME NEW q \in Process, InPipe(q)' \/ thread[q].at = "w_loop"
        PROVE  Undisturbed(q)
    <3>1. q # p /\ thread'[q] = thread[q] /\ InPipe(q)
      BY <2>1 DEF InPipe, Writing
    <3>2. PICK fd \in Fd : ofile[q][fd] = thread[q].f
      BY <3>1 DEF IInv, UseInv
    <3>3. ofile'[q][fd] = thread[q].f /\ thread[q].f \in File
      BY <3>1, <3>2, Uses
    <3>4. /\ ftable'[thread[q].f].obj = ftable[thread[q].f].obj
          /\ ftable'[thread[q].f].writable = ftable[thread[q].f].writable
      BY <1>2, <3>3
    <3> QED
      BY <3>1, <3>4 DEF Undisturbed
  <2> QED
    BY <2>1, PipesKept
<1>7. RingInv'
  BY DEF IInv, RingInv, Held
<1> QED
  BY <1>1, <1>3, <1>4, <1>5, <1>6, <1>7 DEF IInv

FileTypeOK == ftable \in [File -> [ref : Nat, type : {"none", "pipe", "inode"},
                                   obj : Nat, writable : BOOLEAN]]

LEMMA Refers ==
  ASSUME TypeOK, NEW f \in File, ftable' = Referred(ftable, f)
  PROVE  /\ FileTypeOK'
         /\ \A g \in File : /\ ftable'[g].ref = ftable[g].ref + Same(f, g)
                            /\ ftable'[g].type = ftable[g].type
                            /\ ftable'[g].obj = ftable[g].obj
                            /\ ftable'[g].writable = ftable[g].writable
                            /\ g # f => ftable'[g] = ftable[g]
         /\ ftable'[f].ref > 0 /\ ftable[f].ref \in Nat
<1>1. /\ ftable' = [ftable EXCEPT ![f] = [ftable[f] EXCEPT !.ref = ftable[f].ref + 1]]
      /\ FileTypeOK
  BY DEF Referred, TypeOK, FilesTypeOK, FileTypeOK
<1>2. ftable[f].ref \in Nat /\ ftable[f].ref + 1 \in Nat
  BY <1>1 DEF FileTypeOK
<1>3. FileTypeOK'
  BY <1>1, <1>2 DEF FileTypeOK
<1>4. ASSUME NEW g \in File
      PROVE  /\ ftable'[g].ref = ftable[g].ref + Same(f, g)
             /\ ftable'[g].type = ftable[g].type
             /\ ftable'[g].obj = ftable[g].obj
             /\ ftable'[g].writable = ftable[g].writable
             /\ g # f => ftable'[g] = ftable[g]
  BY <1>1 DEF FileTypeOK, Same
<1> QED
  BY <1>2, <1>3, <1>4 DEF Same

LEMMA Unrefers ==
  ASSUME TypeOK, NEW f \in File, ftable[f].ref > 0, ftable' = Unreferred(ftable, f)
  PROVE  /\ FileTypeOK'
         /\ \A g \in File : ftable'[g].ref = ftable[g].ref - Same(f, g)
         /\ \A g \in File : Alters(g) /\ (g # f => ftable'[g] = ftable[g])
         /\ IF ftable[f].ref = 1
              THEN ftable'[f] = Closed
              ELSE /\ ftable'[f].type = ftable[f].type /\ ftable'[f].obj = ftable[f].obj
                   /\ ftable'[f].writable = ftable[f].writable
<1>1. FileTypeOK /\ ftable[f].ref \in Nat
  BY DEF TypeOK, FilesTypeOK, FileTypeOK
<1>2. CASE ftable[f].ref > 1
  <2>1. ftable' = [ftable EXCEPT ![f] = [ftable[f] EXCEPT !.ref = ftable[f].ref - 1]]
    BY <1>1, <1>2 DEF Unreferred, FileTypeOK
  <2>2. ftable[f].ref - 1 \in Nat /\ ftable[f].ref - 1 > 0
    BY <1>1, <1>2
  <2>3. FileTypeOK'
    BY <1>1, <2>1, <2>2 DEF FileTypeOK
  <2>4. ASSUME NEW g \in File
        PROVE  /\ ftable'[g].ref = ftable[g].ref - Same(f, g)
               /\ g # f => ftable'[g] = ftable[g]
               /\ ftable'[g].type = ftable[g].type
               /\ ftable'[g].obj = ftable[g].obj
               /\ ftable'[g].writable = ftable[g].writable
    BY <1>1, <2>1 DEF FileTypeOK, Same
  <2>5. ftable'[f].ref > 0 /\ ftable[f].ref # 1
    BY <1>1, <1>2, <2>4 DEF Same
  <2> QED
    BY <2>3, <2>4, <2>5 DEF Alters
<1>3. CASE ftable[f].ref = 1
  <2>1. ftable' = [ftable EXCEPT ![f] = Closed]
    BY <1>1, <1>3 DEF Unreferred, FileTypeOK
  <2>2. FileTypeOK'
    BY <1>1, <2>1 DEF FileTypeOK, Closed
  <2>3. Closed.ref = 0
    BY DEF Closed
  <2>4. ASSUME NEW g \in File
        PROVE  ftable'[g] = IF g = f THEN Closed ELSE ftable[g]
    BY <1>1, <2>1 DEF FileTypeOK
  <2>5. \A g \in File : ftable'[g].ref = ftable[g].ref - Same(f, g)
    BY <1>1, <1>3, <2>3, <2>4 DEF FileTypeOK, Same
  <2> QED
    BY <1>3, <2>2, <2>4, <2>5 DEF Alters
<1> QED
  BY <1>1, <1>2, <1>3

(* Files keep what they stand for, and p closes no end.                    *)
LEMMA StandsStill ==
  ASSUME NEW p \in Process, thread[p].at # "pipeclose", thread'[p].at # "pipeclose",
         \A f \in File : \/ /\ ftable'[f].type = ftable[f].type /\ ftable'[f].obj = ftable[f].obj
                            /\ ftable'[f].writable = ftable[f].writable
                         \/ ftable'[f].type # "pipe" /\ ftable[f].type # "pipe"
  PROVE  Stands(p)
BY DEF Stands, IsEnd, ClosesEnd

LEMMA NotInPipe ==
  ASSUME NEW p \in Process, thread[p].at \notin Reading \union Writing,
         thread'[p].at \notin Reading \union Writing
  PROVE  ~ InPipe(p) /\ ~ InPipe(p)'
BY DEF InPipe

LEMMA PipeFirstKeeps == ASSUME IInv, NEW p \in Process, PipeFirst(p) PROVE IInv'
<1>1. TypeOK /\ thread[p].at = "user" /\ thread[p].held = << >>
  BY DEF PipeFirst, Calls, At, IInv, HeldInv, Making, Closing
<1>2. PICK f \in File :
        /\ ftable[f].ref = 0
        /\ ftable' = Referred(ftable, f)
        /\ thread' = [thread EXCEPT ![p] = [User EXCEPT !.at = "pipe_second", !.held = <<f>>]]
        /\ UNCHANGED <<ofile, pipe, killed, torn>>
  BY Allocated DEF PipeFirst
<1>3. PICK t \in Thread : t = [User EXCEPT !.at = "pipe_second", !.held = <<f>>]
  <2>1. "pipe_second" \in Location /\ <<f>> \in Seq(File) /\ 0 \in Nat
    BY DEF Location
  <2>2. \A b \in BOOLEAN : [User EXCEPT !.at = "pipe_second", !.held = <<f>>] \in Thread
    BY <2>1, Begins, Zenon
  <2> QED
    BY <2>2
<1>4. t.at = "pipe_second" /\ t.held = <<f>> /\ ~ t.exiting
  BY <1>3 DEF User
<1>5. /\ thread' \in [Process -> Thread] /\ thread'[p] = t
      /\ \A q \in Process : q # p => thread'[q] = thread[q]
  BY <1>1, <1>2, <1>3, Becomes
<1>6. ftable[f] = Closed /\ ftable[f].type = "none"
  BY <1>2 DEF IInv, FileInv, Closed
<1>7. /\ FileTypeOK'
      /\ \A g \in File : /\ ftable'[g].ref = ftable[g].ref + Same(f, g)
                         /\ ftable'[g].type = ftable[g].type
                         /\ ftable'[g].obj = ftable[g].obj
                         /\ ftable'[g].writable = ftable[g].writable
                         /\ g # f => ftable'[g] = ftable[g]
      /\ ftable'[f].ref > 0
  BY <1>1, <1>2, Refers
<1>8. TypeOK'
  BY <1>1, <1>2, <1>5, <1>7 DEF TypeOK, FilesTypeOK, FileTypeOK
<1>9. ASSUME NEW g \in File
      PROVE  ftable'[g].ref + Cardinality(FdsIn(ofile[p], g)) + Times(thread[p].held, g)
               = ftable[g].ref + Cardinality(FdsIn(ofile'[p], g)) + Times(thread'[p].held, g)
  <2>1. PICK c \in Nat : c = Cardinality(FdsIn(ofile[p], g)) /\ FdsIn(ofile'[p], g) = FdsIn(ofile[p], g)
    BY <1>2, FdCount
  <2>2. PICK x \in Nat, y \in Nat : x = ftable[g].ref /\ y = ftable'[g].ref
    BY <1>1, <1>8 DEF TypeOK, FilesTypeOK
  <2>3. Times(thread[p].held, g) = 0 /\ Times(thread'[p].held, g) = Same(f, g)
    <3>1. thread[p].held = << >> /\ thread'[p].held = <<f>>
      BY <1>1, <1>4, <1>5
    <3>2. Times(<< >>, g) = 0 /\ Times(<<f>>, g) = Same(f, g)
      BY TimesOf, Zenon
    <3> QED
      BY <3>1, <3>2
  <2>4. y = x + Same(f, g) /\ Same(f, g) \in Nat
    BY <1>7, <2>2 DEF Same
  <2> QED
    BY <2>1, <2>2, <2>3, <2>4
<1>10. \A g \in File : Alters(g)
  BY <1>2, <1>7 DEF Alters
<1>11. Hold(p)'
  <2>1. ftable'[f].ref = 1 /\ ftable'[f].type = "none"
    BY <1>2, <1>6, <1>7 DEF Same
  <2>2. Len(t.held) = 1 /\ \A i \in DOMAIN t.held : t.held[i] = f
    BY <1>4
  <2>3. thread'[p].at = "pipe_second" /\ thread'[p].held = t.held /\ ~ thread'[p].exiting
    BY <1>4, <1>5
  <2>4. \A i \in DOMAIN thread'[p].held :
          ftable'[thread'[p].held[i]].ref = 1 /\ ftable'[thread'[p].held[i]].type = "none"
    BY <2>1, <2>2, <2>3
  <2>5. Len(thread'[p].held) = 1
    BY <2>2, <2>3
  <2>10. Len(thread'[p].held) <= 2
    BY <2>5
  <2>11. thread'[p].at # "absent" /\ thread'[p].at # "pipe_page" /\ thread'[p].at # "pipeclose"
    BY <2>3
  <2>12. thread'[p].at \in Making
    BY <2>3 DEF Making
  <2> QED
    BY <2>3, <2>4, <2>5, <2>10, <2>11, <2>12, Zenon DEF Hold
<1>12. Stands(p)
  BY <1>1, <1>4, <1>5, <1>7, StandsStill
<1>13. ~ InPipe(p) /\ ~ InPipe(p)'
  BY <1>1, <1>4, <1>5, NotInPipe DEF Reading, Writing
<1>14. \A fd \in Fd : ofile'[p][fd] # NoFile => ftable[ofile'[p][fd]].type = "pipe"
  BY <1>2 DEF IInv, FileInv
<1> QED
  BY <1>2, <1>5, <1>8, <1>9, <1>10, <1>11, <1>12, <1>13, <1>14, FileStep

LEMMA HoldsInClosing ==
  ASSUME NEW p \in Process, thread'[p].at = "closing", Len(thread'[p].held) <= 2,
         thread'[p].exiting => thread'[p].held = << >>
  PROVE  Hold(p)' /\ ~ InPipe(p)'
<1>1. /\ "closing" \in Making \union Closing /\ "closing" \in Closing
      /\ "closing" \notin Making /\ "closing" \notin Reading \union Writing
  BY DEF Making, Closing, Reading, Writing
<1>2. /\ thread'[p].at # "absent" /\ thread'[p].at # "pipe_page"
      /\ thread'[p].at # "pipeclose" /\ thread'[p].at # "pipe_second"
  OBVIOUS
<1> QED
  BY <1>1, <1>2, Zenon DEF Hold, InPipe

LEMMA HoldsNothing ==
  ASSUME NEW p \in Process, thread'[p] = User
  PROVE  Hold(p)' /\ ~ InPipe(p)'
BY DEF Hold, InPipe, User, Making, Closing, Reading, Writing

(* The files stay as they are, and p starts to close what it holds.        *)
LEMMA ClosingKeeps ==
  ASSUME IInv, NEW p \in Process, ~ InPipe(p), thread[p].at # "pipeclose",
         thread[p].exiting = FALSE, UNCHANGED <<ftable, ofile, pipe, killed, torn>>,
         thread' = Goto(p, "closing")
  PROVE  IInv'
<1>1. TypeOK /\ thread[p] \in Thread
  BY DEF IInv, TypeOK
<1>2. PICK t \in Thread : t = [thread[p] EXCEPT !.at = "closing"]
  BY <1>1, GoesTo DEF Location
<1>3. t.at = "closing" /\ t.held = thread[p].held /\ t.exiting = FALSE
  BY <1>1, <1>2 DEF Thread
<1>4. /\ thread' \in [Process -> Thread] /\ thread'[p] = t
      /\ \A q \in Process : q # p => thread'[q] = thread[q]
  BY <1>1, <1>2, Becomes DEF Goto
<1>5. TypeOK'
  BY <1>1, <1>4 DEF TypeOK, FilesTypeOK
<1>6. Hold(p)' /\ ~ InPipe(p)'
  <2>1. Len(thread[p].held) <= 2
    BY DEF IInv, HeldInv
  <2> QED
    BY <1>3, <1>4, <2>1, HoldsInClosing
<1>7. \A f \in File :
        ftable'[f].ref + Cardinality(FdsIn(ofile[p], f)) + Times(thread[p].held, f)
          = ftable[f].ref + Cardinality(FdsIn(ofile'[p], f)) + Times(thread'[p].held, f)
  BY <1>3, <1>4
<1>8. \A f \in File : Alters(f)
  BY DEF Alters
<1>9. Stands(p)
  BY <1>3, <1>4, StandsStill
<1>10. \A fd \in Fd : ofile'[p][fd] # NoFile => ftable[ofile'[p][fd]].type = "pipe"
  BY DEF IInv, FileInv
<1> QED
  BY <1>4, <1>5, <1>6, <1>7, <1>8, <1>9, <1>10, FileStep

LEMMA MakingIsNew ==
  ASSUME IInv, NEW p \in Process, thread[p].at \in Making
  PROVE  /\ ~ InPipe(p) /\ thread[p].at # "pipeclose" /\ thread[p].exiting = FALSE
         /\ thread[p] \in Thread /\ TypeOK
<1>1. thread[p] \in Thread /\ TypeOK
  BY DEF IInv, TypeOK
<1>2. thread[p].exiting \in BOOLEAN
  BY <1>1 DEF Thread
<1> QED
  BY <1>1, <1>2 DEF IInv, HeldInv, InPipe, Making, Closing, Reading, Writing

LEMMA PipeFailsKeeps == ASSUME IInv, NEW p \in Process, PipeFails(p) PROVE IInv'
<1>1. thread[p].at \in Making
  BY DEF PipeFails, At, Making
<1> QED
  BY <1>1, MakingIsNew, ClosingKeeps DEF PipeFails

LEMMA PipeSecondKeeps == ASSUME IInv, NEW p \in Process, PipeSecond(p) PROVE IInv'
<1>1. /\ thread[p].at \in Making /\ thread[p].at = "pipe_second"
      /\ UNCHANGED <<ofile, pipe, killed, torn>>
  BY DEF PipeSecond, At, Making
<1>2. /\ ~ InPipe(p) /\ thread[p].exiting = FALSE /\ thread[p] \in Thread /\ TypeOK
  BY <1>1, MakingIsNew
<1>3. CASE thread' = Goto(p, "closing") /\ UNCHANGED ftable
  BY <1>1, <1>2, <1>3, ClosingKeeps
<1>4. CASE \E g \in File :
        /\ ftable[g].ref = 0 /\ ftable' = Referred(ftable, g)
        /\ thread' = [thread EXCEPT ![p] = [@ EXCEPT !.at = "pipe_page",
                                                     !.held = <<thread[p].held[1], g>>]]
  <2>1. PICK g \in File :
        /\ ftable[g].ref = 0 /\ ftable' = Referred(ftable, g)
        /\ thread' = [thread EXCEPT ![p] = [@ EXCEPT !.at = "pipe_page",
                                                     !.held = <<thread[p].held[1], g>>]]
    BY <1>4
  <2>2. PICK f \in File : /\ f = thread[p].held[1] /\ thread[p].held = <<f>>
                          /\ ftable[f].ref = 1 /\ ftable[f].type = "none"
    <3>1. thread[p].held \in Seq(File) /\ Len(thread[p].held) = 1
      BY <1>1, <1>2 DEF Thread, IInv, HeldInv
    <3>2. thread[p].held[1] \in File /\ thread[p].held = <<thread[p].held[1]>>
          /\ 1 \in DOMAIN thread[p].held
      BY <3>1
    <3> QED
      BY <1>1, <3>2 DEF IInv, HeldInv
  <2>3. PICK t \in Thread : t = [thread[p] EXCEPT !.at = "pipe_page", !.held = <<f, g>>]
    <3>1. "pipe_page" \in Location /\ <<f, g>> \in Seq(File) /\ 0 \in Nat /\ 0 \in 0..1
          /\ << >> \in Seq(Byte)
      BY DEF Location
    <3>2. [thread[p] EXCEPT !.at = "pipe_page", !.held = <<f, g>>] \in Thread
      BY <1>2, <3>1 DEF Thread
    <3> QED
      BY <3>2
  <2>4. t.at = "pipe_page" /\ t.held = <<f, g>> /\ t.exiting = FALSE
    BY <1>2, <2>3 DEF Thread
  <2>5. /\ thread' \in [Process -> Thread] /\ thread'[p] = t
        /\ \A q \in Process : q # p => thread'[q] = thread[q]
    <3>1. thread' = [thread EXCEPT ![p] = t]
      BY <2>1, <2>2, <2>3, Zenon
    <3> QED
      BY <1>2, <3>1, Becomes
  <2>6. ftable[g] = Closed /\ ftable[g].type = "none" /\ f # g
    BY <2>1, <2>2 DEF IInv, FileInv, Closed
  <2>7. /\ FileTypeOK'
        /\ \A x \in File : /\ ftable'[x].ref = ftable[x].ref + Same(g, x)
                           /\ ftable'[x].type = ftable[x].type
                           /\ ftable'[x].obj = ftable[x].obj
                           /\ ftable'[x].writable = ftable[x].writable
                           /\ x # g => ftable'[x] = ftable[x]
        /\ ftable'[g].ref > 0
    BY <1>2, <2>1, Refers
  <2>8. TypeOK'
    BY <1>1, <1>2, <2>5, <2>7 DEF TypeOK, FilesTypeOK, FileTypeOK
  <2>9. ASSUME NEW x \in File
        PROVE  ftable'[x].ref + Cardinality(FdsIn(ofile[p], x)) + Times(thread[p].held, x)
                 = ftable[x].ref + Cardinality(FdsIn(ofile'[p], x)) + Times(thread'[p].held, x)
    <3>1. PICK c \in Nat : c = Cardinality(FdsIn(ofile[p], x))
                           /\ FdsIn(ofile'[p], x) = FdsIn(ofile[p], x)
      BY <1>1, FdCount
    <3>2. PICK y \in Nat, z \in Nat : y = ftable[x].ref /\ z = ftable'[x].ref
      BY <1>2, <2>8 DEF TypeOK, FilesTypeOK
    <3>3. Times(thread[p].held, x) = Same(f, x) /\ Times(thread'[p].held, x) = Same(f, x) + Same(g, x)
      <4>1. thread[p].held = <<f>> /\ thread'[p].held = <<f, g>>
        BY <2>2, <2>4, <2>5
      <4>2. Times(<<f>>, x) = Same(f, x)
        BY TimesOf, Zenon
      <4>3. Times(<<f, g>>, x) = Same(f, x) + Same(g, x)
        BY DEF Times, Same
      <4> QED
        BY <4>1, <4>2, <4>3
    <3>4. z = y + Same(g, x) /\ Same(f, x) \in Nat /\ Same(g, x) \in Nat
      BY <2>7, <3>2 DEF Same
    <3> QED
      BY <3>1, <3>2, <3>3, <3>4
  <2>10. \A x \in File : Alters(x)
    BY <2>1, <2>7 DEF Alters
  <2>11. Hold(p)'
    <3>1. /\ ftable'[g].ref = 1 /\ ftable'[g].type = "none"
          /\ ftable'[f].ref = 1 /\ ftable'[f].type = "none"
      BY <2>1, <2>2, <2>6, <2>7 DEF Same
    <3>2. Len(t.held) = 2 /\ \A i \in DOMAIN t.held : t.held[i] \in {f, g}
      BY <2>4
    <3>3. thread'[p].at = "pipe_page" /\ thread'[p].held = t.held /\ ~ thread'[p].exiting
      BY <2>4, <2>5
    <3>4. \A i \in DOMAIN thread'[p].held :
            ftable'[thread'[p].held[i]].ref = 1 /\ ftable'[thread'[p].held[i]].type = "none"
      BY <3>1, <3>2, <3>3
    <3>5. Len(thread'[p].held) = 2
      BY <3>2, <3>3
    <3>6. Len(thread'[p].held) <= 2
      BY <3>5
    <3>7. /\ thread'[p].at # "absent" /\ thread'[p].at # "pipe_second"
          /\ thread'[p].at # "pipeclose"
      BY <3>3
    <3>8. thread'[p].at \in Making
      BY <3>3 DEF Making
    <3> QED
      BY <3>3, <3>4, <3>5, <3>6, <3>7, <3>8, Zenon DEF Hold
  <2>12. Stands(p)
    BY <1>1, <2>4, <2>5, <2>7, StandsStill
  <2>13. ~ InPipe(p)'
    BY <2>4, <2>5 DEF InPipe, Reading, Writing
  <2>14. \A fd \in Fd : ofile'[p][fd] # NoFile => ftable[ofile'[p][fd]].type = "pipe"
    BY <1>1 DEF IInv, FileInv
  <2> QED
    BY <1>1, <1>2, <2>5, <2>8, <2>9, <2>10, <2>11, <2>12, <2>13, <2>14, FileStep
<1> QED
  BY <1>3, <1>4, Allocated DEF PipeSecond

LEMMA InUserMode ==
  ASSUME IInv, NEW p \in Process, thread[p].at \in {"user", "absent"}
  PROVE  /\ ~ InPipe(p) /\ thread[p].at # "pipeclose" /\ ~ thread[p].exiting
         /\ thread[p].held = << >> /\ TypeOK /\ thread[p] \in Thread
BY DEF IInv, HeldInv, TypeOK, InPipe, Making, Closing, Reading, Writing

LEMMA CloseKeeps == ASSUME IInv, NEW p \in Process, NEW fd \in Fd, Close(p, fd) PROVE IInv'
<1>1. thread[p].at = "user"
  BY DEF Close, Calls, At
<1>2. /\ ~ InPipe(p) /\ thread[p].at # "pipeclose" /\ thread[p].held = << >>
      /\ TypeOK /\ thread[p] \in Thread
  BY <1>1, InUserMode
<1>3. PICK f \in File :
        /\ f = ofile[p][fd] /\ f # NoFile
        /\ ofile' = [ofile EXCEPT ![p][fd] = NoFile]
        /\ thread' = [thread EXCEPT ![p] = [User EXCEPT !.at = "closing", !.held = <<f>>]]
        /\ UNCHANGED <<ftable, pipe, killed, torn>>
  <2>1. ofile[p][fd] \in File \union {NoFile} /\ ArgFd(p, fd) = ofile[p][fd]
    BY <1>2 DEF TypeOK, FilesTypeOK, ArgFd
  <2>2. PICK f \in File : f = ofile[p][fd] /\ f # NoFile
    BY <2>1 DEF Close
  <2> QED
    BY <2>2 DEF Close
<1>4. PICK t \in Thread : t = [User EXCEPT !.at = "closing", !.held = <<f>>]
  <2>1. "closing" \in Location /\ <<f>> \in Seq(File) /\ 0 \in Nat
    BY DEF Location
  <2>2. \A b \in BOOLEAN : [User EXCEPT !.at = "closing", !.held = <<f>>] \in Thread
    BY <2>1, Begins, Zenon
  <2> QED
    BY <2>2
<1>5. t.at = "closing" /\ t.held = <<f>> /\ ~ t.exiting
  BY <1>4 DEF User
<1>6. /\ thread' \in [Process -> Thread] /\ thread'[p] = t
      /\ \A q \in Process : q # p => thread'[q] = thread[q]
  BY <1>2, <1>3, <1>4, Becomes
<1>7. /\ ofile'[p][fd] = NoFile /\ Differs(ofile[p], ofile'[p], fd)
      /\ ofile' \in [Process -> [Fd -> File \union {NoFile}]]
      /\ \A q \in Process : q # p => ofile'[q] = ofile[q]
  BY <1>2, <1>3 DEF TypeOK, FilesTypeOK, Differs
<1>8. TypeOK'
  BY <1>2, <1>3, <1>6, <1>7 DEF TypeOK, FilesTypeOK
<1>9. ASSUME NEW x \in File
      PROVE  ftable'[x].ref + Cardinality(FdsIn(ofile[p], x)) + Times(thread[p].held, x)
               = ftable[x].ref + Cardinality(FdsIn(ofile'[p], x)) + Times(thread'[p].held, x)
  <2>1. NoFile \in File \union {NoFile} /\ NoFile # x
    BY DEF File
  <2>2. PICK c \in Nat, d \in Nat :
          /\ c = Cardinality(FdsIn(ofile[p], x)) /\ d = Cardinality(FdsIn(ofile'[p], x))
          /\ d + Same(f, x) = c + Same(NoFile, x)
    <3>1. \E c, d \in Nat : /\ c = Cardinality(FdsIn(ofile[p], x))
                            /\ d = Cardinality(FdsIn(ofile'[p], x))
                            /\ d + Same(ofile[p][fd], x) = c + Same(ofile'[p][fd], x)
      BY <1>7, FdMoves, Zenon
    <3> QED
      BY <1>3, <1>7, <3>1
  <2>3. PICK y \in Nat : y = ftable[x].ref /\ ftable'[x].ref = y
    BY <1>2, <1>3 DEF TypeOK, FilesTypeOK
  <2>4. Times(thread[p].held, x) = 0 /\ Times(thread'[p].held, x) = Same(f, x)
    <3>1. thread[p].held = << >> /\ thread'[p].held = <<f>>
      BY <1>2, <1>5, <1>6
    <3>2. Times(<< >>, x) = 0
      BY TimesOf, Zenon
    <3>3. Times(<<f>>, x) = Same(f, x)
      BY TimesOf, Zenon
    <3> QED
      BY <3>1, <3>2, <3>3
  <2>5. Same(NoFile, x) = 0 /\ Same(f, x) \in Nat
    BY <2>1 DEF Same
  <2> QED
    BY <2>2, <2>3, <2>4, <2>5
<1>10. Hold(p)' /\ ~ InPipe(p)'
  <2>1. Len(<<f>>) <= 2
    OBVIOUS
  <2> QED
    BY <1>5, <1>6, <2>1, HoldsInClosing
<1>11. \A x \in File : Alters(x)
  BY <1>3 DEF Alters
<1>12. Stands(p)
  BY <1>2, <1>3, <1>5, <1>6, StandsStill
<1>13. \A d \in Fd : ofile'[p][d] # NoFile => ftable[ofile'[p][d]].type = "pipe"
  BY <1>7 DEF IInv, FileInv, Differs
<1> QED
  BY <1>2, <1>3, <1>6, <1>7, <1>8, <1>9, <1>10, <1>11, <1>12, <1>13, FileStep

LEMMA ExitKeeps == ASSUME IInv, NEW p \in Process, Exit(p) PROVE IInv'
<1>1. thread[p].at = "user"
  BY DEF Exit, At
<1>2. /\ ~ InPipe(p) /\ thread[p].at # "pipeclose" /\ thread[p].held = << >>
      /\ TypeOK /\ thread[p] \in Thread
  BY <1>1, InUserMode
<1>3. PICK t \in Thread : t = [User EXCEPT !.at = "closing", !.exiting = TRUE]
  <2>1. "closing" \in Location /\ << >> \in Seq(File) /\ 0 \in Nat /\ TRUE \in BOOLEAN
        /\ NFILE \in File
    BY DEF Location, File
  <2> QED
    BY <2>1, Begins, Zenon
<1>4. t.at = "closing" /\ t.held = << >>
  BY <1>3 DEF User
<1>5. /\ thread' \in [Process -> Thread] /\ thread'[p] = t
      /\ \A q \in Process : q # p => thread'[q] = thread[q]
  BY <1>2, <1>3, Becomes DEF Exit
<1>6. UNCHANGED <<ftable, ofile, pipe, killed, torn>>
  BY DEF Exit
<1>7. TypeOK'
  BY <1>2, <1>5, <1>6 DEF TypeOK, FilesTypeOK
<1>8. Hold(p)' /\ ~ InPipe(p)'
  <2>1. Len(<< >>) <= 2
    OBVIOUS
  <2> QED
    BY <1>4, <1>5, <2>1, HoldsInClosing
<1>9. \A f \in File :
        ftable'[f].ref + Cardinality(FdsIn(ofile[p], f)) + Times(thread[p].held, f)
          = ftable[f].ref + Cardinality(FdsIn(ofile'[p], f)) + Times(thread'[p].held, f)
  BY <1>2, <1>4, <1>5, <1>6
<1>10. \A f \in File : Alters(f)
  BY <1>6 DEF Alters
<1>11. Stands(p)
  BY <1>2, <1>4, <1>5, <1>6, StandsStill
<1>12. \A fd \in Fd : ofile'[p][fd] # NoFile => ftable[ofile'[p][fd]].type = "pipe"
  BY <1>6 DEF IInv, FileInv
<1> QED
  BY <1>2, <1>5, <1>6, <1>7, <1>8, <1>9, <1>10, <1>11, <1>12, FileStep

LEMMA CloseDoneKeeps == ASSUME IInv, NEW p \in Process, CloseDone(p) PROVE IInv'
<1>1. /\ thread[p].at = "closing" /\ thread[p].held = << >> /\ TypeOK /\ ~ InPipe(p)
      /\ UNCHANGED <<ftable, ofile, pipe, torn>>
  BY DEF CloseDone, At, IInv, InPipe, Reading, Writing
<1>2. PICK t \in Thread : t = IF thread[p].exiting THEN Absent ELSE User
  BY Idle
<1>3. /\ t.at = IF thread[p].exiting THEN "absent" ELSE "user"
      /\ t.held = << >> /\ ~ t.exiting
  BY <1>2 DEF Absent, User
<1>4. /\ thread' \in [Process -> Thread] /\ thread'[p] = t
      /\ \A q \in Process : q # p => thread'[q] = thread[q]
  BY <1>1, <1>2, Becomes DEF CloseDone
<1>5. killed' \in [Process -> BOOLEAN]
  BY <1>1 DEF CloseDone, TypeOK
<1>6. TypeOK'
  BY <1>1, <1>4, <1>5 DEF TypeOK, FilesTypeOK
<1>7. Hold(p)' /\ ~ InPipe(p)'
  <2>1. t.at = "absent" => \A fd \in Fd : ofile'[p][fd] = NoFile
    BY <1>1, <1>3 DEF CloseDone, OpenFds
  <2>2. Len(<< >>) <= 2
    OBVIOUS
  <2>3. /\ thread'[p].at = t.at /\ thread'[p].held = << >> /\ ~ thread'[p].exiting
        /\ t.at \in {"absent", "user"}
    BY <1>3, <1>4
  <2> QED
    BY <2>1, <2>2, <2>3 DEF Hold, InPipe, Making, Closing, Reading, Writing
<1>8. \A f \in File :
        ftable'[f].ref + Cardinality(FdsIn(ofile[p], f)) + Times(thread[p].held, f)
          = ftable[f].ref + Cardinality(FdsIn(ofile'[p], f)) + Times(thread'[p].held, f)
  BY <1>1, <1>3, <1>4
<1>9. \A f \in File : Alters(f)
  BY <1>1 DEF Alters
<1>10. Stands(p)
  BY <1>1, <1>3, <1>4, StandsStill
<1>11. \A fd \in Fd : ofile'[p][fd] # NoFile => ftable[ofile'[p][fd]].type = "pipe"
  BY <1>1 DEF IInv, FileInv
<1> QED
  BY <1>1, <1>4, <1>6, <1>7, <1>8, <1>9, <1>10, <1>11, FileStep


LEMMA DupKeeps == ASSUME IInv, NEW p \in Process, NEW fd \in Fd, Dup(p, fd) PROVE IInv'
<1>1. thread[p].at = "user"
  BY DEF Dup, Calls, At
<1>2. /\ ~ InPipe(p) /\ thread[p].at # "pipeclose" /\ TypeOK /\ thread[p].held = << >>
      /\ UNCHANGED <<pipe, thread, killed, torn>>
  BY <1>1, InUserMode DEF Dup
<1>3. PICK f \in File, new \in Fd :
        /\ f = ofile[p][fd] /\ ofile[p][new] = NoFile
        /\ ofile' = [ofile EXCEPT ![p][new] = f]
        /\ ftable' = Referred(ftable, f)
  <2>1. ofile[p][fd] \in File \union {NoFile} /\ ArgFd(p, fd) = ofile[p][fd]
    BY <1>2 DEF TypeOK, FilesTypeOK, ArgFd
  <2>2. PICK f \in File : f = ofile[p][fd]
    BY <2>1 DEF Dup
  <2>3. FdAlloc(ofile[p]) \in Fd /\ ofile[p][FdAlloc(ofile[p])] = NoFile
    BY Allocated DEF Dup
  <2> QED
    BY <2>1, <2>2, <2>3 DEF Dup
<1>4. ftable[f].type = "pipe"
  BY <1>3 DEF IInv, FileInv, File
<1>5. /\ FileTypeOK'
      /\ \A g \in File : /\ ftable'[g].ref = ftable[g].ref + Same(f, g)
                         /\ ftable'[g].type = ftable[g].type
                         /\ ftable'[g].obj = ftable[g].obj
                         /\ ftable'[g].writable = ftable[g].writable
                         /\ g # f => ftable'[g] = ftable[g]
      /\ ftable'[f].ref > 0
  BY <1>2, <1>3, Refers
<1>6. /\ ofile'[p][new] = f /\ Differs(ofile[p], ofile'[p], new)
      /\ ofile' \in [Process -> [Fd -> File \union {NoFile}]]
      /\ \A q \in Process : q # p => ofile'[q] = ofile[q]
  BY <1>2, <1>3 DEF TypeOK, FilesTypeOK, Differs
<1>7. TypeOK'
  BY <1>2, <1>5, <1>6 DEF TypeOK, FilesTypeOK, FileTypeOK
<1>8. ASSUME NEW x \in File
      PROVE  ftable'[x].ref + Cardinality(FdsIn(ofile[p], x)) + Times(thread[p].held, x)
               = ftable[x].ref + Cardinality(FdsIn(ofile'[p], x)) + Times(thread'[p].held, x)
  <2>1. \E c, d \in Nat : /\ c = Cardinality(FdsIn(ofile[p], x))
                          /\ d = Cardinality(FdsIn(ofile'[p], x))
                          /\ d + Same(ofile[p][new], x) = c + Same(ofile'[p][new], x)
    BY <1>6, FdMoves, Zenon
  <2>2. PICK c \in Nat, d \in Nat : /\ c = Cardinality(FdsIn(ofile[p], x))
                                   /\ d = Cardinality(FdsIn(ofile'[p], x))
                                   /\ d + Same(NoFile, x) = c + Same(f, x)
    BY <1>3, <1>6, <2>1
  <2>3. Same(NoFile, x) = 0 /\ Same(f, x) \in Nat
    BY DEF Same, File
  <2>4. PICK y \in Nat, z \in Nat : y = ftable[x].ref /\ z = ftable'[x].ref /\ z = y + Same(f, x)
    BY <1>2, <1>5, <1>7 DEF TypeOK, FilesTypeOK
  <2>5. Times(thread[p].held, x) = 0 /\ thread'[p].held = thread[p].held
    BY <1>2, TimesOf
  <2> QED
    BY <2>2, <2>3, <2>4, <2>5
<1>9. Hold(p)' /\ ~ InPipe(p)'
  <2>1. thread'[p] = thread[p]
    BY <1>2
  <2>2. Len(<< >>) <= 2
    OBVIOUS
  <2>3. ~ thread[p].exiting
    BY <1>1, InUserMode
  <2> QED
    BY <1>1, <1>2, <2>1, <2>2, <2>3 DEF Hold, InPipe, Making, Closing, Reading, Writing
<1>10. \A x \in File : Alters(x)
  BY <1>4, <1>5 DEF Alters
<1>11. Stands(p)
  BY <1>2, <1>5, StandsStill
<1>12. \A d \in Fd : ofile'[p][d] # NoFile => ftable[ofile'[p][d]].type = "pipe"
  BY <1>4, <1>6 DEF IInv, FileInv, Differs
<1> QED
  BY <1>2, <1>6, <1>7, <1>8, <1>9, <1>10, <1>11, <1>12, FileStep

LEMMA ForkKeeps ==
  ASSUME IInv, NEW p \in Process, NEW child \in Process, Fork(p, child)
  PROVE  IInv'
<1>1. thread[child].at = "absent" /\ child # p
  BY DEF Fork, Calls, At
<1>2. /\ ~ InPipe(child) /\ thread[child].at # "pipeclose" /\ TypeOK
      /\ thread[child].held = << >> /\ UNCHANGED <<pipe, killed, torn>>
  BY <1>1, InUserMode DEF Fork
<1>3. /\ thread' \in [Process -> Thread] /\ thread'[child] = User
      /\ \A q \in Process : q # child => thread'[q] = thread[q]
  BY <1>2, Idle, Becomes DEF Fork
<1>4. /\ ofile' \in [Process -> [Fd -> File \union {NoFile}]] /\ ofile'[child] = ofile[p]
      /\ \A q \in Process : q # child => ofile'[q] = ofile[q]
  BY <1>2 DEF Fork, FilesFork, TypeOK, FilesTypeOK
<1>5. ASSUME NEW f \in File
      PROVE  /\ ftable'[f] = [ftable[f] EXCEPT !.ref = @ + Cardinality(FdsIn(ofile[p], f))]
             /\ Cardinality(FdsIn(ofile[p], f)) \in Nat
             /\ ftable[f] \in [ref : Nat, type : {"none", "pipe", "inode"}, obj : Nat,
                               writable : BOOLEAN]
  BY <1>2, FdCount DEF Fork, FilesFork, FdsIn, TypeOK, FilesTypeOK
<1>6. ASSUME NEW f \in File
      PROVE  /\ ftable'[f].ref = ftable[f].ref + Cardinality(FdsIn(ofile[p], f))
             /\ ftable'[f].type = ftable[f].type
             /\ ftable'[f].obj = ftable[f].obj /\ ftable'[f].writable = ftable[f].writable
             /\ ftable'[f] \in [ref : Nat, type : {"none", "pipe", "inode"}, obj : Nat,
                                writable : BOOLEAN]
             /\ Cardinality(FdsIn(ofile[p], f)) = 0 => ftable'[f] = ftable[f]
  <2>1. PICK r \in [ref : Nat, type : {"none", "pipe", "inode"}, obj : Nat,
                    writable : BOOLEAN], n \in Nat :
          r = ftable[f] /\ n = Cardinality(FdsIn(ofile[p], f))
    BY <1>5
  <2>2. ftable'[f] = [r EXCEPT !.ref = r.ref + n]
    BY <1>5, <2>1
  <2>3. r.ref + n \in Nat /\ (n = 0 => r.ref + n = r.ref)
    OBVIOUS
  <2>4. PICK m \in Nat : m = r.ref + n
    BY <2>3
  <2>5. ftable'[f] = [r EXCEPT !.ref = m]
    BY <2>2, <2>4, Zenon
  <2>6. /\ ftable'[f].ref = m /\ ftable'[f].type = r.type /\ ftable'[f].obj = r.obj
        /\ ftable'[f].writable = r.writable
        /\ ftable'[f] \in [ref : Nat, type : {"none", "pipe", "inode"}, obj : Nat,
                           writable : BOOLEAN]
    BY <2>5
  <2>7. n = 0 => ftable'[f] = ftable[f]
    BY <2>1, <2>3, <2>4, <2>5
  <2> QED
    BY <2>1, <2>4, <2>6, <2>7
<1>7. FileTypeOK'
  <2>1. DOMAIN ftable' = File /\ ftable' = [f \in File |-> ftable'[f]]
    BY DEF Fork, FilesFork
  <2> QED
    BY <1>6, <2>1 DEF FileTypeOK
<1>8. TypeOK'
  BY <1>2, <1>3, <1>4, <1>7 DEF TypeOK, FilesTypeOK, FileTypeOK
<1>9. ASSUME NEW f \in File
      PROVE  /\ ftable'[f].ref + Cardinality(FdsIn(ofile[child], f)) + Times(thread[child].held, f)
                  = ftable[f].ref + Cardinality(FdsIn(ofile'[child], f))
                      + Times(thread'[child].held, f)
             /\ Alters(f)
  <2>1. FdsIn(ofile[child], f) = {} /\ Cardinality({}) = 0
    <3>1. FdsIn(ofile[child], f) = {}
      BY <1>1 DEF IInv, HeldInv, FdsIn, File
    <3> QED
      BY <3>1, FS_EmptySet, Zenon
  <2>2. Times(thread[child].held, f) = 0 /\ Times(thread'[child].held, f) = 0
    BY <1>2, <1>3, TimesOf DEF User
  <2>3. PICK c \in Nat, y \in Nat : c = Cardinality(FdsIn(ofile[p], f)) /\ y = ftable[f].ref
    BY <1>5
  <2>4. FdsIn(ofile'[child], f) = FdsIn(ofile[p], f)
    BY <1>4
  <2>5. ftable'[f].ref + Cardinality(FdsIn(ofile[child], f)) + Times(thread[child].held, f)
          = ftable[f].ref + Cardinality(FdsIn(ofile'[child], f)) + Times(thread'[child].held, f)
    BY <1>6, <2>1, <2>2, <2>3, <2>4
  <2>6. Alters(f)
    <3>1. CASE c = 0
      BY <1>6, <2>3, <3>1 DEF Alters
    <3>2. CASE c # 0
      <4>1. FdsIn(ofile[p], f) # {}
        BY <2>1, <2>3, <3>2, Zenon
      <4>2. PICK fd \in Fd : ofile[p][fd] = f
        BY <4>1 DEF FdsIn
      <4>3. ftable[f].type = "pipe"
        BY <4>2 DEF IInv, FileInv, File
      <4>4. ftable'[f].ref > 0
        BY <1>6, <2>3, <3>2
      <4> QED
        BY <1>6, <4>3, <4>4 DEF Alters
    <3> QED
      BY <3>1, <3>2
  <2> QED
    BY <2>5, <2>6
<1>10. Hold(child)' /\ ~ InPipe(child)'
  BY <1>3, HoldsNothing
<1>11. Stands(child)
  BY <1>2, <1>3, <1>6, StandsStill DEF User
<1>12. \A d \in Fd : ofile'[child][d] # NoFile => ftable[ofile'[child][d]].type = "pipe"
  BY <1>4 DEF IInv, FileInv
<1> QED
  BY <1>2, <1>3, <1>4, <1>8, <1>9, <1>10, <1>11, <1>12, FileStep


(* What p has in its descriptors and in hand now is one f more than its    *)
(* descriptors and its hands h hold next.                                  *)
Spends(p, f, h) ==
  \A x \in File : \E c, d, a, b \in Nat :
    /\ c = Cardinality(FdsIn(ofile[p], x)) /\ d = Cardinality(FdsIn(ofile'[p], x))
    /\ a = Times(thread[p].held, x) /\ b = Times(h, x)
    /\ c + a = d + b + Same(f, x)

(* fileclose of one file, in hand or in a descriptor.                      *)
LEMMA ClosesKeeps ==
  ASSUME IInv, TypeOK, NEW p \in Process, NEW f \in File, NEW t \in Thread,
         thread[p].at = "closing", t.at = "closing", Len(t.held) <= 2,
         t.exiting => t.held = << >>, ftable[f].ref > 0,
         Closes(p, f, t), UNCHANGED <<pipe, killed, torn>>,
         ofile' \in [Process -> [Fd -> File \union {NoFile}]],
         \A q \in Process : q # p => ofile'[q] = ofile[q],
         \A d \in Fd : ofile'[p][d] # NoFile => ftable[ofile'[p][d]].type = "pipe",
         Spends(p, f, t.held)
  PROVE  IInv'
<1> DEFINE last == LastClose(ftable, f) /\ ftable[f].type = "pipe"
<1>1. /\ FileTypeOK'
      /\ \A g \in File : ftable'[g].ref = ftable[g].ref - Same(f, g)
      /\ \A g \in File : Alters(g) /\ (g # f => ftable'[g] = ftable[g])
      /\ IF ftable[f].ref = 1
           THEN ftable'[f] = Closed
           ELSE /\ ftable'[f].type = ftable[f].type /\ ftable'[f].obj = ftable[f].obj
                /\ ftable'[f].writable = ftable[f].writable
  BY Unrefers DEF Closes
<1>2. PICK u \in Thread :
        /\ u = IF last THEN [t EXCEPT !.at = "pipeclose", !.obj = ftable[f].obj,
                                      !.writable = ftable[f].writable]
                       ELSE t
        /\ thread' = [thread EXCEPT ![p] = u]
  <2>1. last => ftable[f].obj \in PipeId /\ ftable[f].writable \in BOOLEAN
    BY DEF IInv, FileInv, TypeOK, FilesTypeOK
  <2>2. \A o \in PipeId, b \in BOOLEAN :
          [t EXCEPT !.at = "pipeclose", !.obj = o, !.writable = b] \in Thread
    BY DEF Thread, Location
  <2>3. last => [t EXCEPT !.at = "pipeclose", !.obj = ftable[f].obj,
                          !.writable = ftable[f].writable] \in Thread
    BY <2>1, <2>2, Zenon
  <2> QED
    BY <2>3 DEF Closes
<1>3. /\ u.held = t.held /\ u.exiting = t.exiting
      /\ last => /\ u.at = "pipeclose" /\ u.obj = ftable[f].obj
                 /\ u.writable = ftable[f].writable
      /\ ~ last => u.at = "closing"
  BY <1>2 DEF Thread
<1>4. /\ thread' \in [Process -> Thread] /\ thread'[p] = u
      /\ \A q \in Process : q # p => thread'[q] = thread[q]
  BY <1>2, Becomes
<1>5. TypeOK'
  BY <1>1, <1>4 DEF TypeOK, FilesTypeOK, FileTypeOK
<1>6. ASSUME NEW x \in File
      PROVE  ftable'[x].ref + Cardinality(FdsIn(ofile[p], x)) + Times(thread[p].held, x)
               = ftable[x].ref + Cardinality(FdsIn(ofile'[p], x)) + Times(thread'[p].held, x)
  <2>1. PICK c \in Nat, d \in Nat, a \in Nat, b \in Nat :
           /\ c = Cardinality(FdsIn(ofile[p], x)) /\ d = Cardinality(FdsIn(ofile'[p], x))
           /\ a = Times(thread[p].held, x) /\ b = Times(t.held, x)
           /\ c + a = d + b + Same(f, x)
    BY DEF Spends
  <2>2. PICK y \in Nat, z \in Nat : y = ftable[x].ref /\ z = ftable'[x].ref
    BY <1>5 DEF TypeOK, FilesTypeOK
  <2>3. PICK e \in Nat : z = y - e /\ c + a = d + b + e
    <3>1. Same(f, x) \in Nat
      BY DEF Same
    <3> QED
      BY <1>1, <2>1, <2>2, <3>1
  <2>4. Times(thread'[p].held, x) = b
    BY <1>3, <1>4, <2>1
  <2>5. z + c + a = y + d + b
    BY <2>3
  <2> QED
    BY <2>1, <2>2, <2>4, <2>5
<1>7. Hold(p)'
  <2>1. /\ u.at \in Closing /\ u.at \notin Making /\ u.at # "absent"
        /\ u.at # "pipe_second" /\ u.at # "pipe_page"
        /\ u.at = "pipeclose" => u.obj \in PipeId
    BY <1>3 DEF Closing, Making, IInv, FileInv
  <2> QED
    BY <1>3, <1>4, <2>1, Zenon DEF Hold
<1>8. ~ InPipe(p) /\ ~ InPipe(p)'
  BY <1>3, <1>4 DEF InPipe, Reading, Writing
<1>9. Stands(p)
  <2>1. CASE ~ last
    <3>1. \A g \in File :
            \/ /\ ftable'[g].type = ftable[g].type /\ ftable'[g].obj = ftable[g].obj
               /\ ftable'[g].writable = ftable[g].writable
            \/ ftable'[g].type # "pipe" /\ ftable[g].type # "pipe"
      BY <1>1, <2>1 DEF Closed, LastClose
    <3> QED
      BY <1>3, <1>4, <2>1, <3>1, StandsStill
  <2>2. CASE last
    <3>1. /\ thread'[p].at = "pipeclose" /\ thread'[p].obj = ftable[f].obj
          /\ thread'[p].writable = ftable[f].writable
          /\ ftable'[f].type = "none" /\ ftable[f].type = "pipe"
      BY <1>1, <1>3, <1>4, <2>2 DEF Closed, LastClose
    <3>2. ASSUME NEW pi \in PipeId, NEW wr \in BOOLEAN
          PROVE  \/ /\ \A g \in File : IsEnd(g, pi, wr)' <=> IsEnd(g, pi, wr)
                    /\ ClosesEnd(p, pi, wr)' <=> ClosesEnd(p, pi, wr)
                 \/ /\ \A g \in File : ~ IsEnd(g, pi, wr)'
                    /\ \E g \in File : IsEnd(g, pi, wr)
                    /\ ClosesEnd(p, pi, wr)'
      <4>1. CASE IsEnd(f, pi, wr)
        <5>1. ClosesEnd(p, pi, wr)'
          BY <3>1, <4>1 DEF IsEnd, ClosesEnd
        <5>2. ASSUME NEW g \in File
              PROVE  ~ IsEnd(g, pi, wr)'
          <6>1. CASE g = f
            BY <3>1, <6>1 DEF IsEnd
          <6>2. CASE g # f
            BY <1>1, <4>1, <6>2 DEF IsEnd, IInv, EndInv
          <6> QED
            BY <6>1, <6>2
        <5> QED
          BY <4>1, <5>1, <5>2
      <4>2. CASE ~ IsEnd(f, pi, wr)
        <5>1. ~ ClosesEnd(p, pi, wr)' /\ ~ ClosesEnd(p, pi, wr)
          BY <3>1, <4>2 DEF IsEnd, ClosesEnd
        <5>2. ASSUME NEW g \in File
              PROVE  IsEnd(g, pi, wr)' <=> IsEnd(g, pi, wr)
          <6>1. CASE g = f
            BY <3>1, <4>2, <6>1 DEF IsEnd
          <6>2. CASE g # f
            BY <1>1, <6>2 DEF IsEnd
          <6> QED
            BY <6>1, <6>2
        <5> QED
          BY <5>1, <5>2
      <4> QED
        BY <4>1, <4>2
    <3> QED
      BY <3>2 DEF Stands
  <2> QED
    BY <2>1, <2>2
<1>10. \A x \in File : Alters(x)
  BY <1>1
<1> QED
  BY <1>4, <1>5, <1>6, <1>7, <1>8, <1>9, <1>10, FileStep

LEMMA FileCloseKeeps == ASSUME IInv, NEW p \in Process, FileClose(p) PROVE IInv'
<1>1. /\ thread[p].at = "closing" /\ thread[p].held # << >> /\ TypeOK /\ thread[p] \in Thread
      /\ thread[p].held \in Seq(File) /\ Len(thread[p].held) <= 2
      /\ UNCHANGED <<ofile, pipe, killed, torn>>
  BY DEF FileClose, At, IInv, TypeOK, HeldInv, Thread
<1>2. PICK s \in Seq(File), f \in File, r \in Seq(File) :
        /\ s = thread[p].held /\ s # << >> /\ Len(s) <= 2 /\ f = Head(s) /\ r = Tail(s)
        /\ Len(r) <= 2 /\ f = s[1] /\ 1 \in DOMAIN s
  <2>1. PICK s \in Seq(File) : s = thread[p].held /\ s # << >> /\ Len(s) <= 2
    BY <1>1
  <2>2. /\ Head(s) \in File /\ Head(s) = s[1] /\ Len(s) \in Nat /\ Len(s) > 0
        /\ Tail(s) \in Seq(File) /\ Len(Tail(s)) = Len(s) - 1 /\ DOMAIN s = 1..Len(s)
    BY <2>1
  <2>3. 1 \in DOMAIN s /\ Len(Tail(s)) <= 2
    BY <2>1, <2>2
  <2> QED
    BY <2>1, <2>2, <2>3, Zenon
<1>3. PICK t \in Thread : t = [thread[p] EXCEPT !.held = r]
  <2>1. [thread[p] EXCEPT !.held = r] \in Thread
    BY <1>1 DEF Thread
  <2> QED
    BY <2>1
<1>4. t.at = "closing" /\ t.held = r /\ t.exiting = thread[p].exiting
  BY <1>1, <1>3 DEF Thread
<1>5. Closes(p, f, t)
  BY <1>2, <1>3, Zenon DEF FileClose
<1>6. t.exiting => t.held = << >>
  BY <1>1, <1>4 DEF IInv, HeldInv
<1>7. ftable[f].ref > 0
  BY <1>2, Sizes DEF Alive
<1>8. ASSUME NEW x \in File
      PROVE  \E c, d, a, b \in Nat :
               /\ c = Cardinality(FdsIn(ofile[p], x)) /\ d = Cardinality(FdsIn(ofile'[p], x))
               /\ a = Times(thread[p].held, x) /\ b = Times(t.held, x)
               /\ c + a = d + b + Same(f, x)
  <2>1. PICK c \in Nat : c = Cardinality(FdsIn(ofile[p], x)) /\ ofile'[p] = ofile[p]
    BY <1>1, FdCount
  <2>2. Times(s, x) = Same(f, x) + Times(r, x)
    BY <1>2, TimesOf, Zenon
  <2>3. PICK a \in Nat, b \in Nat : a = Times(s, x) /\ b = Times(r, x)
    BY DEF Times
  <2>4. c + a = c + b + Same(f, x)
    <3>1. Same(f, x) \in Nat
      BY DEF Same
    <3> QED
      BY <2>2, <2>3, <3>1
  <2>5. /\ c = Cardinality(FdsIn(ofile[p], x)) /\ c = Cardinality(FdsIn(ofile'[p], x))
        /\ a = Times(thread[p].held, x) /\ b = Times(t.held, x)
    BY <1>2, <1>4, <2>1, <2>3
  <2> QED
    BY <2>4, <2>5
<1>9. /\ ofile' \in [Process -> [Fd -> File \union {NoFile}]]
      /\ \A q \in Process : q # p => ofile'[q] = ofile[q]
      /\ \A d \in Fd : ofile'[p][d] # NoFile => ftable[ofile'[p][d]].type = "pipe"
  BY <1>1 DEF TypeOK, FilesTypeOK, IInv, FileInv
<1>10. Len(t.held) <= 2
  BY <1>2, <1>4
<1>11. Spends(p, f, t.held)
  BY <1>8 DEF Spends
<1> QED
  BY <1>1, <1>4, <1>5, <1>6, <1>7, <1>9, <1>10, <1>11, ClosesKeeps

LEMMA ExitCloseKeeps == ASSUME IInv, NEW p \in Process, ExitClose(p) PROVE IInv'
<1>1. /\ thread[p].at = "closing" /\ thread[p].exiting /\ TypeOK /\ thread[p] \in Thread
      /\ OpenFds(p) # {} /\ thread[p].held = << >>
      /\ UNCHANGED <<pipe, killed, torn>>
  BY DEF ExitClose, At, IInv, TypeOK, HeldInv
<1>2. PICK fd \in Fd, f \in File :
        /\ f = ofile[p][fd] /\ Closes(p, f, thread[p])
        /\ ofile' = [ofile EXCEPT ![p][fd] = NoFile]
  <2>1. Min(OpenFds(p)) \in OpenFds(p)
    <3>1. OpenFds(p) \in SUBSET Nat
      BY DEF OpenFds, Fd
    <3> QED
      BY <1>1, <3>1, LeastIsIn, Zenon
  <2>2. Min(OpenFds(p)) \in Fd /\ ofile[p][Min(OpenFds(p))] \in File
    BY <1>1, <2>1 DEF OpenFds, TypeOK, FilesTypeOK
  <2> QED
    BY <2>2 DEF ExitClose
<1>3. ftable[f].ref > 0
  BY <1>2, Sizes DEF Alive
<1>4. /\ ofile'[p][fd] = NoFile /\ Differs(ofile[p], ofile'[p], fd)
      /\ ofile' \in [Process -> [Fd -> File \union {NoFile}]]
      /\ \A q \in Process : q # p => ofile'[q] = ofile[q]
  BY <1>1, <1>2 DEF TypeOK, FilesTypeOK, Differs
<1>5. \A d \in Fd : ofile'[p][d] # NoFile => ftable[ofile'[p][d]].type = "pipe"
  BY <1>4 DEF IInv, FileInv, Differs
<1>6. ASSUME NEW x \in File
      PROVE  \E c, d, a, b \in Nat :
               /\ c = Cardinality(FdsIn(ofile[p], x)) /\ d = Cardinality(FdsIn(ofile'[p], x))
               /\ a = Times(thread[p].held, x) /\ b = Times(thread[p].held, x)
               /\ c + a = d + b + Same(f, x)
  <2>1. \E c, d \in Nat : /\ c = Cardinality(FdsIn(ofile[p], x))
                          /\ d = Cardinality(FdsIn(ofile'[p], x))
                          /\ d + Same(ofile[p][fd], x) = c + Same(ofile'[p][fd], x)
    BY <1>4, FdMoves, Zenon
  <2>2. PICK c \in Nat, d \in Nat : /\ c = Cardinality(FdsIn(ofile[p], x))
                                   /\ d = Cardinality(FdsIn(ofile'[p], x))
                                   /\ d + Same(f, x) = c + Same(NoFile, x)
    BY <1>2, <1>4, <2>1
  <2>3. Same(NoFile, x) = 0 /\ Same(f, x) \in Nat
    BY DEF Same, File
  <2>4. Times(thread[p].held, x) = 0 /\ 0 \in Nat
    BY <1>1, TimesOf
  <2>5. c + 0 = d + 0 + Same(f, x)
    BY <2>2, <2>3
  <2> QED
    BY <2>2, <2>4, <2>5
<1>7. Len(thread[p].held) <= 2
  BY <1>1
<1>8. Spends(p, f, thread[p].held)
  BY <1>6 DEF Spends
<1> QED
  BY <1>1, <1>2, <1>3, <1>4, <1>5, <1>7, <1>8, ClosesKeeps


-----------------------------------------------------------------------------
(* A pipe begins                                                           *)

(* Nobody else knows the files of a sys_pipe.                              *)
LEMMA OnlyHolder ==
  ASSUME IInv, NEW p \in Process, thread[p].at \in Making,
         NEW i \in DOMAIN thread[p].held
  PROVE  /\ thread[p].held[i] \in File /\ Times(thread[p].held, thread[p].held[i]) = 1
         /\ \A q \in Process : q # p => \A j \in DOMAIN thread[q].held :
              thread[q].held[j] # thread[p].held[i]
<1>1. /\ thread[p].held \in Seq(File) /\ Len(thread[p].held) <= 2
      /\ ftable[thread[p].held[i]].ref = 1
  BY DEF IInv, TypeOK, HeldInv, Thread
<1>2. PICK f \in File : f = thread[p].held[i]
  BY <1>1
<1>3. FdRefs(f) \in Nat
  BY FdCount
<1>4. /\ Cardinality(OtherHeld(p, f)) \in Nat /\ Times(thread[p].held, f) \in 0..2
      /\ IsFiniteSet(OtherHeld(p, f))
      /\ LocalRefs(f) = Cardinality(OtherHeld(p, f)) + Times(thread[p].held, f)
  BY <1>1, HeldCount
<1>5. Times(thread[p].held, f) >= 1
  BY <1>1, <1>2 DEF Times
<1>6. 1 = FdRefs(f) + LocalRefs(f)
  BY <1>1, <1>2 DEF IInv, CountInv
<1>7. Cardinality(OtherHeld(p, f)) = 0 /\ Times(thread[p].held, f) = 1
  BY <1>3, <1>4, <1>5, <1>6
<1>8. OtherHeld(p, f) = {}
  BY <1>4, <1>7, FS_EmptySet, Zenon
<1>9. ASSUME NEW q \in Process, q # p, NEW j \in DOMAIN thread[q].held
      PROVE  thread[q].held[j] # f
  <2>1. thread[q].held \in Seq(File) /\ Len(thread[q].held) <= 2
    BY DEF IInv, TypeOK, HeldInv, Thread
  <2>2. j \in 1..2
    BY <2>1
  <2>3. <<q, j>> \in Process \X (1..2) /\ <<q, j>>[1] = q /\ <<q, j>>[2] = j
    BY <2>2
  <2>4. <<q, j>> \notin OtherHeld(p, f)
    BY <1>8
  <2> QED
    BY <1>9, <2>3, <2>4 DEF OtherHeld
<1> QED
  BY <1>2, <1>7, <1>9

(* The two files in hand, and what becomes of the files.                   *)
LEMMA TwoFiles ==
  ASSUME IInv, NEW p \in Process, thread[p].at = "pipe_page"
  PROVE  \E f, g \in File :
           /\ thread[p].held = <<f, g>> /\ f # g
           /\ ftable[f].ref = 1 /\ ftable[f].type = "none" /\ ~ ftable[f].writable
           /\ ftable[g].ref = 1 /\ ftable[g].type = "none"
           /\ \A q \in Process : q # p => \A j \in DOMAIN thread[q].held :
                thread[q].held[j] # f /\ thread[q].held[j] # g
<1>1. /\ thread[p].at \in Making /\ thread[p].held \in Seq(File) /\ Len(thread[p].held) = 2
  BY DEF Making, IInv, TypeOK, HeldInv, Thread
<1>2. 1 \in DOMAIN thread[p].held /\ 2 \in DOMAIN thread[p].held
  BY <1>1
<1>3. PICK f \in File, g \in File : f = thread[p].held[1] /\ g = thread[p].held[2]
  BY <1>1, <1>2
<1>4. /\ ftable[f].ref = 1 /\ ftable[f].type = "none"
      /\ ftable[g].ref = 1 /\ ftable[g].type = "none"
  BY <1>1, <1>2, <1>3 DEF IInv, HeldInv
<1>5. ~ ftable[f].writable
  BY <1>4 DEF IInv, FileInv
<1>6. thread[p].held = <<f, g>>
  BY <1>1, <1>3
<1>7. f # g
  <2>1. Times(thread[p].held, f) = 1
    BY <1>1, <1>2, <1>3, OnlyHolder
  <2> QED
    BY <1>6, <2>1 DEF Times
<1>8. \A q \in Process : q # p => \A j \in DOMAIN thread[q].held :
        thread[q].held[j] # f /\ thread[q].held[j] # g
  BY <1>1, <1>2, <1>3, OnlyHolder
<1> QED
  BY <1>4, <1>5, <1>6, <1>7, <1>8

LEMMA EndsAre ==
  ASSUME FileTypeOK, NEW f \in File, NEW g \in File, f # g, NEW pi \in PipeId,
         ftable' = Ends(f, g, pi)
  PROVE  /\ FileTypeOK'
         /\ \A x \in File : ftable'[x].ref = ftable[x].ref
         /\ \A x \in File : x # f /\ x # g => ftable'[x] = ftable[x]
         /\ ftable'[f].type = "pipe" /\ ftable'[f].obj = pi
         /\ ftable'[f].writable = ftable[f].writable
         /\ ftable'[g].type = "pipe" /\ ftable'[g].obj = pi /\ ftable'[g].writable
<1>1. pi \in Nat
  BY DEF PipeId
<1>2. /\ ftable'[f] = [ftable[f] EXCEPT !.type = "pipe", !.obj = pi]
      /\ ftable'[g] = [ftable[g] EXCEPT !.type = "pipe", !.obj = pi, !.writable = TRUE]
      /\ \A x \in File : x # f /\ x # g => ftable'[x] = ftable[x]
  BY DEF Ends, FileTypeOK
<1>3. ASSUME NEW x \in File
      PROVE  /\ ftable'[x] \in [ref : Nat, type : {"none", "pipe", "inode"}, obj : Nat,
                                writable : BOOLEAN]
             /\ ftable'[x].ref = ftable[x].ref
  <2>1. ftable[x] \in [ref : Nat, type : {"none", "pipe", "inode"}, obj : Nat,
                       writable : BOOLEAN]
    BY DEF FileTypeOK
  <2>2. CASE x = f
    BY <1>1, <1>2, <2>1, <2>2
  <2>3. CASE x = g
    BY <1>1, <1>2, <2>1, <2>3
  <2>4. CASE x # f /\ x # g
    BY <1>2, <2>1, <2>4
  <2> QED
    BY <2>2, <2>3, <2>4
<1>4. FileTypeOK'
  <2>1. DOMAIN ftable' = File /\ ftable' = [x \in File |-> ftable'[x]]
    BY DEF Ends, FileTypeOK
  <2> QED
    BY <1>3, <2>1 DEF FileTypeOK
<1>5. /\ ftable'[f].type = "pipe" /\ ftable'[f].obj = pi
      /\ ftable'[f].writable = ftable[f].writable
      /\ ftable'[g].type = "pipe" /\ ftable'[g].obj = pi /\ ftable'[g].writable
  <2>1. /\ ftable[f] \in [ref : Nat, type : {"none", "pipe", "inode"}, obj : Nat,
                          writable : BOOLEAN]
        /\ ftable[g] \in [ref : Nat, type : {"none", "pipe", "inode"}, obj : Nat,
                          writable : BOOLEAN]
    BY DEF FileTypeOK
  <2> QED
    BY <1>2, <2>1
<1> QED
  BY <1>2, <1>3, <1>4, <1>5


(* The two descriptors, or none.                                           *)
TakesTwo(p, f, g, fd0, fds, fd1) ==
  /\ fd0 = FdAlloc(ofile[p])
  /\ fds = IF fd0 = NoFd THEN ofile[p] ELSE [ofile[p] EXCEPT ![fd0] = f]
  /\ fd1 = FdAlloc(fds) /\ fd1 # NoFd
  /\ ofile' = [ofile EXCEPT ![p] = [fds EXCEPT ![fd1] = g]]

LEMMA TwoDescriptors ==
  ASSUME TypeOK, NEW p \in Process, NEW f \in File, NEW g \in File,
         NEW fd0, NEW fds, NEW fd1, TakesTwo(p, f, g, fd0, fds, fd1)
  PROVE  /\ ofile' \in [Process -> [Fd -> File \union {NoFile}]]
         /\ \A q \in Process : q # p => ofile'[q] = ofile[q]
         /\ \A d \in Fd : ofile'[p][d] \in {f, g, ofile[p][d]}
         /\ \A x \in File : \E c, d \in Nat :
              /\ c = Cardinality(FdsIn(ofile[p], x)) /\ d = Cardinality(FdsIn(ofile'[p], x))
              /\ c + Same(f, x) + Same(g, x) = d
<1>0. /\ fd0 = FdAlloc(ofile[p]) /\ fd1 = FdAlloc(fds) /\ fd1 # NoFd
      /\ fds = IF fd0 = NoFd THEN ofile[p] ELSE [ofile[p] EXCEPT ![fd0] = f]
      /\ ofile' = [ofile EXCEPT ![p] = [fds EXCEPT ![fd1] = g]]
  BY Zenon DEF TakesTwo
<1>1. PICK o \in [Fd -> File \union {NoFile}] : o = ofile[p]
  BY DEF TypeOK, FilesTypeOK
<1>2. fd0 # NoFd
  BY <1>0, <1>1
<1>3. fd0 \in Fd /\ o[fd0] = NoFile
  BY <1>0, <1>1, <1>2, Allocated, Zenon
<1>4. fds = [o EXCEPT ![fd0] = f] /\ fds \in [Fd -> File \union {NoFile}]
  BY <1>0, <1>1, <1>2, <1>3
<1>5. fd1 \in Fd /\ fds[fd1] = NoFile
  BY <1>0, Allocated, Zenon
<1>6. PICK n \in [Fd -> File \union {NoFile}] : n = [fds EXCEPT ![fd1] = g]
  BY <1>4
<1>7. /\ ofile'[p] = n /\ ofile' \in [Process -> [Fd -> File \union {NoFile}]]
      /\ \A q \in Process : q # p => ofile'[q] = ofile[q]
  BY <1>0, <1>6 DEF TypeOK, FilesTypeOK
<1>8. \A d \in Fd : n[d] \in {f, g, o[d]}
  BY <1>4, <1>6
<1>9. ASSUME NEW x \in File
      PROVE  \E c, d \in Nat :
              /\ c = Cardinality(FdsIn(ofile[p], x)) /\ d = Cardinality(FdsIn(ofile'[p], x))
              /\ c + Same(f, x) + Same(g, x) = d
  <2>1. Exchanges(o, fds, fd0, x)
    <3>1. Differs(o, fds, fd0)
      BY <1>3, <1>4 DEF Differs
    <3> QED
      BY <1>3, <3>1, FdChanges, Zenon
  <2>2. Exchanges(fds, n, fd1, x)
    <3>1. Differs(fds, n, fd1)
      BY <1>4, <1>5, <1>6 DEF Differs
    <3> QED
      BY <1>5, <3>1, FdChanges, Zenon
  <2>3. PICK c \in Nat, e \in Nat, d \in Nat :
          /\ c = Cardinality(FdsIn(o, x)) /\ e = Cardinality(FdsIn(fds, x))
          /\ d = Cardinality(FdsIn(n, x))
    BY <2>1, <2>2 DEF Exchanges
  <2>4. e + Same(NoFile, x) = c + Same(f, x)
    <3>1. fds[fd0] = f
      BY <1>3, <1>4
    <3> QED
      BY <1>3, <2>1, <2>3, <3>1 DEF Exchanges
  <2>5. d + Same(NoFile, x) = e + Same(g, x)
    <3>1. n[fd1] = g
      BY <1>4, <1>5, <1>6
    <3> QED
      BY <1>5, <2>2, <2>3, <3>1 DEF Exchanges
  <2>6. Same(NoFile, x) = 0 /\ Same(f, x) \in Nat /\ Same(g, x) \in Nat
    BY DEF Same, File
  <2>7. c + Same(f, x) + Same(g, x) = d
    BY <2>4, <2>5, <2>6
  <2>8. c = Cardinality(FdsIn(ofile[p], x)) /\ d = Cardinality(FdsIn(ofile'[p], x))
    BY <1>1, <1>7, <2>3
  <2> QED
    BY <2>7, <2>8
<1> QED
  BY <1>1, <1>7, <1>8, <1>9

(* What PipeMake does to p: it comes back with two descriptors, or it has  *)
(* to close what it holds.                                                 *)
Balanced(p) ==
  \A x \in File : \E c, d, a, b \in Nat :
    /\ c = Cardinality(FdsIn(ofile[p], x)) /\ d = Cardinality(FdsIn(ofile'[p], x))
    /\ a = Times(thread[p].held, x) /\ b = Times(thread'[p].held, x)
    /\ c + a = d + b

LEMMA MakerGoesOn ==
  ASSUME IInv, NEW p \in Process, NEW pi \in PipeId, PipeMake(p, pi),
         NEW f \in File, NEW g \in File, thread[p].held = <<f, g>>
  PROVE  /\ thread' \in [Process -> Thread]
         /\ \A q \in Process : q # p => thread'[q] = thread[q] /\ ofile'[q] = ofile[q]
         /\ Hold(p)' /\ ~ InPipe(p)' /\ thread'[p].at # "pipeclose"
         /\ ofile' \in [Process -> [Fd -> File \union {NoFile}]]
         /\ \A d \in Fd : ofile'[p][d] \in {f, g, ofile[p][d]}
         /\ Balanced(p)
<1> DEFINE fd0 == FdAlloc(ofile[p])
           fds == IF fd0 = NoFd THEN ofile[p] ELSE [ofile[p] EXCEPT ![fd0] = f]
           fd1 == FdAlloc(fds)
<1>1. /\ thread[p].at \in Making /\ thread[p].exiting = FALSE
      /\ TypeOK /\ thread[p] \in Thread
  <2>1. thread[p].at \in Making
    BY DEF PipeMake, At, Making
  <2> QED
    BY <2>1, MakingIsNew
<1>2. \/ /\ fd1 # NoFd
         /\ ofile' = [ofile EXCEPT ![p] = [fds EXCEPT ![fd1] = g]]
         /\ thread' = Return(p)
      \/ /\ thread' = Goto(p, "closing")
         /\ UNCHANGED ofile
  <2>1. thread[p].held[1] = f /\ thread[p].held[2] = g
    OBVIOUS
  <2> QED
    BY <2>1, Zenon DEF PipeMake
<1>3. CASE fd1 # NoFd /\ ofile' = [ofile EXCEPT ![p] = [fds EXCEPT ![fd1] = g]]
           /\ thread' = Return(p)
  <2>1. /\ ofile' \in [Process -> [Fd -> File \union {NoFile}]]
        /\ \A q \in Process : q # p => ofile'[q] = ofile[q]
        /\ \A d \in Fd : ofile'[p][d] \in {f, g, ofile[p][d]}
        /\ \A x \in File : \E c, d \in Nat :
              /\ c = Cardinality(FdsIn(ofile[p], x)) /\ d = Cardinality(FdsIn(ofile'[p], x))
              /\ c + Same(f, x) + Same(g, x) = d
    <3>1. PICK a, b, e : a = fd0 /\ b = fds /\ e = fd1
      OBVIOUS
    <3>2. TakesTwo(p, f, g, a, b, e)
      BY <1>3, <3>1, Zenon DEF TakesTwo
    <3> HIDE DEF fd0, fds, fd1
    <3> QED
      BY <1>1, <3>2, TwoDescriptors
  <2> HIDE DEF fd0, fds, fd1
  <2>2. /\ thread' \in [Process -> Thread] /\ thread'[p] = User
        /\ \A q \in Process : q # p => thread'[q] = thread[q]
    BY <1>1, <1>3, Idle, Becomes DEF Return
  <2>3. Hold(p)' /\ ~ InPipe(p)' /\ thread'[p].at # "pipeclose"
    BY <2>2, HoldsNothing DEF User
  <2>4. ASSUME NEW x \in File
        PROVE  \E c, d, a, b \in Nat :
                 /\ c = Cardinality(FdsIn(ofile[p], x)) /\ d = Cardinality(FdsIn(ofile'[p], x))
                 /\ a = Times(thread[p].held, x) /\ b = Times(thread'[p].held, x)
                 /\ c + a = d + b
    <3>1. PICK c \in Nat, d \in Nat :
            /\ c = Cardinality(FdsIn(ofile[p], x)) /\ d = Cardinality(FdsIn(ofile'[p], x))
            /\ c + Same(f, x) + Same(g, x) = d
      BY <2>1
    <3>2. Times(<<f, g>>, x) = Same(f, x) + Same(g, x) /\ Times(<< >>, x) = 0
      BY TimesOf, Zenon
    <3>3. Times(thread[p].held, x) = Same(f, x) + Same(g, x) /\ Times(thread'[p].held, x) = 0
      BY <2>2, <3>2 DEF User
    <3>4. Same(f, x) \in Nat /\ Same(g, x) \in Nat
      BY DEF Same
    <3>5. PICK a \in Nat : a = Same(f, x) + Same(g, x)
      BY <3>4
    <3>6. c + a = d + 0
      BY <3>1, <3>4, <3>5
    <3> QED
      BY <3>1, <3>3, <3>5, <3>6
  <2> QED
    BY <2>1, <2>2, <2>3, <2>4 DEF Balanced
<1>4. CASE thread' = Goto(p, "closing") /\ UNCHANGED ofile
  <2>1. PICK t \in Thread : t = [thread[p] EXCEPT !.at = "closing"]
    BY <1>1, GoesTo DEF Location
  <2>2. t.at = "closing" /\ t.held = <<f, g>> /\ t.exiting = FALSE
    BY <1>1, <2>1 DEF Thread
  <2>3. /\ thread' \in [Process -> Thread] /\ thread'[p] = t
        /\ \A q \in Process : q # p => thread'[q] = thread[q]
    BY <1>1, <1>4, <2>1, Becomes DEF Goto
  <2>4. Hold(p)' /\ ~ InPipe(p)' /\ thread'[p].at # "pipeclose"
    <3>1. Len(<<f, g>>) <= 2
      OBVIOUS
    <3> QED
      BY <2>2, <2>3, <3>1, HoldsInClosing
  <2>5. ofile' = ofile /\ ofile \in [Process -> [Fd -> File \union {NoFile}]]
    BY <1>1, <1>4 DEF TypeOK, FilesTypeOK
  <2>6. ASSUME NEW x \in File
        PROVE  \E c, d, a, b \in Nat :
                 /\ c = Cardinality(FdsIn(ofile[p], x)) /\ d = Cardinality(FdsIn(ofile'[p], x))
                 /\ a = Times(thread[p].held, x) /\ b = Times(thread'[p].held, x)
                 /\ c + a = d + b
    <3>1. PICK c \in Nat : c = Cardinality(FdsIn(ofile[p], x))
      BY FdCount
    <3>2. PICK a \in Nat : a = Times(<<f, g>>, x)
      BY DEF Times
    <3> QED
      BY <2>2, <2>3, <2>5, <3>1, <3>2
  <2> QED
    BY <2>3, <2>4, <2>5, <2>6 DEF Balanced
<1> QED
  BY <1>2, <1>3, <1>4


LEMMA PipeMakeKeeps ==
  ASSUME IInv, NEW p \in Process, NEW pi \in PipeId, PipeMake(p, pi)
  PROVE  IInv'
<1>1. /\ thread[p].at = "pipe_page" /\ ~ pipe[pi].used /\ TypeOK /\ UNCHANGED killed
      /\ FileTypeOK /\ ~ InPipe(p)
  BY DEF PipeMake, At, IInv, TypeOK, FilesTypeOK, FileTypeOK, InPipe, Reading, Writing
<1>2. PICK f \in File, g \in File :
        /\ thread[p].held = <<f, g>> /\ f # g
        /\ ftable[f].ref = 1 /\ ftable[f].type = "none" /\ ~ ftable[f].writable
        /\ ftable[g].ref = 1 /\ ftable[g].type = "none"
        /\ \A q \in Process : q # p => \A j \in DOMAIN thread[q].held :
             thread[q].held[j] # f /\ thread[q].held[j] # g
  BY <1>1, TwoFiles
<1>3. ftable' = Ends(f, g, pi)
  <2>1. thread[p].held[1] = f /\ thread[p].held[2] = g
    BY <1>2
  <2> QED
    BY <2>1 DEF PipeMake
<1>4. /\ FileTypeOK'
      /\ \A x \in File : ftable'[x].ref = ftable[x].ref
      /\ \A x \in File : x # f /\ x # g => ftable'[x] = ftable[x]
      /\ ftable'[f].type = "pipe" /\ ftable'[f].obj = pi
      /\ ftable'[f].writable = ftable[f].writable
      /\ ftable'[g].type = "pipe" /\ ftable'[g].obj = pi /\ ftable'[g].writable
  BY <1>1, <1>2, <1>3, EndsAre
<1>5. /\ thread' \in [Process -> Thread]
      /\ \A q \in Process : q # p => thread'[q] = thread[q] /\ ofile'[q] = ofile[q]
      /\ Hold(p)' /\ ~ InPipe(p)' /\ thread'[p].at # "pipeclose"
      /\ ofile' \in [Process -> [Fd -> File \union {NoFile}]]
      /\ \A d \in Fd : ofile'[p][d] \in {f, g, ofile[p][d]}
      /\ Balanced(p)
  BY <1>2, MakerGoesOn
<1>6. /\ pipe' \in [PipeId -> StructPipe]
      /\ \A x \in PipeId : x # pi => pipe'[x] = pipe[x]
      /\ pipe'[pi].used /\ pipe'[pi].readopen /\ pipe'[pi].writeopen
      /\ pipe'[pi].nread = 0 /\ pipe'[pi].nwrite = 0
  <2>1. NoPipe \in StructPipe /\ NoPipe.nread = 0 /\ NoPipe.nwrite = 0
    BY DEF NoPipe, StructPipe, Byte
  <2>2. PICK n \in StructPipe :
          n = [NoPipe EXCEPT !.used = TRUE, !.readopen = TRUE, !.writeopen = TRUE]
    <3>1. /\ 0 \in Byte /\ NoProcess \in Process \union {NoProcess}
          /\ [s \in 0..PIPESIZE - 1 |-> 0] \in [0..PIPESIZE - 1 -> Byte]
      BY DEF Byte
    <3>2. \A x \in StructPipe :
            [x EXCEPT !.used = TRUE, !.readopen = TRUE, !.writeopen = TRUE] \in StructPipe
      BY <3>1, PipeMoves, Zenon
    <3> QED
      BY <2>1, <3>2
  <2>3. n.used /\ n.readopen /\ n.writeopen /\ n.nread = 0 /\ n.nwrite = 0
    BY <2>2 DEF NoPipe
  <2>4. pipe' = [pipe EXCEPT ![pi] = n]
    BY <2>2 DEF PipeMake
  <2> QED
    BY <1>1, <2>3, <2>4 DEF TypeOK
<1>7. /\ torn' \in [PipeId -> BOOLEAN]
      /\ \A x \in PipeId : x # pi => torn'[x] = torn[x]
  BY <1>1 DEF PipeMake, TypeOK
<1>8. TypeOK'
  BY <1>1, <1>4, <1>5, <1>6, <1>7 DEF TypeOK, FilesTypeOK, FileTypeOK
<1>9. CountInv'
  <2>1. Len(thread'[p].held) <= 2
    BY <1>5 DEF Hold
  <2>2. \A q \in Process : q # p => thread'[q].held = thread[q].held /\ ofile'[q] = ofile[q]
    BY <1>5
  <2>3. ASSUME NEW x \in File
        PROVE  ftable'[x].ref + Cardinality(FdsIn(ofile[p], x)) + Times(thread[p].held, x)
                 = ftable[x].ref + Cardinality(FdsIn(ofile'[p], x)) + Times(thread'[p].held, x)
    <3>1. PICK c \in Nat, d \in Nat, a \in Nat, b \in Nat :
            /\ c = Cardinality(FdsIn(ofile[p], x)) /\ d = Cardinality(FdsIn(ofile'[p], x))
            /\ a = Times(thread[p].held, x) /\ b = Times(thread'[p].held, x)
            /\ c + a = d + b
      BY <1>5 DEF Balanced
    <3>2. PICK y \in Nat : y = ftable[x].ref /\ y = ftable'[x].ref
      BY <1>1, <1>4 DEF TypeOK, FilesTypeOK
    <3>3. y + c + a = y + d + b
      BY <3>1
    <3> QED
      BY <3>1, <3>2, <3>3
  <2> QED
    BY <1>8, <2>1, <2>2, <2>3, Recount
<1>10. FileInv'
  <2>1. ASSUME NEW x \in File
        PROVE  /\ ftable'[x].type \in {"none", "pipe"}
               /\ ftable'[x].ref = 0 => ftable'[x] = Closed
               /\ ftable'[x].type = "none" => ~ ftable'[x].writable
               /\ ftable'[x].type = "pipe" => ftable'[x].obj \in PipeId
    <3>1. CASE x \in {f, g}
      BY <1>2, <1>4, <3>1
    <3>2. CASE x # f /\ x # g
      BY <1>4, <3>2 DEF IInv, FileInv
    <3> QED
      BY <3>1, <3>2
  <2>2. ASSUME NEW q \in Process, NEW fd \in Fd, ofile'[q][fd] # NoFile
        PROVE  ftable'[ofile'[q][fd]].type = "pipe"
    <3>1. ofile'[q][fd] \in {f, g, ofile[q][fd]}
      BY <1>5
    <3>2. CASE ofile'[q][fd] \in {f, g}
      BY <1>4, <3>2
    <3>3. CASE ofile'[q][fd] \notin {f, g}
      <4>1. PICK x \in File : x = ofile'[q][fd] /\ x = ofile[q][fd] /\ x # f /\ x # g
        BY <1>5, <2>2, <3>1, <3>3
      <4>2. ftable[x].type = "pipe"
        BY <4>1 DEF IInv, FileInv, File
      <4> QED
        BY <1>4, <4>1, <4>2
    <3> QED
      BY <3>2, <3>3
  <2> QED
    BY <2>1, <2>2 DEF FileInv
<1>11. HeldInv'
  <2>1. ASSUME NEW q \in Process, q # p
        PROVE  Hold(q)'
    <3>1. thread'[q] = thread[q] /\ ofile'[q] = ofile[q]
      BY <1>5, <2>1
    <3>2. ASSUME NEW i \in DOMAIN thread[q].held
          PROVE  /\ ftable'[thread[q].held[i]].ref = ftable[thread[q].held[i]].ref
                 /\ ftable'[thread[q].held[i]].type = ftable[thread[q].held[i]].type
      <4>1. thread[q].held[i] \in File
        BY <1>1 DEF TypeOK, Thread
      <4> QED
        BY <1>2, <1>4, <2>1, <4>1
    <3> QED
      BY <3>1, <3>2, HoldsOn
  <2> QED
    BY <1>5, <2>1, HoldByHoldNext
<1>12. \A wr \in BOOLEAN : /\ \A x \in File : ~ IsEnd(x, pi, wr)
                           /\ \A q \in Process : ~ ClosesEnd(q, pi, wr)
  <2>1. ~ pipe[pi].readopen /\ ~ pipe[pi].writeopen
    BY <1>1 DEF IInv, EndInv
  <2> QED
    BY <2>1 DEF IInv, EndInv, IsOpen
<1>13. EndInv'
  <2>1. ASSUME NEW o \in PipeId
        PROVE  pipe'[o].used <=> pipe'[o].readopen \/ pipe'[o].writeopen
    BY <1>6 DEF IInv, EndInv
  <2>2. \A o \in PipeId, wr \in BOOLEAN, q \in Process : ClosesEnd(q, o, wr)' => ClosesEnd(q, o, wr)
    BY <1>5 DEF ClosesEnd
  <2>3. \A o \in PipeId, wr \in BOOLEAN, q \in Process : ClosesEnd(q, o, wr) => ClosesEnd(q, o, wr)'
    BY <1>1, <1>5 DEF ClosesEnd
  <2>4. ASSUME NEW o \in PipeId, NEW wr \in BOOLEAN, o # pi
        PROVE  /\ \A x \in File : IsEnd(x, o, wr)' <=> IsEnd(x, o, wr)
               /\ IsOpen(o, wr)' <=> IsOpen(o, wr)
    <3>1. IsOpen(o, wr)' <=> IsOpen(o, wr)
      BY <1>6, <2>4 DEF IsOpen
    <3>2. ASSUME NEW x \in File
          PROVE  IsEnd(x, o, wr)' <=> IsEnd(x, o, wr)
      <4>1. CASE x \in {f, g}
        BY <1>2, <1>4, <2>4, <4>1 DEF IsEnd
      <4>2. CASE x # f /\ x # g
        BY <1>4, <4>2 DEF IsEnd
      <4> QED
        BY <4>1, <4>2
    <3> QED
      BY <3>1, <3>2
  <2>5. ASSUME NEW wr \in BOOLEAN
        PROVE  /\ IsOpen(pi, wr)'
               /\ \A x \in File : IsEnd(x, pi, wr)' <=> x = (IF wr THEN g ELSE f)
               /\ \A q \in Process : ~ ClosesEnd(q, pi, wr)'
    <3>1. IsOpen(pi, wr)'
      BY <1>6 DEF IsOpen
    <3>2. \A q \in Process : ~ ClosesEnd(q, pi, wr)'
      BY <1>12, <2>2
    <3>3. ASSUME NEW x \in File
          PROVE  IsEnd(x, pi, wr)' <=> x = (IF wr THEN g ELSE f)
      <4>1. CASE x = f
        <5>1. ftable'[f].writable = FALSE
          BY <1>2, <1>4 DEF FileTypeOK
        <5> QED
          BY <1>2, <1>4, <4>1, <5>1 DEF IsEnd
      <4>2. CASE x = g
        <5>1. ftable'[g].writable \in BOOLEAN
          BY <1>4 DEF FileTypeOK
        <5> QED
          BY <1>2, <1>4, <4>2, <5>1 DEF IsEnd
      <4>3. CASE x # f /\ x # g
        BY <1>4, <1>12, <4>3 DEF IsEnd
      <4> QED
        BY <4>1, <4>2, <4>3
    <3> QED
      BY <3>1, <3>2, <3>3
  <2>6. ASSUME NEW o \in PipeId, NEW wr \in BOOLEAN
        PROVE  /\ IsOpen(o, wr)' => \/ \E x \in File : IsEnd(x, o, wr)'
                                    \/ \E q \in Process : ClosesEnd(q, o, wr)'
               /\ \A x \in File : IsEnd(x, o, wr)' => IsOpen(o, wr)'
               /\ \A q \in Process : ClosesEnd(q, o, wr)' => IsOpen(o, wr)'
               /\ \A x, y \in File : IsEnd(x, o, wr)' /\ IsEnd(y, o, wr)' => x = y
               /\ \A x \in File, q \in Process : ~ (IsEnd(x, o, wr)' /\ ClosesEnd(q, o, wr)')
               /\ \A q, r \in Process : ClosesEnd(q, o, wr)' /\ ClosesEnd(r, o, wr)' => q = r
    <3>1. CASE o = pi
      BY <2>5, <3>1
    <3>2. CASE o # pi
      BY <2>2, <2>3, <2>4, <3>2 DEF IInv, EndInv
    <3> QED
      BY <3>1, <3>2
  <2> QED
    BY <2>1, <2>6 DEF EndInv
<1>14. UseInv' /\ WaitInv'
  <2>1. ASSUME NEW q \in Process, InPipe(q)
        PROVE  Undisturbed(q)
    <3>1. /\ thread[q].f \in File /\ Obj(q) \in PipeId /\ ftable[thread[q].f].type = "pipe"
          /\ pipe[Obj(q)].used
      BY <2>1, Uses DEF IsEnd
    <3>2. q # p /\ thread[q].f # f /\ thread[q].f # g /\ Obj(q) # pi
      BY <1>1, <1>2, <2>1, <3>1
    <3> QED
      BY <1>4, <1>5, <1>6, <1>7, <3>1, <3>2 DEF Undisturbed
  <2>2. \A q \in Process : InPipe(q)' => InPipe(q)
    BY <1>5 DEF InPipe
  <2>3. \A q \in Process : thread[q].at = "w_loop" => InPipe(q)
    BY DEF InPipe, Writing
  <2> QED
    BY <2>1, <2>2, <2>3, PipesKept
<1>15. RingInv'
  <2>1. ASSUME NEW o \in PipeId
        PROVE  (Held(o) <= PIPESIZE)'
    <3>1. CASE o = pi
      <4>1. (0 - 0) % UintMod = 0
        <5>1. 0 \in Byte
          BY DEF Byte
        <5>2. (0 - 0) % UintMod = IF 0 >= 0 THEN 0 - 0 ELSE 0 - 0 + UintMod
          BY <5>1, RingSteps
        <5> QED
          BY <5>2
      <4> QED
        BY <1>6, <3>1, <4>1 DEF Held
    <3>2. CASE o # pi
      BY <1>6, <3>2 DEF IInv, RingInv, Held
    <3> QED
      BY <3>1, <3>2
  <2> QED
    BY <2>1 DEF RingInv
<1> QED
  BY <1>8, <1>9, <1>10, <1>11, <1>13, <1>14, <1>15 DEF IInv


-----------------------------------------------------------------------------
(* An end of a pipe is closed                                              *)

Shuts(pi, w) == pipe' = [pipe EXCEPT ![pi] = WithoutEnd(@, w)]

LEMMA EndCloses ==
  ASSUME TypeOK, NEW pi \in PipeId, NEW w \in BOOLEAN,
         pipe[pi].used <=> pipe[pi].readopen \/ pipe[pi].writeopen, Shuts(pi, w)
  PROVE  /\ pipe' \in [PipeId -> StructPipe]
         /\ \A x \in PipeId : x # pi => pipe'[x] = pipe[x]
         /\ ~ IsOpen(pi, w)' /\ \A wr \in BOOLEAN : wr # w => (IsOpen(pi, wr)' <=> IsOpen(pi, wr))
         /\ pipe'[pi].used <=> pipe'[pi].readopen \/ pipe'[pi].writeopen
         /\ \/ pipe'[pi].nread = 0 /\ pipe'[pi].nwrite = 0
            \/ pipe'[pi].nread = pipe[pi].nread /\ pipe'[pi].nwrite = pipe[pi].nwrite
<1>1. PICK x \in StructPipe : x = pipe[pi]
  BY DEF TypeOK
<1>2. /\ NoPipe \in StructPipe /\ NoPipe.nread = 0 /\ NoPipe.nwrite = 0 /\ NoPipe.used = FALSE
      /\ NoPipe.readopen = FALSE /\ NoPipe.writeopen = FALSE
  BY DEF NoPipe, StructPipe, Byte
<1>3. /\ [x EXCEPT !.readopen = FALSE] \in StructPipe
      /\ [x EXCEPT !.writeopen = FALSE] \in StructPipe
  BY DEF StructPipe
<1>4. PICK n \in StructPipe : n = WithoutEnd(x, w)
  BY <1>2, <1>3 DEF WithoutEnd
<1>5. pipe' \in [PipeId -> StructPipe] /\ pipe'[pi] = n
      /\ \A y \in PipeId : y # pi => pipe'[y] = pipe[y]
  BY <1>1, <1>4 DEF TypeOK, Shuts
<1>6. /\ x.readopen \in BOOLEAN /\ x.writeopen \in BOOLEAN /\ x.used \in BOOLEAN
      /\ x.used <=> x.readopen \/ x.writeopen
  BY <1>1 DEF StructPipe
<1>7. CASE w
  <2>1. CASE x.readopen
    <3>1. n = [x EXCEPT !.writeopen = FALSE]
      BY <1>4, <1>7, <2>1 DEF WithoutEnd
    <3>2. /\ n.readopen = x.readopen /\ n.writeopen = FALSE /\ n.used = x.used
          /\ n.nread = x.nread /\ n.nwrite = x.nwrite
      BY <3>1 DEF StructPipe
    <3> QED
      BY <1>1, <1>5, <1>6, <1>7, <2>1, <3>2 DEF IsOpen
  <2>2. CASE ~ x.readopen
    <3>1. n = NoPipe
      BY <1>4, <1>7, <2>2 DEF WithoutEnd
    <3> QED
      BY <1>1, <1>2, <1>5, <1>6, <1>7, <2>2, <3>1 DEF IsOpen
  <2> QED
    BY <2>1, <2>2
<1>8. CASE ~ w
  <2>1. CASE x.writeopen
    <3>1. n = [x EXCEPT !.readopen = FALSE]
      BY <1>4, <1>8, <2>1 DEF WithoutEnd
    <3>2. /\ n.writeopen = x.writeopen /\ n.readopen = FALSE /\ n.used = x.used
          /\ n.nread = x.nread /\ n.nwrite = x.nwrite
      BY <3>1 DEF StructPipe
    <3> QED
      BY <1>1, <1>5, <1>6, <1>8, <2>1, <3>2 DEF IsOpen
  <2>2. CASE ~ x.writeopen
    <3>1. n = NoPipe
      BY <1>4, <1>8, <2>2 DEF WithoutEnd
    <3> QED
      BY <1>1, <1>2, <1>5, <1>6, <1>8, <2>2, <3>1 DEF IsOpen
  <2> QED
    BY <2>1, <2>2
<1> QED
  BY <1>7, <1>8

LEMMA PipeCloseKeeps == ASSUME IInv, NEW p \in Process, PipeClose(p) PROVE IInv'
<1>1. /\ thread[p].at = "pipeclose" /\ TypeOK /\ thread[p] \in Thread
      /\ UNCHANGED <<ftable, ofile, killed>>
  BY DEF PipeClose, At, IInv, TypeOK
<1>2. PICK pi \in PipeId, w \in BOOLEAN : pi = thread[p].obj /\ w = thread[p].writable
  BY <1>1 DEF IInv, HeldInv, Thread
<1>3. PICK place \in {"r_asleep", "w_asleep"} :
        /\ place = IF w THEN "r_asleep" ELSE "w_asleep"
        /\ pipe[pi].lock = NoProcess
        /\ pipe' = [pipe EXCEPT ![pi] = WithoutEnd(@, w)]
        /\ thread' = Wake(Reclosing(p), pi, place)
        /\ torn' = IF w THEN [torn EXCEPT ![pi] = FALSE] ELSE torn
  BY <1>2 DEF PipeClose
<1>4. PICK t \in Thread :
        t = [thread[p] EXCEPT !.at = "closing", !.obj = NoObject, !.writable = FALSE]
  BY <1>1, GoesTo DEF Location
<1>5. t.at = "closing" /\ t.held = thread[p].held /\ t.exiting = thread[p].exiting
  BY <1>1, <1>4 DEF Thread
<1>6. /\ thread' \in [Process -> Thread] /\ thread'[p] = t
      /\ \A q \in Process : q # p => thread'[q] = thread[q] \/ WokenAt(q, thread[q], pi)
      /\ \A q \in Process : thread'[q].at = place => Obj(q) # pi
  <2>1. thread' = Wake([thread EXCEPT ![p] = t], pi, place)
    BY <1>3, <1>4, Zenon DEF Reclosing
  <2>2. t.at # place
    BY <1>5
  <2> QED
    BY <1>1, <2>1, <2>2, Awakens
<1>7. /\ pipe' \in [PipeId -> StructPipe]
      /\ \A x \in PipeId : x # pi => pipe'[x] = pipe[x]
      /\ ~ IsOpen(pi, w)' /\ \A wr \in BOOLEAN : wr # w => (IsOpen(pi, wr)' <=> IsOpen(pi, wr))
      /\ pipe'[pi].used <=> pipe'[pi].readopen \/ pipe'[pi].writeopen
      /\ \/ pipe'[pi].nread = 0 /\ pipe'[pi].nwrite = 0
         \/ pipe'[pi].nread = pipe[pi].nread /\ pipe'[pi].nwrite = pipe[pi].nwrite
  <2>1. pipe[pi].used <=> pipe[pi].readopen \/ pipe[pi].writeopen
    BY DEF IInv, EndInv
  <2>2. Shuts(pi, w)
    BY <1>3, Zenon DEF Shuts
  <2> QED
    BY <1>1, <2>1, <2>2, EndCloses
<1>8. /\ torn' \in [PipeId -> BOOLEAN]
      /\ \A x \in PipeId : x # pi => torn'[x] = torn[x]
  BY <1>1, <1>3 DEF TypeOK
<1>9. TypeOK'
  BY <1>1, <1>6, <1>7, <1>8 DEF TypeOK, FilesTypeOK
<1>10. ASSUME NEW q \in Process, WokenAt(q, thread[q], pi)
       PROVE  /\ thread'[q].held = << >> /\ ~ thread'[q].exiting
              /\ thread'[q].at \in {"read", "write"} /\ InPipe(q)
              /\ thread[q].at \in {"r_asleep", "w_asleep"} /\ Use(q)'
  <2>1. thread'[q].at \in {"read", "write"} /\ thread[q].at \in {"r_asleep", "w_asleep"}
        /\ InPipe(q)
        /\ (thread[q].at \in Writing <=> thread'[q].at \in Writing)
        /\ thread'[q].f = thread[q].f /\ thread'[q].n = thread[q].n
        /\ thread'[q].held = thread[q].held /\ thread'[q].exiting = thread[q].exiting
    BY <1>10 DEF WokenAt, InPipe, Reading, Writing
  <2>2. thread[q].held = << >> /\ ~ thread[q].exiting
    BY <2>1 DEF IInv, HeldInv, Making, Closing
  <2>3. Use(q)
    BY OneByOne DEF IInv
  <2>4. Use(q)'
    BY <1>1, <2>1, <2>3 DEF Use
  <2> QED
    BY <2>1, <2>2, <2>4
<1>11. CountInv'
  <2>1. \A q \in Process : thread'[q].held = thread[q].held /\ ofile'[q] = ofile[q]
    BY <1>1, <1>5, <1>6 DEF WokenAt
  <2>2. Len(thread'[p].held) <= 2
    BY <2>1 DEF IInv, HeldInv
  <2>3. \A x \in File :
          ftable'[x].ref + Cardinality(FdsIn(ofile[p], x)) + Times(thread[p].held, x)
            = ftable[x].ref + Cardinality(FdsIn(ofile'[p], x)) + Times(thread'[p].held, x)
    BY <1>1, <2>1
  <2> QED
    BY <1>9, <2>1, <2>2, <2>3, Recount
<1>12. FileInv'
  BY <1>1 DEF IInv, FileInv
<1>13. HeldInv'
  <2>1. ASSUME NEW q \in Process
        PROVE  Hold(q)'
    <3>1. CASE q = p
      <4>1. Len(thread'[p].held) <= 2 /\ (thread'[p].exiting => thread'[p].held = << >>)
        BY <1>5, <1>6 DEF IInv, HeldInv
      <4> QED
        BY <1>5, <1>6, <3>1, <4>1, HoldsInClosing
    <3>2. CASE thread'[q] = thread[q]
      BY <1>1, <3>2, HoldsOn
    <3>3. CASE WokenAt(q, thread[q], pi)
      <4>1. Len(<< >>) <= 2
        OBVIOUS
      <4> QED
        BY <1>10, <3>3, <4>1 DEF Hold, Making, Closing
    <3> QED
      BY <1>6, <3>1, <3>2, <3>3
  <2> QED
    BY <2>1, HoldByHoldNext
<1>14. ClosesEnd(p, pi, w)
  BY <1>1, <1>2 DEF ClosesEnd
<1>15. \A f \in File : ~ IsEnd(f, pi, w)
  BY <1>14 DEF IInv, EndInv
<1>16. EndInv'
  <2>1. ASSUME NEW o \in PipeId
        PROVE  pipe'[o].used <=> pipe'[o].readopen \/ pipe'[o].writeopen
    BY <1>7 DEF IInv, EndInv
  <2>2. \A o \in PipeId, wr \in BOOLEAN, f \in File : IsEnd(f, o, wr)' <=> IsEnd(f, o, wr)
    BY <1>1 DEF IsEnd
  <2>3. \A o \in PipeId, wr \in BOOLEAN : ~ ClosesEnd(p, o, wr)'
    BY <1>5, <1>6 DEF ClosesEnd
  <2>4. \A o \in PipeId, wr \in BOOLEAN, q \in Process :
          q # p => (ClosesEnd(q, o, wr)' <=> ClosesEnd(q, o, wr))
    BY <1>6, <1>10 DEF ClosesEnd
  <2>5. \A q \in Process : q # p => ~ ClosesEnd(q, pi, w)
    BY <1>14 DEF IInv, EndInv
  <2>6. ASSUME NEW o \in PipeId, NEW wr \in BOOLEAN, ~ (o = pi /\ wr = w)
        PROVE  /\ ~ ClosesEnd(p, o, wr) /\ (IsOpen(o, wr)' <=> IsOpen(o, wr))
    <3>1. ~ ClosesEnd(p, o, wr)
      BY <1>2, <2>6 DEF ClosesEnd
    <3>2. CASE o = pi
      BY <1>7, <2>6, <3>1, <3>2
    <3>3. CASE o # pi
      BY <1>7, <3>1, <3>3 DEF IsOpen
    <3> QED
      BY <3>2, <3>3
  <2>7. ASSUME NEW o \in PipeId, NEW wr \in BOOLEAN
        PROVE  /\ IsOpen(o, wr)' => \/ \E x \in File : IsEnd(x, o, wr)'
                                    \/ \E q \in Process : ClosesEnd(q, o, wr)'
               /\ \A x \in File : IsEnd(x, o, wr)' => IsOpen(o, wr)'
               /\ \A q \in Process : ClosesEnd(q, o, wr)' => IsOpen(o, wr)'
               /\ \A x, y \in File : IsEnd(x, o, wr)' /\ IsEnd(y, o, wr)' => x = y
               /\ \A x \in File, q \in Process : ~ (IsEnd(x, o, wr)' /\ ClosesEnd(q, o, wr)')
               /\ \A q, r \in Process : ClosesEnd(q, o, wr)' /\ ClosesEnd(r, o, wr)' => q = r
    <3>1. CASE o = pi /\ wr = w
      BY <1>7, <1>15, <2>2, <2>3, <2>4, <2>5, <3>1
    <3>2. CASE ~ (o = pi /\ wr = w)
      <4>1. /\ \A x \in File : IsEnd(x, o, wr)' <=> IsEnd(x, o, wr)
            /\ \A q \in Process : ClosesEnd(q, o, wr)' <=> ClosesEnd(q, o, wr)
            /\ IsOpen(o, wr)' <=> IsOpen(o, wr)
        BY <2>2, <2>3, <2>4, <2>6, <3>2
      <4> QED
        BY <4>1 DEF IInv, EndInv
    <3> QED
      BY <3>1, <3>2
  <2> QED
    BY <2>1, <2>7 DEF EndInv
<1>17. UseInv' /\ WaitInv'
  <2>1. ASSUME NEW q \in Process, InPipe(q), thread'[q] = thread[q], Obj(q) # pi
        PROVE  Undisturbed(q)
    <3>1. Obj(q) \in PipeId
      BY <2>1, Uses
    <3> QED
      BY <1>1, <1>7, <1>8, <2>1, <3>1 DEF Undisturbed
  <2>2. ASSUME NEW q \in Process, InPipe(q), thread'[q] = thread[q], Obj(q) = pi
        PROVE  Use(q)' /\ thread'[q].at \in {"read", "write", "r_return"}
    <3>1. /\ IsEnd(thread[q].f, pi, ftable[thread[q].f].writable) /\ thread[q].f \in File
          /\ thread[q].at \in Reading <=> ~ ftable[thread[q].f].writable
      BY <2>2, Uses
    <3>2. ftable[thread[q].f].writable \in BOOLEAN /\ ftable[thread[q].f].writable # w
      BY <1>1, <1>15, <3>1 DEF TypeOK, FilesTypeOK
    <3>3. thread[q].at # place
      BY <1>6, <2>2
    <3>4. thread[q].at \notin {"r_sleep", "w_loop", "w_sleep"}
      <4>1. pipe[Obj(q)].lock # q
        BY <1>3, <2>2
      <4> QED
        BY <2>2, <4>1 DEF IInv, UseInv
    <3>5. thread[q].at \in {"read", "write", "r_return"}
      <4>1. CASE w
        BY <1>3, <2>2, <3>1, <3>2, <3>3, <3>4, <4>1 DEF InPipe, Reading, Writing
      <4>2. CASE ~ w
        BY <1>3, <2>2, <3>1, <3>2, <3>3, <3>4, <4>2 DEF InPipe, Reading, Writing
      <4> QED
        BY <4>1, <4>2
    <3>6. Use(q)
      BY OneByOne DEF IInv
    <3>7. Use(q)'
      BY <1>1, <2>2, <3>4, <3>6 DEF Use, InPipe
    <3> QED
      BY <2>2, <3>5, <3>7
  <2>3. ASSUME NEW q \in Process, InPipe(q)'
        PROVE  \/ Undisturbed(q)
               \/ Use(q)' /\ thread'[q].at \in {"read", "write", "r_return"}
    <3>1. q # p
      BY <1>5, <1>6, <2>3 DEF InPipe, Reading, Writing
    <3>2. CASE thread'[q] = thread[q]
      <4>1. InPipe(q)
        BY <2>3, <3>2 DEF InPipe
      <4> QED
        BY <2>1, <2>2, <3>2, <4>1
    <3>3. CASE WokenAt(q, thread[q], pi)
      BY <1>10, <3>3
    <3> QED
      BY <1>6, <3>1, <3>2, <3>3
  <2>4. ASSUME NEW q \in Process, thread[q].at = "w_loop"
        PROVE  Undisturbed(q)
    <3>1. InPipe(q) /\ q # p
      BY <1>1, <2>4 DEF InPipe, Writing
    <3>2. thread'[q] = thread[q]
      BY <1>6, <2>4, <3>1 DEF WokenAt
    <3>3. Obj(q) # pi
      <4>1. pipe[Obj(q)].lock = q
        BY <2>4, <3>1 DEF IInv, UseInv
      <4> QED
        BY <1>3, <4>1
    <3> QED
      BY <2>1, <3>1, <3>2, <3>3
  <2> QED
    BY <2>3, <2>4, PipesKept
<1>18. RingInv'
  <2>1. ASSUME NEW o \in PipeId
        PROVE  (Held(o) <= PIPESIZE)'
    <3>1. CASE pipe'[o].nread = 0 /\ pipe'[o].nwrite = 0
      <4>1. (0 - 0) % UintMod = 0
        <5>1. 0 \in Byte
          BY DEF Byte
        <5>2. (0 - 0) % UintMod = IF 0 >= 0 THEN 0 - 0 ELSE 0 - 0 + UintMod
          BY <5>1, RingSteps
        <5> QED
          BY <5>2
      <4> QED
        BY <3>1, <4>1 DEF Held
    <3>2. CASE pipe'[o].nread = pipe[o].nread /\ pipe'[o].nwrite = pipe[o].nwrite
      BY <3>2 DEF IInv, RingInv, Held
    <3> QED
      BY <1>7, <3>1, <3>2
  <2> QED
    BY <2>1 DEF RingInv
<1> QED
  BY <1>9, <1>11, <1>12, <1>13, <1>16, <1>17, <1>18 DEF IInv


-----------------------------------------------------------------------------
(* The invariant                                                           *)

LEMMA InitIInv == Init => IInv
<1> SUFFICES ASSUME Init
             PROVE  IInv
  OBVIOUS
<1>1. /\ ftable = [f \in File |-> Closed] /\ ofile = [p \in Process |-> [fd \in Fd |-> NoFile]]
      /\ pipe = [pi \in PipeId |-> NoPipe]
      /\ killed = [p \in Process |-> FALSE] /\ torn = [pi \in PipeId |-> FALSE]
  BY DEF Init, FilesInit
<1>2. \A p \in Process : thread[p] \in {User, Absent}
  BY DEF Init
<1>3. /\ User.at = "user" /\ Absent.at = "absent" /\ User.held = << >> /\ Absent.held = << >>
      /\ User.exiting = FALSE /\ Absent.exiting = FALSE
  BY DEF User, Absent
<1>4. ASSUME NEW p \in Process
      PROVE  /\ thread[p].at \in {"user", "absent"} /\ thread[p].held = << >>
             /\ thread[p].exiting = FALSE
             /\ thread[p].at \notin Making \union Closing \union Reading \union Writing
  BY <1>2, <1>3 DEF Making, Closing, Reading, Writing
<1>5. /\ NoPipe \in StructPipe /\ NoPipe.nread = 0 /\ NoPipe.nwrite = 0 /\ NoPipe.used = FALSE
      /\ NoPipe.readopen = FALSE /\ NoPipe.writeopen = FALSE
  BY DEF NoPipe, StructPipe, Byte
<1>6. /\ Closed \in [ref : Nat, type : {"none", "pipe", "inode"}, obj : Nat, writable : BOOLEAN]
      /\ Closed.ref = 0 /\ Closed.type = "none" /\ Closed.writable = FALSE
  BY DEF Closed
<1>7. TypeOK
  <2>1. thread \in [Process -> Thread]
    <3>1. thread = [p \in Process |-> IF p = InitProcess THEN User ELSE Absent]
      BY DEF Init
    <3> QED
      BY <3>1, Idle
  <2>2. ftable \in [File -> [ref : Nat, type : {"none", "pipe", "inode"}, obj : Nat,
                             writable : BOOLEAN]]
    BY <1>1, <1>6
  <2>3. ofile \in [Process -> [Fd -> File \union {NoFile}]] /\ pipe \in [PipeId -> StructPipe]
        /\ killed \in [Process -> BOOLEAN] /\ torn \in [PipeId -> BOOLEAN]
    BY <1>1, <1>5
  <2> QED
    BY <2>1, <2>2, <2>3 DEF TypeOK, FilesTypeOK
<1>8. CountInv
  <2>1. ASSUME NEW f \in File
        PROVE  ftable[f].ref = FdRefs(f) + LocalRefs(f)
    <3>1. {d \in Process \X Fd : ofile[d[1]][d[2]] = f} = {}
      BY <1>1 DEF File
    <3>2. {h \in Process \X (1..2) :
             h[2] \in DOMAIN thread[h[1]].held /\ thread[h[1]].held[h[2]] = f} = {}
      <4>1. \A p \in Process : DOMAIN thread[p].held = {}
        <5>0. << >> \in Seq(File)
          OBVIOUS
        <5>1. PICK s \in Seq(File) : s = << >>
          BY <5>0, Zenon
        <5>2. DOMAIN s = 1..Len(s) /\ Len(s) = 0
          BY <5>1
        <5>3. DOMAIN s = {}
          BY <5>2
        <5> QED
          BY <1>4, <5>1, <5>3, Zenon
      <4> QED
        BY <4>1
    <3>3. FdRefs(f) = 0 /\ LocalRefs(f) = 0
      BY <3>1, <3>2, FS_EmptySet, Zenon DEF FdRefs, LocalRefs
    <3> QED
      BY <1>1, <1>6, <3>3
  <2> QED
    BY <2>1 DEF CountInv
<1>9. FileInv
  BY <1>1, <1>6 DEF FileInv
<1>10. HeldInv
  <2>1. \A p \in Process, fd \in Fd : ofile[p][fd] = NoFile
    BY <1>1
  <2>2. Len(<< >>) <= 2
    OBVIOUS
  <2> QED
    BY <1>4, <2>1, <2>2 DEF HeldInv, Making, Closing
<1>11. EndInv
  <2>1. \A pi \in PipeId : pipe[pi] = NoPipe
    BY <1>1
  <2>2. \A pi \in PipeId, wr \in BOOLEAN : ~ IsOpen(pi, wr)
    BY <1>5, <2>1 DEF IsOpen
  <2>3. \A pi \in PipeId, wr \in BOOLEAN, f \in File : ~ IsEnd(f, pi, wr)
    BY <1>1, <1>6 DEF IsEnd
  <2>4. \A pi \in PipeId, wr \in BOOLEAN, p \in Process : ~ ClosesEnd(p, pi, wr)
    BY <1>4 DEF ClosesEnd
  <2> QED
    BY <1>5, <2>1, <2>2, <2>3, <2>4 DEF EndInv
<1>12. UseInv /\ WaitInv
  BY <1>4 DEF UseInv, WaitInv, InPipe, At, Reading, Writing
<1>13. RingInv
  <2>1. (0 - 0) % UintMod = 0
    <3>1. 0 \in Byte
      BY DEF Byte
    <3>2. (0 - 0) % UintMod = IF 0 >= 0 THEN 0 - 0 ELSE 0 - 0 + UintMod
      BY <3>1, RingSteps
    <3> QED
      BY <3>2
  <2> QED
    BY <1>1, <1>5, <2>1 DEF RingInv, Held
<1> QED
  BY <1>7, <1>8, <1>9, <1>10, <1>11, <1>12, <1>13 DEF IInv

LEMMA StutterKeeps == IInv /\ UNCHANGED vars => IInv'
<1> SUFFICES ASSUME IInv, UNCHANGED vars
             PROVE  IInv'
  OBVIOUS
<1>1. UNCHANGED <<ftable, ofile, pipe, thread, killed, torn>>
  BY DEF vars
<1>2. CountInv' /\ FileInv' /\ HeldInv' /\ EndInv'
  BY <1>1, FilesKept DEF Moves
<1>3. UseInv' /\ WaitInv'
  BY <1>1, PipesKept DEF Undisturbed
<1>4. TypeOK' /\ RingInv'
  BY <1>1 DEF TypeOK, FilesTypeOK, IInv, RingInv, Held
<1> QED
  BY <1>2, <1>3, <1>4 DEF IInv

LEMMA NextIInv == IInv /\ [Next]_vars => IInv'
<1> SUFFICES ASSUME IInv, Next
             PROVE  IInv'
  BY StutterKeeps
<1>1. PICK p \in Process : KernelStep(p) \/ UserStep(p) \/ Kill(p)
  BY DEF Next
<1>2. CASE Pipealloc(p)
  BY <1>2, PipeSecondKeeps, PipeFailsKeeps, PipeMakeKeeps DEF Pipealloc
<1>3. CASE Fileclose(p)
  BY <1>3, FileCloseKeeps, ExitCloseKeeps, PipeCloseKeeps, CloseDoneKeeps DEF Fileclose
<1>4. CASE Piperead(p)
  BY <1>4, ReadWaitsKeeps, ReadSleepsKeeps, ReadTakesKeeps, ReadReturnsKeeps DEF Piperead
<1>5. CASE Pipewrite(p)
  BY <1>5, WriteBreaksKeeps, WriteWaitsKeeps, WriteSleepsKeeps, WriteByteKeeps,
     WriteFaultsKeeps DEF Pipewrite
<1>6. CASE UserStep(p)
  BY <1>6, PipeFirstKeeps, ExitKeeps, CloseKeeps, DupKeeps, CallsKeeps, ForkKeeps DEF UserStep
<1>7. CASE Kill(p)
  BY <1>7, KillKeeps
<1> QED
  BY <1>1, <1>2, <1>3, <1>4, <1>5, <1>6, <1>7 DEF KernelStep

LEMMA SpecIInv == Spec => []IInv
BY InitIInv, NextIInv, PTL DEF Spec

-----------------------------------------------------------------------------

(* Whatever processes make, share and close files, ref counts exactly the  *)
(* descriptors and the calls that hold a file, an end of a pipe is open    *)
(* while a file or a pipeclose stands for it, and its page is used while an*)
(* end is open: fileclose and pipeclose free neither too early nor too late*)
THEOREM LastHolderFrees == Spec => []FreedWithLastHolder
BY SpecIInv, Freed, PTL

(* With any number of readers, writers and kills, nobody sleeps in piperead*)
(* or pipewrite for what is there already: the wakeups of kernel/pipe.c are*)
(* enough, but for the bytes a killed writer leaves.                       *)
THEOREM WakeupsArrive == Spec => []NoLostWakeup
BY SpecIInv, Woken, PTL


-----------------------------------------------------------------------------
(* The refinement                                                          *)

(* The queue of a pipe, and what a read of process q is about to return    *)
(* from it.                                                                *)
QueueOf(x) ==
  IF x.used
    THEN [i \in 1..((x.nwrite - x.nread) % UintMod) |-> x.data[(x.nread + i - 1) % PIPESIZE]]
    ELSE << >>
Answer(q, pi) == IF At(q, "r_return") /\ Obj(q) = pi THEN thread[q].got ELSE NoAnswer
Implements(pi) == [Fifo(pi)!Next]_(Fifo(pi)!vars)

LEMMA Stutters ==
  ASSUME NEW pi \in PipeId, QueueOf(pipe'[pi]) = QueueOf(pipe[pi]),
         pipe'[pi].readopen = pipe[pi].readopen, pipe'[pi].writeopen = pipe[pi].writeopen,
         \A q \in Process : Answer(q, pi)' = Answer(q, pi)
  PROVE  Implements(pi)
BY DEF Implements, QueueOf, Answer, Taken, Held, Fifo!vars

LEMMA Puts ==
  ASSUME NEW pi \in PipeId, NEW b \in Byte, 
         pipe[pi].readopen, pipe[pi].writeopen, Len(QueueOf(pipe[pi])) < PIPESIZE,
         QueueOf(pipe'[pi]) = Append(QueueOf(pipe[pi]), b),
         pipe'[pi].readopen = pipe[pi].readopen, pipe'[pi].writeopen = pipe[pi].writeopen,
         \A q \in Process : Answer(q, pi)' = Answer(q, pi)
  PROVE  Implements(pi)
<1>1. Fifo(pi)!Put(b)
  BY DEF QueueOf, Answer, Taken, Held, Fifo!Put
<1> QED
  BY <1>1, Zenon DEF Implements, Fifo!Next

LEMMA Gets ==
  ASSUME NEW pi \in PipeId, NEW p \in Process, NEW k \in 0..Len(QueueOf(pipe[pi])),
         pipe[pi].readopen, Answer(p, pi) = NoAnswer,
         k = 0 => QueueOf(pipe[pi]) = << >> /\ ~ pipe[pi].writeopen,
         QueueOf(pipe'[pi]) = SubSeq(QueueOf(pipe[pi]), k + 1, Len(QueueOf(pipe[pi]))),
         pipe'[pi].readopen = pipe[pi].readopen, pipe'[pi].writeopen = pipe[pi].writeopen,
         Answer(p, pi)' = SubSeq(QueueOf(pipe[pi]), 1, k),
         \A q \in Process : q # p => Answer(q, pi)' = Answer(q, pi)
  PROVE  Implements(pi)
<1>1. Fifo(pi)!Get(p, k)
  BY DEF QueueOf, Answer, Taken, Held, Fifo!Get
<1>2. \E j \in 0..Len(IF pipe[pi].used THEN Taken(pi, Held(pi)) ELSE << >>) : Fifo(pi)!Get(p, j)
  BY <1>1 DEF QueueOf, Taken, Held
<1> QED
  BY <1>2, Zenon DEF Implements, Fifo!Next

LEMMA Answers ==
  ASSUME NEW pi \in PipeId, NEW p \in Process,
         Answer(p, pi) # NoAnswer, Answer(p, pi)' = NoAnswer,
         QueueOf(pipe'[pi]) = QueueOf(pipe[pi]),
         pipe'[pi].readopen = pipe[pi].readopen, pipe'[pi].writeopen = pipe[pi].writeopen,
         \A q \in Process : q # p => Answer(q, pi)' = Answer(q, pi)
  PROVE  Implements(pi)
<1>1. Fifo(pi)!Return(p)
  BY DEF QueueOf, Answer, Taken, Held, Fifo!Return
<1> QED
  BY <1>1, Zenon DEF Implements, Fifo!Next

LEMMA Opens ==
  ASSUME NEW pi \in PipeId, ~ pipe[pi].readopen, ~ pipe[pi].writeopen,
         QueueOf(pipe'[pi]) = << >>, pipe'[pi].readopen = TRUE, pipe'[pi].writeopen = TRUE,
         \A q \in Process : Answer(q, pi)' = Answer(q, pi)
  PROVE  Implements(pi)
<1>1. Fifo(pi)!Open
  BY DEF QueueOf, Answer, Taken, Held, Fifo!Open
<1> QED
  BY <1>1, Zenon DEF Implements, Fifo!Next

LEMMA Shutting ==
  ASSUME NEW pi \in PipeId, NEW w \in BOOLEAN, IsOpen(pi, w), IsOpen(pi, w)' = FALSE,
         IsOpen(pi, ~ w)' = IsOpen(pi, ~ w),
         QueueOf(pipe'[pi]) = IF IsOpen(pi, ~ w) THEN QueueOf(pipe[pi]) ELSE << >>,
         \A q \in Process : Answer(q, pi)' = Answer(q, pi)
  PROVE  Implements(pi)
<1>1. CASE w
  <2>1. Fifo(pi)!CloseWrite
    BY <1>1 DEF QueueOf, Answer, Taken, Held, IsOpen, Fifo!CloseWrite
  <2> QED
    BY <2>1, Zenon DEF Implements, Fifo!Next
<1>2. CASE ~ w
  <2>1. Fifo(pi)!CloseRead
    BY <1>2 DEF QueueOf, Answer, Taken, Held, IsOpen, Fifo!CloseRead
  <2> QED
    BY <2>1, Zenon DEF Implements, Fifo!Next
<1> QED
  BY <1>1, <1>2

-----------------------------------------------------------------------------
(* Slots of the ring                                                       *)

LEMMA SameRemainder ==
  ASSUME NEW b \in Nat \ {0}, NEW p \in Int, NEW q \in Int,
         NEW i \in 0..b - 1, NEW j \in 0..b - 1, b * p + i = b * q + j
  PROVE  i = j
<1>1. CASE p = q
  BY <1>1
<1>2. CASE p - q >= 1
  <2>1. b * (p - q) >= b
    BY <1>2
  <2> QED
    BY <2>1
<1>3. CASE q - p >= 1
  <2>1. b * (q - p) >= b
    BY <1>3
  <2> QED
    BY <2>1
<1> QED
  BY <1>1, <1>2, <1>3

LEMMA Division ==
  ASSUME NEW b \in Nat \ {0}, NEW x \in Nat
  PROVE  /\ x \div b \in Nat /\ x % b \in 0..b - 1
         /\ x = b * (x \div b) + (x % b)
OBVIOUS

LEMMA Remainders ==
  ASSUME NEW b \in Nat \ {0}
  PROVE  /\ \A x \in 0..b - 1 : x % b = x
         /\ \A x \in b..2 * b - 1 : x % b = x - b
         /\ \A x, n \in Nat : n % b = 0 => (x + n) % b = x % b
         /\ \A x, y \in Nat : x < y /\ y < x + b => x % b # y % b
<1>1. \A x \in 0..b - 1 : x % b = x
  OBVIOUS
<1>2. \A x \in b..2 * b - 1 : x % b = x - b
  OBVIOUS
<1>3. ASSUME NEW x \in Nat, NEW n \in Nat, n % b = 0
      PROVE  (x + n) % b = x % b
  <2>1. PICK k \in Nat : n = b * k + (n % b)
    BY Division
  <2>2. PICK q \in Nat : x = b * q + (x % b)
    BY Division
  <2>3. PICK p \in Nat : x + n = b * p + ((x + n) % b)
    <3>1. x + n \in Nat
      OBVIOUS
    <3> QED
      BY <3>1, Division
  <2>4. x + n = b * (q + k) + (x % b)
    BY <1>3, <2>1, <2>2
  <2>5. x % b \in 0..b - 1 /\ (x + n) % b \in 0..b - 1 /\ q + k \in Int /\ p \in Int
    <3>1. x + n \in Nat
      OBVIOUS
    <3> QED
      BY <3>1, Division
  <2>6. b * p + ((x + n) % b) = b * (q + k) + (x % b)
    BY <2>3, <2>4
  <2> QED
    BY <2>5, <2>6, SameRemainder, Zenon
<1>4. ASSUME NEW x \in Nat, NEW y \in Nat, x < y, y < x + b, x % b = y % b
      PROVE  FALSE
  <2>1. PICK q \in Nat : x = b * q + (x % b)
    BY Division
  <2>2. PICK p \in Nat : y = b * p + (y % b)
    BY Division
  <2>3. y - x = b * (p - q)
    BY <1>4, <2>1, <2>2, Division
  <2>4. /\ p - q <= 0 => b * (p - q) <= 0
        /\ p - q >= 1 => b * (p - q) >= b
    OBVIOUS
  <2> QED
    BY <1>4, <2>3, <2>4
<1> QED
  BY <1>1, <1>2, <1>3, <1>4

(* A counter and its slot, before and after the counter has wrapped.       *)
LEMMA Slots ==
  ASSUME NEW r \in Byte, NEW w \in Byte, NEW h \in Nat, h = (w - r) % UintMod, h <= PIPESIZE
  PROVE  /\ \A k, j \in Nat : k <= h => (((r + k) % UintMod) + j) % PIPESIZE = (r + k + j) % PIPESIZE
         /\ (r + h) % PIPESIZE = w % PIPESIZE
         /\ \A i \in Nat : i < h /\ h < PIPESIZE => (r + i) % PIPESIZE # w % PIPESIZE
<1>1. /\ UintMod \in Nat /\ PIPESIZE \in Nat \ {0} /\ UintMod > PIPESIZE
      /\ r \in Nat /\ w \in Nat /\ r < UintMod /\ w < UintMod
      /\ UintMod % PIPESIZE = 0
  BY DEF Byte
<1>2. h = IF w >= r THEN w - r ELSE w - r + UintMod
  BY RingSteps
<1>3. /\ \A x, n \in Nat : n % PIPESIZE = 0 => (x + n) % PIPESIZE = x % PIPESIZE
      /\ \A x, y \in Nat : x < y /\ y < x + PIPESIZE => x % PIPESIZE # y % PIPESIZE
  BY <1>1, Remainders, Zenon
<1>4. \A x \in Nat : (x + UintMod) % PIPESIZE = x % PIPESIZE
  BY <1>1, <1>3
<1>5. ASSUME NEW k \in Nat, NEW j \in Nat, k <= h
      PROVE  (((r + k) % UintMod) + j) % PIPESIZE = (r + k + j) % PIPESIZE
  <2>1. PICK m \in Nat : m = (r + k) % UintMod /\ m = IF r + k < UintMod THEN r + k ELSE r + k - UintMod
    <3>1. r + k < 2 * UintMod /\ r + k \in Int /\ r + k >= -UintMod
      BY <1>1, <1>5
    <3>2. (r + k) % UintMod = IF r + k < UintMod THEN r + k ELSE r + k - UintMod
      BY <3>1, <1>1, Remainder
    <3> QED
      BY <1>1, <3>1, <3>2
  <2>2. CASE r + k < UintMod
    BY <2>1, <2>2
  <2>3. CASE r + k >= UintMod
    <3>1. m + j \in Nat /\ (m + j) + UintMod = r + k + j
      BY <1>1, <2>1, <2>3
    <3> QED
      BY <1>4, <2>1, <3>1
  <2> QED
    BY <1>1, <2>2, <2>3
<1>6. (r + h) % PIPESIZE = w % PIPESIZE
  <2>1. r + h = w \/ r + h = w + UintMod
    BY <1>1, <1>2
  <2> QED
    BY <1>1, <1>4, <2>1
<1>7. ASSUME NEW i \in Nat, i < h, h < PIPESIZE
      PROVE  (r + i) % PIPESIZE # w % PIPESIZE
  <2>1. r + i < r + h /\ r + h < (r + i) + PIPESIZE /\ r + i \in Nat /\ r + h \in Nat
    BY <1>1, <1>7
  <2>2. (r + i) % PIPESIZE # (r + h) % PIPESIZE
    BY <1>3, <2>1
  <2> QED
    BY <1>6, <2>2
<1> QED
  BY <1>5, <1>6, <1>7

(* The n bytes from counter r on.                                          *)
Window(d, r, n) == [i \in 1..n |-> d[(r + i - 1) % PIPESIZE]]

IsWindow(s, d, r, n) ==
  /\ s \in Seq(Byte) /\ Len(s) = n
  /\ \A i \in 1..n : s[i] = d[(r + i - 1) % PIPESIZE]

LEMMA WindowOf ==
  ASSUME NEW d \in [0..PIPESIZE - 1 -> Byte], NEW r \in Nat, NEW n \in Nat
  PROVE  IsWindow(Window(d, r, n), d, r, n)
<1>1. ASSUME NEW i \in 1..n
      PROVE  d[(r + i - 1) % PIPESIZE] \in Byte
  <2>1. r + i - 1 \in Nat
    OBVIOUS
  <2>2. (r + i - 1) % PIPESIZE \in 0..PIPESIZE - 1
    BY <2>1
  <2> QED
    BY <2>2
<1> QED
  BY <1>1 DEF Window, IsWindow

(* The slot of w holds w in e, and the others what they hold in d.         *)
Stores(e, d, w) ==
  /\ e \in [0..PIPESIZE - 1 -> Byte] /\ e[w % PIPESIZE] = w
  /\ \A s \in 0..PIPESIZE - 1 : s # w % PIPESIZE => e[s] = d[s]

Grows(e, d, r, w, h) == Window(e, r, h + 1) = Append(Window(d, r, h), w)

LEMMA WindowGrows ==
  ASSUME NEW r \in Byte, NEW w \in Byte, NEW h \in Nat, h = (w - r) % UintMod, h < PIPESIZE,
         NEW d \in [0..PIPESIZE - 1 -> Byte], NEW e, Stores(e, d, w)
  PROVE  Grows(e, d, r, w, h)
<1>1. r \in Nat /\ h + 1 \in Nat
  BY DEF Byte
<1>2. /\ e \in [0..PIPESIZE - 1 -> Byte] /\ e[w % PIPESIZE] = w
      /\ \A s \in 0..PIPESIZE - 1 : s # w % PIPESIZE => e[s] = d[s]
  BY DEF Stores
<1>3. PICK q : q = Window(d, r, h) /\ IsWindow(q, d, r, h)
  BY <1>1, WindowOf, Zenon
<1>4. PICK a : a = Window(e, r, h + 1) /\ IsWindow(a, e, r, h + 1)
  BY <1>1, <1>2, WindowOf, Zenon
<1>5. /\ q \in Seq(Byte) /\ Len(q) = h /\ \A i \in 1..h : q[i] = d[(r + i - 1) % PIPESIZE]
      /\ a \in Seq(Byte) /\ Len(a) = h + 1
      /\ \A i \in 1..h + 1 : a[i] = e[(r + i - 1) % PIPESIZE]
  BY <1>3, <1>4 DEF IsWindow
<1>6. PICK b : b = Append(q, w)
  OBVIOUS
<1>7. b \in Seq(Byte) /\ Len(b) = h + 1 /\ b[h + 1] = w /\ \A i \in 1..h : b[i] = q[i]
  BY <1>5, <1>6
<1>8. ASSUME NEW i \in 1..h + 1
      PROVE  a[i] = b[i]
  <2>1. CASE i <= h
    <3>1. PICK j \in Nat : j = i - 1 /\ j < h /\ r + i - 1 = r + j /\ r + j \in Nat
      BY <1>1, <2>1
    <3>2. (r + j) % PIPESIZE # w % PIPESIZE
      <4>1. h <= PIPESIZE
        OBVIOUS
      <4> QED
        BY <3>1, <4>1, Slots
    <3>3. (r + j) % PIPESIZE \in 0..PIPESIZE - 1
      BY <3>1
    <3>4. e[(r + j) % PIPESIZE] = d[(r + j) % PIPESIZE]
      BY <1>2, <3>2, <3>3
    <3>5. i \in 1..h
      BY <2>1
    <3> QED
      BY <1>5, <1>7, <3>1, <3>4, <3>5
  <2>2. CASE i = h + 1
    <3>1. r + i - 1 = r + h
      BY <1>1, <2>2
    <3>2. (r + h) % PIPESIZE = w % PIPESIZE
      <4>1. h <= PIPESIZE
        OBVIOUS
      <4> QED
        BY <4>1, Slots
    <3> QED
      BY <1>5, <1>7, <1>2, <2>2, <3>1, <3>2
  <2> QED
    BY <2>1, <2>2
<1>9. a = b
  BY <1>5, <1>7, <1>8, SeqEqual
<1> QED
  BY <1>3, <1>4, <1>6, <1>9 DEF Grows

LEMMA Part ==
  ASSUME NEW q \in Seq(Byte), NEW m \in Nat, NEW n \in Nat, m <= n, n <= Len(q)
  PROVE  /\ SubSeq(q, m + 1, n) \in Seq(Byte) /\ Len(SubSeq(q, m + 1, n)) = n - m
         /\ \A i \in 1..n - m : SubSeq(q, m + 1, n)[i] = q[m + i]
OBVIOUS

Splits(d, r, h, k) ==
  /\ Window(d, (r + k) % UintMod, h - k) = SubSeq(Window(d, r, h), k + 1, h)
  /\ Window(d, r, k) = SubSeq(Window(d, r, h), 1, k)

LEMMA WindowSplits ==
  ASSUME NEW r \in Byte, NEW w \in Byte, NEW h \in Nat, h = (w - r) % UintMod, h <= PIPESIZE,
         NEW d \in [0..PIPESIZE - 1 -> Byte], NEW k \in Nat, k <= h
  PROVE  Splits(d, r, h, k)
<1>1. r \in Nat /\ h - k \in Nat /\ (r + k) % UintMod \in Byte
  BY RingSteps DEF Byte
<1>2. PICK m \in Nat : m = (r + k) % UintMod
  BY <1>1 DEF Byte
<1>3. PICK q : q = Window(d, r, h) /\ IsWindow(q, d, r, h)
  BY <1>1, WindowOf, Zenon
<1>4. PICK a : a = Window(d, m, h - k) /\ IsWindow(a, d, m, h - k)
  BY <1>1, WindowOf, Zenon
<1>5. PICK b : b = Window(d, r, k) /\ IsWindow(b, d, r, k)
  BY <1>1, WindowOf, Zenon
<1>6. /\ q \in Seq(Byte) /\ Len(q) = h /\ \A i \in 1..h : q[i] = d[(r + i - 1) % PIPESIZE]
      /\ a \in Seq(Byte) /\ Len(a) = h - k
      /\ \A i \in 1..h - k : a[i] = d[(m + i - 1) % PIPESIZE]
      /\ b \in Seq(Byte) /\ Len(b) = k /\ \A i \in 1..k : b[i] = d[(r + i - 1) % PIPESIZE]
  BY <1>3, <1>4, <1>5 DEF IsWindow
<1>7. PICK z \in Nat : z = 0
  OBVIOUS
<1>8. PICK t, u : t = SubSeq(q, k + 1, h) /\ u = SubSeq(q, z + 1, k)
  OBVIOUS
<1>13. t \in Seq(Byte) /\ Len(t) = h - k /\ \A i \in 1..h - k : t[i] = q[k + i]
  <2>1. h <= Len(q) /\ k <= h
    BY <1>6
  <2>2. /\ SubSeq(q, k + 1, h) \in Seq(Byte) /\ Len(SubSeq(q, k + 1, h)) = h - k
        /\ \A i \in 1..h - k : SubSeq(q, k + 1, h)[i] = q[k + i]
    BY <1>6, <2>1, Part
  <2> QED
    BY <1>8, <2>2
<1>14. u \in Seq(Byte) /\ Len(u) = k /\ \A i \in 1..k : u[i] = q[i]
  <2>1. k <= Len(q) /\ z <= k /\ k - z = k /\ \A i \in 1..k : z + i = i
    BY <1>6, <1>7
  <2>2. /\ SubSeq(q, z + 1, k) \in Seq(Byte) /\ Len(SubSeq(q, z + 1, k)) = k - z
        /\ \A i \in 1..k - z : SubSeq(q, z + 1, k)[i] = q[z + i]
    BY <1>6, <2>1, Part
  <2> QED
    BY <1>8, <2>1, <2>2
<1>9. ASSUME NEW i \in 1..h - k
      PROVE  a[i] = t[i]
  <2>1. PICK j \in Nat : j = i - 1
    OBVIOUS
  <2>2. m + i - 1 = m + j /\ r + (k + i) - 1 = r + k + j /\ k + i \in 1..h
    BY <1>1, <2>1
  <2>3. (((r + k) % UintMod) + j) % PIPESIZE = (r + k + j) % PIPESIZE
    <3>1. \A x, y \in Nat : x <= h => (((r + x) % UintMod) + y) % PIPESIZE = (r + x + y) % PIPESIZE
      BY Slots
    <3> QED
      BY <2>1, <3>1, Zenon
  <2>4. a[i] = d[(r + k + j) % PIPESIZE]
    <3>1. a[i] = d[(m + i - 1) % PIPESIZE]
      BY <1>6
    <3>2. (m + j) % PIPESIZE = (r + k + j) % PIPESIZE
      BY <1>2, <2>3, Zenon
    <3> QED
      BY <2>2, <3>1, <3>2
  <2> QED
    BY <1>6, <1>13, <2>2, <2>4
<1>10. a = t
  BY <1>6, <1>13, <1>9, SeqEqual
<1>11. ASSUME NEW i \in 1..k
       PROVE  b[i] = u[i]
  <2>1. i \in 1..h
    OBVIOUS
  <2>2. b[i] = d[(r + i - 1) % PIPESIZE]
    BY <1>6, Zenon
  <2>3. q[i] = d[(r + i - 1) % PIPESIZE]
    BY <1>6, <2>1, Zenon
  <2>4. u[i] = q[i]
    BY <1>14, Zenon
  <2> QED
    BY <2>2, <2>3, <2>4, Zenon
<1>12. b = u
  <2>1. Len(u) = Len(b)
    BY <1>6, <1>14
  <2> QED
    BY <1>6, <1>14, <1>11, <2>1, SeqEqual
<1> QED
  BY <1>2, <1>3, <1>4, <1>5, <1>7, <1>8, <1>10, <1>12 DEF Splits

-----------------------------------------------------------------------------
(* Steps that move no byte and answer no read                              *)

KeepsObj ==
  \A f \in File : ftable[f].type = "pipe" /\ ftable'[f].ref > 0 => ftable'[f].obj = ftable[f].obj
Calm(q) == thread'[q] = thread[q] \/ (thread[q].at # "r_return" /\ thread'[q].at # "r_return")
SamePipe(pi) ==
  /\ pipe'[pi].used = pipe[pi].used /\ pipe'[pi].data = pipe[pi].data
  /\ pipe'[pi].nread = pipe[pi].nread /\ pipe'[pi].nwrite = pipe[pi].nwrite
  /\ pipe'[pi].readopen = pipe[pi].readopen /\ pipe'[pi].writeopen = pipe[pi].writeopen

(* Whoever works in a pipe does so through a file that is referred to.    *)
Upright ==
  \A p \in Process : InPipe(p) =>
    /\ thread[p].f \in File /\ ftable[thread[p].f].ref > 0 /\ ftable[thread[p].f].type = "pipe"

LEMMA OnOpenFiles == IInv => Upright
BY Uses DEF Upright, IsEnd

LEMMA OnOpenFilesNext == (IInv => Upright)'
BY OnOpenFiles, PTL

LEMMA AnswerKept ==
  ASSUME IInv, IInv', KeepsObj, NEW q \in Process, Calm(q), NEW pi
  PROVE  Answer(q, pi)' = Answer(q, pi)
<1>1. CASE thread[q].at # "r_return" /\ thread'[q].at # "r_return"
  BY <1>1 DEF Answer, At
<1>2. CASE thread'[q] = thread[q] /\ thread[q].at = "r_return"
  <2>1. InPipe(q) /\ InPipe(q)'
    BY <1>2 DEF InPipe, Reading
  <2>2. /\ thread[q].f \in File /\ ftable[thread[q].f].type = "pipe"
        /\ ftable'[thread'[q].f].ref > 0
    BY <2>1, OnOpenFiles, OnOpenFilesNext DEF Upright
  <2>3. Obj(q)' = Obj(q)
    BY <1>2, <2>2 DEF KeepsObj, Obj
  <2> QED
    BY <1>2, <2>3 DEF Answer, At
<1> QED
  BY <1>1, <1>2 DEF Calm

LEMMA SameQueue ==
  ASSUME NEW pi, SamePipe(pi)
  PROVE  QueueOf(pipe'[pi]) = QueueOf(pipe[pi])
BY DEF SamePipe, QueueOf

LEMMA QuietStep ==
  ASSUME IInv, IInv', KeepsObj, \A q \in Process : Calm(q), NEW pi \in PipeId, SamePipe(pi)
  PROVE  Implements(pi)
<1>1. \A q \in Process : Answer(q, pi)' = Answer(q, pi)
  BY AnswerKept
<1>2. QueueOf(pipe'[pi]) = QueueOf(pipe[pi])
  BY SameQueue
<1> QED
  BY <1>1, <1>2, Stutters DEF SamePipe

LEMMA FilesKeepObj ==
  ASSUME TypeOK
  PROVE  /\ UNCHANGED ftable => KeepsObj
         /\ \A f : ftable' = Referred(ftable, f) => KeepsObj
         /\ \A f : ftable' = Unreferred(ftable, f) => KeepsObj
<1>1. FileTypeOK
  BY DEF TypeOK, FilesTypeOK, FileTypeOK
<1>2. ASSUME NEW f, ftable' = Referred(ftable, f)
      PROVE  KeepsObj
  BY <1>1, <1>2 DEF Referred, KeepsObj, FileTypeOK
<1>3. ASSUME NEW f, ftable' = Unreferred(ftable, f)
      PROVE  KeepsObj
  <2>1. ASSUME NEW g \in File
        PROVE  ftable'[g].ref > 0 => ftable'[g].obj = ftable[g].obj
    <3>1. CASE g # f
      BY <1>1, <1>3, <3>1 DEF Unreferred, FileTypeOK
    <3>2. CASE g = f /\ ftable[f].ref > 1
      BY <1>1, <1>3, <3>2 DEF Unreferred, FileTypeOK
    <3>3. CASE g = f /\ ~ (ftable[f].ref > 1)
      BY <1>1, <1>3, <3>3 DEF Unreferred, FileTypeOK, Closed
    <3> QED
      BY <3>1, <3>2, <3>3
  <2> QED
    BY <2>1 DEF KeepsObj
<1> QED
  BY <1>2, <1>3 DEF KeepsObj

LEMMA OneMoves ==
  ASSUME TypeOK, NEW p \in Process, NEW t, thread' = [thread EXCEPT ![p] = t]
  PROVE  /\ thread'[p] = t /\ \A q \in Process : q # p => Calm(q)
         /\ thread[p].at # "r_return" /\ t.at # "r_return" => \A q \in Process : Calm(q)
BY DEF TypeOK, Calm

LEMMA OneWakes ==
  ASSUME TypeOK, NEW p \in Process, NEW t, NEW pi, NEW place \in {"r_asleep", "w_asleep"},
         t.at # place, thread' = Wake([thread EXCEPT ![p] = t], pi, place)
  PROVE  /\ thread'[p] = t /\ \A q \in Process : q # p => Calm(q)
         /\ thread[p].at # "r_return" /\ t.at # "r_return" => \A q \in Process : Calm(q)
<1>1. PICK tt : tt = [thread EXCEPT ![p] = t]
  OBVIOUS
<1>2. tt[p] = t /\ \A q \in Process : q # p => tt[q] = thread[q] /\ thread[q] \in Thread
  BY <1>1 DEF TypeOK
<1>3. thread' = Wake(tt, pi, place)
  BY <1>1
<1>4. WakeAt[place] # "r_return"
  BY DEF WakeAt
<1>5. thread'[p] = t
  BY <1>2, <1>3 DEF Wake
<1>6. ASSUME NEW q \in Process, q # p
      PROVE  Calm(q)
  <2>1. CASE thread[q].at = place /\ Obj(q) = pi
    <3>1. thread'[q] = [thread[q] EXCEPT !.at = WakeAt[place]]
      BY <1>2, <1>3, <1>6, <2>1 DEF Wake
    <3>2. thread'[q].at = WakeAt[place]
      BY <1>2, <1>6, <3>1 DEF Thread
    <3> QED
      BY <1>4, <2>1, <3>2 DEF Calm
  <2>2. CASE ~ (thread[q].at = place /\ Obj(q) = pi)
    BY <1>2, <1>3, <1>6, <2>2 DEF Wake, Calm
  <2> QED
    BY <2>1, <2>2
<1> QED
  BY <1>5, <1>6 DEF Calm

(* The calls that make, share and close files, but for the pipe itself.    *)
LEMMA FilesRefine ==
  ASSUME IInv, IInv', NEW p \in Process, NEW pi \in PipeId,
         \/ PipeFirst(p) \/ PipeSecond(p) \/ PipeFails(p) \/ FileClose(p) \/ ExitClose(p)
         \/ CloseDone(p) \/ Exit(p) \/ \E fd \in Fd : Close(p, fd) \/ Dup(p, fd)
  PROVE  Implements(pi)
<1>1. TypeOK /\ thread[p] \in Thread
  BY DEF IInv, TypeOK
<1>2. SamePipe(pi)
  BY DEF SamePipe, PipeFirst, PipeSecond, PipeFails, FileClose, ExitClose, CloseDone, Exit,
         Close, Dup
<1>3. SUFFICES KeepsObj /\ \A q \in Process : Calm(q)
  BY <1>2, QuietStep
<1>4. CASE PipeFirst(p)
  <2>1. PICK f, t : /\ t = [User EXCEPT !.at = "pipe_second", !.held = <<f>>]
                    /\ ftable' = Referred(ftable, f) /\ thread' = [thread EXCEPT ![p] = t]
    BY <1>4 DEF PipeFirst
  <2>2. t.at # "r_return" /\ thread[p].at # "r_return"
    BY <1>4, <2>1 DEF User, PipeFirst, Calls, At
  <2> QED
    BY <1>1, <2>1, <2>2, OneMoves, FilesKeepObj
<1>5. CASE PipeSecond(p)
  <2>1. thread[p].at # "r_return"
    BY <1>5 DEF PipeSecond, At
  <2>2. CASE thread' = Goto(p, "closing") /\ UNCHANGED ftable
    <3>1. PICK t : t = [thread[p] EXCEPT !.at = "closing"]
      OBVIOUS
    <3>2. t.at # "r_return" /\ thread' = [thread EXCEPT ![p] = t]
      BY <1>1, <2>2, <3>1 DEF Goto, Thread
    <3> QED
      BY <1>1, <2>1, <2>2, <3>2, OneMoves, FilesKeepObj
  <2>3. CASE \E g : /\ ftable' = Referred(ftable, g)
                    /\ thread' = [thread EXCEPT ![p] = [@ EXCEPT !.at = "pipe_page",
                                                      !.held = <<thread[p].held[1], g>>]]
    <3>1. PICK g : /\ ftable' = Referred(ftable, g)
                   /\ thread' = [thread EXCEPT ![p] = [@ EXCEPT !.at = "pipe_page",
                                                      !.held = <<thread[p].held[1], g>>]]
      BY <2>3
    <3>2. PICK t : t = [thread[p] EXCEPT !.at = "pipe_page", !.held = <<thread[p].held[1], g>>]
      OBVIOUS
    <3>3. thread' = [thread EXCEPT ![p] = t]
      BY <3>1, <3>2, Zenon
    <3>4. t.at # "r_return"
      BY <1>1, <3>2 DEF Thread
    <3> QED
      BY <1>1, <2>1, <3>1, <3>3, <3>4, OneMoves, FilesKeepObj
  <2> QED
    BY <1>5, <2>2, <2>3, Zenon DEF PipeSecond
<1>6. CASE PipeFails(p)
  <2>1. PICK t : t = [thread[p] EXCEPT !.at = "closing"]
    OBVIOUS
  <2>2. /\ t.at # "r_return" /\ thread' = [thread EXCEPT ![p] = t]
        /\ thread[p].at # "r_return" /\ UNCHANGED ftable
    BY <1>1, <1>6, <2>1 DEF PipeFails, Goto, Thread, At
  <2> QED
    BY <1>1, <2>2, OneMoves, FilesKeepObj
<1>7. ASSUME NEW f, NEW u \in Thread, Closes(p, f, u), thread[p].at = "closing", u.at = "closing"
      PROVE  KeepsObj /\ \A q \in Process : Calm(q)
  <2>1. PICK t : t = IF LastClose(ftable, f) /\ ftable[f].type = "pipe"
                       THEN [u EXCEPT !.at = "pipeclose", !.obj = ftable[f].obj,
                                      !.writable = ftable[f].writable]
                       ELSE u
    OBVIOUS
  <2>2. thread' = [thread EXCEPT ![p] = t] /\ ftable' = Unreferred(ftable, f)
    BY <1>7, <2>1, Zenon DEF Closes
  <2>3. t.at # "r_return"
    BY <1>7, <2>1 DEF Thread
  <2>4. thread[p].at # "r_return"
    BY <1>7
  <2>5. KeepsObj
    BY <1>1, <2>2, FilesKeepObj, Zenon
  <2> QED
    BY <1>1, <2>2, <2>3, <2>4, <2>5, OneMoves
<1>8. CASE FileClose(p)
  <2>1. thread[p].held \in Seq(File) /\ thread[p].held # << >> /\ thread[p].at = "closing"
    BY <1>1, <1>8 DEF FileClose, Thread, At
  <2>2. PICK r : r = Tail(thread[p].held) /\ r \in Seq(File)
    <3>1. Tail(thread[p].held) \in Seq(File)
      BY <2>1, HeadTailProperties, Zenon
    <3> QED
      BY <3>1, Zenon
  <2>3. PICK u : u = [thread[p] EXCEPT !.held = r]
    OBVIOUS
  <2>4. u \in Thread /\ u.at = "closing"
    BY <1>1, <2>1, <2>2, <2>3 DEF Thread
  <2>5. Closes(p, Head(thread[p].held), u)
    BY <1>8, <2>2, <2>3, Zenon DEF FileClose
  <2> QED
    BY <1>7, <2>1, <2>4, <2>5
<1>9. CASE ExitClose(p)
  BY <1>1, <1>7, <1>9 DEF ExitClose, At
<1>10. CASE CloseDone(p)
  <2>1. PICK t : t = IF thread[p].exiting THEN Absent ELSE User
    OBVIOUS
  <2>2. /\ t.at # "r_return" /\ thread' = [thread EXCEPT ![p] = t]
        /\ thread[p].at # "r_return" /\ UNCHANGED ftable
    BY <1>10, <2>1 DEF CloseDone, Absent, User, At
  <2> QED
    BY <1>1, <2>2, OneMoves, FilesKeepObj
<1>11. CASE Exit(p)
  <2>1. PICK t : t = [User EXCEPT !.at = "closing", !.exiting = TRUE]
    OBVIOUS
  <2>2. /\ t.at # "r_return" /\ thread' = [thread EXCEPT ![p] = t]
        /\ thread[p].at # "r_return" /\ UNCHANGED ftable
    BY <1>11, <2>1 DEF Exit, User, At
  <2> QED
    BY <1>1, <2>2, OneMoves, FilesKeepObj
<1>12. ASSUME NEW fd \in Fd, Close(p, fd)
       PROVE  KeepsObj /\ \A q \in Process : Calm(q)
  <2>1. PICK t : t = [User EXCEPT !.at = "closing", !.held = <<ofile[p][fd]>>]
    OBVIOUS
  <2>2. /\ t.at # "r_return" /\ thread' = [thread EXCEPT ![p] = t]
        /\ thread[p].at # "r_return" /\ UNCHANGED ftable
    BY <1>12, <2>1 DEF Close, Calls, User, At
  <2> QED
    BY <1>1, <2>2, OneMoves, FilesKeepObj
<1>13. ASSUME NEW fd \in Fd, Dup(p, fd)
       PROVE  KeepsObj /\ \A q \in Process : Calm(q)
  BY <1>1, <1>13, FilesKeepObj DEF Dup, Calm
<1> QED
  BY <1>4, <1>5, <1>6, <1>8, <1>9, <1>10, <1>11, <1>12, <1>13

LEMMA ForkRefines ==
  ASSUME IInv, IInv', NEW p \in Process, NEW child \in Process, NEW pi \in PipeId,
         Fork(p, child)
  PROVE  Implements(pi)
<1>1. TypeOK /\ FileTypeOK
  BY DEF IInv, TypeOK, FilesTypeOK, FileTypeOK
<1>2. KeepsObj
  BY <1>1 DEF Fork, FilesFork, KeepsObj, FileTypeOK
<1>3. SamePipe(pi)
  BY DEF SamePipe, Fork
<1>4. /\ thread' = [thread EXCEPT ![child] = User] /\ User.at # "r_return"
      /\ thread[child].at # "r_return"
  BY DEF Fork, User, At
<1> QED
  BY <1>1, <1>2, <1>3, <1>4, OneMoves, QuietStep

LEMMA CallsRefine ==
  ASSUME IInv, IInv', NEW p \in Process, NEW pi \in PipeId,
         Kill(p) \/ \E fd \in Fd, n \in Counts : Read(p, fd, n) \/ Write(p, fd, n)
  PROVE  Implements(pi)
<1>1. TypeOK /\ thread[p] \in Thread
  BY DEF IInv, TypeOK
<1>2. SamePipe(pi) /\ UNCHANGED ftable
  BY DEF SamePipe, Kill, Read, Write
<1>3. SUFFICES \A q \in Process : Calm(q)
  BY <1>1, <1>2, FilesKeepObj, QuietStep
<1>4. ASSUME NEW fd \in Fd, NEW n \in Counts, Read(p, fd, n) \/ Write(p, fd, n)
      PROVE  \A q \in Process : Calm(q)
  <2>1. PICK l, f, t : /\ t = [User EXCEPT !.at = l, !.f = f, !.n = n]
                       /\ l \in {"read", "write"} /\ thread' = [thread EXCEPT ![p] = t]
    BY <1>4 DEF Read, Write
  <2>2. t.at # "r_return" /\ thread[p].at # "r_return"
    BY <1>4, <2>1 DEF User, Read, Write, Calls, At
  <2> QED
    BY <1>1, <2>1, <2>2, OneMoves
<1>5. CASE Kill(p)
  <2>1. PICK l : l = IF thread[p].at \in DOMAIN WakeAt THEN WakeAt[thread[p].at] ELSE thread[p].at
    OBVIOUS
  <2>2. PICK t : t = [thread[p] EXCEPT !.at = l]
    OBVIOUS
  <2>3. thread' = [thread EXCEPT ![p] = t]
    BY <1>5, <2>1, <2>2 DEF Kill
  <2>4. thread'[p] = t /\ \A q \in Process : q # p => Calm(q)
    BY <1>1, <2>3, OneMoves
  <2>5. l = thread[p].at => t = thread[p]
    BY <1>1, <2>2 DEF Thread
  <2>6. t.at = l /\ (l # thread[p].at => l # "r_return" /\ thread[p].at # "r_return")
    BY <1>1, <2>1, <2>2 DEF WakeAt, Thread
  <2> QED
    BY <2>4, <2>5, <2>6 DEF Calm
<1> QED
  BY <1>4, <1>5
(* Steps that take the lock or give it back, and move no byte.             *)
LEMMA LocksRefine ==
  ASSUME IInv, IInv', UNCHANGED ftable, \A q \in Process : Calm(q), NEW pi \in PipeId,
         NEW l \in Process \union {NoProcess}, pipe' = [pipe EXCEPT ![pi].lock = l]
  PROVE  \A x \in PipeId : Implements(x)
<1>1. TypeOK
  BY DEF IInv
<1>2. \A x \in PipeId : SamePipe(x)
  BY <1>1, Locks DEF SamePipe
<1>3. KeepsObj
  BY <1>1, FilesKeepObj
<1> QED
  BY <1>2, <1>3, QuietStep

LEMMA SleepsRefine ==
  ASSUME IInv, IInv', NEW p \in Process,
         ReadWaits(p) \/ ReadSleeps(p) \/ WriteBreaks(p) \/ WriteWaits(p) \/ WriteSleeps(p)
           \/ WriteFaults(p)
  PROVE  \A x \in PipeId : Implements(x)
<1>1. TypeOK /\ thread[p] \in Thread
  BY DEF IInv, TypeOK
<1>2. thread[p].at \in {"read", "r_sleep", "write", "w_loop", "w_sleep"} /\ InPipe(p)
  BY DEF ReadWaits, ReadSleeps, WriteBreaks, WriteWaits, WriteSleeps, WriteFaults, InLoop, At,
         InPipe, Reading, Writing
<1>3. PICK pi \in PipeId : pi = Obj(p)
  BY <1>2, Uses
<1>4. User.at # "r_return" /\ User.at # "r_asleep"
  BY DEF User
<1>5. ASSUME NEW l \in {"r_sleep", "r_asleep", "w_asleep"}, thread' = Goto(p, l)
      PROVE  \A q \in Process : Calm(q)
  <2>1. PICK t : t = [thread[p] EXCEPT !.at = l]
    OBVIOUS
  <2>2. t.at # "r_return" /\ thread' = [thread EXCEPT ![p] = t]
    BY <1>1, <1>5, <2>1 DEF Goto, Thread
  <2> QED
    BY <1>1, <1>2, <2>2, OneMoves
<1>6. ASSUME thread' = Return(p)
      PROVE  \A q \in Process : Calm(q)
  BY <1>1, <1>2, <1>4, <1>6, OneMoves DEF Return
<1>7. /\ \A q \in Process : Calm(q)
      /\ UNCHANGED ftable
      /\ \E l \in Process \union {NoProcess} : pipe' = [pipe EXCEPT ![pi].lock = l]
  <2>1. CASE ReadWaits(p)
    <3>1. CASE thread' = Return(p) /\ UNCHANGED pipe /\ pipe[pi].lock = NoProcess
      <4>1. pipe' = [pipe EXCEPT ![pi].lock = NoProcess]
        <5>1. pipe[pi] = [pipe[pi] EXCEPT !.lock = NoProcess]
          BY <1>1, <3>1 DEF TypeOK, StructPipe
        <5> QED
          BY <1>1, <3>1, <5>1 DEF TypeOK
      <4> QED
        BY <1>6, <2>1, <3>1, <4>1 DEF ReadWaits
    <3>2. CASE thread' = Goto(p, "r_sleep") /\ pipe' = [pipe EXCEPT ![pi].lock = p]
      BY <1>5, <2>1, <3>2 DEF ReadWaits
    <3> QED
      BY <1>3, <2>1, <3>1, <3>2 DEF ReadWaits
  <2>2. CASE ReadSleeps(p)
    BY <1>3, <1>5, <2>2 DEF ReadSleeps
  <2>3. CASE WriteBreaks(p)
    BY <1>3, <1>6, <2>3 DEF WriteBreaks
  <2>4. CASE WriteWaits(p)
    <3>1. PICK t : t = [thread[p] EXCEPT !.at = "w_sleep", !.i = 0]
      OBVIOUS
    <3>2. /\ thread' = Wake([thread EXCEPT ![p] = t], pi, "r_asleep")
          /\ pipe' = [pipe EXCEPT ![pi].lock = p] /\ UNCHANGED ftable
      BY <1>3, <2>4, <3>1, Zenon DEF WriteWaits
    <3>3. t.at = "w_sleep"
      BY <1>1, <3>1 DEF Thread
    <3>4. \A q \in Process : Calm(q)
      BY <1>1, <1>2, <3>2, <3>3, OneWakes
    <3> QED
      BY <3>2, <3>4
  <2>5. CASE WriteSleeps(p)
    BY <1>3, <1>5, <2>5 DEF WriteSleeps
  <2>6. CASE WriteFaults(p)
    <3>1. /\ thread' = Wake([thread EXCEPT ![p] = User], pi, "r_asleep")
          /\ pipe' = [pipe EXCEPT ![pi].lock = NoProcess] /\ UNCHANGED ftable
      BY <1>3, <2>6 DEF WriteFaults, WriteEnds, Return
    <3>2. \A q \in Process : Calm(q)
      BY <1>1, <1>2, <1>4, <3>1, OneWakes
    <3> QED
      BY <3>1, <3>2
  <2> QED
    BY <2>1, <2>2, <2>3, <2>4, <2>5, <2>6
<1> QED
  BY <1>7, LocksRefine
(* A pipe's record as the ring sees it.                                    *)
LEMMA PipeParts ==
  ASSUME IInv, NEW pi \in PipeId, NEW x, x = pipe[pi]
  PROVE  /\ x \in StructPipe /\ x.nread \in Byte /\ x.nwrite \in Byte
         /\ x.data \in [0..PIPESIZE - 1 -> Byte]
         /\ (x.nwrite - x.nread) % UintMod \in Byte
         /\ (x.nwrite - x.nread) % UintMod \in Nat
         /\ (x.nwrite - x.nread) % UintMod <= PIPESIZE
         /\ x.used => /\ QueueOf(x) = Window(x.data, x.nread, (x.nwrite - x.nread) % UintMod)
                      /\ Len(QueueOf(x)) = (x.nwrite - x.nread) % UintMod
         /\ x.readopen \/ x.writeopen => x.used
<1>1. /\ x \in StructPipe /\ x.nread \in Byte /\ x.nwrite \in Byte
      /\ x.data \in [0..PIPESIZE - 1 -> Byte]
  BY DEF IInv, TypeOK, StructPipe
<1>2. PICK h \in Byte : h = (x.nwrite - x.nread) % UintMod
  BY <1>1, RingSteps
<1>3. h <= PIPESIZE /\ h \in Nat /\ x.nread \in Nat
  BY <1>1, <1>2 DEF IInv, RingInv, Held, Byte
<1>4. Window(x.data, x.nread, h) \in Seq(Byte) /\ Len(Window(x.data, x.nread, h)) = h
  <2>1. IsWindow(Window(x.data, x.nread, h), x.data, x.nread, h)
    BY <1>1, <1>3, WindowOf, Zenon
  <2> QED
    BY <2>1 DEF IsWindow
<1>5. x.used => QueueOf(x) = Window(x.data, x.nread, h)
  BY <1>2 DEF QueueOf, Window
<1>6. x.readopen \/ x.writeopen => x.used
  BY DEF IInv, EndInv
<1> QED
  BY <1>1, <1>2, <1>3, <1>4, <1>5, <1>6

LEMMA NotNone == \A s \in Seq(Byte) : s # NoAnswer
<1> SUFFICES ASSUME NEW s \in Seq(Byte), s = <<-1>>
             PROVE  FALSE
  BY DEF NoAnswer
<1>1. s[1] = -1 /\ Len(s) = 1
  OBVIOUS
<1>2. s[1] \in Byte
  BY <1>1
<1> QED
  BY <1>1, <1>2 DEF Byte

LEMMA ReadReturnsRefines ==
  ASSUME IInv, IInv', NEW p \in Process, ReadReturns(p)
  PROVE  \A x \in PipeId : Implements(x)
<1>1. /\ TypeOK /\ thread[p] \in Thread /\ KeepsObj /\ thread[p].at = "r_return"
      /\ UNCHANGED <<ftable, pipe>>
  BY DEF IInv, TypeOK, ReadReturns, KeepsObj, At
<1>2. PICK pi \in PipeId : pi = Obj(p)
  BY <1>1, Uses DEF InPipe, Reading
<1>3. thread'[p] = User /\ \A q \in Process : q # p => Calm(q)
  BY <1>1, OneMoves DEF ReadReturns, Return
<1>4. thread[p].got \in Seq(Byte)
  BY <1>1 DEF Thread
<1>5. /\ Answer(p, pi) # NoAnswer
      /\ \A x \in PipeId : x # pi => Answer(p, x) = NoAnswer
      /\ \A x \in PipeId : Answer(p, x)' = NoAnswer
  BY <1>1, <1>2, <1>3, <1>4, NotNone DEF Answer, At, User
<1>6. ASSUME NEW x \in PipeId
      PROVE  /\ QueueOf(pipe'[x]) = QueueOf(pipe[x])
             /\ pipe'[x].readopen = pipe[x].readopen /\ pipe'[x].writeopen = pipe[x].writeopen
             /\ \A q \in Process : q # p => Answer(q, x)' = Answer(q, x)
  BY <1>1, <1>3, AnswerKept
<1>7. Implements(pi)
  BY <1>5, <1>6, Answers
<1>8. ASSUME NEW x \in PipeId, x # pi
      PROVE  Implements(x)
  <2>1. \A q \in Process : Answer(q, x)' = Answer(q, x)
    BY <1>5, <1>6, <1>8
  <2> QED
    BY <1>6, <2>1, Stutters
<1> QED
  BY <1>7, <1>8

(* Between two bytes of a write the lock is kept; each byte is a step.     *)
LEMMA WriteByteRefines ==
  ASSUME IInv, IInv', NEW p \in Process, WriteByte(p)
  PROVE  \A x \in PipeId : Implements(x)
<1>1. /\ TypeOK /\ thread[p] \in Thread /\ KeepsObj /\ thread[p].at \in {"write", "w_loop"}
      /\ InPipe(p)
  BY WorksIn DEF IInv, TypeOK, WriteByte, KeepsObj
<1>2. PICK pi \in PipeId : pi = Obj(p)
  BY <1>1, Uses
<1>3. PICK x \in StructPipe : x = pipe[pi]
  BY <1>1 DEF TypeOK
<1>4. PICK r \in Byte, w \in Byte, d \in [0..PIPESIZE - 1 -> Byte] :
        r = x.nread /\ w = x.nwrite /\ d = x.data
  BY DEF StructPipe
<1>5. PICK h \in Nat : /\ h = (w - r) % UintMod /\ h <= PIPESIZE
                       /\ x.used => QueueOf(x) = Window(d, r, h) /\ Len(QueueOf(x)) = h
                       /\ x.readopen \/ x.writeopen => x.used
  BY <1>3, <1>4, PipeParts
<1>6. PICK e, l : /\ e = [d EXCEPT ![w % PIPESIZE] = w]
                  /\ l = IF thread[p].n = 1 THEN NoProcess ELSE p
  OBVIOUS
<1>7. PICK y : y = [x EXCEPT !.data = e, !.nwrite = (w + 1) % UintMod, !.lock = l]
  OBVIOUS
<1>8. pipe' = [pipe EXCEPT ![pi] = y]
  <2>1. pipe' = [pipe EXCEPT ![pi] =
                  [@ EXCEPT !.data = [pipe[pi].data EXCEPT ![pipe[pi].nwrite % PIPESIZE] =
                                        pipe[pi].nwrite],
                            !.nwrite = (pipe[pi].nwrite + 1) % UintMod,
                            !.lock = IF thread[p].n = 1 THEN NoProcess ELSE p]]
    BY <1>2 DEF WriteByte
  <2> QED
    BY <1>3, <1>4, <1>6, <1>7, <2>1, Zenon
<1>9. pipe'[pi] = y /\ \A z \in PipeId : z # pi => pipe'[z] = pipe[z]
  BY <1>1, <1>8 DEF TypeOK
<1>10. x.readopen /\ x.writeopen /\ h # PIPESIZE /\ x.used
  <2>1. x.readopen /\ ~ Occupied(pi)
    BY <1>2, <1>3 DEF WriteByte, Broken
  <2>2. w # (r + PIPESIZE) % UintMod
    BY <1>3, <1>4, <2>1 DEF Occupied
  <2>3. h # PIPESIZE
    BY <1>5, <2>2, RingSteps
  <2>4. x.writeopen
    BY <1>1, <1>2, <1>3, Uses DEF Writing
  <2> QED
    BY <1>5, <2>1, <2>3, <2>4
<1>11. h < PIPESIZE
  BY <1>5, <1>10
<1>12. Stores(e, d, w)
  <2>1. w % PIPESIZE \in 0..PIPESIZE - 1
    BY DEF Byte
  <2> QED
    BY <1>6, <2>1 DEF Stores
<1>13. Grows(e, d, r, w, h)
  <2>1. h = (w - r) % UintMod /\ h < PIPESIZE
    BY <1>5, <1>11
  <2> QED
    BY <1>12, <2>1, WindowGrows, Zenon
<1>14. /\ y.used = x.used /\ y.data = e /\ y.nread = r /\ y.nwrite = (w + 1) % UintMod
       /\ y.readopen = x.readopen /\ y.writeopen = x.writeopen
  BY <1>4, <1>7 DEF StructPipe
<1>15. (((w + 1) % UintMod) - r) % UintMod = h + 1
  BY <1>5, <1>11, RingSteps
<1>16. QueueOf(y) = Window(e, r, h + 1)
  BY <1>10, <1>14, <1>15 DEF QueueOf, Window
<1>17. \A q \in Process : Calm(q)
  <2>1. CASE thread[p].n = 1 /\ WriteEnds(p, pi)
    <3>1. User.at # "r_return" /\ User.at # "r_asleep"
      BY DEF User
    <3>2. thread' = Wake([thread EXCEPT ![p] = User], pi, "r_asleep")
      BY <2>1 DEF WriteEnds, Return
    <3> QED
      BY <1>1, <3>1, <3>2, OneWakes
  <2>2. CASE thread' = [thread EXCEPT ![p] = [@ EXCEPT !.at = "w_loop",
                                                       !.n = thread[p].n - 1, !.i = 1]]
    <3>1. PICK t : t = [thread[p] EXCEPT !.at = "w_loop", !.n = thread[p].n - 1, !.i = 1]
      OBVIOUS
    <3>2. thread' = [thread EXCEPT ![p] = t]
      BY <2>2, <3>1, Zenon
    <3>3. t.at # "r_return"
      BY <1>1, <3>1 DEF Thread
    <3> QED
      BY <1>1, <3>2, <3>3, OneMoves
  <2> QED
    BY <1>2, <2>1, <2>2 DEF WriteByte
<1>18. \A z \in PipeId, q \in Process : Answer(q, z)' = Answer(q, z)
  BY <1>1, <1>17, AnswerKept
<1>19. Implements(pi)
  <2>1. /\ pipe[pi].readopen /\ pipe[pi].writeopen /\ Len(QueueOf(pipe[pi])) < PIPESIZE
        /\ QueueOf(pipe'[pi]) = Append(QueueOf(pipe[pi]), w)
        /\ pipe'[pi].readopen = pipe[pi].readopen /\ pipe'[pi].writeopen = pipe[pi].writeopen
    BY <1>3, <1>5, <1>9, <1>10, <1>11, <1>13, <1>14, <1>16 DEF Grows
  <2> QED
    BY <1>18, <2>1, Puts
<1>20. ASSUME NEW z \in PipeId, z # pi
       PROVE  Implements(z)
  BY <1>9, <1>18, <1>20, Stutters
<1> QED
  BY <1>19, <1>20
LEMMA ReadCopyRefines ==
  ASSUME IInv, IInv', NEW p \in Process, At(p, "read"), ~ MustWait(Obj(p)),
         NEW k \in Nat, k <= Held(Obj(p)), k = 0 => Held(Obj(p)) = 0, ReadCopy(p, k),
         UNCHANGED ftable
  PROVE  \A x \in PipeId : Implements(x)
<1>1. /\ TypeOK /\ thread[p] \in Thread /\ KeepsObj /\ thread[p].at = "read" /\ InPipe(p)
  BY DEF IInv, TypeOK, KeepsObj, At, InPipe, Reading
<1>2. PICK pi \in PipeId : pi = Obj(p)
  BY <1>1, Uses
<1>3. PICK x \in StructPipe : x = pipe[pi]
  BY <1>1 DEF TypeOK
<1>4. PICK r \in Byte, w \in Byte, d \in [0..PIPESIZE - 1 -> Byte] :
        r = x.nread /\ w = x.nwrite /\ d = x.data
  BY DEF StructPipe
<1>5. PICK h \in Nat : /\ h = (w - r) % UintMod /\ h <= PIPESIZE
                       /\ x.used => QueueOf(x) = Window(d, r, h) /\ Len(QueueOf(x)) = h
                       /\ x.readopen \/ x.writeopen => x.used
  BY <1>3, <1>4, PipeParts
<1>6. k <= h /\ (k = 0 => h = 0)
  BY <1>2, <1>3, <1>4, <1>5 DEF Held
<1>7. PICK m : m = (r + k) % UintMod
  OBVIOUS
<1>8. m \in Byte /\ (w - m) % UintMod = h - k
  BY <1>5, <1>6, <1>7, RingSteps
<1>9. PICK y : y = [x EXCEPT !.nread = m]
  OBVIOUS
<1>10. pipe' = [pipe EXCEPT ![pi] = y]
  BY <1>2, <1>3, <1>4, <1>7, <1>9 DEF ReadCopy
<1>11. pipe'[pi] = y /\ \A z \in PipeId : z # pi => pipe'[z] = pipe[z]
  BY <1>1, <1>10 DEF TypeOK
<1>12. x.readopen /\ x.used
  BY <1>1, <1>2, <1>3, Uses DEF Reading
<1>13. /\ y.used = x.used /\ y.data = d /\ y.nread = m /\ y.nwrite = w
       /\ y.readopen = x.readopen /\ y.writeopen = x.writeopen
  BY <1>4, <1>9 DEF StructPipe
<1>14. QueueOf(y) = Window(d, m, h - k)
  BY <1>8, <1>12, <1>13 DEF QueueOf, Window
<1>15. PICK q, g : q = QueueOf(x) /\ g = Window(d, r, k)
  OBVIOUS
<1>16. /\ q = Window(d, r, h) /\ Len(q) = h
       /\ QueueOf(y) = SubSeq(q, k + 1, h) /\ g = SubSeq(q, 1, k)
  <2>1. q = Window(d, r, h) /\ Len(q) = h
    BY <1>5, <1>12, <1>15
  <2>2. /\ Window(d, (r + k) % UintMod, h - k) = SubSeq(Window(d, r, h), k + 1, h)
        /\ Window(d, r, k) = SubSeq(Window(d, r, h), 1, k)
    <3>1. h = (w - r) % UintMod /\ h <= PIPESIZE /\ k <= h
      BY <1>5, <1>6
    <3>2. Splits(d, r, h, k)
      BY <3>1, WindowSplits
    <3> QED
      BY <3>2, Zenon DEF Splits
  <2>3. QueueOf(y) = SubSeq(q, k + 1, h)
    BY <1>7, <1>14, <2>1, <2>2, Zenon
  <2>4. g = SubSeq(q, 1, k)
    BY <1>15, <2>1, <2>2, Zenon
  <2> QED
    BY <2>1, <2>3, <2>4
<1>17. PICK t : t = [thread[p] EXCEPT !.at = "r_return", !.got = g]
  OBVIOUS
<1>18. thread' = Wake([thread EXCEPT ![p] = t], pi, "w_asleep")
  <2>1. Taken(pi, k) = g
    BY <1>3, <1>4, <1>15 DEF Taken, Window
  <2>2. thread' = Wake([thread EXCEPT ![p] = [@ EXCEPT !.at = "r_return", !.got = Taken(pi, k)]],
                       pi, "w_asleep")
    BY <1>2, Zenon DEF ReadCopy
  <2> QED
    BY <1>17, <2>1, <2>2, Zenon
<1>19. t.at = "r_return" /\ t.got = g /\ t.f = thread[p].f
  BY <1>1, <1>17 DEF Thread
<1>20. thread'[p] = t /\ \A o \in Process : o # p => Calm(o)
  BY <1>1, <1>18, <1>19, OneWakes
<1>21. \A z \in PipeId, o \in Process : o # p => Answer(o, z)' = Answer(o, z)
  BY <1>1, <1>20, AnswerKept
<1>22. /\ \A z \in PipeId : Answer(p, z) = NoAnswer
       /\ \A z \in PipeId : z # pi => Answer(p, z)' = NoAnswer
       /\ Answer(p, pi)' = g
  BY <1>1, <1>2, <1>19, <1>20 DEF Answer, At, Obj
<1>23. k = 0 => QueueOf(pipe[pi]) = << >> /\ ~ pipe[pi].writeopen
  <2>1. SUFFICES ASSUME k = 0
                 PROVE  QueueOf(pipe[pi]) = << >> /\ ~ pipe[pi].writeopen
    OBVIOUS
  <2>2. h = 0
    BY <1>6, <2>1
  <2>3. Window(d, r, 0) = << >>
    BY DEF Window
  <2>4. w = r
    BY <1>5, <2>2, RingSteps
  <2> QED
    BY <1>2, <1>3, <1>4, <1>15, <1>16, <2>2, <2>3, <2>4 DEF MustWait, Vacant
<1>24. Implements(pi)
  <2>1. /\ k \in 0..Len(QueueOf(pipe[pi]))
        /\ pipe[pi].readopen
        /\ QueueOf(pipe'[pi]) = SubSeq(QueueOf(pipe[pi]), k + 1, Len(QueueOf(pipe[pi])))
        /\ pipe'[pi].readopen = pipe[pi].readopen /\ pipe'[pi].writeopen = pipe[pi].writeopen
        /\ Answer(p, pi)' = SubSeq(QueueOf(pipe[pi]), 1, k)
    BY <1>3, <1>6, <1>11, <1>12, <1>13, <1>15, <1>16, <1>22
  <2> QED
    BY <1>21, <1>22, <1>23, <2>1, Gets
<1>25. ASSUME NEW z \in PipeId, z # pi
       PROVE  Implements(z)
  <2>1. \A o \in Process : Answer(o, z)' = Answer(o, z)
    BY <1>21, <1>22, <1>25
  <2> QED
    BY <1>11, <1>25, <2>1, Stutters
<1> QED
  BY <1>24, <1>25

LEMMA ReadTakesRefines ==
  ASSUME IInv, IInv', NEW p \in Process, ReadTakes(p)
  PROVE  \A x \in PipeId : Implements(x)
<1>1. /\ InPipe(p) /\ At(p, "read") /\ TypeOK /\ thread[p] \in Thread
  BY DEF ReadTakes, At, InPipe, Reading, IInv, TypeOK
<1>2. PICK pi \in PipeId : pi = Obj(p)
  BY <1>1, Uses
<1>3. PICK h \in Nat : h = Held(pi)
  BY <1>1, HeldIsByte
<1>4. PICK most \in Nat : /\ most = Min({h, thread[p].n}) /\ most <= h
                          /\ most = 0 => h = 0
  <2>1. thread[p].n \in Nat /\ thread[p].n > 0
    BY <1>1 DEF Thread, At, IInv, UseInv
  <2>2. PICK n \in Nat : n = thread[p].n /\ n > 0
    BY <2>1
  <2>3. Min({h, n}) \in {h, n}
    <3>1. {h, n} \in SUBSET Nat /\ {h, n} # {}
      OBVIOUS
    <3> QED
      BY <3>1, LeastIsIn, Zenon
  <2>4. Min({h, n}) \in Nat /\ Min({h, n}) <= h
    BY LesserOfTwo
  <2> QED
    BY <2>2, <2>3, <2>4
<1>5. /\ pipe[pi].lock = NoProcess /\ ~ MustWait(pi) /\ UNCHANGED <<ftable, ofile, killed, torn>>
  BY <1>2 DEF ReadTakes
<1>6. CASE ReadCopy(p, most)
  <2>1. most <= Held(Obj(p)) /\ (most = 0 => Held(Obj(p)) = 0) /\ ~ MustWait(Obj(p))
    BY <1>2, <1>3, <1>4, <1>5
  <2> QED
    BY <1>1, <1>5, <1>6, <2>1, ReadCopyRefines
<1>7. CASE \E k \in 1..most - 1 : ReadCopy(p, k)
  <2>1. PICK k \in 1..most - 1 : ReadCopy(p, k)
    BY <1>7
  <2>2. k \in Nat /\ k <= h /\ k # 0
    BY <1>4
  <2>3. k <= Held(Obj(p)) /\ (k = 0 => Held(Obj(p)) = 0) /\ ~ MustWait(Obj(p))
    BY <1>2, <1>3, <1>5, <2>2
  <2> QED
    BY <1>1, <1>5, <2>1, <2>2, <2>3, ReadCopyRefines
<1>8. CASE thread' = Wake(Return(p), pi, "w_asleep") /\ UNCHANGED pipe
  <2>1. User.at # "w_asleep" /\ User.at # "r_return"
    BY DEF User
  <2>2. \A q \in Process : Calm(q)
    BY <1>1, <1>8, <2>1, OneWakes DEF Return, At
  <2>3. \A x \in PipeId : SamePipe(x)
    BY <1>8 DEF SamePipe
  <2>4. KeepsObj
    BY <1>5 DEF KeepsObj
  <2> QED
    BY <2>2, <2>3, <2>4, QuietStep
<1> QED
  BY <1>2, <1>3, <1>4, <1>6, <1>7, <1>8 DEF ReadTakes

LEMMA PipeMakeRefines ==
  ASSUME IInv, IInv', NEW p \in Process, NEW pi \in PipeId, PipeMake(p, pi)
  PROVE  \A x \in PipeId : Implements(x)
<1>1. /\ thread[p].at = "pipe_page" /\ ~ pipe[pi].used /\ TypeOK /\ FileTypeOK
      /\ pipe' = [pipe EXCEPT ![pi] = [NoPipe EXCEPT !.used = TRUE, !.readopen = TRUE,
                                                     !.writeopen = TRUE]]
  BY DEF PipeMake, At, IInv, TypeOK, FilesTypeOK, FileTypeOK
<1>2. PICK f \in File, g \in File :
        /\ thread[p].held = <<f, g>> /\ f # g
        /\ ftable[f].type = "none" /\ ftable[g].type = "none"
  BY <1>1, TwoFiles
<1>3. ftable' = Ends(f, g, pi)
  <2>1. thread[p].held[1] = f /\ thread[p].held[2] = g
    BY <1>2
  <2> QED
    BY <2>1 DEF PipeMake
<1>4. KeepsObj
  <2>1. \A x \in File : x # f /\ x # g => ftable'[x] = ftable[x]
    BY <1>1, <1>2, <1>3, EndsAre
  <2> QED
    BY <1>2, <2>1 DEF KeepsObj
<1>5. \A q \in Process : Calm(q)
  <2>1. /\ \A q \in Process : q # p => thread'[q] = thread[q]
        /\ ~ InPipe(p)'
    BY <1>2, MakerGoesOn
  <2> QED
    BY <1>1, <2>1 DEF Calm, InPipe, Reading
<1>6. \A x \in PipeId, q \in Process : Answer(q, x)' = Answer(q, x)
  BY <1>4, <1>5, AnswerKept
<1>7. PICK y : y = [NoPipe EXCEPT !.used = TRUE, !.readopen = TRUE, !.writeopen = TRUE]
  OBVIOUS
<1>8. pipe'[pi] = y /\ \A z \in PipeId : z # pi => pipe'[z] = pipe[z]
  BY <1>1, <1>7 DEF TypeOK
<1>9. y.used = TRUE /\ y.readopen = TRUE /\ y.writeopen = TRUE /\ y.nread = 0 /\ y.nwrite = 0
  BY <1>7 DEF NoPipe
<1>10. QueueOf(y) = << >>
  <2>1. (0 - 0) % UintMod = 0
    <3>1. 0 \in Byte
      BY DEF Byte
    <3> QED
      BY <3>1, RingSteps
  <2>2. QueueOf(y) = [i \in 1..0 |-> y.data[(y.nread + i - 1) % PIPESIZE]]
    BY <1>9, <2>1 DEF QueueOf
  <2> QED
    BY <2>2
<1>11. Implements(pi)
  <2>1. ~ pipe[pi].readopen /\ ~ pipe[pi].writeopen
    BY <1>1 DEF IInv, EndInv
  <2> QED
    BY <1>6, <1>8, <1>9, <1>10, <2>1, Opens
<1>12. ASSUME NEW z \in PipeId, z # pi
       PROVE  Implements(z)
  BY <1>6, <1>8, <1>12, Stutters
<1> QED
  BY <1>11, <1>12

LEMMA PipeCloseRefines ==
  ASSUME IInv, IInv', NEW p \in Process, PipeClose(p)
  PROVE  \A x \in PipeId : Implements(x)
<1>1. /\ thread[p].at = "pipeclose" /\ TypeOK /\ thread[p] \in Thread /\ KeepsObj
  BY DEF PipeClose, At, IInv, TypeOK, KeepsObj
<1>2. PICK pi \in PipeId, w \in BOOLEAN : pi = thread[p].obj /\ w = thread[p].writable
  BY <1>1 DEF IInv, HeldInv, Thread
<1>3. PICK place \in {"r_asleep", "w_asleep"} :
        /\ pipe' = [pipe EXCEPT ![pi] = WithoutEnd(@, w)]
        /\ thread' = Wake(Reclosing(p), pi, place)
  BY <1>2 DEF PipeClose
<1>4. PICK t : t = [thread[p] EXCEPT !.at = "closing", !.obj = NoObject, !.writable = FALSE]
  OBVIOUS
<1>5. t.at # "r_return" /\ t.at # place
  BY <1>1, <1>4 DEF Thread
<1>6. \A q \in Process : Calm(q)
  <2>1. thread' = Wake([thread EXCEPT ![p] = t], pi, place)
    BY <1>3, <1>4, Zenon DEF Reclosing
  <2> QED
    BY <1>1, <1>5, <2>1, OneWakes
<1>7. \A x \in PipeId, q \in Process : Answer(q, x)' = Answer(q, x)
  BY <1>1, <1>6, AnswerKept
<1>8. IsOpen(pi, w)
  BY <1>1, <1>2 DEF IInv, EndInv, ClosesEnd
<1>9. PICK x \in StructPipe : x = pipe[pi]
  BY <1>1 DEF TypeOK
<1>10. PICK y : y = WithoutEnd(x, w)
  OBVIOUS
<1>11. pipe'[pi] = y /\ \A z \in PipeId : z # pi => pipe'[z] = pipe[z]
  BY <1>1, <1>3, <1>9, <1>10 DEF TypeOK
<1>12. NoPipe.used = FALSE /\ NoPipe.readopen = FALSE /\ NoPipe.writeopen = FALSE
  BY DEF NoPipe
<1>13. QueueOf(NoPipe) = << >>
  BY <1>12 DEF QueueOf
<1>14. x.readopen \in BOOLEAN /\ x.writeopen \in BOOLEAN
  BY DEF StructPipe
<1>15. ASSUME w
       PROVE  Implements(pi)
  <2>1. CASE x.readopen
    <3>1. y = [x EXCEPT !.writeopen = FALSE]
      BY <1>10, <1>15, <2>1 DEF WithoutEnd
    <3>2. /\ y.readopen = x.readopen /\ y.writeopen = FALSE /\ y.used = x.used
          /\ y.nread = x.nread /\ y.nwrite = x.nwrite /\ y.data = x.data
      BY <3>1 DEF StructPipe
    <3>3. QueueOf(y) = QueueOf(x)
      BY <3>2 DEF QueueOf
    <3>4. /\ IsOpen(pi, w)' = FALSE /\ IsOpen(pi, ~ w)' = IsOpen(pi, ~ w)
          /\ QueueOf(pipe'[pi]) = IF IsOpen(pi, ~ w) THEN QueueOf(pipe[pi]) ELSE << >>
      BY <1>9, <1>11, <1>15, <2>1, <3>2, <3>3 DEF IsOpen
    <3> QED
      BY <1>7, <1>8, <3>4, Shutting
  <2>2. CASE ~ x.readopen
    <3>1. y = NoPipe
      BY <1>10, <1>15, <2>2 DEF WithoutEnd
    <3>2. /\ IsOpen(pi, w)' = FALSE /\ IsOpen(pi, ~ w)' = IsOpen(pi, ~ w)
          /\ QueueOf(pipe'[pi]) = IF IsOpen(pi, ~ w) THEN QueueOf(pipe[pi]) ELSE << >>
      BY <1>9, <1>11, <1>12, <1>13, <1>14, <1>15, <2>2, <3>1 DEF IsOpen
    <3> QED
      BY <1>7, <1>8, <3>2, Shutting
  <2> QED
    BY <2>1, <2>2
<1>16. ASSUME ~ w
       PROVE  Implements(pi)
  <2>1. CASE x.writeopen
    <3>1. y = [x EXCEPT !.readopen = FALSE]
      BY <1>10, <1>16, <2>1 DEF WithoutEnd
    <3>2. /\ y.writeopen = x.writeopen /\ y.readopen = FALSE /\ y.used = x.used
          /\ y.nread = x.nread /\ y.nwrite = x.nwrite /\ y.data = x.data
      BY <3>1 DEF StructPipe
    <3>3. QueueOf(y) = QueueOf(x)
      BY <3>2 DEF QueueOf
    <3>4. /\ IsOpen(pi, w)' = FALSE /\ IsOpen(pi, ~ w)' = IsOpen(pi, ~ w)
          /\ QueueOf(pipe'[pi]) = IF IsOpen(pi, ~ w) THEN QueueOf(pipe[pi]) ELSE << >>
      BY <1>9, <1>11, <1>16, <2>1, <3>2, <3>3 DEF IsOpen
    <3> QED
      BY <1>7, <1>8, <3>4, Shutting
  <2>2. CASE ~ x.writeopen
    <3>1. y = NoPipe
      BY <1>10, <1>16, <2>2 DEF WithoutEnd
    <3>2. /\ IsOpen(pi, w)' = FALSE /\ IsOpen(pi, ~ w)' = IsOpen(pi, ~ w)
          /\ QueueOf(pipe'[pi]) = IF IsOpen(pi, ~ w) THEN QueueOf(pipe[pi]) ELSE << >>
      BY <1>9, <1>11, <1>12, <1>13, <1>14, <1>16, <2>2, <3>1 DEF IsOpen
    <3> QED
      BY <1>7, <1>8, <3>2, Shutting
  <2> QED
    BY <2>1, <2>2
<1>17. Implements(pi)
  BY <1>15, <1>16
<1>18. ASSUME NEW z \in PipeId, z # pi
       PROVE  Implements(z)
  BY <1>7, <1>11, <1>18, Stutters
<1> QED
  BY <1>17, <1>18

LEMMA NextRefines == IInv /\ IInv' /\ [Next]_vars => \A x \in PipeId : Implements(x)
<1> SUFFICES ASSUME IInv, IInv', [Next]_vars
             PROVE  \A x \in PipeId : Implements(x)
  OBVIOUS
<1>1. CASE UNCHANGED vars
  <2>1. KeepsObj /\ (\A q \in Process : Calm(q)) /\ \A x \in PipeId : SamePipe(x)
    BY <1>1 DEF vars, KeepsObj, Calm, SamePipe
  <2> QED
    BY <2>1, QuietStep
<1>2. CASE Next
  <2>1. PICK p \in Process : KernelStep(p) \/ UserStep(p) \/ Kill(p)
    BY <1>2 DEF Next
  <2>2. CASE Pipealloc(p)
    BY <2>2, FilesRefine, PipeMakeRefines DEF Pipealloc
  <2>3. CASE Fileclose(p)
    BY <2>3, FilesRefine, PipeCloseRefines DEF Fileclose
  <2>4. CASE Piperead(p)
    BY <2>4, SleepsRefine, ReadTakesRefines, ReadReturnsRefines DEF Piperead
  <2>5. CASE Pipewrite(p)
    BY <2>5, SleepsRefine, WriteByteRefines DEF Pipewrite
  <2>6. CASE UserStep(p)
    BY <2>6, FilesRefine, CallsRefine, ForkRefines DEF UserStep
  <2>7. CASE Kill(p)
    BY <2>7, CallsRefine
  <2> QED
    BY <2>1, <2>2, <2>3, <2>4, <2>5, <2>6, <2>7 DEF KernelStep
<1> QED
  BY <1>1, <1>2

LEMMA InitRefines == Init => \A pi \in PipeId : Fifo(pi)!Init
<1> SUFFICES ASSUME Init, NEW pi \in PipeId
             PROVE  Fifo(pi)!Init
  OBVIOUS
<1>1. pipe[pi] = NoPipe /\ NoPipe.used = FALSE /\ NoPipe.readopen = FALSE /\ NoPipe.writeopen = FALSE
  BY DEF Init, NoPipe
<1>2. \A q \in Process : ~ At(q, "r_return")
  BY DEF Init, At, User, Absent
<1> QED
  BY <1>1, <1>2 DEF Fifo!Init

(* The ring of each pipe, with its wrapping counters and its two flags, is *)
(* a queue: what readers get is what writers put in, in this order and     *)
(* once, whatever readers, writers, closes and kills come between.         *)
THEOREM Refinement == Spec => ByteStream
<1>1. IInv /\ IInv' /\ [Next]_vars => [\A pi \in PipeId : [Fifo(pi)!Next]_(Fifo(pi)!vars)]_vars
  BY NextRefines DEF Implements
<1> QED
  BY <1>1, InitRefines, SpecIInv, PTL DEF Spec, ByteStream

=============================================================================
