------------------------------- MODULE LogProofs -------------------------------
(***************************************************************************)
(* The log's invariants, and that it implements CrashStore, for every set  *)
(* of processes and blocks, every size of the log, and crashes at every    *)
(* step.                                                                   *)
(***************************************************************************)
EXTENDS Log, FiniteSetTheorems, SequenceTheorems, TLAPS

-----------------------------------------------------------------------------
(* The inductive invariant                                                 *)

NoDup(s) == \A i, j \in DOMAIN s : s[i] = s[j] => i = j
Installing == \E p \in Process : call[p].at = "install"

(* Before recovery ends there are no calls.                                *)
Down ==
  /\ boot.at = "read_head" => lh = << >>
  /\ ~ Running =>
       /\ \A p \in Process : call[p].at = "idle"
       /\ pinned = {} /\ pending = {}
       /\ ~ committing

(* The slots begin_op set aside and their calls have not used: the number  *)
(* of these pairs is the sum, over the calls in progress, of MAXOPBLOCKS   *)
(* less what each wrote.                                                   *)
Reserve ==
  {pk \in InCall \X (1..MAXOPBLOCKS) : pk[2] > Cardinality(call[pk[1]].wrote)}

(* What a call wrote is logged, and the log has room for what is reserved. *)
RoomInv ==
  /\ \A p \in Process :
       /\ call[p].wrote # {} => call[p].at = "op"
       /\ call[p].wrote \subseteq Elements(lh)
       /\ Cardinality(call[p].wrote) <= OpBlocks
  /\ Len(lh) + Cardinality(Reserve) <= LOGBLOCKS
  /\ Running => Len(lh) < LOGBLOCKS

(* The header is empty except from the commit to the end of its            *)
(* installation, and the loops over the log stay inside it.                *)
HeadInv ==
  /\ NoDup(lh) /\ NoDup(head)
  /\ boot.at = "install" => lh = head /\ boot.tail <= Len(lh)
  /\ Running /\ Installing => head = lh
  /\ Running /\ ~ Installing => head = << >>
  /\ \A p \in Process :
       call[p].at \in {"write_log", "install"} => call[p].tail <= Len(lh)
  /\ \A p \in Process : call[p].at = "commit_end" => lh = << >>

(* A block is pinned from its log_write to its installation.               *)
PinInv ==
  /\ Running /\ ~ Installing => pinned = Elements(lh)
  /\ \A p \in Process :
       call[p].at = "install" => pinned = {lh[i] : i \in (call[p].tail + 1)..Len(lh)}

(* A pinned block is in the cache; any other is as its home on the disk.   *)
CacheInv ==
  /\ \A b \in pinned : cache[b] # NotCached
  /\ \A b \in Block \ pinned : cache[b] \in {NotCached, home[b]}

(* The log has the copies that write_log made, the homes those that        *)
(* install_trans did.                                                      *)
CopyInv ==
  /\ \A p \in Process :
       /\ call[p].at = "write_log" =>
            \A i \in 1..call[p].tail : slot[i] = cache[lh[i]]
       /\ call[p].at = "install" =>
            /\ \A i \in 1..call[p].tail : home[lh[i]] = slot[i]
            /\ \A i \in (call[p].tail + 1)..Len(lh) : cache[lh[i]] = slot[i]
  /\ boot.at = "install" => \A i \in 1..boot.tail : home[lh[i]] = slot[i]

InProgress(p) == call[p].at \in {"begin", "begin_sleep", "op"}
InSync(p) == call[p].at \in {"sync", "sync_sleep"}

(* The calls that ended and are not saved wrote to a log that is not empty;*)
(* a sync that began after one of them ended waits for a later commit.     *)
PendingInv ==
  /\ \A i \in pending : i <= ncalls
  /\ Running /\ lh = << >> => pending = {}
  /\ Installing => pending = {}
  /\ Running /\ pending # {} => committing \/ InCall # {}
  /\ \A p \in Process : InProgress(p) => call[p].id <= ncalls /\ call[p].id \notin pending
  /\ \A p, q \in Process :
       InProgress(p) /\ InProgress(q) /\ call[p].id = call[q].id => p = q
  /\ \A p, q \in Process :
       InSync(p) /\ InProgress(q) => call[q].id \notin call[p].behind
  /\ \A p \in Process :
       InSync(p) => /\ \A i \in call[p].behind : i <= ncalls
                    /\ call[p].behind \intersect pending # {} => ncommit < call[p].target

IInv ==
  /\ TypeOK
  /\ CommitsAlone
  /\ Down
  /\ RoomInv
  /\ HeadInv
  /\ PinInv
  /\ CacheInv
  /\ CopyInv
  /\ NoLostWakeup
  /\ PendingInv


USE LogAssumption DEF Running, At

-----------------------------------------------------------------------------
(* Sequences of blocks, and the calls in progress                          *)

LEMMA SeqFacts ==
  ASSUME NEW s \in Seq(Block)
  PROVE  /\ Len(s) \in Nat
         /\ DOMAIN s = 1..Len(s)
         /\ \A i \in 1..Len(s) : s[i] \in Block
         /\ Elements(s) = {s[i] : i \in 1..Len(s)}
         /\ s = << >> <=> Len(s) = 0
         /\ Elements(<< >>) = {} /\ NoDup(<< >>)
         /\ << >> \in Seq(Block) /\ Len(<< >>) = 0
<1>1. Len(s) \in Nat /\ DOMAIN s = 1..Len(s) /\ \A i \in 1..Len(s) : s[i] \in Block
  BY LenProperties, ElementOfSeq
<1>2. << >> \in Seq(Block) /\ Len(<< >>) = 0 /\ (s = << >> <=> Len(s) = 0)
  BY EmptySeq
<1>3. Elements(<< >>) = {} /\ NoDup(<< >>)
  BY DEF Elements, NoDup
<1> QED
  BY <1>1, <1>2, <1>3 DEF Elements

LEMMA AppendFacts ==
  ASSUME NEW s \in Seq(Block), NEW b \in Block
  PROVE  /\ Append(s, b) \in Seq(Block)
         /\ Len(Append(s, b)) = Len(s) + 1
         /\ \A i \in 1..Len(s) : Append(s, b)[i] = s[i]
         /\ Append(s, b)[Len(s) + 1] = b
         /\ Elements(Append(s, b)) = Elements(s) \union {b}
         /\ b \notin Elements(s) /\ NoDup(s) => NoDup(Append(s, b))
<1> DEFINE t == Append(s, b)
<1>1. /\ t \in Seq(Block)
      /\ Len(t) = Len(s) + 1
      /\ \A i \in 1..Len(s) : t[i] = s[i]
      /\ t[Len(s) + 1] = b
  BY AppendProperties
<1>2. /\ Len(s) \in Nat
      /\ Elements(s) = {s[i] : i \in 1..Len(s)}
      /\ Elements(t) = {t[i] : i \in 1..(Len(s) + 1)}
      /\ DOMAIN s = 1..Len(s) /\ DOMAIN t = 1..(Len(s) + 1)
  BY <1>1, SeqFacts
<1>3. Elements(t) = Elements(s) \union {b}
  BY <1>1, <1>2
<1>4. b \notin Elements(s) /\ NoDup(s) => NoDup(t)
  BY <1>1, <1>2 DEF NoDup
<1> QED
  BY <1>1, <1>3, <1>4

LEMMA ElementsBound ==
  ASSUME NEW s \in Seq(Block)
  PROVE  /\ IsFiniteSet(Elements(s))
         /\ Cardinality(Elements(s)) <= Len(s)
<1>1. s \in Surjection(1..Len(s), Elements(s))
  BY SeqFacts DEF Surjection
<1>2. IsFiniteSet(1..Len(s)) /\ Cardinality(1..Len(s)) = Len(s)
  BY SeqFacts, FS_Interval
<1> QED
  BY <1>1, <1>2, FS_Surjection

LEMMA ReserveFacts ==
  ASSUME NEW S \in SUBSET Process, NEW R \in SUBSET (S \X (1..MAXOPBLOCKS))
  PROVE  /\ IsFiniteSet(S) /\ Cardinality(S) \in Nat
         /\ Cardinality(S) <= Cardinality(Process)
         /\ IsFiniteSet(R) /\ Cardinality(R) \in Nat
         /\ Cardinality(R) <= Cardinality(S) * MAXOPBLOCKS
<1>1. /\ IsFiniteSet(S) /\ Cardinality(S) \in Nat
      /\ Cardinality(S) <= Cardinality(Process)
  BY FS_Subset, FS_CardinalityType
<1>2. IsFiniteSet(1..MAXOPBLOCKS) /\ Cardinality(1..MAXOPBLOCKS) = MAXOPBLOCKS
  BY FS_Interval
<1>3. /\ IsFiniteSet(S \X (1..MAXOPBLOCKS))
      /\ Cardinality(S \X (1..MAXOPBLOCKS)) = Cardinality(S) * MAXOPBLOCKS
  BY <1>1, <1>2, FS_Product
<1> QED
  BY <1>1, <1>3, FS_Subset, FS_CardinalityType

LEMMA InCallFacts ==
  /\ InCall \in SUBSET Process
  /\ Reserve \in SUBSET (InCall \X (1..MAXOPBLOCKS))
  /\ IsFiniteSet(InCall) /\ Cardinality(InCall) \in Nat
  /\ IsFiniteSet(Reserve) /\ Cardinality(Reserve) \in Nat
<1>1. /\ InCall \in SUBSET Process
      /\ Reserve \in SUBSET (InCall \X (1..MAXOPBLOCKS))
  BY DEF InCall, Reserve
<1> QED
  BY <1>1, ReserveFacts

(* A step that neither begins nor ends a call nor writes in one.           *)
LEMMA SameCalls ==
  ASSUME \A p \in Process : /\ call'[p].at = "op" <=> call[p].at = "op"
                            /\ call'[p].wrote = call[p].wrote
  PROVE  InCall' = InCall /\ Reserve' = Reserve
<1>1. InCall' = InCall
  BY DEF InCall
<1> QED
  BY <1>1 DEF Reserve, InCall

(* A step that changes only the locals of processes that neither are in a  *)
(* call nor commit.                                                        *)
Busy == {"op", "write_log", "install", "commit_end"}

LEMMA LocalStep ==
  ASSUME IInv, Running, UNCHANGED <<disk, cache, pinned, log, boot, pending>>,
         \A p \in Process :
           \/ call'[p] = call[p]
           \/ call[p].at \notin Busy /\ call'[p].at \notin Busy /\ call'[p].wrote = {},
         TypeOK', NoLostWakeup', PendingInv'
  PROVE  IInv'
<1>1. \A p \in Process : /\ call'[p].wrote = call[p].wrote
                         /\ \A l \in Busy : call'[p].at = l <=> call[p].at = l
                         /\ call'[p].at \in Busy => call'[p].tail = call[p].tail
  BY DEF IInv, RoomInv, Busy
<1>2. InCall' = InCall /\ Reserve' = Reserve /\ (Installing' <=> Installing)
  BY <1>1, SameCalls DEF Busy, Installing
<1>3. /\ UNCHANGED <<home, slot, head, cache, pinned, lh, outstanding, committing, boot>>
      /\ \A p \in Process : Committing(p)' <=> Committing(p)
  BY <1>1 DEF disk, log, Busy, Committing
<1>4. CommitsAlone'
  BY <1>2, <1>3 DEF IInv, CommitsAlone
<1>5. Down' /\ RoomInv'
  BY <1>1, <1>2, <1>3 DEF IInv, Down, RoomInv, Busy
<1>6. HeadInv'
  BY <1>1, <1>2, <1>3 DEF IInv, HeadInv, Busy
<1>7. PinInv' /\ CacheInv'
  BY <1>1, <1>2, <1>3 DEF IInv, PinInv, CacheInv, Busy
<1>8. CopyInv'
  BY <1>1, <1>3 DEF IInv, CopyInv, Busy
<1> QED
  BY <1>4, <1>5, <1>6, <1>7, <1>8 DEF IInv

-----------------------------------------------------------------------------
(* One lemma per action                                                    *)

Call == [at : Location, id : Val, wrote : SUBSET Block, tail : 0..LOGBLOCKS,
         target : Nat, behind : SUBSET Val]

(* What a process knows at the start of a call, of sync, and of a commit.  *)
LEMMA LocalsType ==
  ASSUME NEW l \in Location, NEW i \in Val, NEW n \in Nat, NEW B \in SUBSET Val
  PROVE  /\ Idle \in Call
         /\ [Idle EXCEPT !.at = l] \in Call
         /\ [Idle EXCEPT !.at = l, !.id = i] \in Call
         /\ [Idle EXCEPT !.at = l, !.target = n, !.behind = B] \in Call
<1> SUFFICES ASSUME NEW Tails, 0 \in Tails, 0 \in Val
             PROVE  LET T == [at : Location, id : Val, wrote : SUBSET Block, tail : Tails,
                              target : Nat, behind : SUBSET Val]
                    IN  /\ Idle \in T
                        /\ [Idle EXCEPT !.at = l] \in T
                        /\ [Idle EXCEPT !.at = l, !.id = i] \in T
                        /\ [Idle EXCEPT !.at = l, !.target = n, !.behind = B] \in T
  <2>1. 0 \in 0..LOGBLOCKS /\ 0 \in Val
    BY DEF Val
  <2> QED
    BY <2>1 DEF Call
<1>1. "idle" \in Location
  BY DEF Location
<1> QED
  BY <1>1 DEF Idle

(* One process goes on with locals c.                                      *)
LEMMA OneGoesOn ==
  ASSUME TypeOK, NEW p \in Process, NEW c \in Call, call' = [call EXCEPT ![p] = c]
  PROVE  /\ call' \in [Process -> Call]
         /\ call'[p] = c
         /\ \A q \in Process \ {p} : call'[q] = call[q]
BY DEF TypeOK, Call

LEMMA CallTyped ==
  ASSUME TypeOK
  PROVE  call \in [Process -> Call]
BY DEF TypeOK, Call

LEMMA StartIInv ==
  ASSUME IInv, NEW p \in Process, Start(p)
  PROVE  IInv'
<1> DEFINE c == [Idle EXCEPT !.at = "begin", !.id = ncalls + 1]
<1>1. /\ c.at = "begin" /\ c.id = ncalls + 1 /\ c.wrote = {}
      /\ ncalls + 1 \in Val /\ ncalls \in Nat
      /\ c \in Call
  <2>1. ncalls + 1 \in Val /\ ncalls \in Nat /\ "begin" \in Location
    BY DEF IInv, TypeOK, Start, Val, Location
  <2>2. c \in Call
    BY <2>1, LocalsType
  <2> QED
    BY <2>1, <2>2 DEF Idle
<1>2. /\ call' = [call EXCEPT ![p] = c]
      /\ call[p].at = "idle"
      /\ ncalls' = ncalls + 1
      /\ UNCHANGED <<disk, cache, pinned, log, boot, pending>>
  BY DEF Start
<1> HIDE DEF c
<1>3. call \in [Process -> Call] /\ call'[p] = c /\ \A q \in Process \ {p} : call'[q] = call[q]
  BY <1>2 DEF IInv, TypeOK, Call
<1>4. TypeOK'
  BY <1>1, <1>2 DEF IInv, TypeOK, Call, disk, log
<1>5. NoLostWakeup'
  BY <1>1, <1>2, <1>3 DEF IInv, NoLostWakeup, Room, log
<1>6. PendingInv'
  <2>1. /\ \A q \in Process : InSync(q)' => InSync(q) /\ q # p
        /\ \A q \in Process : InProgress(q)' <=> InProgress(q) \/ q = p
    BY <1>1, <1>2, <1>3 DEF InProgress, InSync
  <2>2. (Installing' <=> Installing) /\ InCall' = InCall
    BY <1>1, <1>2, <1>3 DEF Installing, InCall
  <2>3. UNCHANGED <<lh, committing, ncommit, boot, pending>>
    BY <1>2 DEF log
  <2>4. \A i \in pending : i <= ncalls /\ i \in Nat
    BY DEF IInv, TypeOK, PendingInv, Val
  <2>5. \A q \in Process : InProgress(q)' =>
          call'[q].id <= ncalls' /\ call'[q].id \notin pending
    BY <2>1, <2>4, <1>1, <1>2, <1>3 DEF IInv, TypeOK, PendingInv, Val
  <2>6. \A q, r \in Process :
          InProgress(q)' /\ InProgress(r)' /\ call'[q].id = call'[r].id => q = r
    BY <2>1, <1>1, <1>3 DEF IInv, PendingInv
  <2>7. \A q, r \in Process : InSync(q)' /\ InProgress(r)' => call'[r].id \notin call'[q].behind
    BY <2>1, <1>1, <1>3 DEF IInv, PendingInv
  <2>8. \A q \in Process :
       InSync(q)' => /\ \A i \in call'[q].behind : i <= ncalls'
                     /\ call'[q].behind \intersect pending # {} => ncommit < call'[q].target
    <3> SUFFICES ASSUME NEW q \in Process, InSync(q)'
                 PROVE  /\ \A i \in call'[q].behind : i <= ncalls'
                        /\ call'[q].behind \intersect pending # {} => ncommit < call'[q].target
      OBVIOUS
    <3>1. call'[q] = call[q] /\ InSync(q) /\ call[q].behind \subseteq Val
      BY <2>1, <1>3 DEF Call
    <3> QED
      BY <3>1, <1>1, <1>2 DEF IInv, PendingInv, Val
  <2> QED
    BY <2>2, <2>3, <2>4, <2>5, <2>6, <2>7, <2>8, <1>1, <1>2 DEF IInv, PendingInv
<1> QED
  <2>1. Running /\ \A q \in Process :
           \/ call'[q] = call[q]
           \/ call[q].at \notin Busy /\ call'[q].at \notin Busy /\ call'[q].wrote = {}
    BY <1>1, <1>2, <1>3 DEF Busy, Start
  <2> QED
    BY <2>1, <1>2, <1>4, <1>5, <1>6, LocalStep

LEMMA BeginIInv ==
  ASSUME IInv, NEW p \in Process, Begin(p)
  PROVE  IInv'
<1>1. /\ call[p].at = "begin" /\ Running
      /\ UNCHANGED <<disk, cache, pinned, lh, committing, ncommit, boot, ncalls, pending>>
  BY DEF Begin
<1>2. call \in [Process -> Call] /\ call[p] \in Call
  BY CallTyped DEF IInv
<1>3. CASE (committing \/ ~ Room) /\ Goto(p, "begin_sleep") /\ UNCHANGED outstanding
  <2> DEFINE c == [call[p] EXCEPT !.at = "begin_sleep"]
  <2>1. /\ call' = [call EXCEPT ![p] = c] /\ c \in Call /\ c.at = "begin_sleep"
        /\ c.wrote = call[p].wrote /\ c.id = call[p].id
    BY <1>2, <1>3 DEF Goto, Call, Location
  <2> HIDE DEF c
  <2>2. /\ call' \in [Process -> Call]
        /\ call'[p] = c
        /\ \A q \in Process \ {p} : call'[q] = call[q]
    BY <2>1, OneGoesOn DEF IInv
  <2>3. TypeOK'
    BY <2>2, <1>1, <1>3 DEF IInv, TypeOK, Call, disk
  <2>4. NoLostWakeup'
    BY <2>1, <2>2, <1>1, <1>3 DEF IInv, NoLostWakeup, Room
  <2>5. PendingInv'
    <3>1. /\ \A q \in Process : /\ InSync(q)' <=> InSync(q)
                                /\ InProgress(q)' <=> InProgress(q)
                                /\ call'[q].id = call[q].id
                                /\ InSync(q) => call'[q] = call[q]
          /\ Installing' <=> Installing
          /\ InCall' = InCall
      BY <1>1, <2>1, <2>2 DEF InProgress, InSync, Installing, InCall
    <3> QED
      BY <3>1, <1>1 DEF IInv, PendingInv
  <2>6. \A q \in Process : \/ call'[q] = call[q]
                           \/ /\ call[q].at \notin Busy /\ call'[q].at \notin Busy
                              /\ call'[q].wrote = {}
    BY <1>1, <2>1, <2>2 DEF Busy, IInv, RoomInv
  <2> QED
    BY <1>1, <1>3, <2>3, <2>4, <2>5, <2>6, LocalStep DEF log
<1>4. CASE ~ committing /\ Room /\ Goto(p, "op") /\ outstanding' = outstanding + 1
  <2> DEFINE c == [call[p] EXCEPT !.at = "op"]
  <2>1. /\ call' = [call EXCEPT ![p] = c] /\ c \in Call /\ c.at = "op"
        /\ c.wrote = call[p].wrote /\ c.id = call[p].id
    BY <1>2, <1>4 DEF Goto, Call, Location
  <2>2. call[p].wrote = {}
    BY <1>1 DEF IInv, RoomInv
  <2> HIDE DEF c
  <2>3. /\ call' \in [Process -> Call]
        /\ call'[p] = c
        /\ \A q \in Process \ {p} : call'[q] = call[q]
    BY <2>1, OneGoesOn DEF IInv
  <2>4. InCall' = InCall \union {p} /\ p \notin InCall
    BY <1>1, <2>1, <2>3 DEF InCall
  <2>5. outstanding' = Cardinality(InCall') /\ Cardinality(InCall') <= Cardinality(Process)
    <3>1. Cardinality(InCall') = Cardinality(InCall) + 1
      BY <2>4, InCallFacts, FS_AddElement DEF IInv
    <3>2. InCall' \subseteq Process
      BY <2>4 DEF InCall
    <3> QED
      BY <3>1, <3>2, <1>4, FS_Subset DEF IInv, CommitsAlone
  <2>6. TypeOK'
    <3>1. outstanding' \in 0..Cardinality(Process)
      <4>1. Cardinality(Process) \in Nat /\ outstanding \in Nat
        BY FS_CardinalityType DEF IInv, TypeOK
      <4> QED
        BY <4>1, <2>5, <1>4
    <3> QED
      BY <3>1, <2>3, <1>1 DEF IInv, TypeOK, Call, disk
  <2>7. Len(lh) + Cardinality(Reserve') <= LOGBLOCKS
    <3>1. InCall' \in SUBSET Process /\ Reserve' \in SUBSET (InCall' \X (1..MAXOPBLOCKS))
      BY DEF InCall, Reserve
    <3>2. Cardinality(Reserve') <= (outstanding + 1) * MAXOPBLOCKS
      BY <3>1, <2>5, <1>4, ReserveFacts
    <3>3. Cardinality(Reserve') \in Nat /\ Len(lh) \in Nat /\ outstanding \in Nat
      BY <3>1, ReserveFacts, SeqFacts DEF IInv, TypeOK
    <3> QED
      BY <3>2, <3>3, <1>4 DEF Room
  <2>8. /\ \A q \in Process : /\ call'[q].wrote = call[q].wrote
                              /\ call'[q].id = call[q].id
                              /\ q # p => call'[q] = call[q]
        /\ \A q \in Process : (InProgress(q)' <=> InProgress(q)) /\ (InSync(q)' <=> InSync(q))
        /\ \A q \in Process : \A l \in {"write_log", "install", "commit_end"} :
             call'[q].at = l <=> call[q].at = l
        /\ Installing' <=> Installing
    BY <1>1, <2>1, <2>3 DEF InProgress, InSync, Installing
  <2>9. CommitsAlone' /\ Down'
    BY <1>1, <1>4, <2>5, <2>8 DEF IInv, CommitsAlone, Committing, Down
  <2>10. RoomInv'
    BY <1>1, <2>7, <2>8, <2>2, <2>1, <2>3 DEF IInv, RoomInv
  <2>11. HeadInv' /\ PinInv' /\ CacheInv'
    BY <1>1, <2>8, <2>1, <2>3 DEF IInv, HeadInv, PinInv, CacheInv, disk
  <2>12. CopyInv'
    BY <1>1, <2>8, <2>1, <2>3 DEF IInv, CopyInv, disk
  <2>13. NoLostWakeup'
    <3>1. Room' => Room
      <4>1. outstanding \in Nat /\ Len(lh) \in Nat /\ Len(lh') = Len(lh)
        BY <1>1, SeqFacts DEF IInv, TypeOK
      <4>2. (outstanding' + 1) * MAXOPBLOCKS = (outstanding + 1) * MAXOPBLOCKS + MAXOPBLOCKS
        BY <4>1, <1>4
      <4>3. (outstanding + 1) * MAXOPBLOCKS \in Nat /\ MAXOPBLOCKS \in Nat
        BY <4>1
      <4> QED
        BY <4>1, <4>2, <4>3 DEF Room
    <3> QED
      BY <3>1, <1>1, <2>1, <2>3 DEF IInv, NoLostWakeup
  <2>14. PendingInv'
    BY <1>1, <2>4, <2>8, <2>1, <2>3 DEF IInv, PendingInv, InSync
  <2> QED
    BY <2>6, <2>9, <2>10, <2>11, <2>12, <2>13, <2>14 DEF IInv
<1> QED
  BY <1>3, <1>4 DEF Begin

(* While a call is in progress nobody commits.                             *)
LEMMA NobodyCommits ==
  ASSUME IInv, NEW p \in Process, call[p].at = "op"
  PROVE  /\ Running /\ ~ committing /\ ~ Installing
         /\ \A q \in Process : call[q].at \notin {"write_log", "install", "commit_end"}
         /\ head = << >> /\ pinned = Elements(lh)
<1>1. p \in InCall /\ Running
  BY DEF InCall, IInv, Down
<1>2. ~ committing
  BY <1>1 DEF IInv, CommitsAlone
<1>3. \A q \in Process : call[q].at \notin {"write_log", "install", "commit_end"}
  BY <1>2 DEF IInv, CommitsAlone, Committing
<1> QED
  BY <1>1, <1>2, <1>3 DEF IInv, HeadInv, PinInv, Installing

(* Logging a block uses one of the slots its call had reserved, or none.   *)
LEMMA WriteIInv ==
  ASSUME IInv, NEW p \in Process, NEW b \in Block, Write(p, b)
  PROVE  IInv'
<1> DEFINE W == call[p].wrote \union {b}
           c == [call[p] EXCEPT !.wrote = W]
<1>1. /\ call[p].at = "op" /\ Cardinality(W) <= OpBlocks
      /\ Len(lh) < LOGBLOCKS /\ ~ (outstanding < 1)
      /\ LogBlock(b)
      /\ cache' = [cache EXCEPT ![b] = call[p].id]
      /\ call' = [call EXCEPT ![p] = c]
      /\ UNCHANGED <<disk, outstanding, committing, ncommit, boot, ncalls, pending>>
  BY SeqFacts DEF Write, LogWritePanics, IInv, TypeOK
<1>2. call \in [Process -> Call] /\ call[p] \in Call
  BY CallTyped DEF IInv
<1>3. c \in Call /\ c.at = "op" /\ c.wrote = W /\ c.id = call[p].id /\ W \subseteq Block
  BY <1>1, <1>2 DEF Call
<1>4. call[p].wrote \subseteq Elements(lh) /\ Cardinality(call[p].wrote) <= OpBlocks
  BY DEF IInv, RoomInv
<1>5. /\ IsFiniteSet(call[p].wrote) /\ Cardinality(call[p].wrote) \in Nat
      /\ IsFiniteSet(W) /\ Cardinality(W) \in Nat
      /\ Cardinality(W) = IF b \in call[p].wrote THEN Cardinality(call[p].wrote)
                                               ELSE Cardinality(call[p].wrote) + 1
  <2>1. IsFiniteSet(call[p].wrote)
    BY <1>4, ElementsBound, FS_Subset DEF IInv, TypeOK
  <2> QED
    BY <2>1, FS_AddElement, FS_CardinalityType
<1> HIDE DEF c, W
<1>6. /\ call' \in [Process -> Call]
      /\ call'[p] = c
      /\ \A q \in Process \ {p} : call'[q] = call[q]
  BY <1>1, <1>3, OneGoesOn DEF IInv
<1>7. /\ Running /\ ~ committing /\ ~ Installing
      /\ \A q \in Process : call[q].at \notin {"write_log", "install", "commit_end"}
      /\ head = << >> /\ pinned = Elements(lh)
  BY <1>1, NobodyCommits
<1>8. /\ lh' \in Seq(Block) /\ Len(lh') \in Nat /\ Len(lh) \in Nat
      /\ Elements(lh') = Elements(lh) \union {b}
      /\ pinned' = Elements(lh')
      /\ NoDup(lh')
      /\ Len(lh') = IF b \in Elements(lh) THEN Len(lh) ELSE Len(lh) + 1
  <2>1. CASE b \in Elements(lh)
    BY <2>1, <1>1, <1>7, SeqFacts DEF IInv, TypeOK, HeadInv, LogBlock
  <2>2. CASE b \notin Elements(lh)
    <3>1. lh \in Seq(Block) /\ NoDup(lh) /\ lh' = Append(lh, b) /\ pinned' = pinned \union {b}
      BY <2>2, <1>1 DEF IInv, TypeOK, HeadInv, LogBlock
    <3>2. Len(lh) \in Nat
      BY <3>1, SeqFacts
    <3> QED
      BY <2>2, <3>1, <3>2, <1>7, AppendFacts
  <2> QED
    BY <2>1, <2>2
<1>9. /\ \A q \in Process : /\ call'[q].at = call[q].at
                            /\ call'[q].id = call[q].id
                            /\ q # p => call'[q] = call[q]
      /\ InCall' = InCall /\ p \in InCall /\ p \in InCall'
      /\ Installing' <=> Installing
      /\ \A q \in Process : (InProgress(q)' <=> InProgress(q)) /\ (InSync(q)' <=> InSync(q))
  BY <1>1, <1>3, <1>6 DEF InCall, Installing, InProgress, InSync
<1>10. TypeOK'
  <2>1. cache' \in [Block -> Val \union {NotCached}] /\ pinned' \subseteq Block
    <3>1. call[p].id \in Val
      BY <1>2 DEF Call
    <3>2. Elements(lh') \subseteq Block
      BY <1>8, SeqFacts
    <3> QED
      BY <3>1, <3>2, <1>1, <1>8 DEF IInv, TypeOK
  <2>2. Len(lh') <= LOGBLOCKS
    BY <1>1, <1>8
  <2> QED
    BY <2>1, <2>2, <1>1, <1>6, <1>8 DEF IInv, TypeOK, Call, disk
<1>11. /\ Len(lh') + Cardinality(Reserve') <= LOGBLOCKS
       /\ Cardinality(Reserve') \in Nat
  <2>1. /\ Len(lh) + Cardinality(Reserve) <= LOGBLOCKS
        /\ IsFiniteSet(Reserve) /\ Cardinality(Reserve) \in Nat
    BY InCallFacts DEF IInv, RoomInv
  <2>2. \A q \in Process : q # p => call'[q].wrote = call[q].wrote
    BY <1>9
  <2>3. call'[p].wrote = W /\ Cardinality(W) >= Cardinality(call[p].wrote)
    BY <1>3, <1>5, <1>6
  <2>4. Reserve' \subseteq Reserve
    BY <1>5, <1>9, <2>2, <2>3 DEF Reserve, InCall
  <2>5. CASE b \in Elements(lh)
    BY <2>1, <2>4, <2>5, <1>8, FS_Subset, FS_CardinalityType
  <2>6. CASE b \notin Elements(lh)
    <3> DEFINE pk == <<p, Cardinality(call[p].wrote) + 1>>
    <3>1. b \notin call[p].wrote /\ Cardinality(W) = Cardinality(call[p].wrote) + 1
      BY <2>6, <1>4, <1>5
    <3>2. pk \in Reserve
      <4>1. Cardinality(call[p].wrote) + 1 \in 1..MAXOPBLOCKS
        BY <3>1, <1>1, <1>5
      <4> QED
        BY <4>1, <1>5, <1>9 DEF Reserve
    <3>3. pk \notin Reserve'
      BY <3>1, <1>5, <2>3 DEF Reserve
    <3> HIDE DEF pk
    <3>4. Reserve' \in SUBSET (Reserve \ {pk})
      BY <2>4, <3>3
    <3>5. IsFiniteSet(Reserve \ {pk}) /\ Cardinality(Reserve \ {pk}) = Cardinality(Reserve) - 1
      BY <3>2, <2>1, FS_RemoveElement
    <3>6. IsFiniteSet(Reserve') /\ Cardinality(Reserve') <= Cardinality(Reserve) - 1
      BY <3>4, <3>5, FS_Subset
    <3> QED
      BY <3>6, <2>1, <2>6, <1>8, FS_CardinalityType
  <2> QED
    BY <2>5, <2>6
<1>12. Len(lh') < LOGBLOCKS
  <2>1. <<p, MAXOPBLOCKS>> \in Reserve'
    BY <1>1, <1>3, <1>5, <1>6, <1>9 DEF Reserve
  <2>2. IsFiniteSet(Reserve')
    <3>1. InCall' \in SUBSET Process /\ Reserve' \in SUBSET (InCall' \X (1..MAXOPBLOCKS))
      BY DEF InCall, Reserve
    <3> QED
      BY <3>1, ReserveFacts
  <2>3. Cardinality(Reserve') # 0
    BY <2>1, <2>2, FS_EmptySet
  <2> QED
    BY <2>3, <1>8, <1>11
<1>13. CommitsAlone' /\ Down'
  BY <1>1, <1>7, <1>9 DEF IInv, CommitsAlone, Committing, Down
<1>14. RoomInv'
  <2>1. \A q \in Process :
          /\ call'[q].wrote # {} => call'[q].at = "op"
          /\ call'[q].wrote \subseteq Elements(lh')
          /\ Cardinality(call'[q].wrote) <= OpBlocks
    BY <1>1, <1>3, <1>4, <1>6, <1>8, <1>9 DEF IInv, RoomInv, W
  <2> QED
    BY <2>1, <1>11, <1>12 DEF RoomInv
<1>15. HeadInv'
  BY <1>1, <1>7, <1>8, <1>9 DEF IInv, HeadInv, disk
<1>16. PinInv'
  BY <1>1, <1>7, <1>8, <1>9, Zenon DEF PinInv, Installing
<1>17. CacheInv'
  <2>1. call[p].id # NotCached
    BY <1>2 DEF Call, Val, NotCached
  <2> QED
    BY <2>1, <1>1, <1>7, <1>8 DEF IInv, TypeOK, CacheInv, disk
<1>18. CopyInv'
  BY <1>1, <1>7, <1>9 DEF CopyInv, disk
<1>19. NoLostWakeup'
  <2>1. Room' => Room
    <3>1. (outstanding + 1) * MAXOPBLOCKS \in Nat /\ outstanding' = outstanding
      BY <1>1 DEF IInv, TypeOK
    <3>2. Len(lh) <= Len(lh') /\ Len(lh) \in Nat /\ Len(lh') \in Nat
      BY <1>8
    <3> QED
      BY <3>1, <3>2 DEF Room
  <2>2. \A q \in Process : call'[q].at \in {"begin_sleep", "sync_sleep"} => call'[q] = call[q]
    BY <1>1, <1>9
  <2> QED
    BY <2>1, <2>2, <1>1, <1>9 DEF IInv, NoLostWakeup
<1>20. PendingInv'
  <2>1. lh' = << >> => lh = << >>
    BY <1>8, SeqFacts DEF IInv, TypeOK
  <2>2. \A q \in Process : InSync(q) => call'[q] = call[q]
    BY <1>1, <1>9 DEF InSync
  <2> QED
    BY <2>1, <2>2, <1>1, <1>7, <1>9 DEF IInv, PendingInv
<1> QED
  BY <1>10, <1>13, <1>14, <1>15, <1>16, <1>17, <1>18, <1>19, <1>20 DEF IInv

(* After a wakeup every other process is where it was, or up again.        *)
LEMMA WakeupFacts ==
  ASSUME TypeOK, NEW p \in Process, NEW l \in Location, Wakeup(p, l)
  PROVE  /\ call' \in [Process -> Call]
         /\ call'[p] = [Idle EXCEPT !.at = l]
         /\ \A q \in Process \ {p} :
              /\ call'[q].wrote = call[q].wrote /\ call'[q].id = call[q].id
              /\ call'[q].behind = call[q].behind /\ call'[q].target = call[q].target
              /\ InSync(q)' <=> InSync(q)
              /\ InProgress(q)' <=> InProgress(q)
              /\ call[q].at \in Busy \/ call'[q].at \in Busy => call'[q] = call[q]
         /\ \A q \in Process \ {p} : call'[q].at \notin {"begin_sleep", "sync_sleep"}
<1>1. call \in [Process -> Call]
  BY CallTyped
<1>2. [Idle EXCEPT !.at = l] \in Call
  <2>1. 0 \in Val /\ 0 \in Nat /\ {} \in SUBSET Val
    BY DEF Val
  <2> QED
    BY <2>1, LocalsType
<1>3. ASSUME NEW q \in Process \ {p}
      PROVE  /\ call'[q] \in Call
             /\ call'[q].wrote = call[q].wrote /\ call'[q].id = call[q].id
             /\ call'[q].behind = call[q].behind /\ call'[q].target = call[q].target
             /\ call'[q].at = IF call[q].at = "begin_sleep" THEN "begin"
                              ELSE IF call[q].at = "sync_sleep" THEN "sync" ELSE call[q].at
             /\ call[q].at \in {"begin_sleep", "sync_sleep"} \/ call'[q] = call[q]
  <2>1. call[q] \in Call
    BY <1>1
  <2>2. CASE call[q].at = "begin_sleep"
    BY <2>1, <2>2 DEF Wakeup, Call, Location
  <2>3. CASE call[q].at = "sync_sleep"
    BY <2>1, <2>3 DEF Wakeup, Call, Location
  <2>4. CASE call[q].at \notin {"begin_sleep", "sync_sleep"}
    BY <2>1, <2>4 DEF Wakeup
  <2> QED
    BY <2>2, <2>3, <2>4
<1>4. call'[p] = [Idle EXCEPT !.at = l]
  BY DEF Wakeup
<1>5. call' \in [Process -> Call]
  <2>1. DOMAIN call' = Process /\ call' = [q \in Process |-> call'[q]]
    BY DEF Wakeup
  <2> QED
    BY <2>1, <1>2, <1>3, <1>4
<1> QED
  BY <1>3, <1>4, <1>5 DEF InSync, InProgress, Busy

(* The call of p is over: what it wrote is pending, and waits for others or*)
(* for the commit.                                                         *)
LEMMA EndPending ==
  ASSUME IInv, NEW p \in Process, call[p].at = "op", pending' = pending \union Ended(p),
         UNCHANGED <<lh, boot, ncalls, ncommit>>,
         committing' \/ InCall' # {}, ~ Installing',
         call'[p].at \notin {"begin", "begin_sleep", "op", "sync", "sync_sleep"},
         \A q \in Process \ {p} :
           /\ call'[q].id = call[q].id
           /\ call'[q].behind = call[q].behind /\ call'[q].target = call[q].target
           /\ InSync(q)' <=> InSync(q)
           /\ InProgress(q)' <=> InProgress(q)
  PROVE  PendingInv' /\ pending' \subseteq Val
<1> DEFINE i == call[p].id
<1>1. /\ InProgress(p) /\ i \in Val /\ i <= ncalls /\ i \notin pending
      /\ pending' \subseteq pending \union {i}
      /\ pending \subseteq Val
  <2>1. call[p].id \in Val
    BY CallTyped DEF IInv, Call
  <2> QED
    BY <2>1 DEF IInv, TypeOK, PendingInv, InProgress, Ended
<1>2. \A q \in Process : /\ InProgress(q)' => InProgress(q) /\ q # p /\ call'[q].id = call[q].id
                         /\ InSync(q)' => /\ InSync(q) /\ q # p
                                          /\ call'[q].behind = call[q].behind
                                          /\ call'[q].target = call[q].target
  BY DEF InProgress, InSync
<1> HIDE DEF i
<1>3. Running /\ lh = << >> => Ended(p) = {}
  BY SeqFacts DEF Ended, IInv, TypeOK, RoomInv
<1>4. \A j \in pending' : j <= ncalls
  BY <1>1 DEF IInv, PendingInv
<1>5. Running' /\ lh' = << >> => pending' = {}
  BY <1>3 DEF IInv, PendingInv
<1>6. \A q \in Process : InProgress(q)' => call'[q].id <= ncalls /\ call'[q].id \notin pending'
  BY <1>1, <1>2 DEF IInv, PendingInv, i
<1>7. \A q, r \in Process :
        InProgress(q)' /\ InProgress(r)' /\ call'[q].id = call'[r].id => q = r
  BY <1>2 DEF IInv, PendingInv
<1>8. \A q, r \in Process : InSync(q)' /\ InProgress(r)' => call'[r].id \notin call'[q].behind
  BY <1>2 DEF IInv, PendingInv
<1>9. \A q \in Process :
        InSync(q)' => /\ \A j \in call'[q].behind : j <= ncalls
                      /\ call'[q].behind \intersect pending' # {} => ncommit < call'[q].target
  <2> SUFFICES ASSUME NEW q \in Process, InSync(q)'
               PROVE  /\ \A j \in call'[q].behind : j <= ncalls
                      /\ call'[q].behind \intersect pending' # {} => ncommit < call'[q].target
    OBVIOUS
  <2>1. /\ InSync(q)
        /\ call'[q].behind = call[q].behind /\ call'[q].target = call[q].target
    BY <1>2
  <2>2. i \notin call[q].behind
    BY <2>1, <1>1 DEF IInv, PendingInv, i
  <2>3. call'[q].behind \intersect pending' \subseteq call[q].behind \intersect pending
    BY <2>1, <2>2, <1>1
  <2> QED
    BY <2>1, <2>3 DEF IInv, PendingInv
<1> QED
  BY <1>1, <1>4, <1>5, <1>6, <1>7, <1>8, <1>9 DEF PendingInv

LEMMA EndIInv ==
  ASSUME IInv, NEW p \in Process, End(p)
  PROVE  IInv'
<1>1. /\ call[p].at = "op" /\ ~ committing
      /\ outstanding' = outstanding - 1
      /\ pending' = pending \union Ended(p)
      /\ UNCHANGED <<disk, cache, pinned, lh, ncommit, boot, ncalls>>
  BY DEF End
<1>2. /\ Running /\ ~ Installing
      /\ \A q \in Process : call[q].at \notin {"write_log", "install", "commit_end"}
      /\ head = << >> /\ pinned = Elements(lh)
  BY <1>1, NobodyCommits
<1>3. call \in [Process -> Call]
  BY CallTyped DEF IInv
<1>4. /\ p \in InCall /\ outstanding = Cardinality(InCall) /\ outstanding \in Nat
      /\ IsFiniteSet(InCall \ {p})
      /\ Cardinality(InCall \ {p}) = outstanding - 1
      /\ outstanding' \in 0..Cardinality(Process)
  <2>1. p \in InCall /\ outstanding = Cardinality(InCall) /\ IsFiniteSet(InCall)
    BY <1>1, InCallFacts DEF IInv, CommitsAlone, InCall
  <2>2. Cardinality(InCall \ {p}) = outstanding - 1 /\ IsFiniteSet(InCall \ {p})
    BY <2>1, FS_RemoveElement
  <2>3. Cardinality(InCall \ {p}) \in Nat /\ Cardinality(InCall \ {p}) <= Cardinality(Process)
    <3>1. InCall \ {p} \in SUBSET Process
      BY DEF InCall
    <3> QED
      BY <3>1, FS_Subset, FS_CardinalityType
  <2>4. Cardinality(Process) \in Nat
    BY FS_CardinalityType
  <2> QED
    BY <2>1, <2>2, <2>3, <2>4, <1>1 DEF IInv, TypeOK
<1>5. CASE outstanding = 1 /\ committing' = TRUE
           /\ call' = [call EXCEPT ![p] = [Idle EXCEPT !.at =
                                             IF lh # << >> THEN "write_log" ELSE "commit_end"]]
  <2> DEFINE l == IF lh # << >> THEN "write_log" ELSE "commit_end"
             c == [Idle EXCEPT !.at = l]
  <2>1. c \in Call /\ c.at = l /\ c.wrote = {} /\ c.tail = 0
    <3>1. l \in Location /\ 0 \in Val
      BY DEF Location, Val
    <3>2. c \in Call
      BY <3>1, LocalsType
    <3> QED
      BY <3>2 DEF Idle
  <2>2. /\ l \in {"write_log", "commit_end"}
        /\ lh # << >> <=> l = "write_log"
        /\ call' = [call EXCEPT ![p] = c]
    BY <1>5
  <2> HIDE DEF l, c
  <2>3. /\ call' \in [Process -> Call]
        /\ call'[p] = c
        /\ \A q \in Process \ {p} : call'[q] = call[q]
    BY <2>1, <2>2, OneGoesOn DEF IInv
  <2>4. InCall \ {p} = {}
    BY <1>4, <1>5, FS_EmptySet
  <2>5. InCall' = {} /\ \A q \in Process : call'[q].at # "op"
    BY <2>1, <2>2, <2>3, <2>4 DEF InCall
  <2>6. ~ Installing' /\ \A q \in Process : call'[q].at # "install"
    BY <1>2, <2>1, <2>2, <2>3 DEF Installing
  <2>7. PendingInv' /\ pending' \subseteq Val
    BY <1>1, <1>5, <2>1, <2>2, <2>3, <2>6, EndPending DEF InSync, InProgress
  <2>8. TypeOK'
    BY <2>3, <2>7, <1>1, <1>4, <1>5 DEF IInv, TypeOK, Call, disk
  <2>9. CommitsAlone' /\ Down'
    <3>1. \A q \in Process : Committing(q)' => q = p
      BY <1>2, <2>3 DEF Committing
    <3> QED
      BY <3>1, <1>1, <1>2, <1>5, <2>5, FS_EmptySet DEF CommitsAlone, Down
  <2>10. RoomInv'
    <3>1. Reserve' = {}
      BY <2>5 DEF Reserve
    <3>2. Len(lh) \in Nat /\ Len(lh) < LOGBLOCKS
      BY <1>2, SeqFacts DEF IInv, TypeOK, RoomInv
    <3>3. \A q \in Process : call'[q].wrote = {}
      BY <2>1, <2>3, <2>4 DEF IInv, RoomInv, InCall
    <3>4. Cardinality({}) = 0 /\ lh' = lh
      BY <1>1, FS_EmptySet
    <3>5. \A q \in Process : /\ call'[q].wrote # {} => call'[q].at = "op"
                             /\ call'[q].wrote \subseteq Elements(lh')
                             /\ Cardinality(call'[q].wrote) <= OpBlocks
      <4>1. 0 <= OpBlocks
        OBVIOUS
      <4> QED
        BY <3>3, <3>4, <4>1, Zenon
    <3> QED
      BY <3>1, <3>2, <3>4, <3>5 DEF RoomInv
  <2>11. HeadInv'
    <3>1. Len(lh) \in Nat
      BY SeqFacts DEF IInv, TypeOK
    <3> QED
      BY <3>1, <1>1, <1>2, <2>1, <2>2, <2>3, <2>6 DEF IInv, HeadInv, disk
  <2>12. PinInv' /\ CacheInv'
    BY <1>1, <1>2, <2>6 DEF IInv, PinInv, CacheInv, disk
  <2>13. CopyInv'
    BY <1>1, <1>2, <2>1, <2>3, <2>6 DEF CopyInv
  <2>14. NoLostWakeup'
    BY <1>1, <1>5, <2>1, <2>2, <2>3 DEF IInv, NoLostWakeup
  <2> QED
    BY <2>7, <2>8, <2>9, <2>10, <2>11, <2>12, <2>13, <2>14 DEF IInv
<1>6. CASE outstanding # 1 /\ Wakeup(p, "idle") /\ UNCHANGED committing
  <2>1. /\ call' \in [Process -> Call]
        /\ call'[p].at = "idle" /\ call'[p].wrote = {}
        /\ \A q \in Process \ {p} :
             /\ call'[q].wrote = call[q].wrote /\ call'[q].id = call[q].id
             /\ call'[q].behind = call[q].behind /\ call'[q].target = call[q].target
             /\ InSync(q)' <=> InSync(q)
             /\ InProgress(q)' <=> InProgress(q)
             /\ call[q].at \in Busy \/ call'[q].at \in Busy => call'[q] = call[q]
        /\ \A q \in Process : call'[q].at \notin {"begin_sleep", "sync_sleep"}
    BY <1>6, WakeupFacts DEF IInv, Location, Idle
  <2>2. InCall' = InCall \ {p} /\ InCall' # {}
    <3>1. InCall' = InCall \ {p}
      BY <2>1 DEF InCall, Busy
    <3> QED
      BY <3>1, <1>4, <1>6, FS_EmptySet
  <2>3. \A q \in Process : call'[q].at \notin {"write_log", "install", "commit_end"}
    BY <1>2, <2>1 DEF Busy
  <2>4. ~ Installing'
    BY <2>3 DEF Installing
  <2>5. PendingInv' /\ pending' \subseteq Val
    BY <1>1, <2>1, <2>2, <2>4, EndPending
  <2>6. TypeOK'
    BY <2>1, <2>5, <1>1, <1>4, <1>6 DEF IInv, TypeOK, Call, disk
  <2>7. CommitsAlone' /\ Down'
    BY <1>1, <1>2, <1>4, <1>6, <2>2, <2>3 DEF CommitsAlone, Committing, Down
  <2>8. RoomInv'
    <3>1. \A q \in Process : /\ call'[q].wrote # {} => call'[q].at = "op"
                             /\ call'[q].wrote \subseteq Elements(lh')
                             /\ Cardinality(call'[q].wrote) <= OpBlocks
      <4>1. \A q \in Process \ {p} : call'[q].wrote # {} => call'[q].at = "op"
        BY <2>1 DEF IInv, RoomInv, Busy
      <4>2. Cardinality(call'[p].wrote) = 0
        BY <2>1, FS_EmptySet, Zenon
      <4>3. \A q \in Process \ {p} : /\ call'[q].wrote \subseteq Elements(lh')
                                       /\ Cardinality(call'[q].wrote) <= OpBlocks
        BY <1>1, <2>1 DEF IInv, RoomInv
      <4>4. call'[p].wrote = {} /\ Cardinality(call'[p].wrote) <= OpBlocks
        BY <2>1, <4>2
      <4> QED
        BY <4>1, <4>3, <4>4, Zenon
    <3>2. Reserve' \in SUBSET Reserve
      BY <2>1, <2>2 DEF Reserve, InCall
    <3>3. Cardinality(Reserve') <= Cardinality(Reserve) /\ IsFiniteSet(Reserve')
      BY <3>2, InCallFacts, FS_Subset
    <3>4. Cardinality(Reserve') \in Nat /\ Cardinality(Reserve) \in Nat /\ Len(lh) \in Nat
      BY <3>3, InCallFacts, FS_CardinalityType, SeqFacts DEF IInv, TypeOK
    <3> QED
      BY <3>1, <3>3, <3>4, <1>1 DEF IInv, RoomInv
  <2>9. HeadInv' /\ PinInv' /\ CacheInv' /\ CopyInv'
    BY <1>1, <1>2, <2>3, <2>4 DEF IInv, HeadInv, PinInv, CacheInv, CopyInv, disk
  <2>10. NoLostWakeup'
    BY <2>1 DEF NoLostWakeup
  <2> QED
    BY <2>5, <2>6, <2>7, <2>8, <2>9, <2>10 DEF IInv
<1> QED
  BY <1>5, <1>6 DEF End

(* While p commits no call is in progress and nobody else commits.         *)
LEMMA CommitterFacts ==
  ASSUME IInv, NEW p \in Process, Committing(p)
  PROVE  /\ Running /\ committing
         /\ InCall = {} /\ Reserve = {}
         /\ \A q \in Process \ {p} : call[q].at \notin Busy
         /\ \A q \in Process : call[q].wrote = {}
         /\ Installing <=> call[p].at = "install"
<1>1. Running
  BY DEF IInv, Down, Committing
<1>2. committing /\ InCall = {}
  BY DEF IInv, CommitsAlone
<1>3. \A q \in Process \ {p} : ~ Committing(q) /\ call[q].at # "op"
  BY <1>2 DEF IInv, CommitsAlone, InCall
<1>4. \A q \in Process : call[q].at # "op" /\ call[q].wrote = {}
  BY <1>2 DEF InCall, IInv, RoomInv
<1> QED
  BY <1>1, <1>2, <1>3, <1>4 DEF Busy, Committing, Installing, Reserve

(* A step of commit: the log stays as it is or becomes empty, and nothing  *)
(* is pending once the header is written.                                  *)
LEMMA CommitStep ==
  ASSUME IInv, NEW p \in Process, Committing(p),
         NEW c \in Call, call' = [call EXCEPT ![p] = c],
         c.at \in {"write_log", "install", "commit_end"}, c.wrote = {},
         UNCHANGED <<outstanding, committing, ncommit, boot, ncalls>>,
         lh' = lh \/ lh' = << >>,
         pending' \subseteq pending,
         \A i \in pending' : lh' = lh /\ c.at # "install"
  PROVE  /\ CommitsAlone' /\ Down' /\ RoomInv' /\ NoLostWakeup' /\ PendingInv'
         /\ call' \in [Process -> Call]
         /\ call'[p] = c
         /\ \A q \in Process \ {p} : call'[q] = call[q] /\ call[q].at \notin Busy
         /\ Installing' <=> c.at = "install"
<1>1. /\ Running /\ committing
      /\ InCall = {} /\ Reserve = {}
      /\ \A q \in Process \ {p} : call[q].at \notin Busy
      /\ \A q \in Process : call[q].wrote = {}
      /\ Installing <=> call[p].at = "install"
  BY CommitterFacts
<1>2. /\ call' \in [Process -> Call]
      /\ call'[p] = c
      /\ \A q \in Process \ {p} : call'[q] = call[q] /\ call[q].at \notin Busy
  BY <1>1, OneGoesOn DEF IInv
<1>3. Installing' <=> c.at = "install"
  BY <1>2 DEF Installing, Busy
<1>4. /\ \A q \in Process : call'[q].at # "op" /\ call'[q].wrote = {}
      /\ \A q \in Process : Committing(q)' <=> q = p
  BY <1>1, <1>2 DEF Committing, Busy
<1>5. InCall' = {} /\ Reserve' = {}
  BY <1>4 DEF InCall, Reserve
<1>6. CommitsAlone' /\ Down'
  BY <1>1, <1>4, <1>5 DEF IInv, CommitsAlone, Down
<1>7. RoomInv'
  <2>1. Cardinality({}) = 0 /\ Len(lh) \in Nat /\ Len(lh) < LOGBLOCKS /\ Len(<< >>) = 0
    BY <1>1, FS_EmptySet, SeqFacts DEF IInv, TypeOK, RoomInv
  <2>2. Len(lh') \in Nat /\ Len(lh') < LOGBLOCKS
    BY <2>1
  <2>3. Cardinality(Reserve') = 0 /\ \A q \in Process : Cardinality(call'[q].wrote) = 0
    BY <2>1, <1>4, <1>5, Zenon
  <2> QED
    BY <2>1, <2>2, <2>3, <1>4 DEF RoomInv
<1>8. NoLostWakeup'
  BY <1>1, <1>2 DEF IInv, NoLostWakeup
<1>9. PendingInv'
  <2>1. /\ \A q \in Process : InProgress(q)' => InProgress(q) /\ call'[q] = call[q]
        /\ \A q \in Process : InSync(q)' => InSync(q) /\ call'[q] = call[q]
    BY <1>2 DEF InProgress, InSync
  <2>2. pending' \subseteq pending
    OBVIOUS
  <2>3. \A q \in Process : InSync(q)' => /\ \A i \in call[q].behind : i <= ncalls
                                         /\ call[q].behind \intersect pending' # {}
                                              => ncommit < call[q].target
    BY <2>1, <2>2 DEF IInv, PendingInv
  <2>4. /\ \A i \in pending' : i <= ncalls
        /\ Running' /\ lh' = << >> => pending' = {}
        /\ Installing' => pending' = {}
        /\ Running' /\ pending' # {} => committing' \/ InCall' # {}
    BY <1>1, <1>3, <2>2 DEF IInv, PendingInv
  <2>5. /\ \A q \in Process : InProgress(q)' => call'[q].id <= ncalls /\ call'[q].id \notin pending'
        /\ \A q, r \in Process :
             InProgress(q)' /\ InProgress(r)' /\ call'[q].id = call'[r].id => q = r
        /\ \A q, r \in Process : InSync(q)' /\ InProgress(r)' => call'[r].id \notin call'[q].behind
    BY <2>1, <2>2 DEF IInv, PendingInv
  <2> QED
    BY <2>1, <2>3, <2>4, <2>5 DEF PendingInv
<1> QED
  BY <1>2, <1>3, <1>6, <1>7, <1>8, <1>9

LEMMA WriteLogIInv ==
  ASSUME IInv, NEW p \in Process, WriteLog(p)
  PROVE  IInv'
<1> DEFINE i == call[p].tail + 1
           c == [call[p] EXCEPT !.tail = i]
<1>1. /\ Running /\ call[p].at = "write_log" /\ i <= Len(lh)
      /\ slot' = [slot EXCEPT ![i] = Read(lh[i])]
      /\ call' = [call EXCEPT ![p] = c]
      /\ UNCHANGED <<home, head, cache, pinned, log, boot, ncalls, pending>>
  BY DEF WriteLog
<1>2. UNCHANGED <<lh, outstanding, committing, ncommit>>
  BY <1>1 DEF log
<1>3. call[p] \in Call /\ Len(lh) \in Nat /\ Len(lh) <= LOGBLOCKS
  BY CallTyped, SeqFacts DEF IInv, TypeOK
<1>4. call[p].tail \in 0..LOGBLOCKS /\ i \in 1..Len(lh) /\ i \in Slot /\ i \in 0..LOGBLOCKS
  BY <1>1, <1>3 DEF Call, Slot
<1>5. /\ c \in Call /\ c.at = "write_log" /\ c.wrote = {} /\ c.tail = i
      /\ call[p].wrote = {}
  BY <1>1, <1>3, <1>4 DEF Call, IInv, RoomInv
<1> HIDE DEF c
<1>6. Committing(p) /\ c.at \in {"write_log", "install", "commit_end"}
  BY <1>1, <1>5 DEF Committing
<1>7. /\ CommitsAlone' /\ Down' /\ RoomInv' /\ NoLostWakeup' /\ PendingInv'
      /\ call' \in [Process -> Call]
      /\ call'[p] = c
      /\ \A q \in Process \ {p} : call'[q] = call[q] /\ call[q].at \notin Busy
      /\ Installing' <=> c.at = "install"
  BY <1>1, <1>2, <1>5, <1>6, CommitStep
<1>8. lh[i] \in Block /\ lh[i] \in Elements(lh) /\ \A j \in 1..Len(lh) : lh[j] \in Elements(lh)
  BY <1>4, SeqFacts DEF IInv, TypeOK
<1>9. ~ Installing /\ head = << >> /\ pinned = Elements(lh)
  BY <1>1, <1>6, CommitterFacts DEF IInv, HeadInv, PinInv
<1>10. Read(lh[i]) = cache[lh[i]] /\ Read(lh[i]) \in Val
  BY <1>8, <1>9 DEF IInv, TypeOK, CacheInv, Read
<1>11. TypeOK'
  BY <1>1, <1>2, <1>4, <1>7, <1>10 DEF IInv, TypeOK, Call
<1>12. HeadInv' /\ PinInv' /\ CacheInv'
  BY <1>1, <1>2, <1>4, <1>5, <1>7, <1>9 DEF IInv, HeadInv, PinInv, CacheInv, Busy
<1>13. CopyInv'
  <2>1. \A j \in 1..i : slot'[j] = cache[lh[j]]
    <3>1. \A j \in 1..call[p].tail : j # i /\ j \in Slot /\ slot[j] = cache[lh[j]]
      BY <1>1, <1>4 DEF IInv, CopyInv, Slot
    <3> QED
      BY <3>1, <1>1, <1>4, <1>10 DEF IInv, TypeOK
  <2> QED
    BY <2>1, <1>1, <1>2, <1>5, <1>7 DEF CopyInv, Busy
<1> QED
  BY <1>7, <1>11, <1>12, <1>13 DEF IInv

LEMMA WriteHeadIInv ==
  ASSUME IInv, NEW p \in Process, WriteHead(p)
  PROVE  IInv'
<1> DEFINE c == [call[p] EXCEPT !.at = "install", !.tail = 0]
<1>1. /\ Running /\ call[p].at = "write_log" /\ call[p].tail = Len(lh)
      /\ head' = lh /\ pending' = {}
      /\ call' = [call EXCEPT ![p] = c]
      /\ UNCHANGED <<home, slot, cache, pinned, log, boot, ncalls>>
  BY DEF WriteHead
<1>2. UNCHANGED <<lh, outstanding, committing, ncommit>>
  BY <1>1 DEF log
<1>3. call[p] \in Call /\ Len(lh) \in Nat /\ Len(lh) <= LOGBLOCKS
  BY CallTyped, SeqFacts DEF IInv, TypeOK
<1>4. call[p].wrote = {}
  BY <1>1 DEF IInv, RoomInv
<1>5. c \in Call /\ c.at = "install" /\ c.wrote = {} /\ c.tail = 0
  <2>1. 0 \in 0..LOGBLOCKS /\ "install" \in Location
    BY DEF Location
  <2> QED
    BY <2>1, <1>3, <1>4 DEF Call
<1> HIDE DEF c
<1>6. Committing(p) /\ c.at \in {"write_log", "install", "commit_end"}
  BY <1>1, <1>5 DEF Committing
<1>7. /\ CommitsAlone' /\ Down' /\ RoomInv' /\ NoLostWakeup' /\ PendingInv'
      /\ call' \in [Process -> Call]
      /\ call'[p] = c
      /\ \A q \in Process \ {p} : call'[q] = call[q] /\ call[q].at \notin Busy
      /\ Installing' <=> c.at = "install"
  <2>1. pending' \subseteq pending /\ \A i \in pending' : lh' = lh /\ c.at # "install"
    BY <1>1
  <2> QED
    BY <2>1, <1>1, <1>2, <1>5, <1>6, CommitStep
<1>8. pinned = Elements(lh) /\ Elements(lh) = {lh[i] : i \in 1..Len(lh)}
  BY <1>1, <1>6, CommitterFacts, SeqFacts DEF IInv, TypeOK, PinInv
<1>9. \A i \in 1..Len(lh) : slot[i] = cache[lh[i]]
  BY <1>1 DEF IInv, CopyInv
<1>10. TypeOK'
  BY <1>1, <1>2, <1>7 DEF IInv, TypeOK, Call
<1>11. HeadInv'
  BY <1>1, <1>2, <1>3, <1>5, <1>7 DEF IInv, HeadInv, Busy
<1>12. PinInv' /\ CacheInv'
  BY <1>1, <1>2, <1>5, <1>7, <1>8 DEF IInv, PinInv, CacheInv, Busy
<1>13. CopyInv'
  BY <1>1, <1>2, <1>3, <1>5, <1>7, <1>9 DEF CopyInv, Busy
<1> QED
  BY <1>7, <1>10, <1>11, <1>12, <1>13 DEF IInv

LEMMA InstallIInv ==
  ASSUME IInv, NEW p \in Process, Install(p)
  PROVE  IInv'
<1> DEFINE i == call[p].tail + 1
           c == [call[p] EXCEPT !.tail = i]
<1>1. /\ Running /\ call[p].at = "install" /\ i <= Len(lh)
      /\ home' = [home EXCEPT ![lh[i]] = slot[i]]
      /\ cache' = [cache EXCEPT ![lh[i]] = slot[i]]
      /\ pinned' = pinned \ {lh[i]}
      /\ call' = [call EXCEPT ![p] = c]
      /\ UNCHANGED <<slot, head, log, boot, ncalls, pending>>
  BY DEF Install, CopyHome
<1>2. UNCHANGED <<lh, outstanding, committing, ncommit>>
  BY <1>1 DEF log
<1>3. call[p] \in Call /\ Len(lh) \in Nat /\ Len(lh) <= LOGBLOCKS
  BY CallTyped, SeqFacts DEF IInv, TypeOK
<1>4. call[p].tail \in 0..LOGBLOCKS /\ i \in 1..Len(lh) /\ i \in Slot /\ i \in 0..LOGBLOCKS
  BY <1>1, <1>3 DEF Call, Slot
<1>5. /\ c \in Call /\ c.at = "install" /\ c.wrote = {} /\ c.tail = i
      /\ call[p].wrote = {}
  BY <1>1, <1>3, <1>4 DEF Call, IInv, RoomInv
<1> HIDE DEF c
<1>6. Committing(p) /\ c.at \in {"write_log", "install", "commit_end"}
  BY <1>1, <1>5 DEF Committing
<1>7. Installing /\ pending = {}
  BY <1>1 DEF Installing, IInv, PendingInv
<1>8. /\ CommitsAlone' /\ Down' /\ RoomInv' /\ NoLostWakeup' /\ PendingInv'
      /\ call' \in [Process -> Call]
      /\ call'[p] = c
      /\ \A q \in Process \ {p} : call'[q] = call[q] /\ call[q].at \notin Busy
      /\ Installing' <=> c.at = "install"
  <2>1. pending' \subseteq pending /\ \A j \in pending' : lh' = lh /\ c.at # "install"
    BY <1>1, <1>7
  <2> QED
    BY <2>1, <1>1, <1>2, <1>5, <1>6, CommitStep
<1>9. /\ \A j \in 1..Len(lh) : lh[j] \in Block /\ j \in Slot
      /\ \A j, k \in 1..Len(lh) : lh[j] = lh[k] => j = k
  BY <1>3, SeqFacts DEF IInv, TypeOK, HeadInv, NoDup, Slot
<1>10. slot[i] \in Val /\ slot[i] # NotCached
  BY <1>4 DEF IInv, TypeOK, Val, NotCached
<1>11. TypeOK'
  BY <1>1, <1>2, <1>4, <1>8, <1>10 DEF IInv, TypeOK, Call
<1>12. HeadInv'
  BY <1>1, <1>2, <1>4, <1>5, <1>7, <1>8 DEF IInv, HeadInv, Busy
<1>13. PinInv'
  <2>1. pinned = {lh[j] : j \in i..Len(lh)}
    BY <1>1 DEF IInv, PinInv
  <2>2. pinned' = {lh[j] : j \in (i + 1)..Len(lh)}
    BY <2>1, <1>1, <1>4, <1>9
  <2> QED
    BY <2>2, <1>2, <1>5, <1>8 DEF PinInv, Busy
<1>14. CacheInv'
  BY <1>1, <1>4, <1>9, <1>10 DEF IInv, TypeOK, CacheInv
<1>15. CopyInv'
  <2>1. /\ \A j \in 1..call[p].tail : home[lh[j]] = slot[j]
        /\ \A j \in i..Len(lh) : cache[lh[j]] = slot[j]
    BY <1>1 DEF IInv, CopyInv
  <2>2. \A j \in 1..i : home'[lh[j]] = slot[j]
    <3>1. home'[lh[i]] = slot[i] /\ \A b \in Block : b # lh[i] => home'[b] = home[b]
      BY <1>1, <1>4, <1>9 DEF IInv, TypeOK
    <3>2. \A j \in 1..i : j # i => j \in 1..call[p].tail /\ lh[j] \in Block /\ lh[j] # lh[i]
      BY <1>1, <1>3, <1>4, <1>9
    <3> QED
      BY <3>1, <3>2, <2>1
  <2>3. \A j \in (i + 1)..Len(lh) : cache'[lh[j]] = slot[j]
    BY <2>1, <1>1, <1>3, <1>4, <1>9 DEF IInv, TypeOK
  <2> QED
    BY <2>2, <2>3, <1>1, <1>2, <1>5, <1>8 DEF CopyInv, Busy
<1> QED
  BY <1>8, <1>11, <1>12, <1>13, <1>14, <1>15 DEF IInv

LEMMA EraseIInv ==
  ASSUME IInv, NEW p \in Process, Erase(p)
  PROVE  IInv'
<1> DEFINE c == [call[p] EXCEPT !.at = "commit_end"]
<1>1. /\ Running /\ call[p].at = "install" /\ call[p].tail = Len(lh)
      /\ lh' = << >> /\ head' = << >>
      /\ call' = [call EXCEPT ![p] = c]
      /\ UNCHANGED <<home, slot, cache, pinned, outstanding, committing, ncommit, boot,
                     ncalls, pending>>
  BY DEF Erase, Goto
<1>2. /\ call[p] \in Call /\ Len(lh) \in Nat
      /\ << >> \in Seq(Block) /\ Len(<< >>) = 0 /\ Elements(<< >>) = {} /\ NoDup(<< >>)
  BY CallTyped, SeqFacts DEF IInv, TypeOK
<1>3. call[p].wrote = {}
  BY <1>1 DEF IInv, RoomInv
<1>4. c \in Call /\ c.at = "commit_end" /\ c.wrote = {}
  BY <1>2, <1>3 DEF Call, Location
<1> HIDE DEF c
<1>5. Committing(p) /\ c.at \in {"write_log", "install", "commit_end"}
  BY <1>1, <1>4 DEF Committing
<1>6. Installing /\ pending = {}
  BY <1>1 DEF Installing, IInv, PendingInv
<1>7. /\ CommitsAlone' /\ Down' /\ RoomInv' /\ NoLostWakeup' /\ PendingInv'
      /\ call' \in [Process -> Call]
      /\ call'[p] = c
      /\ \A q \in Process \ {p} : call'[q] = call[q] /\ call[q].at \notin Busy
      /\ Installing' <=> c.at = "install"
  <2>1. pending' \subseteq pending /\ \A i \in pending' : lh' = lh /\ c.at # "install"
    BY <1>1, <1>6
  <2> QED
    BY <2>1, <1>1, <1>4, <1>5, CommitStep
<1>8. pinned = {}
  <2>1. pinned = {lh[j] : j \in (Len(lh) + 1)..Len(lh)}
    BY <1>1 DEF IInv, PinInv
  <2> QED
    BY <2>1, <1>2
<1>9. TypeOK'
  BY <1>1, <1>2, <1>7 DEF IInv, TypeOK, Call
<1>10. HeadInv' /\ PinInv' /\ CacheInv'
  BY <1>1, <1>2, <1>4, <1>7, <1>8 DEF IInv, HeadInv, PinInv, CacheInv, Busy
<1>11. CopyInv'
  BY <1>1, <1>4, <1>7 DEF CopyInv, Busy
<1> QED
  BY <1>7, <1>9, <1>10, <1>11 DEF IInv

LEMMA CommitEndIInv ==
  ASSUME IInv, NEW p \in Process, CommitEnd(p)
  PROVE  IInv'
<1>1. /\ Running /\ call[p].at = "commit_end"
      /\ committing' = FALSE /\ ncommit' = ncommit + 1
      /\ Wakeup(p, "idle")
      /\ UNCHANGED <<disk, cache, pinned, lh, outstanding, boot, ncalls, pending>>
  BY DEF CommitEnd
<1>2. /\ InCall = {} /\ Reserve = {}
      /\ \A q \in Process \ {p} : call[q].at \notin Busy
      /\ \A q \in Process : call[q].wrote = {}
      /\ ~ Installing
  BY <1>1, CommitterFacts DEF Committing
<1>3. lh = << >> /\ head = << >> /\ pending = {}
  BY <1>1, <1>2 DEF IInv, HeadInv, PendingInv
<1>4. /\ call' \in [Process -> Call]
      /\ call'[p].at = "idle" /\ call'[p].wrote = {}
      /\ \A q \in Process \ {p} :
           /\ call'[q].wrote = call[q].wrote /\ call'[q].id = call[q].id
           /\ call'[q].behind = call[q].behind /\ call'[q].target = call[q].target
           /\ InSync(q)' <=> InSync(q)
           /\ InProgress(q)' <=> InProgress(q)
           /\ call[q].at \in Busy \/ call'[q].at \in Busy => call'[q] = call[q]
      /\ \A q \in Process : call'[q].at \notin {"begin_sleep", "sync_sleep"}
  BY <1>1, WakeupFacts DEF IInv, Location, Idle
<1>5. \A q \in Process : call'[q].at \notin Busy /\ call'[q].wrote = {}
  BY <1>2, <1>4 DEF Busy
<1>6. InCall' = InCall /\ Reserve' = Reserve /\ ~ Installing'
  BY <1>2, <1>5 DEF InCall, Reserve, Installing, Busy
<1>7. TypeOK'
  <2>1. ncommit' \in Nat
    BY <1>1 DEF IInv, TypeOK
  <2> QED
    BY <2>1, <1>1, <1>4 DEF IInv, TypeOK, Call, disk
<1>8. CommitsAlone' /\ Down'
  BY <1>1, <1>2, <1>5, <1>6 DEF IInv, CommitsAlone, Committing, Down, Busy
<1>9. RoomInv'
  BY <1>1, <1>2, <1>5, <1>6 DEF IInv, RoomInv
<1>10. HeadInv' /\ PinInv' /\ CacheInv' /\ CopyInv'
  BY <1>1, <1>2, <1>5, <1>6 DEF IInv, HeadInv, PinInv, CacheInv, CopyInv, Busy, disk
<1>11. NoLostWakeup'
  BY <1>4 DEF NoLostWakeup
<1>12. PendingInv'
  <2>1. \A q \in Process : /\ InProgress(q)' => InProgress(q) /\ call'[q].id = call[q].id
                           /\ InSync(q)' => InSync(q) /\ call'[q].behind = call[q].behind
    BY <1>4 DEF InProgress, InSync
  <2> QED
    BY <2>1, <1>1, <1>3, <1>6 DEF IInv, PendingInv
<1> QED
  BY <1>7, <1>8, <1>9, <1>10, <1>11, <1>12 DEF IInv

LEMMA SyncIInv ==
  ASSUME IInv, NEW p \in Process, Sync(p)
  PROVE  IInv'
<1> DEFINE c == [Idle EXCEPT !.at = "sync", !.target = NextCommit, !.behind = pending]
<1>1. /\ Running /\ call[p].at = "idle"
      /\ call' = [call EXCEPT ![p] = c]
      /\ UNCHANGED <<disk, cache, pinned, log, boot, ncalls, pending>>
  BY DEF Sync
<1>2. ncommit \in Nat /\ pending \subseteq Val
  BY DEF IInv, TypeOK
<1>3. c \in Call /\ c.at = "sync" /\ c.wrote = {} /\ c.behind = pending /\ c.target = ncommit + 1
  <2>1. 0 \in Val /\ "sync" \in Location /\ NextCommit \in Nat
    BY <1>2 DEF Val, Location, NextCommit
  <2>2. c \in Call
    BY <2>1, <1>2, LocalsType
  <2> QED
    BY <2>2 DEF Idle, NextCommit
<1> HIDE DEF c
<1>4. /\ call' \in [Process -> Call]
      /\ call'[p] = c
      /\ \A q \in Process \ {p} : call'[q] = call[q]
  BY <1>1, <1>3, OneGoesOn DEF IInv
<1>5. UNCHANGED <<home, slot, head, lh, outstanding, committing, ncommit>>
  BY <1>1 DEF disk, log
<1>6. TypeOK'
  BY <1>1, <1>4, <1>5 DEF IInv, TypeOK, Call
<1>7. NoLostWakeup'
  BY <1>3, <1>4, <1>5 DEF IInv, NoLostWakeup, Room
<1>8. PendingInv'
  <2>1. /\ \A q \in Process : InProgress(q)' => InProgress(q) /\ call'[q] = call[q]
        /\ \A q \in Process : InSync(q)' => q = p \/ (InSync(q) /\ call'[q] = call[q])
    BY <1>3, <1>4 DEF InProgress, InSync
  <2>2. (Installing' <=> Installing) /\ InCall' = InCall
    BY <1>1, <1>3, <1>4 DEF Installing, InCall
  <2>3. \A q, r \in Process : InSync(q)' /\ InProgress(r)' => call'[r].id \notin call'[q].behind
    BY <2>1, <1>3, <1>4 DEF IInv, PendingInv
  <2>4. \A q \in Process :
          InSync(q)' => /\ \A i \in call'[q].behind : i <= ncalls
                        /\ call'[q].behind \intersect pending # {} => ncommit < call'[q].target
    BY <2>1, <1>2, <1>3, <1>4 DEF IInv, PendingInv
  <2> QED
    BY <2>1, <2>2, <2>3, <2>4, <1>1, <1>5 DEF IInv, PendingInv
<1>9. Running /\ \A q \in Process :
         \/ call'[q] = call[q]
         \/ call[q].at \notin Busy /\ call'[q].at \notin Busy /\ call'[q].wrote = {}
  BY <1>1, <1>3, <1>4 DEF Busy
<1> QED
  BY <1>1, <1>6, <1>7, <1>8, <1>9, LocalStep

LEMMA SyncLoopIInv ==
  ASSUME IInv, NEW p \in Process, SyncLoop(p)
  PROVE  IInv'
<1>1. /\ Running /\ call[p].at = "sync"
      /\ UNCHANGED <<disk, cache, pinned, log, boot, ncalls, pending>>
  BY DEF SyncLoop
<1>2. call[p] \in Call /\ call[p].wrote = {}
  BY <1>1, CallTyped DEF IInv, RoomInv
<1>3. PICK c \in Call :
        /\ call' = [call EXCEPT ![p] = c]
        /\ c.wrote = {}
        /\ \/ /\ c.at = "sync_sleep" /\ ncommit < c.target
              /\ c.behind = call[p].behind /\ c.target = call[p].target
           \/ c.at = "idle"
  <2>1. CASE ncommit < call[p].target /\ Goto(p, "sync_sleep")
    <3> DEFINE c == [call[p] EXCEPT !.at = "sync_sleep"]
    <3>1. /\ c \in Call /\ c.wrote = {} /\ c.at = "sync_sleep"
          /\ c.behind = call[p].behind /\ c.target = call[p].target
      BY <1>2 DEF Call, Location
    <3>2. call' = [call EXCEPT ![p] = c]
      BY <2>1 DEF Goto
    <3> QED
      BY <3>1, <3>2, <2>1
  <2>2. CASE call' = [call EXCEPT ![p] = Idle]
    <3>1. 0 \in Val /\ 0 \in Nat /\ {} \in SUBSET Val /\ "idle" \in Location
      BY DEF Val, Location
    <3>2. Idle \in Call
      BY <3>1, LocalsType
    <3>3. Idle.wrote = {} /\ Idle.at = "idle"
      BY DEF Idle
    <3> QED
      BY <3>2, <3>3, <2>2
  <2> QED
    BY <2>1, <2>2 DEF SyncLoop
<1>4. /\ call' \in [Process -> Call]
      /\ call'[p] = c
      /\ \A q \in Process \ {p} : call'[q] = call[q]
  BY <1>3, OneGoesOn DEF IInv
<1>5. UNCHANGED <<home, slot, head, lh, outstanding, committing, ncommit>>
  BY <1>1 DEF disk, log
<1>6. TypeOK'
  BY <1>1, <1>4, <1>5 DEF IInv, TypeOK, Call
<1>7. NoLostWakeup'
  BY <1>3, <1>4, <1>5 DEF IInv, NoLostWakeup, Room
<1>8. PendingInv'
  <2>1. /\ \A q \in Process : InProgress(q)' => InProgress(q) /\ call'[q] = call[q]
        /\ \A q \in Process : InSync(q)' => /\ InSync(q)
                                            /\ call'[q].behind = call[q].behind
                                            /\ call'[q].target = call[q].target
    BY <1>1, <1>3, <1>4 DEF InProgress, InSync
  <2>2. (Installing' <=> Installing) /\ InCall' = InCall
    BY <1>1, <1>3, <1>4 DEF Installing, InCall
  <2> QED
    BY <2>1, <2>2, <1>1, <1>5 DEF IInv, PendingInv
<1>9. Running /\ \A q \in Process :
         \/ call'[q] = call[q]
         \/ call[q].at \notin Busy /\ call'[q].at \notin Busy /\ call'[q].wrote = {}
  BY <1>1, <1>3, <1>4 DEF Busy
<1> QED
  BY <1>1, <1>6, <1>7, <1>8, <1>9, LocalStep

(* A buffer that is not pinned is as its home: giving it up loses nothing. *)
LEMMA EvictIInv ==
  ASSUME IInv, NEW b \in Block, Evict(b)
  PROVE  IInv'
<1>1. /\ b \notin pinned
      /\ cache' = [cache EXCEPT ![b] = NotCached]
      /\ UNCHANGED <<home, slot, head, pinned, lh, outstanding, committing, ncommit, call,
                     boot, ncalls, pending>>
  BY DEF Evict, disk, log
<1>2. \A q \in pinned : q \in Block /\ cache'[q] = cache[q]
  BY <1>1 DEF IInv, TypeOK
<1>3. TypeOK'
  BY <1>1 DEF IInv, TypeOK
<1>4. InCall' = InCall /\ Reserve' = Reserve /\ (Installing' <=> Installing)
  BY <1>1 DEF InCall, Reserve, Installing
<1>5. CommitsAlone' /\ Down' /\ RoomInv' /\ HeadInv' /\ PinInv'
  BY <1>1, <1>4 DEF IInv, CommitsAlone, Committing, Down, RoomInv, HeadInv, PinInv
<1>6. CacheInv'
  BY <1>1, <1>2 DEF IInv, TypeOK, CacheInv
<1>7. CopyInv'
  <2>1. \A p \in Process : call[p].at = "write_log" =>
          \A i \in 1..call[p].tail : cache'[lh[i]] = cache[lh[i]]
    <3> SUFFICES ASSUME NEW p \in Process, call[p].at = "write_log", NEW i \in 1..call[p].tail
                 PROVE  cache'[lh[i]] = cache[lh[i]]
      OBVIOUS
    <3>1. pinned = Elements(lh) /\ call[p].tail <= Len(lh) /\ call[p].tail \in Int
      BY CommitterFacts, CallTyped DEF Committing, IInv, PinInv, HeadInv, Call
    <3>2. i \in 1..Len(lh) /\ lh[i] \in pinned
      BY <3>1, SeqFacts DEF IInv, TypeOK
    <3> QED
      BY <3>2, <1>2
  <2>2. \A p \in Process : call[p].at = "install" =>
          \A i \in (call[p].tail + 1)..Len(lh) : cache'[lh[i]] = cache[lh[i]]
    BY <1>2 DEF IInv, PinInv
  <2> QED
    BY <2>1, <2>2, <1>1 DEF IInv, CopyInv
<1>8. NoLostWakeup' /\ PendingInv'
  BY <1>1, <1>4 DEF IInv, NoLostWakeup, Room, PendingInv, InProgress, InSync
<1> QED
  BY <1>3, <1>5, <1>6, <1>7, <1>8 DEF IInv

(* After a power failure nothing is left but the disk.                     *)
LEMMA CrashIInv ==
  ASSUME IInv, Crash
  PROVE  IInv'
<1>1. /\ cache' = [b \in Block |-> NotCached]
      /\ pinned' = {} /\ lh' = << >> /\ outstanding' = 0 /\ committing' = FALSE
      /\ ncommit' = 0 /\ pending' = {}
      /\ boot' = [at |-> "read_head", tail |-> 0]
      /\ UNCHANGED <<home, slot, head, ncalls>>
  BY DEF Crash, disk
<1>2. /\ Idle \in Call
      /\ call' \in [Process -> Call]
      /\ \A p \in Process : call'[p].at = "idle" /\ call'[p].wrote = {}
  <2>1. 0 \in Val /\ 0 \in Nat /\ {} \in SUBSET Val /\ "idle" \in Location
    BY DEF Val, Location
  <2>2. Idle \in Call
    BY <2>1, LocalsType
  <2> QED
    BY <2>2 DEF Crash, Idle
<1>3. boot'.at = "read_head" /\ ~ Running'
  BY <1>1
<1>4. /\ << >> \in Seq(Block) /\ Len(<< >>) = 0 /\ Elements(<< >>) = {} /\ NoDup(<< >>)
      /\ 0 \in 0..LOGBLOCKS /\ 0 \in 0..Cardinality(Process)
  BY SeqFacts, FS_CardinalityType DEF IInv, TypeOK
<1>5. TypeOK'
  <2>1. boot' \in [at : {"read_head", "install", "up"}, tail : 0..LOGBLOCKS]
    BY <1>1, <1>4
  <2>2. cache' \in [Block -> Val \union {NotCached}]
    BY <1>1
  <2>3. call' \in [Process -> [at : Location, id : Val, wrote : SUBSET Block,
                              tail : 0..LOGBLOCKS, target : Nat, behind : SUBSET Val]]
    BY <1>2 DEF Call
  <2>4. /\ home' \in [Block -> Val] /\ slot' \in [Slot -> Val] /\ ncalls' \in Val
        /\ head' \in Seq(Block) /\ Len(head') <= LOGBLOCKS
        /\ lh' \in Seq(Block) /\ Len(lh') <= LOGBLOCKS
        /\ outstanding' \in 0..Cardinality(Process)
    BY <1>1, <1>4 DEF IInv, TypeOK
  <2> QED
    BY <2>1, <2>2, <2>3, <2>4, <1>1 DEF TypeOK
<1>6. InCall' = {} /\ Reserve' = {} /\ ~ Installing'
  BY <1>2 DEF InCall, Reserve, Installing
<1>7. Cardinality(InCall') = 0 /\ Cardinality(Reserve') = 0
      /\ \A p \in Process : Cardinality(call'[p].wrote) = 0
  BY <1>2, <1>6, FS_EmptySet, Zenon
<1>8. CommitsAlone' /\ Down'
  BY <1>1, <1>2, <1>3, <1>6, <1>7 DEF CommitsAlone, Committing, Down
<1>9. RoomInv'
  BY <1>1, <1>2, <1>3, <1>4, <1>7 DEF RoomInv
<1>10. HeadInv' /\ PinInv' /\ CopyInv'
  BY <1>1, <1>2, <1>3, <1>4, <1>6 DEF IInv, HeadInv, PinInv, CopyInv
<1>11. CacheInv'
  BY <1>1 DEF CacheInv
<1>12. NoLostWakeup' /\ PendingInv'
  BY <1>1, <1>2, <1>3, <1>6 DEF NoLostWakeup, PendingInv, InProgress, InSync
<1> QED
  BY <1>5, <1>8, <1>9, <1>10, <1>11, <1>12 DEF IInv

(* Steps of recovery: no process is in the file system yet.                *)
LEMMA RecoveryStep ==
  ASSUME IInv, ~ Running, lh' \in Seq(Block), Len(lh') <= LOGBLOCKS,
         Running' => lh' = << >>,
         UNCHANGED <<pinned, outstanding, committing, ncommit, call, ncalls, pending>>
  PROVE  /\ CommitsAlone' /\ RoomInv' /\ PinInv' /\ NoLostWakeup' /\ PendingInv'
         /\ \A p \in Process : call'[p].at = "idle" /\ call'[p].wrote = {}
         /\ pinned = {} /\ pending = {} /\ ~ committing /\ ~ Installing'
<1>1. /\ \A p \in Process : call[p].at = "idle" /\ call[p].wrote = {}
      /\ pinned = {} /\ pending = {} /\ ~ committing
  BY DEF IInv, Down, RoomInv
<1>2. InCall' = InCall /\ Reserve' = {} /\ ~ Installing'
  BY <1>1 DEF InCall, Reserve, Installing
<1>3. /\ CommitsAlone' /\ NoLostWakeup' /\ PendingInv'
  BY <1>1, <1>2 DEF IInv, CommitsAlone, Committing, NoLostWakeup, PendingInv, InProgress, InSync
<1>4. PinInv'
  BY <1>1, SeqFacts DEF PinInv
<1>5. RoomInv'
  <2>1. Cardinality(Reserve') = 0 /\ \A p \in Process : Cardinality(call'[p].wrote) = 0
    BY <1>1, <1>2, FS_EmptySet, Zenon
  <2>2. Len(lh') \in Nat /\ (Running' => Len(lh') = 0)
    BY SeqFacts
  <2> QED
    BY <2>1, <2>2, <1>1 DEF RoomInv
<1> QED
  BY <1>1, <1>2, <1>3, <1>4, <1>5

LEMMA RecoverHeadIInv ==
  ASSUME IInv, RecoverHead
  PROVE  IInv'
<1>1. /\ boot.at = "read_head" /\ lh' = head
      /\ boot' = [at |-> "install", tail |-> 0]
      /\ UNCHANGED <<home, slot, head, cache, pinned, outstanding, committing, ncommit, call,
                     ncalls, pending>>
  BY DEF RecoverHead, disk
<1>2. /\ ~ Running /\ ~ Running' /\ boot'.at = "install" /\ boot'.tail = 0
      /\ lh' \in Seq(Block) /\ Len(lh') <= LOGBLOCKS /\ Len(lh') \in Nat
  BY <1>1, SeqFacts DEF IInv, TypeOK
<1>3. /\ CommitsAlone' /\ RoomInv' /\ PinInv' /\ NoLostWakeup' /\ PendingInv'
      /\ \A p \in Process : call'[p].at = "idle" /\ call'[p].wrote = {}
      /\ pinned = {} /\ pending = {} /\ ~ committing
  BY <1>1, <1>2, RecoveryStep
<1>4. TypeOK'
  <2>1. boot' \in [at : {"read_head", "install", "up"}, tail : 0..LOGBLOCKS]
    <3>1. 0 \in 0..LOGBLOCKS
      OBVIOUS
    <3> QED
      BY <1>1, <3>1
  <2> QED
    BY <2>1, <1>1, <1>2 DEF IInv, TypeOK
<1>5. Down' /\ HeadInv' /\ CacheInv' /\ CopyInv'
  BY <1>1, <1>2, <1>3 DEF IInv, Down, HeadInv, CacheInv, CopyInv
<1> QED
  BY <1>3, <1>4, <1>5 DEF IInv

LEMMA RecoverInstallIInv ==
  ASSUME IInv, RecoverInstall
  PROVE  IInv'
<1> DEFINE i == boot.tail + 1
<1>1. /\ boot.at = "install" /\ i <= Len(lh)
      /\ home' = [home EXCEPT ![lh[i]] = slot[i]]
      /\ cache' = [cache EXCEPT ![lh[i]] = slot[i]]
      /\ boot' = [boot EXCEPT !.tail = i]
      /\ UNCHANGED <<slot, head, pinned, lh, outstanding, committing, ncommit, call,
                     ncalls, pending>>
  BY DEF RecoverInstall, CopyHome, log
<1>2. /\ Len(lh) \in Nat /\ Len(lh) <= LOGBLOCKS /\ boot.tail \in Nat
      /\ i \in 1..Len(lh) /\ i \in Slot /\ i \in 0..LOGBLOCKS
      /\ \A j \in 1..Len(lh) : lh[j] \in Block
      /\ \A j, k \in 1..Len(lh) : lh[j] = lh[k] => j = k
  <2>1. /\ Len(lh) \in Nat /\ Len(lh) <= LOGBLOCKS /\ boot.tail \in Nat
        /\ \A j \in 1..Len(lh) : lh[j] \in Block
        /\ \A j, k \in 1..Len(lh) : lh[j] = lh[k] => j = k
    BY SeqFacts DEF IInv, TypeOK, HeadInv, NoDup
  <2> QED
    BY <2>1, <1>1 DEF Slot
<1>3. slot[i] \in Val /\ slot[i] # NotCached
  BY <1>2 DEF IInv, TypeOK, Val, NotCached
<1>4. boot'.at = "install" /\ boot'.tail = i /\ ~ Running /\ ~ Running'
  BY <1>1 DEF IInv, TypeOK
<1>5. /\ CommitsAlone' /\ RoomInv' /\ PinInv' /\ NoLostWakeup' /\ PendingInv'
      /\ \A p \in Process : call'[p].at = "idle" /\ call'[p].wrote = {}
      /\ pinned = {} /\ pending = {} /\ ~ committing
  <2>1. lh' \in Seq(Block) /\ Len(lh') <= LOGBLOCKS
    BY <1>1 DEF IInv, TypeOK
  <2> QED
    BY <2>1, <1>1, <1>4, RecoveryStep
<1>6. TypeOK'
  <2>1. boot' \in [at : {"read_head", "install", "up"}, tail : 0..LOGBLOCKS]
    BY <1>1, <1>2 DEF IInv, TypeOK
  <2>2. home' \in [Block -> Val] /\ cache' \in [Block -> Val \union {NotCached}]
    BY <1>1, <1>2, <1>3 DEF IInv, TypeOK
  <2> QED
    BY <2>1, <2>2, <1>1 DEF IInv, TypeOK
<1>7. Down' /\ HeadInv'
  BY <1>1, <1>2, <1>4, <1>5 DEF IInv, Down, HeadInv
<1>8. CacheInv'
  BY <1>1, <1>2, <1>5 DEF IInv, TypeOK, CacheInv
<1>9. CopyInv'
  <2>1. \A j \in 1..i : j # i => j \in 1..boot.tail /\ lh[j] \in Block /\ lh[j] # lh[i]
    BY <1>1, <1>2
  <2>2. home'[lh[i]] = slot[i] /\ \A b \in Block : b # lh[i] => home'[b] = home[b]
    BY <1>1, <1>2 DEF IInv, TypeOK
  <2>3. \A j \in 1..i : home'[lh[j]] = slot[j]
    BY <2>1, <2>2, <1>1 DEF IInv, CopyInv
  <2> QED
    BY <2>3, <1>1, <1>4, <1>5 DEF CopyInv
<1> QED
  BY <1>5, <1>6, <1>7, <1>8, <1>9 DEF IInv

LEMMA RecoverEraseIInv ==
  ASSUME IInv, RecoverErase
  PROVE  IInv'
<1>1. /\ boot.at = "install" /\ boot.tail = Len(lh)
      /\ lh' = << >> /\ head' = << >>
      /\ boot' = [at |-> "up", tail |-> 0]
      /\ UNCHANGED <<home, slot, cache, pinned, outstanding, committing, ncommit, call,
                     ncalls, pending>>
  BY DEF RecoverErase
<1>2. /\ << >> \in Seq(Block) /\ Len(<< >>) = 0 /\ Elements(<< >>) = {} /\ NoDup(<< >>)
      /\ 0 \in 0..LOGBLOCKS
  BY SeqFacts DEF IInv, TypeOK
<1>3. boot'.at = "up" /\ ~ Running /\ Running'
  BY <1>1
<1>4. /\ CommitsAlone' /\ RoomInv' /\ PinInv' /\ NoLostWakeup' /\ PendingInv'
      /\ \A p \in Process : call'[p].at = "idle" /\ call'[p].wrote = {}
      /\ pinned = {} /\ pending = {} /\ ~ committing /\ ~ Installing'
  BY <1>1, <1>2, <1>3, RecoveryStep
<1>5. TypeOK'
  <2>1. boot' \in [at : {"read_head", "install", "up"}, tail : 0..LOGBLOCKS]
    BY <1>1, <1>2
  <2> QED
    BY <2>1, <1>1, <1>2 DEF IInv, TypeOK
<1>6. Down' /\ HeadInv' /\ CacheInv' /\ CopyInv'
  BY <1>1, <1>2, <1>3, <1>4 DEF IInv, Down, HeadInv, CacheInv, CopyInv
<1> QED
  BY <1>4, <1>5, <1>6 DEF IInv

(* The machine starts like after a crash, with an empty log.               *)
LEMMA InitIInv == Init => IInv
<1> SUFFICES ASSUME Init PROVE IInv
  OBVIOUS
<1>1. /\ Idle \in Call /\ \A p \in Process : call[p] = Idle
      /\ \A p \in Process : call[p].at = "idle" /\ call[p].wrote = {}
      /\ call \in [Process -> Call]
  <2>1. 0 \in Val /\ 0 \in Nat /\ {} \in SUBSET Val /\ "idle" \in Location
    BY DEF Val, Location
  <2>2. Idle \in Call
    BY <2>1, LocalsType
  <2> QED
    BY <2>2 DEF Init, Idle
<1>2. /\ << >> \in Seq(Block) /\ Len(<< >>) = 0 /\ NoDup(<< >>)
      /\ 0 \in 0..LOGBLOCKS /\ 0 \in 0..Cardinality(Process) /\ 0 \in Val
  <2>1. Cardinality(Process) \in Nat
    BY FS_CardinalityType
  <2>2. << >> \in Seq(Block)
    BY EmptySeq
  <2>3. Len(<< >>) = 0 /\ NoDup(<< >>)
    BY <2>2, SeqFacts
  <2> QED
    BY <2>1, <2>3, <2>2 DEF Val
<1>3. boot.at = "read_head" /\ boot.tail = 0 /\ ~ Running
  BY DEF Init
<1>4. TypeOK
  <2>1. boot \in [at : {"read_head", "install", "up"}, tail : 0..LOGBLOCKS]
    BY <1>2 DEF Init
  <2>2. home \in [Block -> Val] /\ slot \in [Slot -> Val]
        /\ cache \in [Block -> Val \union {NotCached}]
    BY <1>2 DEF Init, Blank
  <2>3. call \in [Process -> [at : Location, id : Val, wrote : SUBSET Block,
                             tail : 0..LOGBLOCKS, target : Nat, behind : SUBSET Val]]
    BY <1>1 DEF Call
  <2>4. /\ head \in Seq(Block) /\ Len(head) <= LOGBLOCKS
        /\ lh \in Seq(Block) /\ Len(lh) <= LOGBLOCKS
        /\ outstanding \in 0..Cardinality(Process) /\ ncalls \in Val
    BY <1>2 DEF Init
  <2> QED
    BY <2>1, <2>2, <2>3, <2>4 DEF Init, TypeOK
<1>5. InCall = {} /\ Reserve = {} /\ ~ Installing
  BY <1>1 DEF InCall, Reserve, Installing
<1>6. Cardinality(InCall) = 0 /\ Cardinality(Reserve) = 0
      /\ \A p \in Process : Cardinality(call[p].wrote) = 0
  BY <1>1, <1>5, FS_EmptySet, Zenon
<1>7. CommitsAlone /\ Down /\ RoomInv
  BY <1>1, <1>2, <1>3, <1>5, <1>6 DEF Init, CommitsAlone, Committing, Down, RoomInv
<1>8. HeadInv /\ PinInv /\ CacheInv /\ CopyInv
  BY <1>1, <1>2, <1>3, <1>5 DEF Init, HeadInv, PinInv, CacheInv, CopyInv
<1>9. NoLostWakeup /\ PendingInv
  BY <1>1, <1>3, <1>5 DEF Init, NoLostWakeup, PendingInv, InProgress, InSync
<1> QED
  BY <1>4, <1>7, <1>8, <1>9 DEF IInv

LEMMA UnchangedIInv ==
  ASSUME IInv, UNCHANGED vars
  PROVE  IInv'
<1> USE DEF vars, disk, log
<1>1. InCall' = InCall /\ Reserve' = Reserve /\ (Installing' <=> Installing)
  BY DEF InCall, Reserve, Installing
<1>2. TypeOK' /\ CommitsAlone' /\ Down' /\ RoomInv'
  BY <1>1 DEF IInv, TypeOK, CommitsAlone, Committing, Down, RoomInv
<1>3. HeadInv' /\ PinInv' /\ CacheInv' /\ CopyInv'
  BY <1>1 DEF IInv, HeadInv, PinInv, CacheInv, CopyInv
<1>4. NoLostWakeup' /\ PendingInv'
  BY <1>1 DEF IInv, NoLostWakeup, Room, PendingInv, InProgress, InSync
<1> QED
  BY <1>2, <1>3, <1>4 DEF IInv

(* Every step keeps the invariant: one case per action.                    *)
LEMMA NextIInv == IInv /\ [Next]_vars => IInv'
<1> SUFFICES ASSUME IInv, [Next]_vars
             PROVE  IInv'
  OBVIOUS
<1>1. ASSUME NEW p \in Process, BeginOp(p) PROVE IInv'
  BY <1>1, StartIInv, BeginIInv DEF BeginOp
<1>2. ASSUME NEW p \in Process, EndOp(p) PROVE IInv'
  BY <1>2, EndIInv, WriteLogIInv, WriteHeadIInv, InstallIInv, EraseIInv, CommitEndIInv
     DEF EndOp, Commit
<1>3. ASSUME NEW p \in Process, SysSync(p) PROVE IInv'
  BY <1>3, SyncIInv, SyncLoopIInv DEF SysSync
<1>4. ASSUME NEW p \in Process, NEW b \in Block, Write(p, b) PROVE IInv'
  BY <1>4, WriteIInv
<1>5. ASSUME NEW b \in Block, Evict(b) PROVE IInv'
  BY <1>5, EvictIInv
<1>6. CASE Crash
  BY <1>6, CrashIInv
<1>7. CASE RecoverFromLog
  BY <1>7, RecoverHeadIInv, RecoverInstallIInv, RecoverEraseIInv DEF RecoverFromLog
<1>8. CASE UNCHANGED vars
  BY <1>8, UnchangedIInv
<1> QED
  BY <1>1, <1>2, <1>3, <1>4, <1>5, <1>6, <1>7, <1>8 DEF Next

(* The inductive invariant holds in every reachable state.                 *)
THEOREM Invariance == Spec => []IInv
BY InitIInv, NextIInv, PTL DEF Spec

(* One process commits at a time, while no call is in progress; log_write  *)
(* finds room for every block a call may write, so that the panics of log.c*)
(* are not reached; and log_write pins exactly what install_trans unpins.  *)
THEOREM ProtocolIsOrderly == Spec => []Orderly
<1>1. IInv => NeverPanics
  <2> SUFFICES ASSUME IInv, NEW p \in Process, call[p].at = "op"
               PROVE  ~ LogWritePanics /\ ~ committing
    BY DEF NeverPanics
  <2>1. Len(lh) \in Nat
    BY SeqFacts DEF IInv, TypeOK
  <2>2. Running /\ ~ committing /\ Len(lh) < LOGBLOCKS
    BY NobodyCommits DEF IInv, RoomInv
  <2>3. p \in InCall /\ outstanding = Cardinality(InCall)
    BY DEF InCall, IInv, CommitsAlone
  <2>4. Cardinality(InCall) # 0 /\ Cardinality(InCall) \in Nat
    BY <2>3, InCallFacts, FS_EmptySet
  <2> QED
    BY <2>1, <2>2, <2>3, <2>4 DEF LogWritePanics
<1>2. IInv => PinnedWhileLogged
  BY DEF IInv, Down, PinInv, Installing, PinnedWhileLogged
<1>3. IInv => Orderly
  BY <1>1, <1>2 DEF IInv, Orderly
<1> QED
  BY <1>3, Invariance, PTL

(* Nobody sleeps on &log for a condition that holds already.               *)
THEOREM WakeupsArrive == Spec => []NoLostWakeup
<1>1. IInv => NoLostWakeup
  BY DEF IInv
<1> QED
  BY <1>1, Invariance, PTL

(* When sync returns, every call that ended before it began is on the disk.*)
THEOREM SyncIsSaved == Spec => []SyncSaves
<1>1. IInv => SyncSaves
  <2> SUFFICES ASSUME IInv PROVE SyncSaves
    OBVIOUS
  <2>1. ASSUME Running, ~ committing, outstanding = 0 PROVE pending = {}
    <3>1. InCall = {}
      BY <2>1, InCallFacts, FS_EmptySet DEF IInv, CommitsAlone
    <3> QED
      BY <3>1, <2>1 DEF IInv, PendingInv
  <2>2. ASSUME NEW p \in Process, call[p].at = "sync", ncommit >= call[p].target
        PROVE  call[p].behind \intersect pending = {}
    <3>1. ~ (ncommit < call[p].target)
      BY <2>2, CallTyped DEF IInv, TypeOK, Call
    <3> QED
      BY <3>1, <2>2 DEF IInv, PendingInv, InSync
  <2> QED
    BY <2>1, <2>2 DEF SyncSaves
<1> QED
  BY <1>1, Invariance, PTL


-----------------------------------------------------------------------------
(* The refinement: the blocks as calls see them, and as a recovery from    *)
(* this moment's disk would leave them.                                    *)
mem == IF boot.at = "up" THEN [b \in Block |-> Read(b)] ELSE Recovered

Overlay(h, s, d) ==
  [b \in Block |-> IF b \in Elements(h) THEN s[CHOOSE i \in DOMAIN h : h[i] = b] ELSE d[b]]

LEMMA OverlayFacts ==
  ASSUME NEW h \in Seq(Block), NEW s, NEW d, NoDup(h)
  PROVE  /\ \A i \in 1..Len(h) : Overlay(h, s, d)[h[i]] = s[i]
         /\ \A b \in Block \ Elements(h) : Overlay(h, s, d)[b] = d[b]
<1>1. /\ DOMAIN h = 1..Len(h)
      /\ \A i \in 1..Len(h) : h[i] \in Block /\ h[i] \in Elements(h)
  BY SeqFacts
<1>2. ASSUME NEW i \in 1..Len(h)
      PROVE  (CHOOSE j \in DOMAIN h : h[j] = h[i]) = i
  BY <1>1, <1>2 DEF NoDup
<1> QED
  BY <1>1, <1>2 DEF Overlay

LEMMA OverlayEqual ==
  ASSUME NEW h, NEW s, NEW d, NEW k, NEW t, NEW e,
         \A b \in Block : Overlay(h, s, d)[b] = Overlay(k, t, e)[b]
  PROVE  Overlay(h, s, d) = Overlay(k, t, e)
BY DEF Overlay

LEMMA RecoveredIsOverlay ==
  Recovered = Overlay(head, slot, home) /\ Recovered' = Overlay(head', slot', home')
BY DEF Recovered, Overlay

(* With an empty header the homes are what a recovery leaves.              *)
LEMMA EmptyHeader ==
  ASSUME NEW s, NEW d
  PROVE  \A b \in Block : Overlay(<< >>, s, d)[b] = d[b]
BY DEF Overlay, Elements

LEMMA SameStore ==
  ASSUME UNCHANGED <<home, slot, head, cache, boot>>
  PROVE  Recovered' = Recovered /\ mem' = mem
BY DEF Recovered, mem, Read

(* Overwriting the home of a block that the log holds changes nothing that *)
(* a recovery leaves.                                                      *)
LEMMA CopyHomeKeepsRecovered ==
  ASSUME IInv, head = lh, NEW i \in 1..Len(lh),
         home' = [home EXCEPT ![lh[i]] = slot[i]], UNCHANGED <<slot, head>>
  PROVE  Recovered' = Recovered
<1>1. head \in Seq(Block) /\ NoDup(head) /\ head' = head /\ slot' = slot
  BY DEF IInv, TypeOK, HeadInv
<1>2. Elements(head) = {head[j] : j \in 1..Len(head)}
  BY <1>1, SeqFacts
<1>3. \A b \in Block \ Elements(head) : home'[b] = home[b]
  BY <1>2 DEF IInv, TypeOK
<1>4. \A b \in Block : Recovered'[b] = Recovered[b]
  BY <1>1, <1>3 DEF Recovered
<1> QED
  BY <1>4 DEF Recovered

(* Emptying the header when every block is in its home does not either.    *)
LEMMA EraseKeepsRecovered ==
  ASSUME IInv, head = lh, \A i \in 1..Len(lh) : home[lh[i]] = slot[i],
         head' = << >>, UNCHANGED <<home, slot>>
  PROVE  /\ Recovered' = Recovered
         /\ \A b \in Block : Recovered[b] = home[b]
<1>1. head \in Seq(Block) /\ NoDup(head)
  BY DEF IInv, TypeOK, HeadInv
<1>2. Elements(head) = {head[j] : j \in 1..Len(head)}
  BY <1>1, SeqFacts
<1>3. \A b \in Block : Overlay(head, slot, home)[b] = home[b]
  BY <1>1, <1>2, OverlayFacts
<1>4. \A b \in Block : Overlay(head, slot, home)[b] = Overlay(<< >>, slot, home)[b]
  BY <1>3, EmptyHeader
<1>5. Overlay(head, slot, home) = Overlay(<< >>, slot, home)
  BY <1>4, OverlayEqual
<1> QED
  BY <1>3, <1>5, RecoveredIsOverlay

(* The commit makes what the calls wrote what a recovery leaves.           *)
LEMMA CommitSaves ==
  ASSUME IInv, NEW p \in Process, WriteHead(p)
  PROVE  Recovered' = mem /\ mem' = mem
<1>1. /\ Running /\ call[p].at = "write_log" /\ call[p].tail = Len(lh)
      /\ head' = lh /\ UNCHANGED <<home, slot, cache, boot>>
  BY DEF WriteHead
<1>2. ~ Installing /\ pinned = Elements(lh)
  BY <1>1, CommitterFacts DEF Committing, IInv, PinInv
<1>3. \A i \in 1..Len(lh) : slot[i] = cache[lh[i]]
  BY <1>1 DEF IInv, CopyInv
<1>4. lh \in Seq(Block) /\ NoDup(lh) /\ Elements(lh) = {lh[i] : i \in 1..Len(lh)}
  BY SeqFacts DEF IInv, TypeOK, HeadInv
<1>5. \A b \in Elements(lh) : Read(b) = cache[b]
  BY <1>2 DEF IInv, CacheInv, Read
<1>6. \A b \in Block \ Elements(lh) : Read(b) = home[b]
  BY <1>2 DEF IInv, CacheInv, Read
<1>7. \A b \in Block : Overlay(lh, slot, home)[b] = Read(b)
  BY <1>3, <1>4, <1>5, <1>6, OverlayFacts
<1>8. Overlay(lh, slot, home) = [b \in Block |-> Read(b)]
  BY <1>7 DEF Overlay
<1>9. Recovered' = Overlay(lh, slot, home)
  BY <1>1, RecoveredIsOverlay
<1>10. mem = [b \in Block |-> Read(b)] /\ mem' = mem
  BY <1>1 DEF mem, Read
<1> QED
  BY <1>8, <1>9, <1>10

LEMMA InstallKeepsStore ==
  ASSUME IInv, NEW p \in Process, Install(p)
  PROVE  Recovered' = Recovered /\ mem' = mem
<1> DEFINE i == call[p].tail + 1
<1>1. /\ Running /\ call[p].at = "install" /\ i <= Len(lh)
      /\ home' = [home EXCEPT ![lh[i]] = slot[i]]
      /\ cache' = [cache EXCEPT ![lh[i]] = slot[i]]
      /\ UNCHANGED <<slot, head, lh, boot>>
  BY DEF Install, CopyHome, log
<1>2. i \in 1..Len(lh) /\ head = lh
  <2>1. call[p].tail \in Nat /\ Len(lh) \in Nat
    BY CallTyped, SeqFacts DEF IInv, TypeOK, Call
  <2> QED
    BY <2>1, <1>1 DEF IInv, HeadInv, Installing
<1>3. Recovered' = Recovered
  BY <1>1, <1>2, CopyHomeKeepsRecovered
<1>4. cache[lh[i]] = slot[i] /\ lh[i] \in Block /\ slot[i] # NotCached
  <2>1. i \in i..Len(lh) /\ i \in Slot
    BY <1>2, SeqFacts DEF IInv, TypeOK, Slot
  <2>2. \A j \in (call[p].tail + 1)..Len(lh) : cache[lh[j]] = slot[j]
    BY <1>1 DEF IInv, CopyInv
  <2>3. lh[i] \in Block
    BY <1>2, SeqFacts DEF IInv, TypeOK
  <2>4. slot[i] # NotCached
    BY <2>1 DEF IInv, TypeOK, Val, NotCached
  <2> QED
    BY <2>1, <2>2, <2>3, <2>4
<1>5. \A b \in Block : Read(b)' = Read(b)
  BY <1>1, <1>4 DEF IInv, TypeOK, Read
<1> QED
  BY <1>1, <1>3, <1>5 DEF mem

LEMMA EraseKeepsStore ==
  ASSUME IInv, NEW p \in Process, Erase(p)
  PROVE  Recovered' = Recovered /\ mem' = mem
<1>1. /\ Running /\ call[p].at = "install" /\ call[p].tail = Len(lh)
      /\ head' = << >> /\ UNCHANGED <<home, slot, cache, boot>>
  BY DEF Erase
<1>2. head = lh /\ \A i \in 1..Len(lh) : home[lh[i]] = slot[i]
  BY <1>1 DEF IInv, HeadInv, CopyInv, Installing
<1>3. Recovered' = Recovered
  BY <1>1, <1>2, EraseKeepsRecovered
<1> QED
  BY <1>1, <1>3 DEF mem, Read

LEMMA WriteLogKeepsStore ==
  ASSUME IInv, NEW p \in Process, WriteLog(p)
  PROVE  Recovered' = Recovered /\ mem' = mem
<1>1. /\ Running /\ call[p].at = "write_log" /\ UNCHANGED <<home, head, cache, boot>>
  BY DEF WriteLog
<1>2. head = << >>
  BY <1>1, CommitterFacts DEF Committing, IInv, HeadInv
<1>3. Recovered' = Recovered
  BY <1>1, <1>2 DEF Recovered, Elements
<1> QED
  BY <1>1, <1>3 DEF mem, Read

(* Recovery changes nothing that a recovery leaves, and ends with it.      *)
LEMMA RecoveryKeepsStore ==
  ASSUME IInv, RecoverFromLog
  PROVE  Recovered' = Recovered /\ mem' = mem
<1>1. CASE RecoverHead
  <2>1. /\ boot.at = "read_head" /\ boot'.at = "install"
        /\ UNCHANGED <<home, slot, head>>
    BY <1>1 DEF RecoverHead, disk
  <2> QED
    BY <2>1 DEF Recovered, mem
<1>2. CASE RecoverInstall
  <2> DEFINE i == boot.tail + 1
  <2>1. /\ boot.at = "install" /\ i <= Len(lh)
        /\ home' = [home EXCEPT ![lh[i]] = slot[i]]
        /\ boot' = [boot EXCEPT !.tail = i]
        /\ UNCHANGED <<slot, head>>
    BY <1>2 DEF RecoverInstall, CopyHome
  <2>2. i \in 1..Len(lh) /\ head = lh /\ boot'.at = "install"
    <3>1. boot.tail \in Nat /\ Len(lh) \in Nat
      BY SeqFacts DEF IInv, TypeOK
    <3> QED
      BY <3>1, <2>1 DEF IInv, TypeOK, HeadInv
  <2>3. Recovered' = Recovered
    BY <2>1, <2>2, CopyHomeKeepsRecovered
  <2> QED
    BY <2>1, <2>2, <2>3 DEF mem
<1>3. CASE RecoverErase
  <2>1. /\ boot.at = "install" /\ boot.tail = Len(lh) /\ boot'.at = "up"
        /\ head' = << >> /\ UNCHANGED <<home, slot, cache>>
    BY <1>3 DEF RecoverErase
  <2>2. head = lh /\ \A i \in 1..Len(lh) : home[lh[i]] = slot[i]
    BY <2>1 DEF IInv, HeadInv, CopyInv
  <2>3. Recovered' = Recovered /\ \A b \in Block : Recovered[b] = home[b]
    BY <2>1, <2>2, EraseKeepsRecovered
  <2>4. \A b \in Block : Read(b) = home[b]
    BY <2>1 DEF IInv, Down, CacheInv, Read
  <2>5. \A b \in Block : Read(b)' = Recovered[b]
    BY <2>1, <2>3, <2>4 DEF Read
  <2>6. mem = Recovered /\ mem' = [b \in Block |-> Read(b)']
    BY <2>1 DEF mem
  <2>7. Recovered = [b \in Block |-> Recovered[b]]
    BY DEF Recovered
  <2> QED
    BY <2>3, <2>5, <2>6, <2>7
<1> QED
  BY <1>1, <1>2, <1>3 DEF RecoverFromLog

(* A step of the log is one of the store or changes nothing of it.         *)
LEMMA StepRefines == IInv /\ [Next]_vars => [Store!Next]_Store!vars
<1> SUFFICES ASSUME IInv, [Next]_vars
             PROVE  Store!Next \/ UNCHANGED <<mem, Recovered, InCall>>
  BY DEF Store!vars, mem
<1>1. ASSUME NEW p \in Process, Start(p) \/ SysSync(p) \/ CommitEnd(p)
      PROVE  UNCHANGED <<mem, Recovered, InCall>>
  <2>1. UNCHANGED <<home, slot, head, cache, boot>>
    BY <1>1 DEF Start, SysSync, Sync, SyncLoop, CommitEnd, disk
  <2>2. \A q \in Process : call'[q].at = "op" <=> call[q].at = "op"
    <3>1. CASE Start(p)
      BY <3>1, OneGoesOn, CallTyped DEF IInv, Start, Idle, Call
    <3>2. CASE Sync(p)
      BY <3>2, OneGoesOn, CallTyped DEF IInv, Sync, Idle, Call
    <3>3. CASE SyncLoop(p)
      BY <3>3, OneGoesOn, CallTyped DEF IInv, SyncLoop, Goto, Idle, Call
    <3>4. CASE CommitEnd(p)
      BY <3>4, WakeupFacts DEF IInv, CommitEnd, Location, Idle, Busy
    <3> QED
      BY <3>1, <3>2, <3>3, <3>4, <1>1 DEF SysSync
  <2> QED
    BY <2>1, <2>2, SameStore DEF InCall
<1>2. ASSUME NEW p \in Process, Begin(p)
      PROVE  Store!Next \/ UNCHANGED <<mem, Recovered, InCall>>
  <2>1. call[p].at = "begin" /\ UNCHANGED <<home, slot, head, cache, boot>>
    BY <1>2 DEF Begin, disk
  <2>2. Recovered' = Recovered /\ mem' = mem
    BY <2>1, SameStore
  <2>3. call \in [Process -> Call]
    BY CallTyped DEF IInv
  <2>4. CASE Goto(p, "begin_sleep")
    BY <2>1, <2>2, <2>3, <2>4 DEF Goto, InCall, Call
  <2>5. CASE Goto(p, "op")
    <3>1. InCall' = InCall \union {p} /\ p \notin InCall
      BY <2>1, <2>3, <2>5 DEF Goto, InCall, Call
    <3>2. Store!Begin(p)
      BY <3>1, <2>2 DEF Store!Begin, mem
    <3> QED
      BY <3>2 DEF Store!Next
  <2> QED
    BY <2>4, <2>5, <1>2 DEF Begin
<1>3. ASSUME NEW p \in Process, End(p)
      PROVE  Store!Next
  <2>1. call[p].at = "op" /\ UNCHANGED <<home, slot, head, cache, boot>>
    BY <1>3 DEF End, disk
  <2>2. Recovered' = Recovered /\ mem' = mem
    BY <2>1, SameStore
  <2>3. InCall' = InCall \ {p} /\ p \in InCall
    <3>1. CASE Wakeup(p, "idle")
      BY <3>1, <2>1, WakeupFacts DEF IInv, InCall, Location, Idle, Busy
    <3>2. CASE call' = [call EXCEPT ![p] = [Idle EXCEPT !.at =
                                              IF lh # << >> THEN "write_log" ELSE "commit_end"]]
      BY <3>2, <2>1, CallTyped DEF IInv, InCall, Idle, Call
    <3> QED
      BY <3>1, <3>2, <1>3 DEF End
  <2>4. Store!End(p)
    BY <2>2, <2>3 DEF Store!End, mem
  <2> QED
    BY <2>4 DEF Store!Next
<1>4. ASSUME NEW p \in Process, NEW b \in Block, Write(p, b)
      PROVE  Store!Next
  <2>1. /\ call[p].at = "op" /\ Running
        /\ cache' = [cache EXCEPT ![b] = call[p].id]
        /\ call' = [call EXCEPT ![p].wrote = @ \union {b}]
        /\ UNCHANGED <<home, slot, head, boot>>
    BY <1>4 DEF Write, disk
  <2>2. call \in [Process -> Call] /\ call[p].id \in Val /\ call[p].id # NotCached
    BY CallTyped DEF IInv, Call, Val, NotCached
  <2>3. Recovered' = Recovered
    BY <2>1 DEF Recovered
  <2>4. InCall' = InCall /\ p \in InCall
    BY <2>1, <2>2 DEF InCall, Call
  <2>5. mem' = [mem EXCEPT ![b] = call[p].id]
    <3>1. mem = [d \in Block |-> Read(d)] /\ mem' = [d \in Block |-> Read(d)']
      BY <2>1 DEF mem
    <3>2. Read(b)' = call[p].id /\ \A d \in Block \ {b} : Read(d)' = Read(d)
      BY <2>1, <2>2 DEF IInv, TypeOK, Read
    <3> QED
      BY <3>1, <3>2
  <2>6. Store!Write(p, b, call[p].id)
    BY <2>3, <2>4, <2>5 DEF Store!Write, mem
  <2> QED
    BY <2>2, <2>6 DEF Store!Next
<1>5. ASSUME NEW p \in Process, Commit(p)
      PROVE  Store!Next \/ UNCHANGED <<mem, Recovered, InCall>>
  <2>1. Committing(p) /\ call \in [Process -> Call]
    BY <1>5, CallTyped DEF IInv, Commit, WriteLog, WriteHead, Install, Erase, Committing
  <2>2. InCall = {} /\ InCall' = {}
    <3>1. InCall = {}
      BY <2>1, CommitterFacts
    <3>2. \A q \in Process : call'[q].at = "op" => call[q].at = "op"
      BY <1>5, <2>1 DEF Commit, WriteLog, WriteHead, Install, Erase, Goto, Call
    <3> QED
      BY <3>1, <3>2 DEF InCall
  <2>3. CASE WriteHead(p)
    <3>1. Store!Save
      BY <2>2, <2>3, CommitSaves DEF Store!Save, mem
    <3> QED
      BY <3>1 DEF Store!Next
  <2>4. CASE WriteLog(p) \/ Install(p) \/ Erase(p)
    BY <2>2, <2>4, WriteLogKeepsStore, InstallKeepsStore, EraseKeepsStore
  <2> QED
    BY <2>3, <2>4, <1>5 DEF Commit
<1>6. ASSUME NEW b \in Block, Evict(b)
      PROVE  UNCHANGED <<mem, Recovered, InCall>>
  <2>1. /\ b \notin pinned
        /\ cache' = [cache EXCEPT ![b] = NotCached]
        /\ UNCHANGED <<home, slot, head, call, boot>>
    BY <1>6 DEF Evict, disk
  <2>2. Recovered' = Recovered /\ InCall' = InCall
    BY <2>1 DEF Recovered, InCall
  <2>3. \A d \in Block : Read(d)' = Read(d)
    BY <2>1 DEF IInv, TypeOK, CacheInv, Read
  <2> QED
    BY <2>1, <2>2, <2>3 DEF mem
<1>7. CASE Crash
  <2>1. /\ UNCHANGED <<home, slot, head>> /\ boot'.at = "read_head"
        /\ \A p \in Process : call'[p].at = "idle"
    BY <1>7 DEF Crash, disk, Idle
  <2>2. Recovered' = Recovered /\ mem' = Recovered /\ InCall' = {}
    BY <2>1 DEF Recovered, mem, InCall
  <2>3. Store!Crash
    BY <2>2 DEF Store!Crash, mem
  <2> QED
    BY <2>3 DEF Store!Next
<1>8. CASE RecoverFromLog
  <2>1. InCall' = InCall
    BY <1>8 DEF RecoverFromLog, RecoverHead, RecoverInstall, RecoverErase, InCall
  <2> QED
    BY <2>1, <1>8, RecoveryKeepsStore
<1>9. CASE UNCHANGED vars
  <2>1. UNCHANGED <<home, slot, head, cache, boot, call>>
    BY <1>9 DEF vars, disk
  <2> QED
    BY <2>1, SameStore DEF InCall
<1> QED
  BY <1>1, <1>2, <1>3, <1>4, <1>5, <1>6, <1>7, <1>8, <1>9 DEF Next, BeginOp, EndOp

(* A crash at any moment, recovery included, keeps every call that was     *)
(* committed and nothing of any other: the log implements the store.       *)
THEOREM Refinement == Spec => Atomic
<1>1. Init => Store!Init
  <2> SUFFICES ASSUME Init PROVE Store!Init
    OBVIOUS
  <2>1. head = << >> /\ home = [b \in Block |-> Blank] /\ boot.at = "read_head"
        /\ \A p \in Process : call[p].at = "idle"
    BY DEF Init, Idle
  <2>2. Recovered = [b \in Block |-> Blank]
    BY <2>1 DEF Recovered, Elements
  <2>3. InCall = {}
    BY <2>1 DEF InCall
  <2> QED
    BY <2>1, <2>2, <2>3 DEF Store!Init
<1> QED
  BY <1>1, StepRefines, Invariance, PTL DEF Spec, Atomic, Store!Spec

=============================================================================
