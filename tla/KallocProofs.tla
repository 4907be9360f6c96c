----------------------------- MODULE KallocProofs -----------------------------
(***************************************************************************)
(* The page allocator's invariants, and that it implements FifoPages, for  *)
(* every number of pages and every set of threads.                         *)
(***************************************************************************)
EXTENDS Kalloc, TLAPS, SequenceTheorems

(* kmem.lock is held exactly inside the two critical sections.             *)
LockInv ==
  \A t \in Thread : pc[t] \in {"free_tail", "alloc_take"} <=> lock = t

(* The page a kfree is about to link ends any list it is put on.           *)
LinkCleared ==
  \A t \in Thread : pc[t] = "free_lock" => next[r[t]] = Null

(* Nothing moves the head between kalloc's read of it and its unlinking.   *)
HeadRead ==
  \A t \in Thread : pc[t] = "alloc_take" => r[t] = freelist

(* During freerange only the boot thread runs, and only in kfree; the pages*)
(* its loop has not reached are the ones never freed.                      *)
BootInv ==
  boot # Booted =>
    /\ \A t \in Thread \ {BootThread} : pc[t] = "idle"
    /\ pc[BootThread] \notin {"alloc_take", "alloc_fill"}
    /\ allocated = {pg \in Page : pg >= boot}

IInv ==
  /\ TypeOK
  /\ LockInv
  /\ LinkCleared
  /\ HeadRead
  /\ BootInv
  /\ Chain
  /\ TailIsLast
  /\ AtMostOnePlace
  /\ SomePlace

USE ThreadAssumption, PagesAssumption

-----------------------------------------------------------------------------
(* The queue is a sequence of pages; what it is made of, index by index.   *)
LEMMA QueueFacts ==
  ASSUME TypeOK
  PROVE  /\ Len(queue) \in Nat
         /\ queue # << >> <=> Len(queue) # 0
         /\ \A i \in 1..Len(queue) : queue[i] \in Page
BY EmptySeq, LenProperties, ElementOfSeq DEF TypeOK

(* A step that moves no page and puts no page in a hand or takes it out    *)
(* leaves every page where it is.                                          *)
LEMMA PlacesUnchanged ==
  ASSUME AtMostOnePlace, SomePlace, UNCHANGED <<r, allocated, queue>>,
         \A t \in Thread : InHand(t)' <=> InHand(t)
  PROVE  AtMostOnePlace' /\ SomePlace'
BY DEF AtMostOnePlace, SomePlace, InQueue

(* The invariant holds at boot: no page is on the list.                    *)
LEMMA InitIInv == Init => IInv
BY DEF Init, IInv, TypeOK, LockInv, LinkCleared, HeadRead, BootInv, Chain,
       TailIsLast, AtMostOnePlace, SomePlace, InHand, InQueue, Page, Null, Junk, Word,
       Booted, Location

(* Giving up a page keeps the invariant, whoever calls kfree.              *)
LEMMA FreeBeginIInv ==
  ASSUME IInv, NEW t \in Thread, NEW pg \in allocated, FreeBegin(t, pg),
         \/ boot = Booted /\ boot' = boot
         \/ t = BootThread /\ boot = pg /\ boot' = boot + 1
  PROVE  IInv'
<1> USE DEF Page, Null, Junk, Word, Booted
<1>1. pg \in Page
  BY DEF IInv, TypeOK
<1>2. TypeOK'
  BY <1>1 DEF IInv, TypeOK, FreeBegin, Goto, Location
<1>3. LockInv' /\ HeadRead'
  BY DEF IInv, TypeOK, LockInv, HeadRead, FreeBegin, Goto
<1>4. LinkCleared'
  BY <1>1 DEF IInv, TypeOK, LinkCleared, AtMostOnePlace, InHand, FreeBegin, Goto
<1>5. BootInv'
  <2>1. CASE boot = Booted /\ boot' = boot
    BY <2>1 DEF BootInv
  <2>2. CASE t = BootThread /\ boot = pg /\ boot' = boot + 1
    <3>1. /\ \A u \in Thread \ {BootThread} : pc'[u] = "idle"
          /\ pc'[BootThread] = "free_lock"
      BY <2>2, <1>1 DEF IInv, TypeOK, BootInv, FreeBegin, Goto
    <3>2. allocated' = {p \in Page : p >= boot + 1}
      BY <2>2, <1>1 DEF IInv, BootInv, FreeBegin
    <3> QED
      BY <2>2, <3>1, <3>2 DEF BootInv
  <2> QED
    BY <2>1, <2>2
<1>6. Chain'
  <2>1. \A i \in 1..Len(queue) : queue[i] \in Page /\ next'[queue[i]] = next[queue[i]]
    <3>1. next' = [next EXCEPT ![pg] = Null] /\ DOMAIN next = Page
      BY DEF IInv, TypeOK, FreeBegin
    <3>2. \A i \in 1..Len(queue) : queue[i] \in Page
      BY QueueFacts DEF IInv
    <3>3. \A i \in 1..Len(queue) : queue[i] # pg
      BY DEF IInv, AtMostOnePlace
    <3> QED
      BY <3>1, <3>2, <3>3
  <2>2. queue' = queue /\ freelist' = freelist
    BY DEF FreeBegin
  <2>3. Chain /\ Len(queue) \in Nat /\ (queue # << >> => Len(queue) # 0)
    BY QueueFacts DEF IInv
  <2> QED
    BY <2>1, <2>2, <2>3 DEF Chain
<1>7. TailIsLast'
  BY DEF IInv, TypeOK, TailIsLast, FreeBegin, Goto
<1>8. /\ queue' = queue /\ allocated' = allocated \ {pg}
      /\ InHand(t)' /\ r'[t] = pg /\ ~ InHand(t)
      /\ \A u \in Thread \ {t} : InHand(u)' = InHand(u) /\ r'[u] = r[u]
      /\ \A x : InQueue(x)' = InQueue(x)
  BY <1>1 DEF IInv, TypeOK, InHand, InQueue, FreeBegin, Goto
<1>9. AtMostOnePlace'
  <2>1. AtMostOnePlace
    BY DEF IInv
  <2>2. ~ InQueue(pg) /\ \A u \in Thread : InHand(u) => r[u] # pg
    BY <2>1 DEF AtMostOnePlace, InQueue
  <2>3. ASSUME NEW u \in Thread, InHand(u)'
        PROVE  r'[u] \in Page /\ r'[u] \notin allocated' /\ ~ InQueue(r'[u])
    <3>1. CASE u = t
      BY <1>1, <1>8, <2>2, <3>1
    <3>2. CASE u # t
      <4>1. InHand(u) /\ r'[u] = r[u]
        BY <1>8, <2>3, <3>2
      <4>2. r[u] \in Page /\ r[u] \notin allocated /\ ~ InQueue(r[u])
        BY <2>1, <4>1 DEF AtMostOnePlace
      <4> QED
        BY <1>8, <4>1, <4>2
    <3> QED
      BY <3>1, <3>2
  <2>4. \A u, v \in Thread : InHand(u)' /\ InHand(v)' /\ r'[u] = r'[v] => u = v
    BY <1>8, <2>1, <2>2 DEF AtMostOnePlace
  <2>5. \A i \in 1..Len(queue) : queue[i] \notin allocated'
    BY <1>8, <2>1 DEF AtMostOnePlace
  <2>6. \A i, j \in 1..Len(queue) : queue[i] = queue[j] => i = j
    BY <2>1 DEF AtMostOnePlace
  <2> QED
    BY <1>8, <2>3, <2>4, <2>5, <2>6, Zenon DEF AtMostOnePlace, InQueue
<1>10. SomePlace'
  BY <1>8 DEF IInv, SomePlace
<1> QED
  BY <1>2, <1>3, <1>4, <1>5, <1>6, <1>7, <1>9, <1>10 DEF IInv

(* Linking a page behind the tail, or as the head of an empty list.        *)
LEMMA FreeLinkIInv ==
  ASSUME IInv, NEW t \in Thread, FreeLink(t)
  PROVE  IInv'
<1> USE DEF Page, Null, Junk, Word, Booted
<1>1. r[t] \in Page /\ InHand(t) /\ next[r[t]] = Null
  BY DEF IInv, AtMostOnePlace, InHand, LinkCleared, FreeLink
<1>2. \A u \in Thread : pc[u] # "free_tail" /\ pc[u] # "alloc_take"
  BY DEF IInv, LockInv, FreeLink
<1>3. /\ queue' = Append(queue, r[t])
      /\ Len(queue') = Len(queue) + 1
      /\ queue'[Len(queue) + 1] = r[t]
      /\ \A i \in 1..Len(queue) : queue'[i] = queue[i]
      /\ Len(queue) \in Nat
      /\ \A i \in 1..Len(queue) : queue[i] \in Page
  <2>1. queue' = Append(queue, r[t]) /\ queue \in Seq(Page)
    BY DEF IInv, TypeOK, FreeLink
  <2>2. Len(queue) \in Nat /\ \A i \in 1..Len(queue) : queue[i] \in Page
    BY QueueFacts DEF IInv
  <2> QED
    BY <1>1, <2>1, <2>2, AppendProperties
<1>4. queue # << >> <=> Len(queue) > 0
  BY DEF IInv, TypeOK
<1>5. queue # << >> => freelist # Null /\ tail = queue[Len(queue)]
  BY <1>2, <1>3, <1>4 DEF IInv, Chain, TailIsLast
<1>6. TypeOK'
  <2>1. queue' \in Seq(Page)
    BY <1>1, AppendProperties DEF IInv, TypeOK, FreeLink
  <2>2. freelist' \in Page \union {Null}
    BY <1>1 DEF IInv, TypeOK, FreeLink
  <2>3. next' \in [Page -> Word]
    <3>1. r[t] \in Word
      BY <1>1, PagesAssumption
    <3> QED
      BY <3>1 DEF IInv, TypeOK, FreeLink
  <2> QED
    BY <2>1, <2>2, <2>3 DEF IInv, TypeOK, FreeLink, Goto, Location
<1>7. LockInv' /\ HeadRead' /\ BootInv'
  BY <1>2 DEF IInv, TypeOK, LockInv, HeadRead, BootInv, FreeLink, Goto
<1>8. \A u \in Thread : pc[u] = "free_lock" => ~ InQueue(r[u])
  BY DEF IInv, AtMostOnePlace, InHand
<1>9. LinkCleared'
  <2> SUFFICES ASSUME NEW u \in Thread, pc'[u] = "free_lock"
               PROVE  next'[r'[u]] = Null
    BY DEF LinkCleared
  <2>1. pc[u] = "free_lock" /\ r'[u] = r[u] /\ r[u] \in Page
    BY DEF IInv, TypeOK, AtMostOnePlace, InHand, FreeLink, Goto
  <2>2. next[r[u]] = Null
    BY <2>1 DEF IInv, LinkCleared
  <2>3. queue # << >> => tail # r[u]
    BY <2>1, <1>3, <1>4, <1>5, <1>8 DEF InQueue
  <2> QED
    BY <2>1, <2>2, <2>3 DEF IInv, TypeOK, Chain, FreeLink
<1>10. Chain'
  <2>1. CASE queue = << >>
    BY <2>1, <1>1, <1>3, <1>4 DEF IInv, Chain, FreeLink
  <2>2. CASE queue # << >>
    <3>1. /\ freelist' = freelist
          /\ next' = [next EXCEPT ![queue[Len(queue)]] = r[t]]
      BY <2>2, <1>5 DEF FreeLink
    <3>2. \A i \in 1..Len(queue) : queue[i] # r[t]
      BY <1>1 DEF IInv, AtMostOnePlace, InQueue
    <3>3. next'[queue[Len(queue)]] = r[t] /\ next'[r[t]] = Null
      BY <3>1, <3>2, <2>2, <1>1, <1>3, <1>4 DEF IInv, TypeOK
    <3>4. \A i \in 1..(Len(queue) - 1) : next'[queue[i]] = queue[i + 1]
      <4>1. /\ next \in [Page -> Word]
            /\ \A i, j \in 1..Len(queue) : queue[i] = queue[j] => i = j
            /\ \A i \in 1..(Len(queue) - 1) : next[queue[i]] = queue[i + 1]
        BY Zenon DEF IInv, TypeOK, AtMostOnePlace, Chain
      <4>2. \A i \in 1..(Len(queue) - 1) : queue[i] # queue[Len(queue)]
        BY <1>3, <4>1
      <4> QED
        BY <3>1, <1>3, <4>1, <4>2
    <3> QED
      BY <3>1, <3>3, <3>4, <2>2, <1>3, <1>4 DEF IInv, Chain
  <2> QED
    BY <2>1, <2>2
<1>11. TailIsLast'
  <2>1. pc'[t] = "free_tail" /\ \A u \in Thread : pc'[u] = "free_tail" => u = t
    BY <1>2 DEF IInv, TypeOK, FreeLink, Goto
  <2>2. queue' # << >> /\ queue'[Len(queue')] = r'[t]
    BY <1>3 DEF FreeLink
  <2> QED
    BY <2>1, <2>2 DEF TailIsLast
<1>12. AtMostOnePlace'
  <2>1. \A i, j \in 1..Len(queue') : queue'[i] = queue'[j] => i = j
    BY <1>1, <1>3 DEF IInv, AtMostOnePlace, InQueue
  <2>2. \A i \in 1..Len(queue') : queue'[i] \notin allocated'
    BY <1>1, <1>3 DEF IInv, AtMostOnePlace, FreeLink
  <2>3. \A u \in Thread : InHand(u)' => u # t /\ InHand(u) /\ r'[u] = r[u]
    BY DEF IInv, TypeOK, InHand, FreeLink, Goto
  <2>4. \A u \in Thread : InHand(u)' =>
          r'[u] \in Page /\ r'[u] \notin allocated' /\ ~ InQueue(r[u])'
    BY <2>3, <1>1, <1>3 DEF IInv, AtMostOnePlace, InQueue, FreeLink
  <2>5. \A u, v \in Thread : InHand(u)' /\ InHand(v)' /\ r'[u] = r'[v] => u = v
    BY <2>3 DEF IInv, AtMostOnePlace
  <2> QED
    BY <2>1, <2>2, <2>3, <2>4, <2>5 DEF AtMostOnePlace
<1>13. SomePlace'
  <2>1. InQueue(r[t])' /\ \A pg \in Page : InQueue(pg) => InQueue(pg)'
    BY <1>3 DEF InQueue, FreeLink
  <2>2. \A u \in Thread : InHand(u) => u = t \/ InHand(u)'
    BY DEF IInv, TypeOK, InHand, FreeLink, Goto
  <2>3. r' = r /\ allocated' = allocated
    BY DEF FreeLink
  <2> QED
    BY <2>1, <2>2, <2>3 DEF IInv, SomePlace, InQueue
<1> QED
  BY <1>6, <1>7, <1>9, <1>10, <1>11, <1>12, <1>13 DEF IInv

(* Moving the tail and releasing the lock.                                 *)
LEMMA FreeTailIInv ==
  ASSUME IInv, NEW t \in Thread, FreeTail(t)
  PROVE  IInv'
<1> USE DEF Page, Null, Junk, Word, Booted
<1>1. queue # << >> /\ queue[Len(queue)] = r[t] /\ r[t] \in Page
  BY DEF IInv, TypeOK, TailIsLast, FreeTail
<1>2. \A u \in Thread : pc[u] \in {"free_tail", "alloc_take"} => u = t
  BY DEF IInv, LockInv, FreeTail
<1>3. TypeOK'
  BY <1>1 DEF IInv, TypeOK, FreeTail, Goto, Location
<1>4. LockInv' /\ LinkCleared' /\ HeadRead' /\ BootInv' /\ Chain'
  BY <1>2 DEF IInv, TypeOK, LockInv, LinkCleared, HeadRead, BootInv, Chain,
              FreeTail, Goto
<1>5. TailIsLast'
  BY <1>1, <1>2 DEF IInv, TypeOK, TailIsLast, FreeTail, Goto
<1>6. AtMostOnePlace' /\ SomePlace'
  <2>1. \A u \in Thread : InHand(u)' <=> InHand(u)
    BY DEF IInv, TypeOK, InHand, FreeTail, Goto
  <2> QED
    BY <2>1, PlacesUnchanged DEF IInv, FreeTail
<1> QED
  BY <1>3, <1>4, <1>5, <1>6 DEF IInv

(* Reading the head under the lock.                                        *)
LEMMA AllocBeginIInv ==
  ASSUME IInv, NEW t \in Thread, AllocBegin(t)
  PROVE  IInv'
<1> USE DEF Page, Null, Junk, Word, Booted
<1>1. TypeOK'
  BY DEF IInv, TypeOK, AllocBegin, Goto, Location
<1>2. LockInv' /\ LinkCleared' /\ HeadRead' /\ BootInv' /\ Chain'
  BY DEF IInv, TypeOK, LockInv, LinkCleared, HeadRead, BootInv, Chain,
         AllocBegin, Goto
<1>3. TailIsLast'
  BY DEF IInv, TypeOK, TailIsLast, AllocBegin, Goto
<1>4. AtMostOnePlace' /\ SomePlace'
  <2>1. /\ ~ InHand(t) /\ ~ InHand(t)'
        /\ \A u \in Thread \ {t} : (InHand(u)' <=> InHand(u)) /\ r'[u] = r[u]
    BY DEF IInv, TypeOK, InHand, AllocBegin, Goto
  <2>2. \A u \in Thread : InHand(u)' => InHand(u) /\ r'[u] = r[u]
    BY <2>1
  <2> QED
    BY <2>1, <2>2 DEF IInv, AtMostOnePlace, SomePlace, InQueue, AllocBegin
<1> QED
  BY <1>1, <1>2, <1>3, <1>4 DEF IInv

(* Unlinking the head, the only page of the list or one of several, or     *)
(* finding the list empty.                                                 *)
LEMMA AllocTakeIInv ==
  ASSUME IInv, NEW t \in Thread, AllocTake(t)
  PROVE  IInv'
<1> USE DEF Page, Null, Junk, Word, Booted
<1>1. r[t] = freelist
  BY DEF IInv, HeadRead, AllocTake
<1>2. \A u \in Thread : pc[u] # "free_tail" /\ (pc[u] = "alloc_take" => u = t)
  BY DEF IInv, LockInv, AllocTake
<1>3. LockInv' /\ LinkCleared' /\ HeadRead' /\ BootInv'
  BY <1>2 DEF IInv, TypeOK, LockInv, LinkCleared, HeadRead, BootInv, AtMostOnePlace,
              InHand, AllocTake, Goto
<1>4. CASE r[t] = Null
  <2>1. UNCHANGED <<freelist, queue>>
    BY <1>4 DEF AllocTake
  <2>2. TypeOK' /\ Chain' /\ TailIsLast'
    BY <2>1, <1>2 DEF IInv, TypeOK, Chain, TailIsLast, AllocTake, Goto, Location
  <2>3. AtMostOnePlace' /\ SomePlace'
    <3>1. \A u \in Thread : InHand(u)' <=> InHand(u)
      BY <1>4 DEF IInv, TypeOK, InHand, AllocTake, Goto
    <3> QED
      BY <3>1, <2>1, PlacesUnchanged DEF IInv, AllocTake
  <2> QED
    BY <2>2, <2>3, <1>3 DEF IInv
<1>5. CASE r[t] # Null
  <2>1. queue # << >> /\ r[t] = queue[1]
    BY <1>1, <1>5 DEF IInv, Chain
  <2>2. /\ Len(queue) \in Nat \ {0}
        /\ queue' = Tail(queue)
        /\ freelist' = next[queue[1]]
        /\ queue' \in Seq(Page)
        /\ Len(queue') = Len(queue) - 1
        /\ \A i \in 1..(Len(queue) - 1) : queue'[i] = queue[i + 1]
        /\ \A i \in 1..Len(queue) : queue[i] \in Page
    <3>1. queue \in Seq(Page) /\ queue' = Tail(queue) /\ freelist' = next[queue[1]]
      BY <2>1, <1>5 DEF IInv, TypeOK, AllocTake
    <3> QED
      BY <3>1, <2>1, HeadTailProperties, QueueFacts DEF IInv
  <2>3. queue' = << >> <=> Len(queue) = 1
    <3>1. \A s \in Seq(Page) : s = << >> <=> Len(s) = 0
      BY EmptySeq
    <3>2. queue' = << >> <=> Len(queue') = 0
      BY <2>2, <3>1
    <3>3. Len(queue) \in Nat /\ Len(queue') = Len(queue) - 1
      BY <2>2
    <3> QED
      BY <3>2, <3>3
  <2>4. TypeOK'
    <3>1. next[queue[1]] \in Page \union {Null}
      <4>1. CASE Len(queue) = 1
        BY <4>1, <2>1 DEF IInv, Chain
      <4>2. CASE Len(queue) # 1
        <5>1. 1 \in 1..(Len(queue) - 1) /\ 2 \in 1..Len(queue)
          BY <4>2, <2>2
        <5>2. next[queue[1]] = queue[1 + 1]
          BY <5>1 DEF IInv, Chain
        <5> QED
          BY <5>1, <5>2, <2>2
      <4> QED
        BY <4>1, <4>2
    <3> QED
      BY <2>2, <3>1 DEF IInv, TypeOK, AllocTake, Goto, Location
  <2>5. Chain'
    <3>1. Len(queue) # 1 => /\ next[queue[1]] = queue[2] /\ queue'[1] = queue[2]
                            /\ queue'[Len(queue')] = queue[Len(queue)]
      BY <2>2 DEF IInv, Chain
    <3>2. Len(queue) = 1 => next[queue[1]] = Null
      BY <2>1 DEF IInv, Chain
    <3>3. \A i \in 1..(Len(queue') - 1) : next[queue'[i]] = queue'[i + 1]
      <4> SUFFICES ASSUME NEW i \in 1..(Len(queue') - 1)
                   PROVE  next[queue'[i]] = queue'[i + 1]
        OBVIOUS
      <4>1. /\ i + 1 \in 1..(Len(queue) - 1) /\ i \in 1..(Len(queue) - 1)
            /\ queue'[i] = queue[i + 1] /\ queue'[i + 1] = queue[(i + 1) + 1]
        BY <2>2
      <4> QED
        BY <4>1 DEF IInv, Chain
    <3>4. next' = next
      BY DEF AllocTake
    <3> QED
      BY <2>1, <2>2, <2>3, <3>1, <3>2, <3>3, <3>4 DEF IInv, Chain
  <2>6. TailIsLast'
    <3>1. \A u \in Thread : pc'[u] # "free_tail"
      BY <1>2 DEF IInv, TypeOK, AllocTake, Goto
    <3>2. Len(queue) # 1 => queue'[Len(queue')] = queue[Len(queue)]
      BY <2>2
    <3>3. tail' = tail /\ tail = queue[Len(queue)]
      BY <2>1, <1>2 DEF IInv, TailIsLast, AllocTake
    <3> QED
      BY <2>3, <3>1, <3>2, <3>3 DEF TailIsLast
  <2>7. AtMostOnePlace'
    <3>1. \A i, j \in 1..Len(queue') : queue'[i] = queue'[j] => i = j
      BY <2>2 DEF IInv, AtMostOnePlace
    <3>2. \A i \in 1..Len(queue') : queue'[i] # r[t] /\ queue'[i] \notin allocated'
      <4> SUFFICES ASSUME NEW i \in 1..Len(queue')
                   PROVE  queue'[i] # r[t] /\ queue'[i] \notin allocated'
        OBVIOUS
      <4>1. /\ i + 1 \in 1..Len(queue) /\ 1 \in 1..Len(queue) /\ i + 1 # 1
            /\ queue'[i] = queue[i + 1]
        BY <2>2
      <4> QED
        BY <4>1, <2>1 DEF IInv, AtMostOnePlace, AllocTake
    <3>3. \A u \in Thread : InHand(u)' => u = t \/ InHand(u)
      BY DEF IInv, TypeOK, InHand, AllocTake, Goto
    <3>4. \A pg \in Page : InQueue(pg)' => InQueue(pg) /\ pg # r[t]
      BY <3>2, <2>2 DEF InQueue
    <3>5. r' = r /\ r[t] \in Page /\ InQueue(r[t]) /\ r[t] \notin allocated
      <4>1. 1 \in 1..Len(queue)
        BY <2>2
      <4> QED
        BY <4>1, <2>1, <2>2 DEF IInv, AtMostOnePlace, InQueue, AllocTake
    <3>6. \A u \in Thread : InHand(u)' =>
            r'[u] \in Page /\ r'[u] \notin allocated' /\ ~ InQueue(r[u])'
      BY <3>3, <3>4, <3>5 DEF IInv, AtMostOnePlace, AllocTake
    <3>7. \A u, v \in Thread : InHand(u)' /\ InHand(v)' /\ r'[u] = r'[v] => u = v
      BY <3>3, <3>5 DEF IInv, AtMostOnePlace
    <3> QED
      BY <3>1, <3>2, <3>5, <3>6, <3>7 DEF AtMostOnePlace
  <2>8. SomePlace'
    <3>1. \A pg \in Page : InQueue(pg) => pg = r[t] \/ InQueue(pg)'
      <4> SUFFICES ASSUME NEW pg \in Page, NEW i \in 1..Len(queue), queue[i] = pg,
                          pg # r[t]
                   PROVE  InQueue(pg)'
        BY DEF InQueue
      <4>1. i - 1 \in 1..Len(queue') /\ queue'[i - 1] = pg
        BY <2>1, <2>2
      <4> QED
        BY <4>1 DEF InQueue
    <3>2. \A u \in Thread : InHand(u) => InHand(u)'
      BY DEF IInv, TypeOK, InHand, AllocTake, Goto
    <3>3. InHand(t)' /\ r' = r /\ allocated' = allocated
      BY <1>5 DEF IInv, TypeOK, InHand, AllocTake, Goto
    <3> QED
      BY <3>1, <3>2, <3>3 DEF IInv, SomePlace
  <2> QED
    BY <2>4, <2>5, <2>6, <2>7, <2>8, <1>3 DEF IInv
<1> QED
  BY <1>4, <1>5

(* Filling the page and handing it to the caller.                          *)
LEMMA AllocReturnIInv ==
  ASSUME IInv, NEW t \in Thread, AllocReturn(t)
  PROVE  IInv'
<1> USE DEF Page, Null, Junk, Word, Booted
<1>1. boot = Booted
  BY DEF IInv, BootInv, AllocReturn
<1>2. TypeOK'
  <2>1. next' \in [Page -> Word]
    <3>1. Junk \in Word /\ next \in [Page -> Word]
      BY DEF IInv, TypeOK
    <3>2. next' = next \/ next' = [next EXCEPT ![r[t]] = Junk]
      BY DEF AllocReturn
    <3> QED
      BY <3>1, <3>2, Zenon
  <2>2. r[t] # Null => r[t] \in Page
    BY DEF IInv, AtMostOnePlace, InHand, AllocReturn
  <2> QED
    BY <2>1, <2>2 DEF IInv, TypeOK, AllocReturn, Goto, Location
<1>3. LockInv' /\ HeadRead' /\ BootInv' /\ TailIsLast'
  BY <1>1 DEF IInv, TypeOK, LockInv, HeadRead, BootInv, TailIsLast,
              AllocReturn, Goto
<1>4. CASE r[t] = Null
  <2>1. UNCHANGED <<next, allocated>>
    BY <1>4 DEF AllocReturn
  <2>2. LinkCleared' /\ Chain'
    BY <2>1 DEF IInv, TypeOK, LinkCleared, Chain, AllocReturn, Goto
  <2>3. AtMostOnePlace' /\ SomePlace'
    <3>1. \A u \in Thread : InHand(u)' <=> InHand(u)
      BY <1>4 DEF IInv, TypeOK, InHand, AllocReturn, Goto
    <3> QED
      BY <3>1, <2>1, PlacesUnchanged DEF IInv, AllocReturn
  <2> QED
    BY <2>2, <2>3, <1>2, <1>3 DEF IInv
<1>5. CASE r[t] # Null
  <2>1. /\ next' = [next EXCEPT ![r[t]] = Junk]
        /\ allocated' = allocated \union {r[t]}
        /\ InHand(t)
    BY <1>5 DEF AllocReturn, InHand
  <2>2. LinkCleared'
    BY <2>1 DEF IInv, TypeOK, LinkCleared, AtMostOnePlace, InHand, AllocReturn, Goto
  <2>3. Chain'
    <3>1. \A i \in 1..Len(queue) : queue[i] \in Page /\ queue[i] # r[t]
      BY <2>1, QueueFacts DEF IInv, AtMostOnePlace, InQueue
    <3>2. \A i \in 1..Len(queue) : next'[queue[i]] = next[queue[i]]
      BY <3>1, <2>1 DEF IInv, TypeOK
    <3> QED
      BY <3>2, QueueFacts DEF IInv, Chain, AllocReturn
  <2>4. AtMostOnePlace'
    BY <2>1 DEF IInv, TypeOK, AtMostOnePlace, InHand, InQueue, AllocReturn, Goto
  <2>5. SomePlace'
    BY <2>1 DEF IInv, TypeOK, SomePlace, InHand, InQueue, AllocReturn, Goto
  <2> QED
    BY <2>2, <2>3, <2>4, <2>5, <1>2, <1>3 DEF IInv
<1> QED
  BY <1>4, <1>5

(* An owner writes a page it owns: no link of the list is in it.           *)
LEMMA ScribbleIInv ==
  ASSUME IInv, Scribble
  PROVE  IInv'
<1> USE DEF Page, Null, Junk, Word, Booted
<1> PICK pg \in allocated, w \in Word : next' = [next EXCEPT ![pg] = w]
  BY DEF Scribble
<1>1. TypeOK'
  BY DEF IInv, TypeOK, Scribble
<1>2. LockInv' /\ HeadRead' /\ BootInv' /\ TailIsLast' /\ AtMostOnePlace' /\ SomePlace'
  BY DEF IInv, LockInv, HeadRead, BootInv, TailIsLast, AtMostOnePlace, SomePlace,
         InHand, InQueue, Scribble
<1>3. LinkCleared'
  BY DEF IInv, TypeOK, LinkCleared, AtMostOnePlace, InHand, Scribble
<1>4. Chain'
  <2>1. \A i \in 1..Len(queue) : queue[i] \in Page /\ next'[queue[i]] = next[queue[i]]
    BY QueueFacts DEF IInv, TypeOK, AtMostOnePlace
  <2> QED
    BY <2>1, QueueFacts DEF IInv, Chain, Scribble
<1> QED
  BY <1>1, <1>2, <1>3, <1>4 DEF IInv

(* The walk at the end of freerange ends at the last page of the list:     *)
(* every page is on it by then.                                            *)
LEMMA BootTailIInv ==
  ASSUME IInv, BootTail
  PROVE  IInv'
<1> USE DEF Page, Null, Junk, Word, Booted
<1>1. /\ allocated = {}
      /\ \A t \in Thread : pc[t] = "idle"
  BY DEF IInv, BootInv, BootTail
<1>2. \A pg \in Page : InQueue(pg)
  BY <1>1 DEF IInv, SomePlace, InHand
<1>3. queue # << >> /\ Len(queue) \in Nat \ {0} /\ 1 \in Page
  BY <1>2 DEF IInv, TypeOK, InQueue
<1>4. /\ queue[Len(queue)] \in Page
      /\ next[queue[Len(queue)]] = Null
  BY <1>3 DEF IInv, TypeOK, Chain
<1>5. \A pg \in Page : next[pg] = Null => pg = queue[Len(queue)]
  <2> SUFFICES ASSUME NEW pg \in Page, next[pg] = Null
               PROVE  pg = queue[Len(queue)]
    OBVIOUS
  <2>1. PICK i \in 1..Len(queue) : queue[i] = pg
    BY <1>2 DEF InQueue
  <2>2. i # Len(queue) => queue[i + 1] = Null /\ queue[i + 1] \in Page
    <3>1. i # Len(queue) => i \in 1..(Len(queue) - 1) /\ i + 1 \in 1..Len(queue)
      BY <1>3
    <3>2. i # Len(queue) => queue[i + 1] = next[pg]
      BY <2>1, <3>1 DEF IInv, Chain
    <3> QED
      BY <3>1, <3>2, QueueFacts DEF IInv
  <2> QED
    BY <2>1, <2>2
<1>6. tail' = queue[Len(queue)]
  BY <1>3, <1>4, <1>5 DEF IInv, TypeOK, Chain, BootTail, WalkEnd
<1>7. TypeOK' /\ TailIsLast'
  BY <1>1, <1>4, <1>6 DEF IInv, TypeOK, TailIsLast, BootTail
<1>8. /\ LockInv' /\ LinkCleared' /\ HeadRead' /\ BootInv' /\ Chain'
      /\ AtMostOnePlace' /\ SomePlace'
  BY DEF IInv, LockInv, LinkCleared, HeadRead, BootInv, Chain, AtMostOnePlace,
         SomePlace, InHand, InQueue, BootTail
<1> QED
  BY <1>7, <1>8 DEF IInv

-----------------------------------------------------------------------------
(* Every step keeps the invariant: one case per action.                    *)
LEMMA NextIInv == IInv /\ [Next]_vars => IInv'
<1> SUFFICES ASSUME IInv, [Next]_vars
             PROVE  IInv'
  OBVIOUS
<1>1. CASE BootFree
  <2>1. boot \in allocated
    BY <1>1 DEF IInv, BootInv, BootFree, Page, Booted
  <2> QED
    BY <2>1, <1>1, FreeBeginIInv DEF BootFree
<1>2. CASE BootTail
  BY <1>2, BootTailIInv
<1>3. CASE Scribble
  BY <1>3, ScribbleIInv
<1>4. ASSUME NEW t \in Thread, Free(t) PROVE IInv'
  BY <1>4, FreeBeginIInv DEF Free
<1>5. ASSUME NEW t \in Thread, FreeLink(t) PROVE IInv'
  BY <1>5, FreeLinkIInv
<1>6. ASSUME NEW t \in Thread, FreeTail(t) PROVE IInv'
  BY <1>6, FreeTailIInv
<1>7. ASSUME NEW t \in Thread, AllocBegin(t) PROVE IInv'
  BY <1>7, AllocBeginIInv
<1>8. ASSUME NEW t \in Thread, AllocTake(t) PROVE IInv'
  BY <1>8, AllocTakeIInv
<1>9. ASSUME NEW t \in Thread, AllocReturn(t) PROVE IInv'
  BY <1>9, AllocReturnIInv
<1>10. CASE UNCHANGED vars
  BY <1>10 DEF vars, IInv, TypeOK, LockInv, LinkCleared, HeadRead, BootInv,
               Chain, TailIsLast, AtMostOnePlace, SomePlace, InHand, InQueue
<1> QED
  BY <1>1, <1>2, <1>3, <1>4, <1>5, <1>6, <1>7, <1>8, <1>9, <1>10 DEF Next

(* The inductive invariant holds in every reachable state.                 *)
THEOREM Invariance == Spec => []IInv
BY InitIInv, NextIInv, PTL DEF Spec

(* The variables of kalloc.c keep their types.                             *)
THEOREM TypeCorrect == Spec => []TypeOK
<1>1. IInv => TypeOK
  BY DEF IInv
<1> QED
  BY <1>1, Invariance, PTL

(* The free list is the queue of free pages and kmem.tail is its end.      *)
THEOREM ListIntact == Spec => [](Chain /\ TailIsLast)
<1>1. IInv => Chain /\ TailIsLast
  BY DEF IInv
<1> QED
  BY <1>1, Invariance, PTL

(* No page is in two places and none is lost.                              *)
THEOREM PagesConserved == Spec => []OnePlace
<1>1. IInv => OnePlace
  BY DEF IInv, OnePlace
<1> QED
  BY <1>1, Invariance, PTL

(* kalloc fails only when no page is free.                                 *)
THEOREM FailureIsExhaustion == Spec => FailsOnlyWhenEmpty
<1>1. IInv /\ [Next]_vars =>
        [\A t \in Thread : AllocTake(t) /\ r[t] = Null => queue = << >>]_vars
  BY DEF IInv, HeadRead, Chain, TypeOK, AllocTake, Page, Null
<1> QED
  BY <1>1, Invariance, PTL DEF Spec, FailsOnlyWhenEmpty

-----------------------------------------------------------------------------
(* The abstract state that a state of the allocator stands for.            *)
releasing == [t \in Thread |-> IF pc[t] = "free_lock" THEN r[t] ELSE Null]
granted == [t \in Thread |-> IF pc[t] = "alloc_fill" THEN r[t] ELSE Null]

(* Steps of the allocator are steps of FifoPages or change nothing of it.  *)
LEMMA StepRefines == IInv /\ [Next]_vars => [Abstract!Next]_Abstract!vars
<1> USE DEF Page, Null, Abstract!Page, Abstract!Null
<1> SUFFICES ASSUME IInv, [Next]_vars
             PROVE  Abstract!Next \/ UNCHANGED <<queue, allocated, releasing, granted>>
  BY DEF Abstract!vars, releasing, granted
<1>1. ASSUME NEW t \in Thread, NEW pg \in allocated, FreeBegin(t, pg)
      PROVE  Abstract!Next
  <2>1. pg \in Page /\ pc[t] = "idle" /\ releasing[t] = Null
    BY <1>1 DEF IInv, TypeOK, FreeBegin, releasing
  <2>2. releasing' = [releasing EXCEPT ![t] = pg] /\ granted' = granted
    BY <1>1 DEF IInv, TypeOK, FreeBegin, Goto, releasing, granted
  <2>3. Abstract!Give(t, pg)
    BY <1>1, <2>1, <2>2 DEF Abstract!Give, FreeBegin, releasing, granted
  <2> QED
    BY <2>1, <2>3 DEF Abstract!Next
<1>2. ASSUME NEW t \in Thread, FreeLink(t)
      PROVE  Abstract!Next
  <2>1. r[t] \in Page /\ pc[t] = "free_lock" /\ releasing[t] = r[t]
    BY <1>2 DEF IInv, AtMostOnePlace, InHand, FreeLink, releasing
  <2>2. releasing' = [releasing EXCEPT ![t] = Null] /\ granted' = granted
    BY <1>2 DEF IInv, TypeOK, FreeLink, Goto, releasing, granted
  <2>3. Abstract!Enqueue(t)
    BY <1>2, <2>1, <2>2 DEF Abstract!Enqueue, FreeLink, releasing, granted
  <2> QED
    BY <2>3 DEF Abstract!Next
<1>3. ASSUME NEW t \in Thread, FreeTail(t) \/ AllocBegin(t)
      PROVE  UNCHANGED <<queue, allocated, releasing, granted>>
  BY <1>3 DEF IInv, TypeOK, FreeTail, AllocBegin, Goto, releasing, granted
<1>4. ASSUME NEW t \in Thread, AllocTake(t)
      PROVE  Abstract!Next \/ UNCHANGED <<queue, allocated, releasing, granted>>
  <2>1. /\ releasing' = releasing
        /\ granted' = [granted EXCEPT ![t] = r[t]]
        /\ granted[t] = Null
    BY <1>4 DEF IInv, TypeOK, AllocTake, Goto, releasing, granted
  <2>2. CASE r[t] = Null
    <3>1. queue' = queue /\ allocated' = allocated
      BY <1>4, <2>2 DEF AllocTake
    <3>2. granted' = granted
      BY <2>1, <2>2 DEF granted
    <3> QED
      BY <2>1, <3>1, <3>2
  <2>3. CASE r[t] # Null
    <3>1. queue # << >> /\ r[t] = Head(queue)
      BY <1>4, <2>3 DEF IInv, TypeOK, HeadRead, Chain, AllocTake
    <3>2. queue' = Tail(queue) /\ allocated' = allocated
      BY <1>4, <2>3 DEF AllocTake
    <3>3. Abstract!Dequeue(t)
      BY <2>1, <3>1, <3>2 DEF Abstract!Dequeue, releasing, granted
    <3> QED
      BY <3>3 DEF Abstract!Next
  <2> QED
    BY <2>2, <2>3
<1>5. ASSUME NEW t \in Thread, AllocReturn(t)
      PROVE  Abstract!Next \/ UNCHANGED <<queue, allocated, releasing, granted>>
  <2>1. /\ releasing' = releasing
        /\ granted' = [granted EXCEPT ![t] = Null]
        /\ granted[t] = r[t]
        /\ queue' = queue
    BY <1>5 DEF IInv, TypeOK, AllocReturn, Goto, releasing, granted
  <2>2. CASE r[t] = Null
    <3>1. allocated' = allocated
      BY <1>5, <2>2 DEF AllocReturn
    <3>2. granted' = granted
      BY <2>1, <2>2 DEF granted
    <3> QED
      BY <2>1, <3>1, <3>2
  <2>3. CASE r[t] # Null
    <3>1. allocated' = allocated \union {r[t]}
      BY <1>5, <2>3 DEF AllocReturn
    <3>2. Abstract!Take(t)
      BY <2>1, <2>3, <3>1 DEF Abstract!Take, releasing, granted
    <3> QED
      BY <3>2 DEF Abstract!Next
  <2> QED
    BY <2>2, <2>3
<1>6. CASE BootFree
  <2>1. boot \in allocated
    BY <1>6 DEF IInv, BootInv, BootFree, Booted
  <2> QED
    BY <2>1, <1>1, <1>6, ThreadAssumption DEF BootFree
<1>7. CASE BootTail \/ Scribble \/ UNCHANGED vars
  BY <1>7 DEF BootTail, Scribble, vars, releasing, granted
<1> QED
  BY <1>1, <1>2, <1>3, <1>4, <1>5, <1>6, <1>7 DEF Next, Free

(* kalloc hands pages out in the order kfree queued them, and never a page *)
(* that has an owner: the allocator implements the queue of pages.         *)
THEOREM Refinement == Spec => FifoOrder
<1>1. Init => Abstract!Init
  BY DEF Init, Abstract!Init, Page, Null, Abstract!Page, Abstract!Null
<1> QED
  BY <1>1, StepRefines, Invariance, PTL DEF Spec, Abstract!Spec, FifoOrder

=============================================================================
