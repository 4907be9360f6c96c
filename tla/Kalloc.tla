-------------------------------- MODULE Kalloc --------------------------------
(***************************************************************************)
(* The physical page allocator of xv6-riscv-modificado (kernel/kalloc.c):  *)
(* a linked list of free pages threaded through the pages themselves, with *)
(* kmem.freelist as its head and kmem.tail as its end.                     *)
(*                                                                         *)
(* Abstractions.  A page is its number; the only word of a page the        *)
(* allocator reads is the first one, next[pg], so it is the only word kept.*)
(* While somebody owns the page that word is user data and may hold        *)
(* anything, the number of a page included (Scribble).  Callers free only  *)
(* pages they own: the allocator cannot check it.  The panic of kfree for  *)
(* an address outside physical memory is left out, Page being the range of *)
(* valid addresses.  trace_memory only prints.                             *)
(***************************************************************************)
EXTENDS Integers, Sequences, FiniteSets

CONSTANTS Thread,      \* the kernel threads that call kalloc and kfree
          BootThread,  \* the one that runs kinit, on CPU 0
          NPages,      \* pages between end and PHYSTOP
          NoThread     \* the lock's holder when it is free

ASSUME ThreadAssumption == BootThread \in Thread /\ NoThread \notin Thread
ASSUME PagesAssumption  == NPages \in Nat \ {0}

Page == 1..NPages
Null == 0
Junk == NPages + 1     \* a word that points at no page: memset's filling
Word == 0..NPages + 1
Booted == NPages + 2   \* freerange has returned

VARIABLES
  freelist,   \* kmem.freelist
  tail,       \* kmem.tail
  next,       \* next[pg]: the first word of page pg
  lock,       \* the thread that holds kmem.lock
  pc,         \* where each thread is in kalloc or kfree
  r,          \* r[t]: the local variable r of the call t is in
  allocated,  \* the pages somebody owns
  boot,       \* freerange: the page its loop frees next, Junk after the loop
  queue       \* history: the pages on the list, the one freed first at the head

vars == <<freelist, tail, next, lock, pc, r, allocated, boot, queue>>

Location == {"idle", "free_lock", "free_tail", "alloc_take", "alloc_fill"}

TypeOK ==
  /\ freelist \in Page \union {Null}
  /\ tail \in Page \union {Null}
  /\ next \in [Page -> Word]
  /\ lock \in Thread \union {NoThread}
  /\ pc \in [Thread -> Location]
  /\ r \in [Thread -> Page \union {Null}]
  /\ allocated \subseteq Page
  /\ boot \in 1..Booted
  /\ queue \in Seq(Page)

Init ==
  /\ freelist = Null
  /\ tail = Null
  /\ next \in [Page -> Word]
  /\ lock = NoThread
  /\ pc = [t \in Thread |-> "idle"]
  /\ r = [t \in Thread |-> Null]
  /\ allocated = Page
  /\ boot = 1
  /\ queue = << >>

Goto(t, l) == pc' = [pc EXCEPT ![t] = l]

-----------------------------------------------------------------------------
(* kfree                                                                   *)

(* Filling the page with junk and clearing its link happens before the     *)
(* lock is taken.                                                          *)
FreeBegin(t, pg) ==
  /\ pc[t] = "idle"
  /\ allocated' = allocated \ {pg}
  /\ next' = [next EXCEPT ![pg] = Null]
  /\ r' = [r EXCEPT ![t] = pg]
  /\ Goto(t, "free_lock")
  /\ UNCHANGED <<freelist, tail, lock, queue>>

(* A faulty kfree that decides by the tail whether the list is empty.      *)
FreeLinkByTail(t) ==
  /\ pc[t] = "free_lock"
  /\ lock = NoThread
  /\ lock' = t
  /\ \/ tail = Null /\ freelist' = r[t] /\ UNCHANGED next
     \/ tail # Null /\ next' = [next EXCEPT ![tail] = r[t]] /\ UNCHANGED freelist
  /\ queue' = Append(queue, r[t])
  /\ Goto(t, "free_tail")
  /\ UNCHANGED <<tail, r, allocated, boot>>

(* A faulty kfree that puts the page at the head, as the original does.    *)
FreeLinkAtHead(t) ==
  /\ pc[t] = "free_lock"
  /\ lock = NoThread
  /\ lock' = t
  /\ next' = [next EXCEPT ![r[t]] = freelist]
  /\ freelist' = r[t]
  /\ queue' = Append(queue, r[t])
  /\ Goto(t, "free_tail")
  /\ UNCHANGED <<tail, r, allocated, boot>>

(* Under the lock: link the page behind the tail, or make it the head.     *)
FreeLink(t) ==
  /\ pc[t] = "free_lock"
  /\ lock = NoThread
  /\ lock' = t
  /\ \/ /\ freelist = Null
        /\ freelist' = r[t]
        /\ UNCHANGED next
     \/ /\ freelist # Null
        /\ next' = [next EXCEPT ![tail] = r[t]]
        /\ UNCHANGED freelist
  /\ queue' = Append(queue, r[t])
  /\ Goto(t, "free_tail")
  /\ UNCHANGED <<tail, r, allocated, boot>>

(* The page is the new tail; the lock is released.                         *)
FreeTail(t) ==
  /\ pc[t] = "free_tail"
  /\ tail' = r[t]
  /\ lock' = NoThread
  /\ Goto(t, "idle")
  /\ UNCHANGED <<freelist, next, r, allocated, boot, queue>>

-----------------------------------------------------------------------------
(* kalloc                                                                  *)

(* A faulty kalloc that reads the head without waiting for the lock.       *)
AllocBeginUnlocked(t) ==
  /\ pc[t] = "idle"
  /\ boot = Booted
  /\ lock' = t
  /\ r' = [r EXCEPT ![t] = freelist]
  /\ Goto(t, "alloc_take")
  /\ UNCHANGED <<freelist, tail, next, allocated, boot, queue>>

(* Under the lock: read the head.                                          *)
AllocBegin(t) ==
  /\ pc[t] = "idle"
  /\ boot = Booted
  /\ lock = NoThread
  /\ lock' = t
  /\ r' = [r EXCEPT ![t] = freelist]
  /\ Goto(t, "alloc_take")
  /\ UNCHANGED <<freelist, tail, next, allocated, boot, queue>>

(* Unlink it, when there is one, and release the lock.  The tail is not    *)
(* touched, even when the last page leaves the list.                       *)
AllocTake(t) ==
  /\ pc[t] = "alloc_take"
  /\ \/ /\ r[t] # Null
        /\ freelist' = next[r[t]]
        /\ queue' = Tail(queue)
     \/ /\ r[t] = Null
        /\ UNCHANGED <<freelist, queue>>
  /\ lock' = NoThread
  /\ Goto(t, "alloc_fill")
  /\ UNCHANGED <<tail, next, r, allocated, boot>>

(* Fill the page with junk and return it; a null page is returned as it is.*)
AllocReturn(t) ==
  /\ pc[t] = "alloc_fill"
  /\ \/ /\ r[t] # Null
        /\ next' = [next EXCEPT ![r[t]] = Junk]
        /\ allocated' = allocated \union {r[t]}
     \/ /\ r[t] = Null
        /\ UNCHANGED <<next, allocated>>
  /\ Goto(t, "idle")
  /\ UNCHANGED <<freelist, tail, lock, r, boot, queue>>

-----------------------------------------------------------------------------
(* kinit: freerange frees every page, in ascending order, then walks the   *)
(* list to its end and points the tail there.  No other CPU runs yet.      *)

BootFree ==
  /\ boot \in Page
  /\ FreeBegin(BootThread, boot)
  /\ boot' = boot + 1

(* Where a walk along the links from the head ends.  The walk is taken when*)
(* every page is on the list, so a page that ends it is the end of the list*)
WalkEnd == CHOOSE pg \in Page : next[pg] = Null

BootTail ==
  /\ boot = Junk
  /\ pc[BootThread] = "idle"
  /\ tail' = IF freelist # Null THEN WalkEnd ELSE tail
  /\ boot' = Booted
  /\ UNCHANGED <<freelist, next, lock, pc, r, allocated, queue>>

-----------------------------------------------------------------------------
(* The callers                                                             *)

Free(t) ==
  /\ boot = Booted
  /\ \E pg \in allocated : FreeBegin(t, pg)
  /\ UNCHANGED boot

(* The owner of a page writes it.                                          *)
Scribble ==
  /\ boot = Booted
  /\ \E pg \in allocated, w \in Word : next' = [next EXCEPT ![pg] = w]
  /\ UNCHANGED <<freelist, tail, lock, pc, r, allocated, boot, queue>>

Next ==
  \/ BootFree
  \/ BootTail
  \/ Scribble
  \/ \E t \in Thread :
       \/ Free(t)
       \/ FreeLink(t)
       \/ FreeTail(t)
       \/ AllocBegin(t)
       \/ AllocTake(t)
       \/ AllocReturn(t)

Spec == Init /\ [][Next]_vars

-----------------------------------------------------------------------------
(* Properties                                                              *)

(* A thread has a page in hand that is neither owned nor on the list.      *)
InHand(t) ==
  \/ pc[t] = "free_lock"
  \/ pc[t] = "alloc_fill" /\ r[t] # Null

InQueue(pg) == \E i \in 1..Len(queue) : queue[i] = pg

(* The list's links are the queue of free pages: the head is its oldest    *)
(* page, every link leads to the next younger one and the last is null.    *)
(* No write of a page's owner, no stale tail left behind by an emptied     *)
(* list and no interleaving of kfree and kalloc breaks the chain.          *)
Chain ==
  /\ queue = << >> => freelist = Null
  /\ queue # << >> => /\ freelist = queue[1]
                      /\ next[queue[Len(queue)]] = Null
  /\ \A i \in 1..(Len(queue) - 1) : next[queue[i]] = queue[i + 1]

(* Whenever nobody is linking a page and the list is not empty, the tail is*)
(* its last page, so that the next kfree appends where it should.          *)
TailIsLast ==
  /\ (queue # << >> /\ \A t \in Thread : pc[t] # "free_tail")
       => tail = queue[Len(queue)]
  /\ \A t \in Thread :
       pc[t] = "free_tail" => queue # << >> /\ queue[Len(queue)] = r[t]

(* A page is in one place at most: on the list once, with an owner, or in  *)
(* the hand of one call of kfree or kalloc.                                *)
AtMostOnePlace ==
  /\ \A i, j \in 1..Len(queue) : queue[i] = queue[j] => i = j
  /\ \A i \in 1..Len(queue) : queue[i] \notin allocated
  /\ \A t \in Thread : InHand(t) =>
       /\ r[t] \in Page
       /\ r[t] \notin allocated
       /\ ~ InQueue(r[t])
  /\ \A t, u \in Thread : InHand(t) /\ InHand(u) /\ r[t] = r[u] => t = u

(* And it is in one of them.                                               *)
SomePlace ==
  \A pg \in Page :
    \/ pg \in allocated
    \/ InQueue(pg)
    \/ \E t \in Thread : InHand(t) /\ r[t] = pg

(* Every page has exactly one place: two callers are never given one page, *)
(* no owner writes a free page, and no page is lost, whatever the order in *)
(* which kfree and kalloc run on several CPUs.                             *)
OnePlace == AtMostOnePlace /\ SomePlace

(* kalloc returns no page only when the list was empty under the lock.     *)
FailsOnlyWhenEmpty ==
  [][\A t \in Thread :
       AllocTake(t) /\ r[t] = Null => queue = << >>]_vars

(* The allocator implements the queue of pages: kalloc takes the page that *)
(* was freed first.                                                        *)
Abstract ==
  INSTANCE FifoPages WITH
    owned <- allocated,
    releasing <- [t \in Thread |-> IF pc[t] = "free_lock" THEN r[t] ELSE Null],
    granted <- [t \in Thread |-> IF pc[t] = "alloc_fill" THEN r[t] ELSE Null]

FifoOrder == Abstract!Spec

=============================================================================
