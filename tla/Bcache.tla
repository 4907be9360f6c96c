--------------------------------- MODULE Bcache --------------------------------
(***************************************************************************)
(* The buffer cache (kernel/bio.c) with the sleep locks of its buffers     *)
(* (kernel/sleeplock.c), over the disk driver (Virtio), used the way the   *)
(* log and the file system use it: a buffer that was changed is written or *)
(* pinned before it is given back, and a pinned one is unpinned after it   *)
(* was written.                                                            *)
(*                                                                         *)
(* Abstractions.  A critical section of bcache.lock or of a sleep lock's   *)
(* own spinlock is one step.  There is one device.                         *)
(***************************************************************************)
EXTENDS Virtio, Functions

CONSTANTS MaxPinned,   \* buffers the client pins, at most
          Changing     \* the blocks the client changes, the others it only reads

NoProcess == "no process"

ASSUME BcacheAssumption ==
  MaxPinned \in Nat /\ Changing \subseteq Block /\ NoProcess \notin Process

VARIABLES
  buf,       \* blockno, valid, refcnt and lock of each buffer
  lru,       \* the list from head.next to head.prev, most recently used first
  pinned     \* the buffers the client has pinned

cache == <<buf, lru, pinned>>
vars == <<disk, data, owned, driver, thread, cache>>

Init ==
  /\ VirtioInit
  /\ buf = [k \in Buf |-> [block |-> NoBlock, valid |-> FALSE, refcnt |-> 0,
                           lock |-> NoProcess]]
  /\ lru = [i \in Buf |-> NBUF + 1 - i]
  /\ pinned = {}
  /\ thread = [p \in Process |-> Idle]

-----------------------------------------------------------------------------
(* bread                                                                   *)

Cached(b) == {k \in Buf : buf[k].block = b}
Unused == {k \in Buf : buf[k].refcnt = 0}

(* A faulty bget that recycles a buffer without forgetting its contents.   *)
RecycleValid(k, b) ==
  buf' = [buf EXCEPT ![k] = [@ EXCEPT !.block = b, !.refcnt = 1]]

Recycle(k, b) ==
  buf' = [buf EXCEPT ![k] = [@ EXCEPT !.block = b, !.valid = FALSE, !.refcnt = 1]]

LeastRecentUnused == lru[Max({i \in Buf : lru[i] \in Unused})]

(* bget, under bcache.lock.  When every buffer is in use the code panics   *)
(* ("bget: no buffers"); here the caller waits in front of bget.  The other*)
(* processes' steps are those they may take before it gets there, so that  *)
(* nothing is reached that the code does not reach.                        *)
Bget(p, b) ==
  /\ At(p, "idle")
  /\ \/ \E k \in Cached(b) :
          /\ buf' = [buf EXCEPT ![k].refcnt = @ + 1]
          /\ thread' = [thread EXCEPT ![p] = [Idle EXCEPT !.at = "lock", !.k = k]]
     \/ /\ Cached(b) = {} /\ Unused # {}
        /\ Recycle(LeastRecentUnused, b)
        /\ thread' = [thread EXCEPT ![p] =
                        [Idle EXCEPT !.at = "lock", !.k = LeastRecentUnused]]
  /\ UNCHANGED <<disk, data, owned, driver, lru, pinned>>

(* acquiresleep, and bread's look at b->valid.                             *)
SleepLock(p) ==
  LET k == thread[p].k IN
  /\ At(p, "lock")
  /\ \/ /\ buf[k].lock # NoProcess
        /\ thread' = Goto(p, "lock_asleep")
        /\ UNCHANGED buf
     \/ /\ buf[k].lock = NoProcess
        /\ buf' = [buf EXCEPT ![k].lock = p]
        /\ thread' = Goto(p, IF buf[k].valid THEN "holding" ELSE "rw")
  /\ UNCHANGED <<disk, data, owned, driver, lru, pinned>>

(* virtio_disk_rw, which bread follows with b->valid = 1.                  *)
Submit(p) ==
  /\ RwSubmits(p, buf[thread[p].k].block)
  /\ UNCHANGED cache

WaitDesc(p) == RwWaits(p) /\ UNCHANGED cache

Finish(p) ==
  /\ RwDone(p)
  /\ buf' = [buf EXCEPT ![thread[p].k].valid = TRUE]
  /\ UNCHANGED <<lru, pinned>>

VirtioDiskRw(p) == WaitDesc(p) \/ Submit(p) \/ Finish(p)

Bread(p) == (\E b \in Block : Bget(p, b)) \/ SleepLock(p) \/ VirtioDiskRw(p)

-----------------------------------------------------------------------------
(* What the holder of a buffer does                                        *)

Change(p) ==
  /\ At(p, "holding") /\ ~ thread[p].dirty /\ buf[thread[p].k].block \in Changing
  /\ data' = [data EXCEPT ![thread[p].k] = 1 - @]
  /\ thread' = [thread EXCEPT ![p].dirty = TRUE]
  /\ UNCHANGED <<disk, owned, driver, cache>>

Bwrite(p) ==
  /\ At(p, "holding") /\ (thread[p].dirty \/ thread[p].k \in pinned)
  /\ thread' = [thread EXCEPT ![p].at = "rw", ![p].write = TRUE]
  /\ UNCHANGED <<disk, data, owned, driver, cache>>

(* log_write pins a changed buffer, once.                                  *)
Bpin(p) ==
  LET k == thread[p].k IN
  /\ At(p, "holding") /\ thread[p].dirty
  /\ \/ k \in pinned /\ UNCHANGED <<buf, pinned>>
     \/ /\ k \notin pinned /\ Cardinality(pinned) < MaxPinned
        /\ buf' = [buf EXCEPT ![k].refcnt = @ + 1]
        /\ pinned' = pinned \union {k}
  /\ thread' = [thread EXCEPT ![p].dirty = FALSE]
  /\ UNCHANGED <<disk, data, owned, driver, lru>>

(* install_trans unpins a buffer that is on the disk as it is.             *)
Bunpin(p) ==
  LET k == thread[p].k IN
  /\ At(p, "holding") /\ k \in pinned /\ disk[buf[k].block] = data[k]
  /\ buf' = [buf EXCEPT ![k].refcnt = @ - 1]
  /\ pinned' = pinned \ {k}
  /\ UNCHANGED <<disk, data, owned, driver, lru, thread>>

(* brelse: the sleep lock, then the reference and the list.                *)
Releasesleep(p) ==
  LET k == thread[p].k IN
  /\ At(p, "holding") /\ ~ thread[p].dirty
  /\ buf' = [buf EXCEPT ![k].lock = NoProcess]
  /\ thread' = WakeFor(Goto(p, "unref"), k, "lock_asleep", "lock")
  /\ UNCHANGED <<disk, data, owned, driver, lru, pinned>>

MovedToFront(k) ==
  LET i == CHOOSE i \in Buf : lru[i] = k IN
  [j \in Buf |-> IF j = 1 THEN k ELSE IF j <= i THEN lru[j - 1] ELSE lru[j]]

Unref(p) ==
  LET k == thread[p].k IN
  /\ At(p, "unref")
  /\ buf' = [buf EXCEPT ![k].refcnt = @ - 1]
  /\ lru' = IF buf[k].refcnt = 1 THEN MovedToFront(k) ELSE lru
  /\ thread' = [thread EXCEPT ![p] = Idle]
  /\ UNCHANGED <<disk, data, owned, driver, pinned>>

Brelse(p) == Releasesleep(p) \/ Unref(p)

-----------------------------------------------------------------------------

Hardware == (Device \/ VirtioDiskIntr) /\ UNCHANGED cache

Next ==
  \/ \E p \in Process :
       \/ Bread(p) \/ Bwrite(p) \/ Brelse(p)
       \/ Change(p) \/ Bpin(p) \/ Bunpin(p)
  \/ Hardware

Spec == Init /\ [][Next]_vars

-----------------------------------------------------------------------------
(* Properties                                                              *)

Location == {"idle", "lock", "lock_asleep", "rw", "rw_nodesc", "rw_asleep", "rw_woken",
             "holding", "unref"}

TypeOK ==
  /\ VirtioTypeOK
  /\ thread \in [Process -> [at : Location, k : Buf \union {NoBuf}, write : BOOLEAN,
                             head : Desc \union {NoDesc}, dirty : BOOLEAN]]
  /\ buf \in [Buf -> [block : Block \union {NoBlock}, valid : BOOLEAN,
                      refcnt : 0..Cardinality(Process) + 1,
                      lock : Process \union {NoProcess}]]
  /\ lru \in [Buf -> Buf] /\ IsInjective(lru)
  /\ pinned \subseteq Buf

InRequest == {p \in Process : thread[p].at \in {"rw_asleep", "rw_woken"}}

(* Descriptors and rings are accounted for: every descriptor is free or in *)
(* the chain of one request, a request is in one place between the driver  *)
(* and the device, a used entry names a request that went well and whose   *)
(* buffer the disk owns, and the buffer is locked by the process that waits*)
(* for it.                                                                 *)
Pending == {avail.ring[s] : s \in Desc} \ {NoDesc}
Reported == {used.ring[s] : s \in Desc} \ {NoDesc}

RequestsAccounted ==
  /\ Desc = free \union UNION {Chain(thread[p].head) : p \in InRequest}
  /\ \A p \in InRequest :
       LET d == thread[p].head IN
       /\ Cardinality(Chain(d)) = 3 /\ Chain(d) \intersect free = {}
       /\ \A q \in InRequest \ {p} : Chain(d) \intersect Chain(thread[q].head) = {}
       /\ info[d].buf = thread[p].k /\ buf[thread[p].k].lock = p
       /\ owned[thread[p].k] = (d \in Pending \union device.work \union Reported)
       /\ info[d].ok = (d \notin Pending \union device.work)
  /\ \A k \in Buf : owned[k] => \E p \in InRequest : thread[p].k = k
  /\ Pending \intersect device.work = {} /\ Reported \intersect device.work = {}
  /\ Pending \union device.work \union Reported \subseteq {thread[p].head : p \in InRequest}
  /\ intr => used_idx # used.idx /\ ~ IntrPanics

(* Nobody sleeps for what has happened: for a request that is over, for a  *)
(* lock that is free, for descriptors that are there.                      *)
NoLostWakeup ==
  \A p \in Process :
    /\ At(p, "rw_asleep") => owned[thread[p].k]
    /\ At(p, "rw_nodesc") => Cardinality(free) < 3
    /\ At(p, "lock_asleep") => buf[thread[p].k].lock # NoProcess

(* A block has one buffer at most, referred to once by each process at work*)
(* on it and once by a pin.                                                *)
References(k) ==
  Cardinality({p \in Process : thread[p].k = k}) + (IF k \in pinned THEN 1 ELSE 0)

OneBuffer ==
  /\ \A b \in Block : Cardinality(Cached(b)) <= 1
  /\ \A k \in Buf : buf[k].refcnt = References(k)

(* The books of driver and cache together.                                 *)
Accounted == TypeOK /\ RequestsAccounted /\ OneBuffer

Contents(b) ==
  IF \E k \in Cached(b) : buf[k].valid
    THEN data[CHOOSE k \in Cached(b) : buf[k].valid] ELSE disk[b]

Blocks == INSTANCE BlockStore WITH
  Nothing <- NoBlock,
  mem <- [b \in Block |-> Contents(b)],
  held <- [p \in Process |->
             IF At(p, "holding") \/ (thread[p].k # NoBuf /\ thread[p].write)
               THEN buf[thread[p].k].block ELSE NoBlock]

(* Buffers, their recycling and the disk behind them implement the blocks: *)
(* who reads a block sees what the last holder left, cached, pinned, on its*)
(* way or read back from the disk.                                         *)
Coherent == Blocks!Spec

=============================================================================
