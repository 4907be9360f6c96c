--------------------------------- MODULE Virtio --------------------------------
(***************************************************************************)
(* The driver of the virtio disk (kernel/virtio_disk.c) and the device on  *)
(* the other side of its descriptors and rings.  Bcache is its only client.*)
(*                                                                         *)
(* Abstractions.  A critical section of vdisk_lock is one step, except that*)
(* the interrupt handler handles one used entry at a time, for the device  *)
(* adds entries meanwhile.  sleep and wakeup are atomic.  A chain has its  *)
(* three descriptors, of which only the link and the buffer are kept; ring *)
(* entries nobody will read again are not kept.  The contents of a block   *)
(* are one of two values.                                                  *)
(***************************************************************************)
EXTENDS Integers, Sequences, FiniteSets, FiniteSetsExt

CONSTANTS Process, Block,
          NBUF,      \* buffers
          NUM,       \* descriptors, and entries of each ring
          IdxMod     \* the indices of the rings, uint16, count modulo this

NoBlock == "no block"

ASSUME VirtioAssumption ==
  /\ IsFiniteSet(Process) /\ NoBlock \notin Block
  /\ NBUF \in Nat \ {0} /\ NUM \in Nat /\ NUM >= 3
  /\ IdxMod \in Nat \ {0} /\ IdxMod % NUM = 0

Buf == 1..NBUF
NoBuf == 0
Desc == 0..NUM - 1
NoDesc == NUM
Val == {0, 1}
Blank == 0

VARIABLES
  disk,       \* the blocks on the disk
  data,       \* b->data of each buffer
  owned,      \* b->disk: the disk owns the buffer
  free,       \* disk.free: the free descriptors
  desc,       \* disk.desc: link and buffer
  ops,        \* disk.ops: direction and block
  info,       \* disk.info: buffer and whether the device reported success
  avail,      \* disk.avail: ring and idx
  used,       \* disk.used: ring and idx
  used_idx,   \* disk.used_idx
  device,     \* the device: next entry of avail, requests at work on, interrupt
  intr,       \* the interrupt handler is in its loop, with vdisk_lock
  thread      \* where each process is in the kernel, and its locals

driver == <<free, desc, ops, info, avail, used, used_idx, device, intr>>

(* k is the buffer, write the direction, head the descriptor idx[0] of the *)
(* request; dirty says that the process changed the buffer.                *)
Idle == [at |-> "idle", k |-> NoBuf, write |-> FALSE, head |-> NoDesc, dirty |-> FALSE]

NoChain == [next |-> NoDesc, buf |-> NoBuf]
NoOp == [write |-> FALSE, block |-> NoBlock]
NoInfo == [buf |-> NoBuf, ok |-> FALSE]
EmptyRing == [ring |-> [s \in Desc |-> NoDesc], idx |-> 0]

VirtioInit ==
  /\ disk = [b \in Block |-> Blank]
  /\ data = [k \in Buf |-> Blank]
  /\ owned = [k \in Buf |-> FALSE]
  /\ free = Desc
  /\ desc = [d \in Desc |-> NoChain]
  /\ ops = [d \in Desc |-> NoOp]
  /\ info = [d \in Desc |-> NoInfo]
  /\ avail = EmptyRing
  /\ used = EmptyRing
  /\ used_idx = 0
  /\ device = [last |-> 0, work |-> {}, irq |-> FALSE]
  /\ intr = FALSE

-----------------------------------------------------------------------------

At(p, l) == thread[p].at = l
Goto(p, l) == [thread EXCEPT ![p].at = l]

(* wakeup of the processes asleep at one place, all or those for a buffer, *)
(* in a change t of thread.                                                *)
WakeAll(t, from, to) ==
  [q \in Process |-> IF t[q].at = from THEN [t[q] EXCEPT !.at = to] ELSE t[q]]
WakeFor(t, k, from, to) ==
  [q \in Process |-> IF t[q].at = from /\ t[q].k = k THEN [t[q] EXCEPT !.at = to] ELSE t[q]]

(* alloc3_desc takes the three lowest free descriptors.                    *)
Lowest(i) == CHOOSE d \in free : Cardinality({e \in free : e < d}) = i - 1

(* Too few descriptors: those taken go back, each with a wakeup that       *)
(* reaches the others asleep, and the process goes to sleep itself.        *)
RwWaits(p) ==
  /\ At(p, "rw") /\ ~ intr /\ Cardinality(free) < 3
  /\ thread' = [(IF free = {} THEN thread ELSE WakeAll(thread, "rw_nodesc", "rw"))
                  EXCEPT ![p].at = "rw_nodesc"]
  /\ UNCHANGED <<disk, data, owned, driver>>

(* The descriptors are filled in and the device is told; the disk owns the *)
(* buffer from now on, so that the process goes to sleep.                  *)
RwSubmits(p, block) ==
  LET k == thread[p].k
      d0 == Lowest(1) d1 == Lowest(2) d2 == Lowest(3) IN
  /\ At(p, "rw") /\ ~ intr /\ Cardinality(free) >= 3
  /\ free' = free \ {d0, d1, d2}
  /\ desc' = [desc EXCEPT ![d0] = [next |-> d1, buf |-> NoBuf],
                          ![d1] = [next |-> d2, buf |-> k], ![d2] = NoChain]
  /\ ops' = [ops EXCEPT ![d0] = [write |-> thread[p].write, block |-> block]]
  /\ info' = [info EXCEPT ![d0] = [buf |-> k, ok |-> FALSE]]
  /\ owned' = [owned EXCEPT ![k] = TRUE]
  /\ avail' = [ring |-> [avail.ring EXCEPT ![avail.idx % NUM] = d0],
               idx |-> (avail.idx + 1) % IdxMod]
  /\ thread' = [thread EXCEPT ![p].at = "rw_asleep", ![p].head = d0]
  /\ UNCHANGED <<disk, data, used, used_idx, device, intr>>

(* free_chain follows the links; every free_desc wakes up those who wait   *)
(* for descriptors.                                                        *)
Chain(d) == {d, desc[d].next, desc[desc[d].next].next}

(* A faulty free_chain that forgets the last descriptor.                   *)
FreeTwo(d) ==
  /\ free' = free \union {d, desc[d].next}
  /\ desc' = [e \in Desc |-> IF e \in Chain(d) THEN NoChain ELSE desc[e]]

FreeChain(d) ==
  /\ free' = free \union Chain(d)
  /\ desc' = [e \in Desc |-> IF e \in Chain(d) THEN NoChain ELSE desc[e]]

(* The request is over: the process wakes up with b->disk at 0.            *)
RwDone(p) ==
  LET d == thread[p].head IN
  /\ At(p, "rw_woken") /\ ~ intr /\ ~ owned[thread[p].k]
  /\ FreeChain(d)
  /\ info' = [info EXCEPT ![d] = NoInfo]
  /\ ops' = [ops EXCEPT ![d] = NoOp]
  /\ thread' = WakeAll([thread EXCEPT ![p].at = "holding", ![p].head = NoDesc,
                                      ![p].write = FALSE,
                                      ![p].dirty = @ /\ ~ thread[p].write],
                       "rw_nodesc", "rw")
  /\ UNCHANGED <<disk, data, owned, avail, used, used_idx, device, intr>>

-----------------------------------------------------------------------------
(* The device takes requests in order and finishes them in any.            *)

DeviceFetches ==
  LET slot == device.last % NUM IN
  /\ device.last # avail.idx
  /\ device' = [device EXCEPT !.last = (@ + 1) % IdxMod,
                              !.work = @ \union {avail.ring[slot]}]
  /\ avail' = [avail EXCEPT !.ring[slot] = NoDesc]
  /\ UNCHANGED <<disk, data, owned, free, desc, ops, info, used, used_idx, intr, thread>>

DeviceFinishes(d) ==
  LET k == desc[desc[d].next].buf
      b == ops[d].block IN
  /\ d \in device.work
  /\ disk' = IF ops[d].write THEN [disk EXCEPT ![b] = data[k]] ELSE disk
  /\ data' = IF ops[d].write THEN data ELSE [data EXCEPT ![k] = disk[b]]
  /\ info' = [info EXCEPT ![d].ok = TRUE]
  /\ used' = [ring |-> [used.ring EXCEPT ![used.idx % NUM] = d],
              idx |-> (used.idx + 1) % IdxMod]
  /\ device' = [device EXCEPT !.work = @ \ {d}, !.irq = TRUE]
  /\ UNCHANGED <<owned, free, desc, ops, avail, used_idx, intr, thread>>

(* virtio_disk_intr: the acknowledgement, then the entries one by one; the *)
(* look at used->idx that ends the loop is part of the step before it.     *)
IntrAck ==
  /\ device.irq /\ ~ intr
  /\ device' = [device EXCEPT !.irq = FALSE]
  /\ intr' = (used_idx # used.idx)
  /\ UNCHANGED <<disk, data, owned, free, desc, ops, info, avail, used, used_idx, thread>>

(* A faulty loop body that clears b->disk and wakes up nobody.             *)
CompleteQuietly(k) ==
  /\ owned' = [owned EXCEPT ![k] = FALSE]
  /\ UNCHANGED thread

Complete(k) ==
  /\ owned' = [owned EXCEPT ![k] = FALSE]
  /\ thread' = WakeFor(thread, k, "rw_asleep", "rw_woken")

IntrPanics == ~ info[used.ring[used_idx % NUM]].ok

IntrEntry ==
  LET slot == used_idx % NUM IN
  /\ intr /\ ~ IntrPanics
  /\ Complete(info[used.ring[slot]].buf)
  /\ used' = [used EXCEPT !.ring[slot] = NoDesc]
  /\ used_idx' = (used_idx + 1) % IdxMod
  /\ intr' = (used_idx' # used.idx)
  /\ UNCHANGED <<disk, data, free, desc, ops, info, avail, device>>

VirtioDiskIntr == IntrAck \/ IntrEntry
Device == DeviceFetches \/ \E d \in Desc : DeviceFinishes(d)

VirtioTypeOK ==
  /\ disk \in [Block -> Val] /\ data \in [Buf -> Val]
  /\ owned \in [Buf -> BOOLEAN]
  /\ free \subseteq Desc
  /\ desc \in [Desc -> [next : Desc \union {NoDesc}, buf : Buf \union {NoBuf}]]
  /\ ops \in [Desc -> [write : BOOLEAN, block : Block \union {NoBlock}]]
  /\ info \in [Desc -> [buf : Buf \union {NoBuf}, ok : BOOLEAN]]
  /\ {avail, used} \subseteq [ring : [Desc -> Desc \union {NoDesc}], idx : 0..IdxMod - 1]
  /\ used_idx \in 0..IdxMod - 1
  /\ device \in [last : 0..IdxMod - 1, work : SUBSET Desc, irq : BOOLEAN]
  /\ intr \in BOOLEAN

=============================================================================
