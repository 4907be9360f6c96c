------------------------------ MODULE BcacheProofs -----------------------------
(***************************************************************************)
(* The buffer cache and the disk driver keep their books, lose no wakeup   *)
(* and implement BlockStore, for any number of processes, blocks, buffers  *)
(* and descriptors and any width of the ring indices.                      *)
(***************************************************************************)
EXTENDS Bcache, FiniteSetTheorems, SequenceTheorems, TLAPS

-----------------------------------------------------------------------------
(* The parts of the invariant                                              *)

AtDisk == {"rw", "rw_nodesc", "rw_asleep", "rw_woken"}
HasLock == AtDisk \union {"holding"}

(* A process works on a buffer unless it is idle, and on a request while it*)
(* waits for the disk.                                                     *)
ThreadOK(p) ==
  /\ thread[p].k = NoBuf <=> At(p, "idle")
  /\ thread[p].head # NoDesc <=> p \in InRequest
  /\ thread[p].write => thread[p].at \in AtDisk
  /\ thread[p].dirty => thread[p].at \in HasLock

ThreadInv == \A p \in Process : ThreadOK(p)

LockInv ==
  \A p \in Process, k \in Buf :
    buf[k].lock = p <=> thread[p].k = k /\ thread[p].at \in HasLock

(* A block has one buffer; who is referred to has a block.                 *)
CacheInv ==
  /\ \A j, k \in Buf : buf[j].block = buf[k].block /\ buf[j].block # NoBlock => j = k
  /\ \A k \in Buf : buf[k].refcnt = References(k)
  /\ \A k \in Buf : buf[k].valid \/ buf[k].refcnt # 0 => buf[k].block \in Block
  /\ \A k \in Buf : \E i \in Buf : lru[i] = k

(* Descriptors: each is free, or in the chain of one request.              *)
InDevice == Pending \union device.work
Second(d) == desc[d].next
Third(d) == desc[Second(d)].next

ChainInv ==
  /\ \A p \in InRequest :
       LET d == thread[p].head IN
       /\ {d, Second(d), Third(d)} \subseteq Desc \ free
       /\ d # Second(d) /\ d # Third(d) /\ Second(d) # Third(d)
  /\ \A p, q \in InRequest :
       p # q => Chain(thread[p].head) \intersect Chain(thread[q].head) = {}
  /\ \A d \in Desc \ free : \E p \in InRequest : d \in Chain(thread[p].head)

(* What driver, device and process know of a request.                      *)
RequestOK(p) ==
  LET d == thread[p].head
      k == thread[p].k IN
  /\ info[d].buf = k /\ desc[Second(d)].buf = k
  /\ ops[d].write = thread[p].write /\ ops[d].block = buf[k].block
  /\ owned[k] <=> d \in InDevice \union Reported
  /\ owned[k] <=> At(p, "rw_asleep")
  /\ info[d].ok <=> d \notin InDevice

RequestInv == \A p \in InRequest : RequestOK(p)

(* The entries of a ring are those from first up to idx, all different.    *)
RingOK(r, first) ==
  LET n == (r.idx - first) % IdxMod IN
  /\ n < NUM
  /\ \A s \in Desc : (r.ring[s] # NoDesc) = (\E i \in 0..n - 1 : s = (first + i) % NUM)
  /\ \A s, t \in Desc : r.ring[s] = r.ring[t] /\ r.ring[s] # NoDesc => s = t

DeviceInv ==
  /\ RingOK(avail, device.last) /\ RingOK(used, used_idx)
  /\ Pending \intersect device.work = {}
  /\ intr => used_idx # used.idx

PlacesInv ==
  /\ Reported \intersect InDevice = {}
  /\ InDevice \union Reported \subseteq {thread[p].head : p \in InRequest}
  /\ \A k \in Buf : owned[k] => \E p \in InRequest : thread[p].k = k

WaitInv ==
  \A p \in Process :
    /\ At(p, "rw_nodesc") => Cardinality(free) < 3
    /\ At(p, "lock_asleep") => buf[thread[p].k].lock # NoProcess

(* What is in a valid buffer and not on the disk is pinned, or on its way. *)
DataInv ==
  /\ \A k \in Buf : buf[k].valid /\ data[k] # disk[buf[k].block] =>
       k \in pinned \/ \E p \in Process : thread[p].k = k /\ thread[p].dirty
  /\ \A p \in InRequest : LET k == thread[p].k IN
       thread[p].head \notin InDevice => data[k] = disk[buf[k].block]
  /\ \A p \in Process : LET k == thread[p].k IN
       /\ thread[p].at \in AtDisk => (thread[p].write <=> buf[k].valid)
       /\ At(p, "holding") => buf[k].valid
       /\ thread[p].dirty => buf[k].valid
  /\ \A k \in pinned : buf[k].valid

IInv ==
  /\ TypeOK
  /\ ThreadInv
  /\ LockInv
  /\ CacheInv
  /\ ChainInv
  /\ RequestInv
  /\ DeviceInv
  /\ PlacesInv
  /\ WaitInv
  /\ DataInv

-----------------------------------------------------------------------------
(* Remainders                                                              *)

LEMMA SameRemainder ==
  ASSUME NEW b \in Nat \ {0}, NEW p \in Int, NEW q \in Int,
         NEW i \in 0..b - 1, NEW j \in 0..b - 1, b * p + i = b * q + j
  PROVE  i = j
<1>1. CASE p = q
  BY <1>1
<1>2. CASE p - q >= 1
  <2>1. b * (p - q) >= b
    BY <1>2
  <2> QED
    BY <2>1
<1>3. CASE q - p >= 1
  <2>1. b * (q - p) >= b
    BY <1>3
  <2> QED
    BY <2>1
<1> QED
  BY <1>1, <1>2, <1>3

LEMMA Division ==
  ASSUME NEW b \in Nat \ {0}, NEW x \in Nat
  PROVE  /\ x \div b \in Nat /\ x % b \in 0..b - 1
         /\ x = b * (x \div b) + (x % b)
OBVIOUS

LEMMA Remainders ==
  ASSUME NEW b \in Nat \ {0}
  PROVE  /\ \A x \in 0..b - 1 : x % b = x
         /\ \A x \in b..2 * b - 1 : x % b = x - b
         /\ \A x \in -b..-1 : x % b = x + b
         /\ \A x, n \in Nat : n % b = 0 => (x + n) % b = x % b
         /\ \A x, y \in Nat : x < y /\ y < x + b => x % b # y % b
<1>1. \A x \in 0..b - 1 : x % b = x
  OBVIOUS
<1>2. \A x \in b..2 * b - 1 : x % b = x - b
  OBVIOUS
<1>5. \A x \in -b..-1 : x % b = x + b
  OBVIOUS
<1>3. ASSUME NEW x \in Nat, NEW n \in Nat, n % b = 0
      PROVE  (x + n) % b = x % b
  <2>1. PICK k \in Nat : n = b * k + (n % b)
    BY Division, Zenon
  <2>2. PICK q \in Nat : x = b * q + (x % b)
    BY Division, Zenon
  <2>3. PICK p \in Nat : x + n = b * p + ((x + n) % b)
    <3>1. x + n \in Nat
      OBVIOUS
    <3> QED
      BY <3>1, Division, Zenon
  <2>4. x + n = b * (q + k) + (x % b)
    <3>1. b * (q + k) = b * q + b * k
      OBVIOUS
    <3>2. n = b * k
      BY <1>3, <2>1
    <3>3. x + n = (b * q + (x % b)) + b * k
      BY <2>2, <3>2
    <3> QED
      BY <3>1, <3>3
  <2>5. x % b \in 0..b - 1 /\ (x + n) % b \in 0..b - 1 /\ q + k \in Int /\ p \in Int
    <3>1. x + n \in Nat
      OBVIOUS
    <3> QED
      BY <3>1, Division
  <2>6. b * p + ((x + n) % b) = b * (q + k) + (x % b)
    BY <2>3, <2>4
  <2> QED
    BY <2>5, <2>6, SameRemainder, Zenon
<1>4. ASSUME NEW x \in Nat, NEW y \in Nat, x < y, y < x + b, x % b = y % b
      PROVE  FALSE
  <2>1. PICK q \in Nat : x = b * q + (x % b)
    BY Division, Zenon
  <2>2. PICK p \in Nat : y = b * p + (y % b)
    BY Division, Zenon
  <2>3. y - x = b * (p - q)
    BY <1>4, <2>1, <2>2, Division
  <2>4. /\ p - q <= 0 => b * (p - q) <= 0
        /\ p - q >= 1 => b * (p - q) >= b
    OBVIOUS
  <2> QED
    BY <1>4, <2>3, <2>4
<1> QED
  BY <1>1, <1>2, <1>3, <1>4, <1>5

USE VirtioAssumption, BcacheAssumption DEF Buf, NoBuf, Desc, NoDesc

-----------------------------------------------------------------------------
(* Rings                                                                   *)

Index == 0..IdxMod - 1
Ring == [ring : [Desc -> Desc \union {NoDesc}], idx : Index]
Length(r, first) == (r.idx - first) % IdxMod

LEMMA Sizes == NUM \in Nat \ {0} /\ IdxMod \in Nat \ {0} /\ IdxMod % NUM = 0 /\ IdxMod >= NUM
<1>1. NUM \in Nat \ {0}
  OBVIOUS
<1>2. \A x \in 0..NUM - 1 : x % NUM = x
  BY <1>1, Remainders, Zenon
<1> QED
  BY <1>2

LEMMA Wraps ==
  ASSUME NEW x \in Int, -IdxMod <= x, x < 2 * IdxMod
  PROVE  /\ x % IdxMod = IF x < 0 THEN x + IdxMod ELSE IF x < IdxMod THEN x ELSE x - IdxMod
         /\ x % IdxMod \in Index
<1>1. /\ \A y \in 0..IdxMod - 1 : y % IdxMod = y
      /\ \A y \in IdxMod..2 * IdxMod - 1 : y % IdxMod = y - IdxMod
      /\ \A y \in -IdxMod..-1 : y % IdxMod = y + IdxMod
  BY Remainders, Zenon
<1>2. x % IdxMod = IF x < 0 THEN x + IdxMod ELSE IF x < IdxMod THEN x ELSE x - IdxMod
  BY <1>1
<1> QED
  BY <1>2 DEF Index

(* Two counters k apart.                                                   *)
LEMMA Apart ==
  ASSUME NEW first \in Index, NEW k \in Nat, k < IdxMod
  PROVE  /\ (first + k) % IdxMod = IF first + k < IdxMod THEN first + k ELSE first + k - IdxMod
         /\ (first + k) % IdxMod \in Index
         /\ (((first + k) % IdxMod) - first) % IdxMod = k
<1>1. first \in Nat /\ first < IdxMod /\ IdxMod \in Nat
  BY DEF Index
<1>2. PICK x \in Int : x = first + k /\ -IdxMod <= x /\ x < 2 * IdxMod
  BY <1>1
<1>3. x % IdxMod \in Index /\ x % IdxMod = IF x < 0 THEN x + IdxMod ELSE IF x < IdxMod THEN x ELSE x - IdxMod
  BY <1>2, Wraps
<1>4. PICK m \in Index : m = x % IdxMod /\ m = IF x < IdxMod THEN x ELSE x - IdxMod
  BY <1>1, <1>2, <1>3
<1>5. PICK y \in Int : y = m - first /\ -IdxMod <= y /\ y < 2 * IdxMod
  <2>1. m \in Nat /\ m < IdxMod
    BY <1>4 DEF Index
  <2> QED
    BY <1>1, <2>1
<1>6. y % IdxMod = IF y < 0 THEN y + IdxMod ELSE IF y < IdxMod THEN y ELSE y - IdxMod
  BY <1>5, Wraps
<1>7. y % IdxMod = k
  BY <1>1, <1>2, <1>4, <1>5, <1>6
<1> QED
  BY <1>2, <1>4, <1>5, <1>7

(* The slots of counters k apart, whether or not the second has wrapped.   *)
LEMMA Slots ==
  ASSUME NEW first \in Index, NEW k \in Nat, k < IdxMod
  PROVE  /\ (first + k) % IdxMod \in Index
         /\ \A i \in Nat : (((first + k) % IdxMod) + i) % NUM = (first + (k + i)) % NUM
         /\ \A i, j \in Nat : i < j /\ j < i + NUM => (first + i) % NUM # (first + j) % NUM
         /\ \A i \in Nat : (first + i) % NUM \in Desc
<1>1. first \in Nat /\ first < IdxMod /\ IdxMod \in Nat /\ NUM \in Nat \ {0}
  BY DEF Index
<1>2. PICK m : m = (first + k) % IdxMod
  OBVIOUS
<1>3. m = IF first + k < IdxMod THEN first + k ELSE first + k - IdxMod
  BY <1>2, Apart
<1>4. m \in Index /\ m \in Nat
  BY <1>1, <1>3 DEF Index
<1>5. /\ \A x, n \in Nat : n % NUM = 0 => (x + n) % NUM = x % NUM
      /\ \A x, y \in Nat : x < y /\ y < x + NUM => x % NUM # y % NUM
  BY <1>1, Remainders, Zenon
<1>6. ASSUME NEW i \in Nat
      PROVE  (m + i) % NUM = (first + (k + i)) % NUM
  <2>1. CASE first + k < IdxMod
    BY <1>1, <1>3, <2>1
  <2>2. CASE first + k >= IdxMod
    <3>1. m + i \in Nat /\ (m + i) + IdxMod = first + (k + i)
      BY <1>1, <1>3, <1>4, <2>2
    <3>2. ((m + i) + IdxMod) % NUM = (m + i) % NUM
      BY <1>1, <1>5, <3>1
    <3> QED
      BY <3>1, <3>2
  <2> QED
    BY <1>1, <2>1, <2>2
<1>7. ASSUME NEW i \in Nat, NEW j \in Nat, i < j, j < i + NUM
      PROVE  (first + i) % NUM # (first + j) % NUM
  <2>1. first + i \in Nat /\ first + j \in Nat /\ first + i < first + j /\ first + j < (first + i) + NUM
    BY <1>1, <1>7
  <2> QED
    BY <1>5, <2>1
<1>8. ASSUME NEW i \in Nat
      PROVE  (first + i) % NUM \in Desc
  BY <1>1
<1> QED
  BY <1>2, <1>4, <1>6, <1>7, <1>8, Zenon

(* What a ring holds.                                                      *)
Entries(r) == {r.ring[s] : s \in Desc} \ {NoDesc}

(* Its n entries are in the slots from first on.                           *)
InWindow(s, first, n) == \E i \in 0..n - 1 : s = (first + i) % NUM
HoldsFrom(r, first, n) ==
  /\ n \in Nat /\ n < NUM /\ r.idx = (first + n) % IdxMod
  /\ \A s \in Desc : (r.ring[s] # NoDesc) = InWindow(s, first, n)
  /\ \A s, t \in Desc : r.ring[s] = r.ring[t] /\ r.ring[s] # NoDesc => s = t

LEMMA RingIs ==
  ASSUME NEW r \in Ring, NEW first \in Index, RingOK(r, first)
  PROVE  /\ HoldsFrom(r, first, Length(r, first))
         /\ (Length(r, first) = 0) = (r.idx = first)
<1>1. first \in Nat /\ first < IdxMod /\ r.idx \in Nat /\ r.idx < IdxMod /\ IdxMod \in Nat
  BY DEF Index, Ring
<1>2. PICK n : n = Length(r, first)
  OBVIOUS
<1>3. PICK x \in Int : x = r.idx - first /\ -IdxMod <= x /\ x < 2 * IdxMod
  BY <1>1
<1>4. n = IF x < 0 THEN x + IdxMod ELSE IF x < IdxMod THEN x ELSE x - IdxMod
  BY <1>2, <1>3, Wraps DEF Length
<1>5. n \in Nat /\ n < NUM /\ n < IdxMod
  BY <1>1, <1>2, <1>3, <1>4 DEF RingOK, Length
<1>6. (first + n) % IdxMod = IF first + n < IdxMod THEN first + n ELSE first + n - IdxMod
  BY <1>5, Apart
<1>7. r.idx = (first + n) % IdxMod /\ (n = 0) = (r.idx = first)
  <2>1. r.idx = IF first + n < IdxMod THEN first + n ELSE first + n - IdxMod
    BY <1>1, <1>3, <1>4
  <2>2. (n = 0) = (r.idx = first)
    BY <1>1, <1>3, <1>4
  <2> QED
    BY <1>6, <2>1, <2>2
<1>8. /\ \A s \in Desc : (r.ring[s] # NoDesc) = InWindow(s, first, n)
      /\ \A s, t \in Desc : r.ring[s] = r.ring[t] /\ r.ring[s] # NoDesc => s = t
  BY <1>2, Zenon DEF RingOK, Length, InWindow
<1>9. HoldsFrom(r, first, n)
  BY <1>5, <1>7, <1>8, Zenon DEF HoldsFrom
<1> QED
  BY <1>2, <1>7, <1>9, Zenon

LEMMA IsRing ==
  ASSUME NEW r, NEW first \in Index, NEW n, HoldsFrom(r, first, n)
  PROVE  RingOK(r, first)
<1>1. n \in Nat /\ n < NUM /\ n < IdxMod
  BY Sizes DEF HoldsFrom
<1>2. (((first + n) % IdxMod) - first) % IdxMod = n
  BY <1>1, Apart
<1>3. (r.idx - first) % IdxMod = n
  BY <1>2, Zenon DEF HoldsFrom
<1> QED
  BY <1>1, <1>3, Zenon DEF RingOK, HoldsFrom, InWindow

(* What is in a window.                                                    *)
LEMMA Window ==
  ASSUME NEW r \in Ring, NEW first \in Index, NEW n, HoldsFrom(r, first, n)
  PROVE  /\ \A i \in Nat : i < n => /\ (first + i) % NUM \in Desc
                                  /\ r.ring[(first + i) % NUM] \in Entries(r)
         /\ Entries(r) \subseteq Desc
<1>1. ASSUME NEW i \in Nat, i < n
      PROVE  (first + i) % NUM \in Desc /\ r.ring[(first + i) % NUM] \in Entries(r)
  <2>1. PICK s \in Desc : s = (first + i) % NUM
    BY DEF Index
  <2>2. n \in Nat /\ i \in 0..n - 1
    BY <1>1 DEF HoldsFrom
  <2>3. InWindow(s, first, n)
    BY <2>1, <2>2 DEF InWindow
  <2>4. r.ring[s] # NoDesc
    BY <2>3, Zenon DEF HoldsFrom
  <2> QED
    BY <2>1, <2>4 DEF Entries
<1>2. Entries(r) \subseteq Desc
  BY DEF Entries, Ring
<1> QED
  BY <1>1, <1>2

(* Two descriptors that are not in it leave room for one more.             *)
LEMMA Room ==
  ASSUME NEW r \in Ring, NEW first \in Index, RingOK(r, first),
         NEW x \in Desc, NEW y \in Desc, x # y, x \notin Entries(r), y \notin Entries(r)
  PROVE  Length(r, first) + 1 < NUM
<1>1. PICK n \in Nat : n = Length(r, first) /\ HoldsFrom(r, first, n)
  BY RingIs DEF HoldsFrom
<1>2. /\ n < NUM /\ \A i \in Nat : i < n => r.ring[(first + i) % NUM] \in Entries(r)
      /\ \A s, t \in Desc : r.ring[s] = r.ring[t] /\ r.ring[s] # NoDesc => s = t
      /\ Entries(r) \subseteq Desc
  BY <1>1, RingIs, Window DEF HoldsFrom
<1>3. PICK T : T = Desc \ {x, y}
  BY Zenon
<1>4. IsFiniteSet(T) /\ Cardinality(T) = NUM - 2
  <2>1. IsFiniteSet(0..NUM - 1) /\ Cardinality(0..NUM - 1) = NUM
    <3>1. 0 \in Int /\ NUM - 1 \in Int /\ ~ (0 > NUM - 1) /\ (NUM - 1) - 0 + 1 = NUM
      OBVIOUS
    <3> QED
      BY <3>1, FS_Interval, Zenon
  <2>2. PICK U : U = (0..NUM - 1) \ {x}
    BY Zenon
  <2>3. IsFiniteSet(U) /\ Cardinality(U) = NUM - 1
    <3>1. /\ IsFiniteSet(U) /\ x \in 0..NUM - 1
          /\ Cardinality(U) = IF x \in 0..NUM - 1 THEN Cardinality(0..NUM - 1) - 1
                             ELSE Cardinality(0..NUM - 1)
      BY <2>1, <2>2, FS_RemoveElement, Zenon DEF Desc
    <3> QED
      BY <2>1, <3>1
  <2>4. T = U \ {y} /\ y \in U
    BY <1>3, <2>2
  <2>5. IsFiniteSet(T) /\ Cardinality(T) = Cardinality(U) - 1
    BY <2>3, <2>4, FS_RemoveElement
  <2> QED
    BY <2>3, <2>5
<1>5. IsFiniteSet(1..n) /\ Cardinality(1..n) = n
  <2>1. 1 \in Int /\ n \in Int /\ (1 > n => n = 0) /\ n - 1 + 1 = n
    OBVIOUS
  <2>2. /\ IsFiniteSet(1..n)
        /\ Cardinality(1..n) = IF 1 > n THEN 0 ELSE n - 1 + 1
    BY <2>1, FS_Interval, Zenon
  <2> QED
    BY <2>1, <2>2
<1>6. PICK f : f = [i \in 1..n |-> r.ring[(first + (i - 1)) % NUM]]
  BY Zenon
<1>7. f \in [1..n -> T]
  <2>1. ASSUME NEW i \in 1..n
        PROVE  r.ring[(first + (i - 1)) % NUM] \in T
    <3>1. i - 1 \in Nat /\ i - 1 < n
      OBVIOUS
    <3> QED
      BY <1>2, <1>3, <3>1
  <2> QED
    BY <1>6, <2>1
<1>8. ASSUME NEW i \in 1..n, NEW j \in 1..n, i < j
      PROVE  f[i] # f[j]
  <2>1. PICK a \in Nat, b \in Nat : a = i - 1 /\ b = j - 1 /\ a < b /\ b < a + NUM /\ b < n /\ a < n
    BY <1>2, <1>8
  <2>2. PICK s \in Desc, t \in Desc : s = (first + a) % NUM /\ t = (first + b) % NUM
    BY DEF Index
  <2>3. s # t
    <3>1. 0 \in Nat /\ 0 < IdxMod
      OBVIOUS
    <3>2. \A k, l \in Nat : k < l /\ l < k + NUM => (first + k) % NUM # (first + l) % NUM
      BY <3>1, Slots, Zenon
    <3> QED
      BY <2>1, <2>2, <3>2
  <2>4. f[i] = r.ring[s] /\ f[j] = r.ring[t]
    BY <1>6, <2>1, <2>2
  <2>5. r.ring[s] \in Desc
    BY <1>2, <2>1, <2>2
  <2> QED
    BY <1>2, <2>3, <2>4, <2>5
<1>9. IsInjective(f)
  <2>1. \A i, j \in 1..n : i < j \/ j < i \/ i = j
    OBVIOUS
  <2>2. DOMAIN f = 1..n
    BY <1>6
  <2>3. \A i, j \in 1..n : f[i] = f[j] => i = j
    BY <1>8, <2>1, Zenon
  <2> QED
    BY <2>2, <2>3, Zenon DEF IsInjective
<1>10. f \in Injection(1..n, T)
  BY <1>7, <1>9, Zenon DEF Injection, IsInjective
<1>11. n <= NUM - 2
  <2>1. Cardinality(1..n) <= Cardinality(T)
    BY <1>4, <1>5, <1>10, FS_Injection, Zenon
  <2> QED
    BY <1>4, <1>5, <2>1
<1> QED
  BY <1>1, <1>11

Added(r, d) == [ring |-> [r.ring EXCEPT ![r.idx % NUM] = d], idx |-> (r.idx + 1) % IdxMod]
Taken(r, first) == [r EXCEPT !.ring[first % NUM] = NoDesc]

LEMMA RingAdd ==
  ASSUME NEW r \in Ring, NEW first \in Index, RingOK(r, first),
         NEW d \in Desc, d \notin Entries(r), Length(r, first) + 1 < NUM
  PROVE  /\ Added(r, d) \in Ring /\ RingOK(Added(r, d), first)
         /\ Entries(Added(r, d)) = Entries(r) \union {d}
<1>1. PICK n : n = Length(r, first) /\ HoldsFrom(r, first, n)
  BY RingIs
<1>2. /\ n \in Nat /\ n < NUM /\ r.idx = (first + n) % IdxMod
      /\ \A s \in Desc : (r.ring[s] # NoDesc) = InWindow(s, first, n)
      /\ \A s, t \in Desc : r.ring[s] = r.ring[t] /\ r.ring[s] # NoDesc => s = t
  BY <1>1, Zenon DEF HoldsFrom
<1>3. /\ first \in Nat /\ r.idx \in Nat /\ r.idx < IdxMod /\ NUM \in Nat \ {0} /\ IdxMod \in Nat
      /\ r.ring \in [Desc -> Desc \union {NoDesc}] /\ first < IdxMod
  BY DEF Index, Ring
<1>4. n + 1 \in Nat /\ n + 1 < NUM /\ n + 1 < IdxMod /\ n < IdxMod
  BY <1>1, <1>2, Sizes
<1>5. PICK s0 \in Desc : s0 = r.idx % NUM
  BY <1>3
<1>6. s0 = (first + n) % NUM
  <2>1. \A i \in Nat : (((first + n) % IdxMod) + i) % NUM = (first + (n + i)) % NUM
    BY <1>2, <1>4, Slots, Zenon
  <2>2. (r.idx + 0) % NUM = (first + (n + 0)) % NUM
    BY <1>2, <2>1
  <2> QED
    BY <1>2, <1>3, <1>5, <2>2
<1>7. ASSUME NEW s \in Desc, s # s0
      PROVE  InWindow(s, first, n + 1) = InWindow(s, first, n)
  <2>1. ASSUME InWindow(s, first, n + 1)
        PROVE  InWindow(s, first, n)
    <3>1. PICK i \in 0..(n + 1) - 1 : s = (first + i) % NUM
      BY <2>1 DEF InWindow
    <3>2. i # n
      BY <1>6, <1>7, <3>1
    <3>3. i \in 0..n - 1
      BY <1>2, <3>1, <3>2
    <3> QED
      BY <3>1, <3>3 DEF InWindow
  <2>2. ASSUME InWindow(s, first, n)
        PROVE  InWindow(s, first, n + 1)
    <3>1. PICK i \in 0..n - 1 : s = (first + i) % NUM
      BY <2>2 DEF InWindow
    <3>2. i \in 0..(n + 1) - 1
      BY <1>2, <3>1
    <3> QED
      BY <3>1, <3>2 DEF InWindow
  <2>3. InWindow(s, first, n) \in BOOLEAN /\ InWindow(s, first, n + 1) \in BOOLEAN
    BY DEF InWindow
  <2> QED
    BY <2>1, <2>2, <2>3, Zenon
<1>8. InWindow(s0, first, n + 1) = TRUE /\ InWindow(s0, first, n) = FALSE
  <2>1. n \in 0..(n + 1) - 1
    BY <1>2
  <2>2. InWindow(s0, first, n + 1)
    BY <1>6, <2>1, Zenon DEF InWindow
  <2>3. ASSUME NEW i \in 0..n - 1, s0 = (first + i) % NUM
        PROVE  FALSE
    <3>1. \A k, l \in Nat : k < l /\ l < k + NUM => (first + k) % NUM # (first + l) % NUM
      <4>1. 0 \in Nat /\ 0 < IdxMod
        OBVIOUS
      <4> QED
        BY <4>1, Slots, Zenon
    <3>2. i \in Nat /\ i < n /\ n < i + NUM
      BY <1>2, <1>3
    <3> QED
      BY <1>2, <1>6, <2>3, <3>1, <3>2
  <2>4. ~ InWindow(s0, first, n)
    BY <2>3 DEF InWindow
  <2> QED
    BY <2>2, <2>4, Zenon DEF InWindow
<1>9. PICK q : q = Added(r, d)
  OBVIOUS
<1>10. /\ q.ring[s0] = d /\ \A s \in Desc : s # s0 => q.ring[s] = r.ring[s]
       /\ q.ring \in [Desc -> Desc \union {NoDesc}] /\ q.idx = (r.idx + 1) % IdxMod
  BY <1>3, <1>5, <1>9 DEF Added
<1>11. q.idx = (first + (n + 1)) % IdxMod /\ q.idx \in Index
  <2>1. /\ r.idx = IF first + n < IdxMod THEN first + n ELSE first + n - IdxMod
        /\ (first + (n + 1)) % IdxMod =
             IF first + (n + 1) < IdxMod THEN first + (n + 1) ELSE first + (n + 1) - IdxMod
        /\ (first + (n + 1)) % IdxMod \in Index
    BY <1>2, <1>4, Apart
  <2>2. (r.idx + 1) % IdxMod = IF r.idx + 1 < IdxMod THEN r.idx + 1 ELSE r.idx + 1 - IdxMod
    <3>1. r.idx \in Index /\ 1 \in Nat /\ 1 < IdxMod
      BY <1>2, <1>4 DEF Ring
    <3> QED
      BY <3>1, Apart
  <2>3. (r.idx + 1) % IdxMod = (first + (n + 1)) % IdxMod
    <3>1. PICK a, b : a = (r.idx + 1) % IdxMod /\ b = (first + (n + 1)) % IdxMod
      OBVIOUS
    <3>2. a = b
      BY <1>2, <1>3, <1>4, <2>1, <2>2, <3>1
    <3> QED
      BY <3>1, <3>2
  <2> QED
    BY <1>10, <2>1, <2>3, Zenon
<1>12. q \in Ring
  BY <1>9, <1>10, <1>11 DEF Ring, Added
<1>13. r.ring[s0] = NoDesc
  BY <1>2, <1>8, Zenon
<1>14. d # NoDesc /\ \A s \in Desc : r.ring[s] # d
  BY <1>3 DEF Entries
<1>15. \A s \in Desc : (q.ring[s] # NoDesc) = InWindow(s, first, n + 1)
  <2>1. ASSUME NEW s \in Desc
        PROVE  (q.ring[s] # NoDesc) = InWindow(s, first, n + 1)
    <3>1. CASE s = s0
      BY <1>8, <1>10, <1>14, <3>1, Zenon
    <3>2. CASE s # s0
      BY <1>2, <1>7, <1>10, <3>2
    <3> QED
      BY <3>1, <3>2
  <2> QED
    BY <2>1
<1>16. \A s, t \in Desc : q.ring[s] = q.ring[t] /\ q.ring[s] # NoDesc => s = t
  <2>1. ASSUME NEW s \in Desc, NEW t \in Desc,
               q.ring[s] = q.ring[t], q.ring[s] # NoDesc
        PROVE  s = t
    <3>1. CASE s = s0 /\ t # s0
      BY <1>10, <1>14, <2>1, <3>1, Zenon
    <3>2. CASE s # s0 /\ t = s0
      BY <1>10, <1>14, <2>1, <3>2, Zenon
    <3>3. CASE s # s0 /\ t # s0
      <4>1. q.ring[s] = r.ring[s] /\ q.ring[t] = r.ring[t]
        BY <1>10, <3>3, Zenon
      <4>2. r.ring[s] = r.ring[t] /\ r.ring[s] # NoDesc
        BY <2>1, <4>1, Zenon
      <4> QED
        BY <1>2, <4>2, Zenon
    <3> QED
      BY <3>1, <3>2, <3>3, Zenon
  <2> QED
    BY <2>1, Zenon
<1>17. RingOK(q, first)
  <2>1. HoldsFrom(q, first, n + 1)
    BY <1>4, <1>11, <1>15, <1>16, Zenon DEF HoldsFrom
  <2> QED
    BY <2>1, IsRing
<1>18. Entries(q) = Entries(r) \union {d}
  <2>1. Entries(q) \subseteq Entries(r) \union {d}
    BY <1>10 DEF Entries
  <2>2. ASSUME NEW e \in Entries(r)
        PROVE  e \in Entries(q)
    <3>1. PICK s \in Desc : e = r.ring[s] /\ e # NoDesc
      BY DEF Entries
    <3>2. s # s0
      BY <1>13, <3>1
    <3> QED
      BY <1>10, <3>1, <3>2 DEF Entries
  <2>3. d \in Entries(q)
    BY <1>10, <1>14 DEF Entries
  <2> QED
    BY <2>1, <2>2, <2>3, Zenon
<1> QED
  BY <1>9, <1>12, <1>17, <1>18

LEMMA RingTake ==
  ASSUME NEW r \in Ring, NEW first \in Index, RingOK(r, first), first # r.idx
  PROVE  /\ first % NUM \in Desc /\ r.ring[first % NUM] \in Entries(r) /\ r.ring[first % NUM] \in Desc
         /\ (first + 1) % IdxMod \in Index
         /\ Taken(r, first) \in Ring /\ RingOK(Taken(r, first), (first + 1) % IdxMod)
         /\ Entries(Taken(r, first)) = Entries(r) \ {r.ring[first % NUM]}
<1>1. PICK n : n = Length(r, first) /\ HoldsFrom(r, first, n) /\ n # 0
  BY RingIs
<1>2. /\ n \in Nat /\ n < NUM /\ r.idx = (first + n) % IdxMod
      /\ \A s \in Desc : (r.ring[s] # NoDesc) = InWindow(s, first, n)
      /\ \A s, t \in Desc : r.ring[s] = r.ring[t] /\ r.ring[s] # NoDesc => s = t
  BY <1>1, Zenon DEF HoldsFrom
<1>3. /\ first \in Nat /\ r.idx \in Nat /\ r.idx < IdxMod /\ NUM \in Nat \ {0} /\ IdxMod \in Nat
      /\ r.ring \in [Desc -> Desc \union {NoDesc}] /\ first < IdxMod
  BY DEF Index, Ring
<1>4. PICK m \in Nat : m = n - 1 /\ n = m + 1 /\ m < NUM /\ n < IdxMod /\ m < IdxMod /\ 1 < IdxMod
  BY <1>1, <1>2, Sizes
<1>5. PICK s0 \in Desc : s0 = first % NUM
  BY <1>3
<1>6. r.ring[s0] \in Entries(r) /\ r.ring[s0] \in Desc
  <2>1. first + 0 = first /\ 0 < n /\ 0 \in Nat
    BY <1>1, <1>2, <1>3
  <2>2. r.ring[(first + 0) % NUM] \in Entries(r) /\ Entries(r) \subseteq Desc
    BY <1>1, <2>1, Window
  <2> QED
    BY <1>5, <2>1, <2>2
<1>7. PICK g : g = (first + 1) % IdxMod
  OBVIOUS
<1>8. g \in Index /\ g = IF first + 1 < IdxMod THEN first + 1 ELSE first + 1 - IdxMod
  BY <1>4, <1>7, Apart
<1>9. \A i \in Nat : (g + i) % NUM = (first + (1 + i)) % NUM
  BY <1>4, <1>7, Slots
<1>10. PICK q : q = Taken(r, first)
  OBVIOUS
<1>11. /\ q.ring[s0] = NoDesc /\ \A s \in Desc : s # s0 => q.ring[s] = r.ring[s]
       /\ q.ring \in [Desc -> Desc \union {NoDesc}] /\ q.idx = r.idx
  BY <1>3, <1>5, <1>10 DEF Taken, Ring
<1>12. q \in Ring
  BY <1>3, <1>5, <1>10, Zenon DEF Taken, Ring
<1>13. q.idx = (g + m) % IdxMod
  <2>1. r.idx = IF first + n < IdxMod THEN first + n ELSE first + n - IdxMod
    BY <1>2, <1>4, Apart
  <2>2. g \in Nat /\ g < IdxMod
    BY <1>8 DEF Index
  <2>3. (g + m) % IdxMod = IF g + m < IdxMod THEN g + m ELSE g + m - IdxMod
    <3>1. g \in Index /\ m \in Nat /\ m < IdxMod
      BY <1>4, <1>8, Zenon
    <3> QED
      BY <3>1, Apart, Zenon
  <2> QED
    BY <1>2, <1>3, <1>4, <1>8, <1>11, <2>1, <2>2, <2>3
<1>14. ASSUME NEW s \in Desc, s # s0
       PROVE  InWindow(s, g, m) <=> InWindow(s, first, n)
  <2>1. ASSUME InWindow(s, first, n)
        PROVE  InWindow(s, g, m)
    <3>1. PICK i \in 0..n - 1 : s = (first + i) % NUM
      BY <2>1 DEF InWindow
    <3>2. i # 0
      BY <1>3, <1>5, <1>14, <3>1
    <3>3. PICK j \in Nat : i = 1 + j /\ j \in 0..m - 1
      BY <1>4, <3>2
    <3>4. s = (g + j) % NUM
      BY <1>9, <3>1, <3>3
    <3> QED
      BY <3>3, <3>4 DEF InWindow
  <2>2. ASSUME InWindow(s, g, m)
        PROVE  InWindow(s, first, n)
    <3>1. PICK j \in 0..m - 1 : s = (g + j) % NUM
      BY <2>2 DEF InWindow
    <3>2. j \in Nat /\ 1 + j \in 0..n - 1
      BY <1>4
    <3>3. s = (first + (1 + j)) % NUM
      BY <1>9, <3>1, <3>2
    <3> QED
      BY <3>2, <3>3 DEF InWindow
  <2> QED
    BY <2>1, <2>2
<1>15. InWindow(s0, g, m) = FALSE
  <2>1. ASSUME NEW j \in 0..m - 1, s0 = (g + j) % NUM
        PROVE  FALSE
    <3>1. \A k, l \in Nat : k < l /\ l < k + NUM => (first + k) % NUM # (first + l) % NUM
      <4>1. 0 \in Nat /\ 0 < IdxMod
        OBVIOUS
      <4> QED
        BY <4>1, Slots, Zenon
    <3>2. PICK i \in Nat : i = 1 + j /\ 0 < i /\ i < 0 + NUM /\ 0 \in Nat /\ j \in Nat
      BY <1>2, <1>3, <1>4
    <3>3. (first + 0) % NUM # (first + i) % NUM
      BY <3>1, <3>2, Zenon
    <3>4. first + 0 = first
      BY <1>3
    <3>5. (first + i) % NUM = s0
      BY <1>9, <2>1, <3>2
    <3> QED
      BY <1>5, <3>3, <3>4, <3>5
  <2>2. ~ InWindow(s0, g, m)
    BY <2>1 DEF InWindow
  <2> QED
    BY <2>2, Zenon DEF InWindow
<1>16. \A s \in Desc : (q.ring[s] # NoDesc) = InWindow(s, g, m)
  <2>1. ASSUME NEW s \in Desc
        PROVE  (q.ring[s] # NoDesc) = InWindow(s, g, m)
    <3>1. CASE s = s0
      BY <1>11, <1>15, <3>1, Zenon
    <3>2. CASE s # s0
      <4>1. (q.ring[s] # NoDesc) = InWindow(s, first, n)
        BY <1>2, <1>11, <3>2
      <4>2. InWindow(s, g, m) <=> InWindow(s, first, n)
        BY <1>14, <3>2, Zenon
      <4>3. InWindow(s, first, n) \in BOOLEAN /\ InWindow(s, g, m) \in BOOLEAN
        BY DEF InWindow
      <4> QED
        BY <4>1, <4>2, <4>3, Zenon
    <3> QED
      BY <3>1, <3>2
  <2> QED
    BY <2>1
<1>17. \A s, t \in Desc : q.ring[s] = q.ring[t] /\ q.ring[s] # NoDesc => s = t
  <2>1. ASSUME NEW s \in Desc, NEW t \in Desc,
               q.ring[s] = q.ring[t], q.ring[s] # NoDesc
        PROVE  s = t
    <3>1. s # s0 /\ t # s0
      BY <1>11, <2>1, Zenon
    <3>2. q.ring[s] = r.ring[s] /\ q.ring[t] = r.ring[t]
      BY <1>11, <3>1, Zenon
    <3>3. r.ring[s] = r.ring[t] /\ r.ring[s] # NoDesc
      BY <2>1, <3>2, Zenon
    <3> QED
      BY <1>2, <3>3, Zenon
  <2> QED
    BY <2>1, Zenon
<1>18. RingOK(q, g)
  <2>1. HoldsFrom(q, g, m)
    BY <1>4, <1>13, <1>16, <1>17, Zenon DEF HoldsFrom
  <2> QED
    BY <1>8, <2>1, IsRing
<1>19. Entries(q) = Entries(r) \ {r.ring[s0]}
  <2>1. ASSUME NEW e \in Entries(q)
        PROVE  e \in Entries(r) /\ e # r.ring[s0]
    <3>1. PICK s \in Desc : e = q.ring[s] /\ e # NoDesc
      BY DEF Entries
    <3>2. s # s0 /\ e = r.ring[s]
      BY <1>11, <3>1
    <3> QED
      BY <1>2, <3>1, <3>2 DEF Entries
  <2>2. ASSUME NEW e \in Entries(r), e # r.ring[s0]
        PROVE  e \in Entries(q)
    <3>1. PICK s \in Desc : e = r.ring[s] /\ e # NoDesc
      BY DEF Entries
    <3>2. s # s0
      BY <2>2, <3>1
    <3> QED
      BY <1>11, <3>1, <3>2 DEF Entries
  <2> QED
    BY <2>1, <2>2
<1> QED
  BY <1>5, <1>6, <1>7, <1>8, <1>10, <1>12, <1>18, <1>19


-----------------------------------------------------------------------------
(* The least and the greatest of a set                                     *)

LEMMA LeastIn ==
  ASSUME NEW S \in SUBSET Nat, S # {}
  PROVE  \E n \in S : \A m \in S : n <= m
<1> DEFINE Less == {ss \in Nat \X Nat : ss[1] < ss[2]}
<1>0. IsWellFoundedOn(Less, Nat)
  BY NatLessThanWellFounded, Zenon DEF OpToRel
<1>1. PICK n \in S : \A m \in S : ~ (<<m, n>> \in Less)
  <2> HIDE DEF Less
  <2> QED
    BY <1>0, WFMin, Zenon
<1>2. ASSUME NEW m \in S
      PROVE  n <= m
  <2>1. m \in Nat /\ n \in Nat /\ <<m, n>> \in Nat \X Nat /\ <<m, n>>[1] = m /\ <<m, n>>[2] = n
    OBVIOUS
  <2>2. ~ (m < n)
    BY <1>1, <2>1, Zenon
  <2> QED
    BY <2>1, <2>2
<1> QED
  BY <1>1, <1>2, Zenon

LEMMA GreatestIn ==
  ASSUME NEW N \in Nat, NEW S \in SUBSET (1..N), S # {}
  PROVE  Max(S) \in S
<1>1. PICK T : T = {N - i : i \in S}
  BY Zenon
<1>6. T \in SUBSET Nat
  <2>1. \A i \in S : N - i \in Nat
    OBVIOUS
  <2> QED
    BY <1>1, <2>1
<1>2. T # {}
  BY <1>1, Zenon
<1>3. PICK n \in T : \A m \in T : n <= m
  BY <1>2, <1>6, LeastIn
<1>4. PICK i \in S : n = N - i
  BY <1>1, <1>3
<1>5. ASSUME NEW j \in S
      PROVE  i >= j
  <2>1. N - j \in T /\ i \in 1..N /\ j \in 1..N
    BY <1>1
  <2>2. N - i <= N - j
    BY <1>3, <1>4, <2>1
  <2> QED
    BY <2>1, <2>2
<1> QED
  BY <1>4, <1>5, Zenon DEF Max

(* alloc3_desc finds three descriptors.                                    *)
LEMMA ThreeFree ==
  ASSUME free \subseteq Desc, Cardinality(free) >= 3
  PROVE  /\ {Lowest(1), Lowest(2), Lowest(3)} \subseteq free
         /\ Lowest(1) # Lowest(2) /\ Lowest(1) # Lowest(3) /\ Lowest(2) # Lowest(3)
<1>1. IsFiniteSet(free) /\ Cardinality(free) \in Nat
  <2>1. IsFiniteSet(Desc)
    BY FS_Interval
  <2> QED
    BY <2>1, FS_Subset, FS_CardinalityType, Zenon
<1> DEFINE Below(d) == {e \in free : e < d}
<1>2. PICK d0 \in free : \A e \in free : d0 <= e
  <2>1. free # {} /\ free \in SUBSET Nat
    BY <1>1, FS_EmptySet
  <2> QED
    BY <2>1, LeastIn
<1>3. PICK F \in SUBSET free : F = free \ {d0}
  BY Zenon
<1>4. IsFiniteSet(F) /\ Cardinality(F) = Cardinality(free) - 1
  BY <1>1, <1>3, FS_RemoveElement
<1>5. PICK d1 \in F : \A e \in F : d1 <= e
  <2>1. F # {} /\ F \in SUBSET Nat
    BY <1>1, <1>4, FS_EmptySet
  <2> QED
    BY <2>1, LeastIn
<1>6. PICK G \in SUBSET F : G = F \ {d1}
  BY Zenon
<1>7. IsFiniteSet(G) /\ Cardinality(G) = Cardinality(F) - 1
  BY <1>4, <1>6, FS_RemoveElement
<1>8. PICK d2 \in G : \A e \in G : d2 <= e
  <2>1. G # {} /\ G \in SUBSET Nat
    BY <1>1, <1>4, <1>7, FS_EmptySet
  <2> QED
    BY <2>1, LeastIn
<1>9. d0 \in Nat /\ d1 \in Nat /\ d2 \in Nat /\ d0 < d1 /\ d1 < d2 /\ {d0, d1, d2} \subseteq free
  BY <1>2, <1>3, <1>5, <1>6, <1>8
<1>10. Below(d0) = {} /\ Below(d1) = {d0} /\ Below(d2) = {d0, d1}
  <2>1. ASSUME NEW e \in free
        PROVE  e \in Nat /\ (e = d0 \/ e = d1 \/ e = d2 \/ d2 < e)
    BY <1>3, <1>6, <1>8
  <2>2. ASSUME NEW e \in free
        PROVE  /\ ~ (e < d0)
               /\ e < d1 <=> e = d0
               /\ e < d2 <=> e = d0 \/ e = d1
    <3>1. e \in Nat /\ d0 \in Nat /\ d1 \in Nat /\ d2 \in Nat /\ d0 < d1 /\ d1 < d2 /\ d0 <= e
      BY <1>2, <1>9, <2>1
    <3>2. e = d0 \/ e = d1 \/ e = d2 \/ d2 < e
      BY <2>1
    <3> QED
      BY <3>1, <3>2
  <2>3. Below(d0) = {}
    BY <2>2, Zenon
  <2>4. Below(d1) = {d0}
    BY <1>9, <2>2, Zenon
  <2>5. Below(d2) = {d0, d1}
    BY <1>9, <2>2, Zenon
  <2> QED
    BY <2>3, <2>4, <2>5
<1>11. Cardinality({}) = 0 /\ Cardinality({d0}) = 1 /\ Cardinality({d0, d1}) = 2
  <2>1. Cardinality({}) = 0 /\ Cardinality({d0}) = 1 /\ IsFiniteSet({d0})
    BY FS_EmptySet, FS_Singleton, Zenon
  <2>4. d1 \notin {d0}
    BY <1>9
  <2>5. Cardinality({d0} \union {d1}) = Cardinality({d0}) + 1
    BY <2>1, <2>4, FS_AddElement, Zenon
  <2>2. Cardinality({d0} \union {d1}) = 2
    <3>1. PICK n \in Nat : n = Cardinality({d0}) /\ n + 1 = 2
      BY <2>1
    <3> QED
      BY <2>5, <3>1, Zenon
  <2>3. {d0, d1} = {d0} \union {d1}
    OBVIOUS
  <2> QED
    BY <2>1, <2>2, <2>3
<1>12. /\ Lowest(1) \in free /\ Cardinality(Below(Lowest(1))) = 1 - 1
       /\ Lowest(2) \in free /\ Cardinality(Below(Lowest(2))) = 2 - 1
       /\ Lowest(3) \in free /\ Cardinality(Below(Lowest(3))) = 3 - 1
  <2>2. /\ Cardinality(Below(d0)) = 0
        /\ Cardinality(Below(d1)) = 1
        /\ Cardinality(Below(d2)) = 2
    BY <1>10, <1>11, Zenon
  <2>1. /\ Cardinality(Below(d0)) = 1 - 1
        /\ Cardinality(Below(d1)) = 2 - 1
        /\ Cardinality(Below(d2)) = 3 - 1
    <3> HIDE DEF Below
    <3> QED
      BY <2>2
  <2> QED
    BY <1>9, <2>1, Zenon DEF Lowest
<1>13. \A c, d : c = d => Cardinality(Below(c)) = Cardinality(Below(d))
  BY Zenon
<1> HIDE DEF Below
<1> QED
  BY <1>12, <1>13

-----------------------------------------------------------------------------
(* References and the list                                                 *)

UsersIn(t, k) == {q \in Process : t[q].k = k}
Is(x, k) == IF x = k THEN 1 ELSE 0
IsIn(k, S) == IF k \in S THEN 1 ELSE 0

LEMMA Users ==
  ASSUME NEW t, NEW u, NEW p \in Process, \A q \in Process \ {p} : u[q].k = t[q].k, NEW k
  PROVE  /\ Cardinality(UsersIn(t, k)) \in Nat /\ Cardinality(UsersIn(u, k)) \in Nat
         /\ Cardinality(UsersIn(u, k)) + Is(t[p].k, k) = Cardinality(UsersIn(t, k)) + Is(u[p].k, k)
         /\ Cardinality(UsersIn(t, k)) <= Cardinality(Process) /\ Cardinality(Process) \in Nat
         /\ t[p].k = k => Cardinality(UsersIn(t, k)) >= 1
<1>1. PICK O : O = {q \in Process \ {p} : t[q].k = k}
  BY Zenon
<1>2. IsFiniteSet(O) /\ Cardinality(O) \in Nat /\ p \notin O
  BY <1>1, FS_Subset, FS_CardinalityType
<1>3. IsFiniteSet(O \union {p}) /\ Cardinality(O \union {p}) = Cardinality(O) + 1
  BY <1>2, FS_AddElement
<1>4. /\ t[p].k = k => UsersIn(t, k) = O \union {p}
      /\ t[p].k # k => UsersIn(t, k) = O
      /\ u[p].k = k => UsersIn(u, k) = O \union {p}
      /\ u[p].k # k => UsersIn(u, k) = O
  BY <1>1 DEF UsersIn
<1>5. Cardinality(UsersIn(t, k)) <= Cardinality(Process) /\ Cardinality(Process) \in Nat
  BY FS_Subset, FS_CardinalityType DEF UsersIn
<1>6. Cardinality(UsersIn(t, k)) = Cardinality(O) + Is(t[p].k, k)
  <2>1. CASE t[p].k = k
    <3>1. UsersIn(t, k) = O \union {p} /\ Is(t[p].k, k) = 1
      BY <1>4, <2>1, Zenon DEF Is
    <3> QED
      BY <1>3, <3>1
  <2>2. CASE t[p].k # k
    <3>1. UsersIn(t, k) = O /\ Is(t[p].k, k) = 0
      BY <1>4, <2>2, Zenon DEF Is
    <3> QED
      BY <1>2, <3>1
  <2> QED
    BY <2>1, <2>2
<1>7. Cardinality(UsersIn(u, k)) = Cardinality(O) + Is(u[p].k, k)
  <2>1. CASE u[p].k = k
    <3>1. UsersIn(u, k) = O \union {p} /\ Is(u[p].k, k) = 1
      BY <1>4, <2>1, Zenon DEF Is
    <3> QED
      BY <1>3, <3>1
  <2>2. CASE u[p].k # k
    <3>1. UsersIn(u, k) = O /\ Is(u[p].k, k) = 0
      BY <1>4, <2>2, Zenon DEF Is
    <3> QED
      BY <1>2, <3>1
  <2> QED
    BY <2>1, <2>2
<1> QED
  BY <1>2, <1>5, <1>6, <1>7 DEF Is

LEMMA NoUsers ==
  ASSUME NEW t, NEW k, Cardinality(UsersIn(t, k)) = 0
  PROVE  \A q \in Process : t[q].k # k
<1>1. IsFiniteSet(UsersIn(t, k))
  BY FS_Subset DEF UsersIn
<1>2. UsersIn(t, k) = {}
  BY <1>1, FS_EmptySet
<1> QED
  BY <1>2 DEF UsersIn

Listed(l) == l \in [Buf -> Buf] /\ IsInjective(l) /\ \A k \in Buf : \E i \in Buf : l[i] = k

LEMMA Moved ==
  ASSUME Listed(lru), NEW k \in Buf
  PROVE  Listed(MovedToFront(k))
<1>1. PICK i \in Buf : i = CHOOSE j \in Buf : lru[j] = k
  BY Zenon DEF Listed
<1>2. lru[i] = k
  BY <1>1, Zenon DEF Listed
<1>3. PICK f : f = [j \in Buf |-> IF j = 1 THEN i ELSE IF j <= i THEN j - 1 ELSE j]
  BY Zenon
<1>4. /\ f \in [Buf -> Buf]
      /\ \A a, b \in Buf : f[a] = f[b] => a = b
      /\ \A c \in Buf : \E a \in Buf : f[a] = c
  <2>1. f \in [Buf -> Buf]
    BY <1>3
  <2>2. \A a, b \in Buf : f[a] = f[b] => a = b
    BY <1>3
  <2>3. ASSUME NEW c \in Buf
        PROVE  \E a \in Buf : f[a] = c
    <3>1. CASE c = i
      <4>1. 1 \in Buf /\ f[1] = i
        BY <1>3
      <4> QED
        BY <3>1, <4>1
    <3>2. CASE c < i
      <4>1. c + 1 \in Buf /\ c + 1 # 1 /\ c + 1 <= i /\ (c + 1) - 1 = c
        BY <3>2
      <4>2. f[c + 1] = c
        BY <1>3, <4>1
      <4> QED
        BY <4>1, <4>2
    <3>3. CASE c > i
      <4>1. f[c] = c
        BY <1>3, <3>3
      <4> QED
        BY <4>1
    <3> QED
      BY <3>1, <3>2, <3>3
  <2> QED
    BY <2>1, <2>2, <2>3, Zenon
<1>5. PICK m : m = MovedToFront(k)
  OBVIOUS
<1>6. m = [j \in Buf |-> IF j = 1 THEN k ELSE IF j <= i THEN lru[j - 1] ELSE lru[j]]
  BY <1>1, <1>5, Zenon DEF MovedToFront
<1>7. \A j \in Buf : m[j] = lru[f[j]]
  BY <1>2, <1>3, <1>6
<1>8. m \in [Buf -> Buf]
  <2>1. DOMAIN m = Buf /\ m = [j \in Buf |-> m[j]]
    BY <1>6
  <2>2. ASSUME NEW j \in Buf
        PROVE  m[j] \in Buf
    <3>1. f[j] \in Buf
      BY <1>4, Zenon
    <3>2. lru[f[j]] \in Buf
      BY <3>1, Zenon DEF Listed
    <3> QED
      BY <1>7, <3>2
  <2> QED
    BY <2>1, <2>2
<1>9. IsInjective(m)
  <2>1. \A a, b \in Buf : lru[a] = lru[b] => a = b
    BY DEF Listed, IsInjective
  <2>2. ASSUME NEW a \in Buf, NEW b \in Buf, m[a] = m[b]
        PROVE  a = b
    <3>1. f[a] \in Buf /\ f[b] \in Buf
      BY <1>4, Zenon
    <3>2. lru[f[a]] = lru[f[b]]
      BY <1>7, <2>2
    <3>3. f[a] = f[b]
      BY <2>1, <3>1, <3>2
    <3> QED
      BY <1>4, <3>3
  <2> QED
    BY <1>8, <2>2 DEF IsInjective
<1>10. \A c \in Buf : \E a \in Buf : m[a] = c
  <2>1. ASSUME NEW c \in Buf
        PROVE  \E a \in Buf : m[a] = c
    <3>1. PICK j \in Buf : lru[j] = c
      BY DEF Listed
    <3>2. PICK a \in Buf : f[a] = j
      BY <1>4
    <3> QED
      BY <1>7, <3>1, <3>2
  <2> QED
    BY <2>1
<1> QED
  BY <1>5, <1>8, <1>9, <1>10, Zenon DEF Listed

LEMMA Recycled ==
  ASSUME Listed(lru), Unused # {}
  PROVE  LeastRecentUnused \in Unused
<1>1. PICK S : S = {i \in Buf : lru[i] \in Unused}
  BY Zenon
<1>4. PICK k \in Buf : k \in Unused
  BY DEF Unused
<1>5. PICK i \in Buf : lru[i] = k
  BY DEF Listed
<1>2. S \in SUBSET (1..NBUF) /\ S # {} /\ NBUF \in Nat
  BY <1>1, <1>4, <1>5
<1>3. Max(S) \in S
  BY <1>2, GreatestIn, Zenon
<1> QED
  BY <1>1, <1>3 DEF LeastRecentUnused

-----------------------------------------------------------------------------
(* What a step leaves alone                                                *)

Thread == [at : Location, k : Buf \union {NoBuf}, write : BOOLEAN,
           head : Desc \union {NoDesc}, dirty : BOOLEAN]
Buffer == [block : Block \union {NoBlock}, valid : BOOLEAN,
           refcnt : 0..Cardinality(Process) + 1, lock : Process \union {NoProcess}]

(* A process does not change, or is woken up.                              *)
Keeps(q) ==
  /\ thread'[q].k = thread[q].k /\ thread'[q].write = thread[q].write
  /\ thread'[q].head = thread[q].head /\ thread'[q].dirty = thread[q].dirty
  /\ thread'[q].at \in AtDisk <=> thread[q].at \in AtDisk
  /\ thread'[q].at \in HasLock <=> thread[q].at \in HasLock
  /\ thread'[q].at = "idle" <=> thread[q].at = "idle"
  /\ thread'[q].at = "holding" <=> thread[q].at = "holding"
  /\ thread'[q].at = "rw_asleep" <=> thread[q].at = "rw_asleep"
  /\ thread'[q].at = "lock_asleep" => thread[q].at = "lock_asleep"
  /\ thread'[q].at = "rw_nodesc" => thread[q].at = "rw_nodesc"
  /\ q \in InRequest' <=> q \in InRequest

LEMMA Kept ==
  ASSUME thread \in [Process -> Thread], NEW q \in Process,
         \/ thread'[q] = thread[q]
         \/ thread[q].at = "lock_asleep" /\ thread'[q] = [thread[q] EXCEPT !.at = "lock"]
         \/ thread[q].at = "rw_nodesc" /\ thread'[q] = [thread[q] EXCEPT !.at = "rw"]
  PROVE  Keeps(q)
<1>1. thread[q] \in Thread
  OBVIOUS
<1>2. CASE thread'[q] = thread[q]
  BY <1>2 DEF Keeps, InRequest
<1>3. CASE thread[q].at = "lock_asleep" /\ thread'[q] = [thread[q] EXCEPT !.at = "lock"]
  BY <1>1, <1>3 DEF Keeps, Thread, AtDisk, HasLock, InRequest
<1>4. CASE thread[q].at = "rw_nodesc" /\ thread'[q] = [thread[q] EXCEPT !.at = "rw"]
  BY <1>1, <1>4 DEF Keeps, Thread, AtDisk, HasLock, InRequest
<1> QED
  BY <1>2, <1>3, <1>4

LEMMA Threads ==
  ASSUME ThreadInv, NEW p \in Process, \A q \in Process \ {p} : Keeps(q), ThreadOK(p)'
  PROVE  ThreadInv'
<1>1. ASSUME NEW q \in Process, Keeps(q)
      PROVE  ThreadOK(q)'
  BY <1>1 DEF ThreadInv, ThreadOK, At, Keeps
<1> QED
  BY <1>1 DEF ThreadInv

LEMMA References2 ==
  ASSUME NEW p \in Process, \A q \in Process \ {p} : Keeps(q), NEW k
  PROVE  /\ References(k) \in 0..Cardinality(Process) + 1
         /\ References(k)' \in 0..Cardinality(Process) + 1
         /\ References(k)' + Is(thread[p].k, k) + IsIn(k, pinned) =
            References(k) + Is(thread'[p].k, k) + IsIn(k, pinned')
         /\ thread[p].k = k => References(k) >= 1
<1>1. \A q \in Process \ {p} : thread'[q].k = thread[q].k
  BY DEF Keeps
<1>0. PICK t, u : t = thread /\ u = thread'
  OBVIOUS
<1>2. PICK a, b, c : /\ a = Cardinality(UsersIn(t, k)) /\ b = Cardinality(UsersIn(u, k))
                     /\ c = Cardinality(Process)
  OBVIOUS
<1>3. /\ a \in Nat /\ b \in Nat /\ a <= c /\ c \in Nat
      /\ b + Is(t[p].k, k) = a + Is(u[p].k, k)
      /\ t[p].k = k => a >= 1
  <2>1. \A q \in Process \ {p} : u[q].k = t[q].k
    BY <1>0, <1>1
  <2>2. a \in Nat /\ b \in Nat /\ a <= c /\ c \in Nat
    BY <1>2, <2>1, Users, Zenon
  <2>3. b + Is(t[p].k, k) = a + Is(u[p].k, k)
    BY <1>2, <2>1, Users
  <2>4. t[p].k = k => a >= 1
    BY <1>2, <2>1, Users, Zenon
  <2> QED
    BY <2>2, <2>3, <2>4
<1>4. b <= c
  <2>1. \A q \in Process \ {p} : t[q].k = u[q].k
    BY <1>0, <1>1
  <2> QED
    BY <1>2, <2>1, Users, Zenon
<1>5. References(k) = a + IsIn(k, pinned) /\ References(k)' = b + IsIn(k, pinned')
  BY <1>0, <1>2, Zenon DEF References, UsersIn, IsIn
<1>7. /\ IsIn(k, pinned) \in {0, 1} /\ IsIn(k, pinned') \in {0, 1}
      /\ Is(thread[p].k, k) \in {0, 1} /\ Is(thread'[p].k, k) \in {0, 1}
  BY DEF Is, IsIn
<1>8. PICK x, y, z, w : /\ x = IsIn(k, pinned) /\ y = IsIn(k, pinned')
                        /\ z = Is(thread[p].k, k) /\ w = Is(thread'[p].k, k)
                        /\ {x, y, z, w} \subseteq {0, 1}
  BY <1>7
<1>9. /\ a + x \in 0..c + 1 /\ b + y \in 0..c + 1
      /\ b + z = a + w => (b + y) + z + x = (a + x) + w + y
      /\ a >= 1 => a + x >= 1
  BY <1>3, <1>4, <1>8
<1> QED
  BY <1>0, <1>2, <1>3, <1>5, <1>8, <1>9

(* The books of the requests stay when none moves.                         *)
SameRequests ==
  /\ free' = free /\ desc' = desc /\ ops' = ops /\ info' = info /\ owned' = owned
  /\ InDevice' = InDevice /\ Reported' = Reported /\ InRequest' = InRequest
  /\ \A q \in InRequest :
       /\ thread'[q].head = thread[q].head /\ thread'[q].k = thread[q].k
       /\ thread'[q].write = thread[q].write /\ thread'[q].at = thread[q].at
       /\ buf'[thread[q].k].block = buf[thread[q].k].block

LEMMA ChainsKept ==
  ASSUME ChainInv, free' = free, desc' = desc, InRequest' = InRequest,
         \A q \in InRequest : thread'[q].head = thread[q].head
  PROVE  ChainInv'
<1>1. \A q \in InRequest : LET d == thread'[q].head IN
           /\ {d, Second(d), Third(d)} \subseteq Desc \ free
           /\ d # Second(d) /\ d # Third(d) /\ Second(d) # Third(d)
  BY DEF ChainInv
<1>2. \A q, r \in InRequest :
        q # r => Chain(thread'[q].head) \intersect Chain(thread'[r].head) = {}
  BY Zenon DEF ChainInv
<1>3. \A d \in Desc \ free : \E q \in InRequest : d \in Chain(thread'[q].head)
  BY DEF ChainInv
<1>4. \A q \in InRequest' : LET d == thread'[q].head IN
           /\ {d, desc'[d].next, desc'[desc'[d].next].next} \subseteq Desc \ free'
           /\ d # desc'[d].next /\ d # desc'[desc'[d].next].next
           /\ desc'[d].next # desc'[desc'[d].next].next
  BY <1>1 DEF Second, Third
<1>5. \A q, r \in InRequest' : q # r =>
        {thread'[q].head, desc'[thread'[q].head].next, desc'[desc'[thread'[q].head].next].next}
        \intersect
        {thread'[r].head, desc'[thread'[r].head].next, desc'[desc'[thread'[r].head].next].next} = {}
  BY <1>2 DEF Chain, Second, Third
<1>6. \A d \in Desc \ free' : \E q \in InRequest' :
        d \in {thread'[q].head, desc'[thread'[q].head].next, desc'[desc'[thread'[q].head].next].next}
  BY <1>3 DEF Chain, Second, Third
<1> QED
  BY <1>4, <1>5, <1>6, Zenon DEF ChainInv, Chain, Second, Third

LEMMA Frame ==
  ASSUME SameRequests, ChainInv, RequestInv, PlacesInv
  PROVE  ChainInv' /\ RequestInv' /\ PlacesInv'
<1>1. /\ free' = free /\ desc' = desc /\ ops' = ops /\ info' = info /\ owned' = owned
      /\ InDevice' = InDevice /\ Reported' = Reported /\ InRequest' = InRequest
  BY DEF SameRequests
<1>3. \A d : Chain(d)' = Chain(d) /\ Second(d)' = Second(d) /\ Third(d)' = Third(d)
  BY <1>1 DEF Chain, Second, Third
<1>4. \A q \in InRequest : thread'[q].head = thread[q].head
  BY DEF SameRequests
<1>5. ChainInv'
  BY <1>1, <1>4, ChainsKept, Zenon
<1>6. ASSUME NEW q \in InRequest
      PROVE  RequestOK(q)'
  <2>1. /\ RequestOK(q)
        /\ thread'[q].head = thread[q].head /\ thread'[q].k = thread[q].k
        /\ thread'[q].write = thread[q].write /\ thread'[q].at = thread[q].at
        /\ buf'[thread[q].k].block = buf[thread[q].k].block
    BY DEF SameRequests, RequestInv
  <2> QED
    BY <1>1, <1>3, <2>1 DEF RequestOK, At
<1>7. RequestInv'
  BY <1>1, <1>6 DEF RequestInv
<1>8. {thread'[q].head : q \in InRequest'} = {thread[q].head : q \in InRequest}
  BY <1>1, <1>4
<1>10. \A k \in Buf : owned'[k] => \E q \in InRequest' : thread'[q].k = k
  BY <1>1 DEF PlacesInv, SameRequests
<1>11. PlacesInv'
  BY <1>1, <1>8, <1>10 DEF PlacesInv
<1> QED
  BY <1>5, <1>7, <1>11

(* A step of a process that has nothing to do with the driver.             *)
Quiet(p) ==
  /\ driver' = driver /\ owned' = owned /\ disk' = disk /\ data' \in [Buf -> Val]
  /\ thread' \in [Process -> Thread] /\ buf' \in [Buf -> Buffer]
  /\ Listed(lru') /\ pinned' \subseteq Buf
  /\ \A q \in Process \ {p} : Keeps(q)
  /\ ThreadOK(p)' /\ p \notin InRequest /\ p \notin InRequest'
  /\ \A k \in Buf : buf'[k].block = buf[k].block \/ buf[k].refcnt = 0

(* Its references are counted.                                             *)
Counts(p) ==
  \A k \in Buf :
    /\ buf'[k].refcnt \in Int
    /\ buf'[k].refcnt + Is(thread[p].k, k) + IsIn(k, pinned) =
       buf[k].refcnt + Is(thread'[p].k, k) + IsIn(k, pinned')

LEMMA Counted ==
  ASSUME CacheInv, NEW p \in Process, \A q \in Process \ {p} : Keeps(q), Counts(p)
  PROVE  \A k \in Buf : buf'[k].refcnt = References(k)' /\ buf'[k].refcnt \in 0..Cardinality(Process) + 1
<1>1. ASSUME NEW k \in Buf
      PROVE  buf'[k].refcnt = References(k)' /\ buf'[k].refcnt \in 0..Cardinality(Process) + 1
  <2>1. /\ References(k) \in 0..Cardinality(Process) + 1
        /\ References(k)' \in 0..Cardinality(Process) + 1
        /\ References(k)' + Is(thread[p].k, k) + IsIn(k, pinned) =
           References(k) + Is(thread'[p].k, k) + IsIn(k, pinned')
    BY References2
  <2>2. PICK x, y, a, b, c, d :
          /\ x = References(k) /\ y = References(k)' /\ a = Is(thread[p].k, k)
          /\ b = Is(thread'[p].k, k) /\ c = IsIn(k, pinned) /\ d = IsIn(k, pinned')
    OBVIOUS
  <2>3. a \in {0, 1} /\ b \in {0, 1} /\ c \in {0, 1} /\ d \in {0, 1}
    BY <2>2 DEF Is, IsIn
  <2>4. x \in Int /\ y \in Int /\ y \in 0..Cardinality(Process) + 1 /\ y + a + c = x + b + d
    BY <2>1, <2>2
  <2>5. buf'[k].refcnt \in Int /\ buf'[k].refcnt + a + c = x + b + d
    BY <2>2 DEF Counts, CacheInv
  <2>6. buf'[k].refcnt = y
    BY <2>3, <2>4, <2>5
  <2> QED
    BY <2>2, <2>4, <2>6
<1> QED
  BY <1>1

LEMMA NotReferred ==
  ASSUME CacheInv, NEW k \in Buf, buf[k].refcnt = 0
  PROVE  k \notin pinned /\ \A q \in Process : thread[q].k # k
<1>1. PICK n : n = Cardinality(UsersIn(thread, k))
  OBVIOUS
<1>2. n \in Nat
  <2>1. IsFiniteSet(UsersIn(thread, k))
    BY FS_Subset DEF UsersIn
  <2> QED
    BY <1>1, <2>1, FS_CardinalityType
<1>3. References(k) = n + (IF k \in pinned THEN 1 ELSE 0)
  BY <1>1, Zenon DEF References, UsersIn
<1>4. References(k) = 0
  BY DEF CacheInv
<1>5. n = 0 /\ k \notin pinned
  BY <1>2, <1>3, <1>4
<1> QED
  BY <1>1, <1>5, NoUsers, Zenon

LEMMA QuietStep ==
  ASSUME IInv, NEW p \in Process, Quiet(p), LockInv', CacheInv', WaitInv', DataInv'
  PROVE  IInv'
<1>1. /\ free' = free /\ desc' = desc /\ ops' = ops /\ info' = info /\ avail' = avail
      /\ used' = used /\ used_idx' = used_idx /\ device' = device /\ intr' = intr
      /\ owned' = owned /\ driver' = driver
  BY DEF Quiet, driver
<1>2. TypeOK'
  <2>1. VirtioTypeOK'
    BY <1>1, Zenon DEF IInv, TypeOK, VirtioTypeOK, Quiet
  <2> QED
    BY <2>1, Zenon DEF TypeOK, Quiet, Thread, Buffer, Listed
<1>3. ThreadInv'
  BY Threads DEF IInv, Quiet
<1>4. InRequest' = InRequest
  <2>1. \A q \in Process : q \in InRequest' <=> q \in InRequest
    BY DEF Quiet, Keeps
  <2> QED
    BY <2>1 DEF InRequest
<1>5. ASSUME NEW q \in InRequest
      PROVE  /\ thread'[q].head = thread[q].head /\ thread'[q].k = thread[q].k
             /\ thread'[q].write = thread[q].write /\ thread'[q].at = thread[q].at
             /\ buf'[thread[q].k].block = buf[thread[q].k].block
  <2>1. q \in Process /\ q # p /\ Keeps(q) /\ q \in InRequest'
    BY <1>4 DEF Quiet, InRequest
  <2>2. thread'[q].at = thread[q].at
    BY <2>1 DEF Keeps, InRequest
  <2>3. thread[q].k \in Buf
    BY <2>1, Zenon DEF IInv, TypeOK, ThreadInv, ThreadOK, InRequest, At
  <2>4. buf[thread[q].k].refcnt # 0
    BY <2>1, <2>3, NotReferred DEF IInv
  <2> QED
    BY <2>1, <2>2, <2>3, <2>4 DEF Keeps, Quiet
<1>6. SameRequests
  <2>1. InDevice' = InDevice /\ Reported' = Reported
    BY <1>1 DEF InDevice, Pending, Reported
  <2> QED
    BY <1>1, <1>4, <1>5, <2>1 DEF SameRequests
<1>7. ChainInv' /\ RequestInv' /\ PlacesInv'
  BY <1>6, Frame DEF IInv
<1>8. DeviceInv'
  <2>1. RingOK(avail, device.last)' /\ RingOK(used, used_idx)'
    BY <1>1, Zenon DEF IInv, DeviceInv, RingOK
  <2> QED
    BY <1>1, <2>1 DEF IInv, DeviceInv, Pending
<1> QED
  BY <1>2, <1>3, <1>7, <1>8 DEF IInv

LEMMA InDevice2 ==
  ASSUME driver' = driver
  PROVE  InDevice' = InDevice /\ free' = free
BY DEF driver, InDevice, Pending

LEMMA LockKept ==
  ASSUME LockInv, NEW p \in Process, \A q \in Process \ {p} : Keeps(q),
         \A k \in Buf : buf'[k].lock = buf[k].lock,
         thread'[p].at \in HasLock <=> thread[p].at \in HasLock,
         thread[p].at \in HasLock => thread'[p].k = thread[p].k
  PROVE  LockInv'
<1>1. ASSUME NEW q \in Process, NEW k \in Buf
      PROVE  buf'[k].lock = q <=> thread'[q].k = k /\ thread'[q].at \in HasLock
  <2>1. buf[k].lock = q <=> thread[q].k = k /\ thread[q].at \in HasLock
    BY DEF LockInv
  <2>2. CASE q = p
    BY <2>1, <2>2
  <2>3. CASE q # p
    BY <2>1, <2>3 DEF Keeps
  <2> QED
    BY <2>2, <2>3
<1> QED
  BY <1>1 DEF LockInv

LEMMA WaitKept ==
  ASSUME IInv, NEW p \in Process, \A q \in Process \ {p} : Keeps(q), driver' = driver,
         \A k \in Buf : buf[k].lock # NoProcess => buf'[k].lock # NoProcess,
         At(p, "rw_nodesc")' => Cardinality(free) < 3,
         At(p, "lock_asleep")' => buf'[thread'[p].k].lock # NoProcess
  PROVE  WaitInv'
<1>1. free' = free
  BY DEF driver
<1>2. ASSUME NEW q \in Process
      PROVE  /\ At(q, "rw_nodesc")' => Cardinality(free)' < 3
             /\ At(q, "lock_asleep")' => buf'[thread'[q].k].lock # NoProcess
  <2>1. CASE q = p
    BY <1>1, <2>1
  <2>2. CASE q # p
    <3>1. /\ At(q, "rw_nodesc")' => At(q, "rw_nodesc")
          /\ At(q, "lock_asleep")' => At(q, "lock_asleep")
          /\ thread'[q].k = thread[q].k
      BY <2>2 DEF Keeps, At
    <3>2. At(q, "lock_asleep") => thread[q].k \in Buf
      BY DEF IInv, TypeOK, ThreadInv, ThreadOK, At
    <3> QED
      BY <1>1, <3>1, <3>2 DEF IInv, WaitInv
  <2> QED
    BY <2>1, <2>2
<1> QED
  BY <1>2 DEF WaitInv

LEMMA CacheIs ==
  ASSUME IInv
  PROVE  /\ \A j, k \in Buf : buf[j].block = buf[k].block /\ buf[j].block # NoBlock => j = k
         /\ \A k \in Buf : buf[k].valid \/ buf[k].refcnt # 0 => buf[k].block \in Block
<1>1. CacheInv
  BY Zenon DEF IInv
<1> QED
  BY <1>1, Zenon DEF CacheInv

LEMMA CacheKept ==
  ASSUME IInv, NEW p \in Process, \A q \in Process \ {p} : Keeps(q), Counts(p), Listed(lru'),
         \A k \in Buf : buf'[k].block = buf[k].block /\ buf'[k].valid = buf[k].valid,
         \A k \in Buf : buf'[k].refcnt # 0 => buf[k].block \in Block
  PROVE  CacheInv'
<1>1. \A k \in Buf : buf'[k].refcnt = References(k)'
  BY Counted DEF IInv
<1>2. /\ \A j, k \in Buf : buf'[j].block = buf'[k].block /\ buf'[j].block # NoBlock => j = k
      /\ \A k \in Buf : buf'[k].valid \/ buf'[k].refcnt # 0 => buf'[k].block \in Block
  <2>1. ASSUME NEW j \in Buf, NEW k \in Buf, buf'[j].block = buf'[k].block, buf'[j].block # NoBlock
        PROVE  j = k
    <3>1. buf[j].block = buf[k].block /\ buf[j].block # NoBlock
      BY <2>1, Zenon
    <3> QED
      BY <3>1, CacheIs, Zenon
  <2>2. ASSUME NEW k \in Buf, buf'[k].valid \/ buf'[k].refcnt # 0
        PROVE  buf'[k].block \in Block
    <3>1. buf[k].valid => buf[k].block \in Block
      BY CacheIs, Zenon
    <3>2. buf[k].block \in Block
      BY <2>2, <3>1, Zenon
    <3> QED
      BY <3>2, Zenon
  <2> QED
    BY <2>1, <2>2, Zenon
<1>3. \A k \in Buf : \E i \in Buf : lru'[i] = k
  BY DEF Listed
<1> QED
  BY <1>1, <1>2, <1>3 DEF CacheInv

(* What a process knows of the buffer it works on.                         *)
KnowsOK(p) ==
  LET k == thread[p].k IN
  /\ thread[p].at \in AtDisk => (thread[p].write <=> buf[k].valid)
  /\ At(p, "holding") => buf[k].valid
  /\ thread[p].dirty => buf[k].valid

LEMMA DataIs ==
  ASSUME \A j \in Buf : buf'[j].valid /\ data'[j] # disk'[buf'[j].block] =>
           j \in pinned' \/ \E q \in Process : thread'[q].k = j /\ thread'[q].dirty,
         \A q \in InRequest' : thread'[q].head \notin InDevice' =>
           data'[thread'[q].k] = disk'[buf'[thread'[q].k].block],
         \A q \in Process : KnowsOK(q)', \A j \in pinned' : buf'[j].valid
  PROVE  DataInv'
<1>1. \A q \in Process : LET j == thread'[q].k IN
        /\ thread'[q].at \in AtDisk => (thread'[q].write <=> buf'[j].valid)
        /\ At(q, "holding")' => buf'[j].valid
        /\ thread'[q].dirty => buf'[j].valid
  BY DEF KnowsOK
<1> QED
  BY <1>1 DEF DataInv

LEMMA DataKept ==
  ASSUME IInv, NEW p \in Process, \A q \in Process \ {p} : Keeps(q), p \notin InRequest',
         driver' = driver, disk' = disk,
         \A k \in Buf : \/ data'[k] = data[k]
                        \/ /\ thread[p].k = k /\ thread[p].at \in HasLock
                           /\ thread'[p].k = k /\ thread'[p].dirty,
         \A k \in Buf : buf'[k].block = buf[k].block /\ buf'[k].valid = buf[k].valid,
         KnowsOK(p)', pinned' \subseteq Buf,
         \A k \in Buf : k \in pinned \/ (thread[p].k = k /\ thread[p].dirty) =>
           \/ k \in pinned' \/ (thread'[p].k = k /\ thread'[p].dirty)
           \/ data[k] = disk[buf[k].block],
         \A k \in pinned' : k \in pinned \/ buf[k].valid
  PROVE  DataInv'
<1>1. InDevice' = InDevice
  BY InDevice2
<1>2. ASSUME NEW q \in Process
      PROVE  KnowsOK(q)'
  <2>1. CASE q = p
    BY <2>1
  <2>2. CASE q # p
    <3>1. KnowsOK(q) /\ Keeps(q)
      BY <2>2 DEF IInv, DataInv, KnowsOK
    <3>2. thread[q].at \in AtDisk \union {"holding"} \/ thread[q].dirty => thread[q].k \in Buf
      BY DEF IInv, TypeOK, ThreadInv, ThreadOK, At, AtDisk, HasLock
    <3> QED
      BY <3>1, <3>2 DEF KnowsOK, Keeps, At
  <2> QED
    BY <2>1, <2>2
<1>3. ASSUME NEW q \in InRequest', thread'[q].head \notin InDevice'
      PROVE  data'[thread'[q].k] = disk'[buf'[thread'[q].k].block]
  <2>1. q \in Process /\ q # p
    BY DEF InRequest
  <2>2. q \in InRequest /\ thread'[q].head = thread[q].head /\ thread'[q].k = thread[q].k
    BY <2>1 DEF Keeps
  <2>3. thread[q].k \in Buf
    <3>1. ThreadOK(q) /\ thread[q].k \in Buf \union {NoBuf}
      BY <2>1 DEF IInv, TypeOK, ThreadInv
    <3>2. thread[q].at # "idle"
      BY <2>2 DEF InRequest
    <3> QED
      BY <3>1, <3>2, Zenon DEF ThreadOK, At
  <2>4. data'[thread[q].k] = data[thread[q].k]
    <3>1. thread[q].at \in HasLock
      BY <2>2 DEF InRequest, HasLock, AtDisk
    <3>2. thread[p].k = thread[q].k => thread[p].at \notin HasLock
      BY <2>1, <2>3, <3>1 DEF IInv, LockInv
    <3> QED
      BY <2>3, <3>2
  <2> QED
    BY <1>1, <1>3, <2>2, <2>3, <2>4 DEF IInv, DataInv
<1>4. ASSUME NEW k \in Buf, buf'[k].valid, data'[k] # disk'[buf'[k].block]
      PROVE  k \in pinned' \/ \E q \in Process : thread'[q].k = k /\ thread'[q].dirty
  <2>4. CASE data'[k] # data[k]
    BY <2>4
  <2>1. data'[k] = data[k] => k \in pinned \/ \E q \in Process : thread[q].k = k /\ thread[q].dirty
    BY <1>4 DEF IInv, DataInv
  <2>2. CASE data'[k] = data[k] /\ (k \in pinned \/ (thread[p].k = k /\ thread[p].dirty))
    BY <1>4, <2>2
  <2>3. ASSUME NEW q \in Process, q # p, thread[q].k = k, thread[q].dirty
        PROVE  thread'[q].k = k /\ thread'[q].dirty
    BY <2>3 DEF Keeps
  <2> QED
    BY <2>1, <2>2, <2>3, <2>4
<1>5. \A k \in pinned' : buf'[k].valid
  BY DEF IInv, DataInv
<1> QED
  BY <1>2, <1>3, <1>4, <1>5 DEF DataInv, KnowsOK

-----------------------------------------------------------------------------
(* Steps of a process away from the driver                                 *)

LEMMA Typed ==
  ASSUME IInv
  PROVE  /\ thread \in [Process -> Thread] /\ buf \in [Buf -> Buffer]
         /\ data \in [Buf -> Val] /\ disk \in [Block -> Val]
         /\ Listed(lru) /\ pinned \subseteq Buf
         /\ \A q \in Process : ThreadOK(q) /\ (q \in InRequest => At(q, "rw_asleep") \/ At(q, "rw_woken"))
BY Zenon DEF IInv, TypeOK, VirtioTypeOK, Thread, Buffer, Listed, CacheInv, ThreadInv, InRequest, At

LEMMA SetAt ==
  ASSUME NEW t \in Thread, NEW l \in Location
  PROVE  LET u == [t EXCEPT !.at = l] IN
         u \in Thread /\ u.at = l /\ u.k = t.k /\ u.head = t.head /\ u.write = t.write /\ u.dirty = t.dirty
<1> DEFINE L == Location
<1>1. l \in L
  OBVIOUS
<1>2. Thread = [at : L, k : Buf \union {NoBuf}, write : BOOLEAN,
                head : Desc \union {NoDesc}, dirty : BOOLEAN]
  BY DEF Thread
<1> HIDE DEF L
<1> QED
  BY <1>1, <1>2

LEMMA SetLock ==
  ASSUME NEW b \in Buffer, NEW q \in Process \union {NoProcess}
  PROVE  LET c == [b EXCEPT !.lock = q] IN
         c \in Buffer /\ c.lock = q /\ c.block = b.block /\ c.valid = b.valid /\ c.refcnt = b.refcnt
BY DEF Buffer

LEMMA SetRefcnt ==
  ASSUME NEW b \in Buffer, NEW n \in 0..Cardinality(Process) + 1
  PROVE  LET c == [b EXCEPT !.refcnt = n] IN
         c \in Buffer /\ c.refcnt = n /\ c.block = b.block /\ c.valid = b.valid /\ c.lock = b.lock
BY DEF Buffer

LEMMA SleepLockKeeps ==
  ASSUME IInv, NEW p \in Process, SleepLock(p)
  PROVE  IInv'
<1>1. PICK k \in Buf : k = thread[p].k
  BY Typed DEF SleepLock, ThreadOK, At, Thread
<1>2. PICK l, b :
        /\ thread[p].at = "lock" /\ thread' = [thread EXCEPT ![p].at = l] /\ buf' = b
        /\ \/ l = "lock_asleep" /\ buf[k].lock # NoProcess /\ b = buf
           \/ /\ l \in {"holding", "rw"} /\ buf[k].lock = NoProcess
              /\ b = [buf EXCEPT ![k].lock = p] /\ (l = "holding" <=> buf[k].valid)
        /\ disk' = disk /\ data' = data /\ owned' = owned /\ driver' = driver
        /\ lru' = lru /\ pinned' = pinned
  BY <1>1 DEF SleepLock, At, Goto
<1>3. /\ thread' \in [Process -> Thread]
      /\ thread'[p].at = l /\ thread'[p].k = k /\ thread'[p].head = thread[p].head
      /\ thread'[p].write = thread[p].write /\ thread'[p].dirty = thread[p].dirty
      /\ \A q \in Process \ {p} : thread'[q] = thread[q]
  <2>1. l \in Location
    BY <1>2 DEF Location
  <2>2. thread[p] \in Thread /\ [thread[p] EXCEPT !.at = l] \in Thread
    BY <2>1, Typed, SetAt
  <2>3. /\ thread' \in [Process -> Thread] /\ thread'[p] = [thread[p] EXCEPT !.at = l]
        /\ \A q \in Process \ {p} : thread'[q] = thread[q]
    BY <1>2, <2>2, Typed
  <2> QED
    BY <1>1, <2>2, <2>3 DEF Thread
<1>4. /\ b \in [Buf -> Buffer]
      /\ \A j \in Buf : b[j].block = buf[j].block /\ b[j].valid = buf[j].valid /\ b[j].refcnt = buf[j].refcnt
      /\ \A j \in Buf \ {k} : b[j].lock = buf[j].lock
      /\ l # "lock_asleep" => b[k].lock = p /\ buf[k].lock = NoProcess
      /\ l = "lock_asleep" => b[k].lock = buf[k].lock /\ buf[k].lock # NoProcess
  <2>1. CASE b = buf /\ l = "lock_asleep" /\ buf[k].lock # NoProcess
    BY <2>1, Typed
  <2>2. CASE b = [buf EXCEPT ![k].lock = p] /\ l # "lock_asleep" /\ buf[k].lock = NoProcess
    <3>1. buf[k] \in Buffer /\ [buf[k] EXCEPT !.lock = p] \in Buffer
      BY Typed, SetLock
    <3>2. /\ b \in [Buf -> Buffer] /\ b[k] = [buf[k] EXCEPT !.lock = p]
          /\ \A j \in Buf \ {k} : b[j] = buf[j]
      BY <2>2, <3>1, Typed
    <3>3. /\ b[k].block = buf[k].block /\ b[k].valid = buf[k].valid /\ b[k].refcnt = buf[k].refcnt
          /\ b[k].lock = p
      BY <3>1, <3>2 DEF Buffer
    <3> QED
      BY <2>2, <3>2, <3>3
  <2> QED
    BY <1>2, <2>1, <2>2
<1>5. ThreadOK(p) /\ p \notin InRequest /\ ~ thread[p].write /\ ~ thread[p].dirty
  BY <1>2, Typed DEF ThreadOK, At, AtDisk, HasLock
<1>6. \A q \in Process \ {p} : Keeps(q)
  BY <1>3, Kept, Typed
<1>7. Quiet(p)
  <2>1. ThreadOK(p)' /\ p \notin InRequest'
    BY <1>2, <1>3, <1>5 DEF ThreadOK, At, InRequest, AtDisk, HasLock
  <2> QED
    BY <1>2, <1>3, <1>4, <1>5, <1>6, <2>1, Typed DEF Quiet
<1>8. LockInv'
  <2>1. ASSUME NEW q \in Process, NEW j \in Buf
        PROVE  buf'[j].lock = q <=> thread'[q].k = j /\ thread'[q].at \in HasLock
    <3>1. buf[j].lock = q <=> thread[q].k = j /\ thread[q].at \in HasLock
      BY DEF IInv, LockInv
    <3>2. CASE q = p
      BY <1>1, <1>2, <1>3, <1>4, <3>1, <3>2 DEF HasLock, AtDisk
    <3>3. CASE q # p
      BY <1>2, <1>3, <1>4, <3>1, <3>3
    <3> QED
      BY <3>2, <3>3
  <2> QED
    BY <2>1 DEF LockInv
<1>9. CacheInv'
  <2>1. Counts(p)
    BY <1>1, <1>2, <1>3, <1>4, Typed DEF Counts, Buffer
  <2>2. \A j \in Buf : buf'[j].refcnt # 0 => buf[j].block \in Block
    BY <1>2, <1>4, Zenon DEF IInv, CacheInv
  <2> QED
    BY <1>2, <1>4, <1>6, <1>7, <2>1, <2>2, CacheKept DEF Quiet
<1>10. WaitInv'
  <2>1. \A j \in Buf : buf[j].lock # NoProcess => buf'[j].lock # NoProcess
    BY <1>2, <1>4
  <2>2. /\ At(p, "rw_nodesc")' => Cardinality(free) < 3
        /\ At(p, "lock_asleep")' => buf'[thread'[p].k].lock # NoProcess
    BY <1>2, <1>3, <1>4 DEF At
  <2> QED
    BY <1>2, <1>6, <2>1, <2>2, WaitKept
<1>11. DataInv'
  <2>1. KnowsOK(p)'
    BY <1>2, <1>3, <1>4, <1>5 DEF KnowsOK, At, AtDisk
  <2>2. /\ \A j \in Buf : j \in pinned \/ (thread[p].k = j /\ thread[p].dirty) => j \in pinned'
        /\ \A j \in pinned' : j \in pinned
        /\ pinned' \subseteq Buf /\ p \notin InRequest'
        /\ \A j \in Buf : buf'[j].block = buf[j].block /\ buf'[j].valid = buf[j].valid
    BY <1>2, <1>4, <1>5, <1>7 DEF Quiet
  <2> QED
    BY <1>2, <1>6, <2>1, <2>2, DataKept
<1> QED
  BY <1>7, <1>8, <1>9, <1>10, <1>11, QuietStep

(* A process that keeps its buffer, and a cache that stays.                *)
Becomes(p, l, w, d) == thread' = [thread EXCEPT ![p] = [@ EXCEPT !.at = l, !.write = w, !.dirty = d]]

LEMMA BecomesThat ==
  ASSUME thread \in [Process -> Thread], NEW p \in Process,
         NEW l \in Location, NEW w \in BOOLEAN, NEW d \in BOOLEAN, Becomes(p, l, w, d)
  PROVE  /\ thread' \in [Process -> Thread]
         /\ thread'[p].at = l /\ thread'[p].k = thread[p].k /\ thread'[p].head = thread[p].head
         /\ thread'[p].write = w /\ thread'[p].dirty = d
         /\ \A q \in Process \ {p} : thread'[q] = thread[q] /\ Keeps(q)
<1> DEFINE L == Location
<1>0. l \in L /\ Thread = [at : L, k : Buf \union {NoBuf}, write : BOOLEAN,
                           head : Desc \union {NoDesc}, dirty : BOOLEAN]
  BY DEF Thread
<1>1. PICK u : u = [thread[p] EXCEPT !.at = l, !.write = w, !.dirty = d]
  OBVIOUS
<1>2. /\ u \in Thread /\ u.at = l /\ u.k = thread[p].k /\ u.head = thread[p].head
      /\ u.write = w /\ u.dirty = d
  <2>1. thread[p] \in Thread
    OBVIOUS
  <2> HIDE DEF L
  <2> QED
    BY <1>0, <1>1, <2>1, Zenon
<1>3. thread' = [thread EXCEPT ![p] = u]
  BY <1>1 DEF Becomes
<1>4. /\ thread' \in [Process -> Thread] /\ thread'[p] = u
      /\ \A q \in Process \ {p} : thread'[q] = thread[q]
  BY <1>2, <1>3
<1> QED
  BY <1>2, <1>4, Kept

(* Change and Bwrite: the cache stays as it is.                            *)
LEMMA HolderKeeps ==
  ASSUME IInv, NEW p \in Process, At(p, "holding"), Change(p) \/ Bwrite(p)
  PROVE  IInv'
<1>1. PICK k \in Buf : k = thread[p].k
  BY Typed DEF ThreadOK, At, Thread
<1>2. /\ ThreadOK(p) /\ p \notin InRequest /\ ~ thread[p].write /\ thread[p].write \in BOOLEAN
      /\ buf[k].valid /\ thread[p].at \in HasLock /\ thread[p].dirty \in BOOLEAN
  <2>1. thread[p].at = "holding" /\ thread[p] \in Thread /\ ThreadOK(p)
    BY Typed DEF At
  <2>2. thread[p].at \in HasLock /\ thread[p].at \notin AtDisk
    BY <2>1 DEF AtDisk, HasLock
  <2>3. p \notin InRequest
    BY <2>1, Typed DEF At
  <2>4. thread[p].write \in BOOLEAN /\ thread[p].dirty \in BOOLEAN
    BY <2>1 DEF Thread
  <2>5. ~ thread[p].write
    BY <2>1, <2>2 DEF ThreadOK, At
  <2>6. buf[k].valid
    BY <1>1, <2>1 DEF IInv, DataInv, KnowsOK, At
  <2> QED
    BY <2>1, <2>2, <2>3, <2>4, <2>5, <2>6, Zenon
<1>3. PICK l \in {"holding", "rw"}, w \in BOOLEAN, d \in BOOLEAN :
        /\ Becomes(p, l, w, d) /\ (l = "rw" <=> w) /\ (thread[p].dirty => d)
        /\ data' \in [Buf -> Val]
        /\ \A j \in Buf : data'[j] = data[j] \/ (j = k /\ d)
  <2>1. CASE Change(p)
    <3>1. thread' = [thread EXCEPT ![p].dirty = TRUE] /\ data' = [data EXCEPT ![k] = 1 - data[k]]
      BY <1>1, <2>1 DEF Change
    <3>2. data[k] \in {0, 1} /\ 1 - data[k] \in {0, 1}
      BY Typed DEF Val
    <3>3. [thread[p] EXCEPT !.dirty = TRUE] =
            [thread[p] EXCEPT !.at = "holding", !.write = FALSE, !.dirty = TRUE]
      <4>1. thread[p] \in Thread /\ thread[p].at = "holding" /\ thread[p].write = FALSE
        BY <1>2, Typed DEF At
      <4> QED
        BY <4>1, Zenon DEF Thread
    <3>4. Becomes(p, "holding", FALSE, TRUE)
      BY <3>1, <3>3, Zenon DEF Becomes
    <3>5. data' \in [Buf -> Val] /\ \A j \in Buf : data'[j] = data[j] \/ j = k
      BY <3>1, <3>2, Typed DEF Val
    <3> QED
      BY <3>4, <3>5, Zenon
  <2>2. CASE Bwrite(p)
    <3>1. thread' = [thread EXCEPT ![p].at = "rw", ![p].write = TRUE] /\ data' = data
      BY <2>2 DEF Bwrite
    <3>2. [thread[p] EXCEPT !.at = "rw", !.write = TRUE] =
            [thread[p] EXCEPT !.at = "rw", !.write = TRUE, !.dirty = thread[p].dirty]
      <4>1. thread[p] \in Thread
        BY Typed
      <4> QED
        BY <4>1, Zenon DEF Thread
    <3>3. thread' = [thread EXCEPT ![p] = [thread[p] EXCEPT !.at = "rw", !.write = TRUE]]
      BY <3>1, Typed, Zenon
    <3>4. Becomes(p, "rw", TRUE, thread[p].dirty)
      BY <3>2, <3>3, Zenon DEF Becomes
    <3> QED
      BY <1>2, <3>1, <3>4, Typed, Zenon
  <2> QED
    BY <2>1, <2>2
<1>4. l \in Location
  BY DEF Location
<1>5. /\ disk' = disk /\ owned' = owned /\ driver' = driver
      /\ buf' = buf /\ lru' = lru /\ pinned' = pinned
  BY DEF Change, Bwrite, cache
<1>6. /\ thread' \in [Process -> Thread]
      /\ thread'[p].at = l /\ thread'[p].k = k /\ thread'[p].head = thread[p].head
      /\ thread'[p].write = w /\ thread'[p].dirty = d
      /\ \A q \in Process \ {p} : thread'[q] = thread[q] /\ Keeps(q)
  BY <1>1, <1>3, <1>4, BecomesThat, Typed
<1>7. thread'[p].at \in HasLock /\ thread'[p].at \notin {"idle", "rw_asleep", "rw_woken", "rw_nodesc", "lock_asleep"}
  BY <1>6 DEF HasLock, AtDisk
<1>8. Quiet(p)
  <2>1. ThreadOK(p)'
    BY <1>1, <1>2, <1>3, <1>6, <1>7 DEF ThreadOK, At, InRequest, AtDisk, HasLock
  <2>2. p \notin InRequest'
    BY <1>7 DEF InRequest
  <2> QED
    BY <1>2, <1>3, <1>5, <1>6, <2>1, <2>2, Typed DEF Quiet
<1>9. LockInv'
  BY <1>1, <1>2, <1>5, <1>6, <1>7, LockKept DEF IInv
<1>10. CacheInv'
  <2>1. Counts(p)
    BY <1>1, <1>5, <1>6, Typed DEF Counts, Buffer
  <2> QED
    BY <1>5, <1>6, <1>8, <2>1, CacheKept, Zenon DEF Quiet, IInv, CacheInv
<1>11. WaitInv'
  BY <1>5, <1>6, <1>7, WaitKept DEF At
<1>12. DataInv'
  <2>1. KnowsOK(p)'
    BY <1>2, <1>3, <1>5, <1>6 DEF KnowsOK, At, AtDisk
  <2>2. /\ \A j \in Buf : data'[j] = data[j] \/ (thread[p].k = j /\ thread[p].at \in HasLock
                                               /\ thread'[p].k = j /\ thread'[p].dirty)
        /\ \A j \in Buf : j \in pinned \/ (thread[p].k = j /\ thread[p].dirty) =>
             j \in pinned' \/ (thread'[p].k = j /\ thread'[p].dirty)
        /\ pinned' \subseteq Buf /\ \A j \in pinned' : j \in pinned
        /\ \A j \in Buf : buf'[j].block = buf[j].block /\ buf'[j].valid = buf[j].valid
    BY <1>1, <1>2, <1>3, <1>5, <1>6, Typed
  <2> QED
    BY <1>5, <1>6, <1>8, <2>1, <2>2, DataKept DEF Quiet
<1> QED
  BY <1>8, <1>9, <1>10, <1>11, <1>12, QuietStep

LEMMA Wakes ==
  ASSUME NEW t \in [Process -> Thread], NEW k, NEW from, NEW to \in Location
  PROVE  /\ WakeAll(t, from, to) \in [Process -> Thread]
         /\ WakeFor(t, k, from, to) \in [Process -> Thread]
<1>1. \A q \in Process : t[q] \in Thread /\ [t[q] EXCEPT !.at = to] \in Thread
  BY SetAt
<1> QED
  BY <1>1 DEF WakeAll, WakeFor

LEMMA WaitDescKeeps ==
  ASSUME IInv, NEW p \in Process, WaitDesc(p)
  PROVE  IInv'
<1>1. PICK k \in Buf : k = thread[p].k
  BY Typed DEF WaitDesc, RwWaits, ThreadOK, At, Thread
<1>2. /\ thread[p].at = "rw" /\ Cardinality(free) < 3
      /\ disk' = disk /\ data' = data /\ owned' = owned /\ driver' = driver
      /\ buf' = buf /\ lru' = lru /\ pinned' = pinned
  BY DEF WaitDesc, RwWaits, At, cache
<1>3. ThreadOK(p) /\ p \notin InRequest
  BY <1>2, Typed DEF At
<1>4. PICK t : /\ t = IF free = {} THEN thread ELSE WakeAll(thread, "rw_nodesc", "rw")
               /\ thread' = [t EXCEPT ![p].at = "rw_nodesc"]
  BY Zenon DEF WaitDesc, RwWaits
<1>5. /\ t \in [Process -> Thread] /\ t[p] = thread[p]
      /\ \A q \in Process : \/ t[q] = thread[q]
                            \/ thread[q].at = "rw_nodesc" /\ t[q] = [thread[q] EXCEPT !.at = "rw"]
  <2>1. CASE t = thread
    BY <2>1, Typed
  <2>2. CASE t = WakeAll(thread, "rw_nodesc", "rw")
    <3>1. t \in [Process -> Thread]
      <4>1. "rw" \in Location
        BY DEF Location
      <4> QED
        BY <2>2, <4>1, Typed, Wakes, Zenon
    <3>2. t[p] = thread[p]
      BY <1>2, <2>2 DEF WakeAll
    <3> QED
      BY <2>2, <3>1, <3>2 DEF WakeAll
  <2> QED
    BY <1>4, <2>1, <2>2
<1>6. /\ thread' \in [Process -> Thread]
      /\ thread'[p].at = "rw_nodesc" /\ thread'[p].k = k /\ thread'[p].head = thread[p].head
      /\ thread'[p].write = thread[p].write /\ thread'[p].dirty = thread[p].dirty
      /\ \A q \in Process \ {p} : thread'[q] = t[q]
  <2>1. "rw_nodesc" \in Location /\ t[p] \in Thread
    BY <1>5 DEF Location
  <2>2. PICK u : u = [t[p] EXCEPT !.at = "rw_nodesc"]
    BY Zenon
  <2>3. /\ u \in Thread /\ u.at = "rw_nodesc" /\ u.k = k /\ u.head = thread[p].head
        /\ u.write = thread[p].write /\ u.dirty = thread[p].dirty
    BY <1>1, <1>5, <2>1, <2>2, SetAt
  <2>4. thread' = [t EXCEPT ![p] = u]
    BY <1>4, <2>2
  <2> QED
    BY <1>5, <2>3, <2>4
<1>7. \A q \in Process \ {p} : Keeps(q)
  BY <1>5, <1>6, Kept, Typed
<1>8. thread'[p].at \in HasLock /\ thread[p].at \in HasLock /\ thread'[p].at \in AtDisk /\ thread[p].at \in AtDisk
  BY <1>2, <1>6 DEF HasLock, AtDisk
<1>9. Quiet(p)
  <2>1. p \notin InRequest'
    BY <1>6 DEF InRequest
  <2>2. ThreadOK(p)'
    BY <1>1, <1>2, <1>3, <1>6, <1>8, <2>1 DEF ThreadOK, At
  <2> QED
    BY <1>2, <1>3, <1>6, <1>7, <2>1, <2>2, Typed DEF Quiet
<1>10. LockInv'
  BY <1>1, <1>2, <1>6, <1>7, <1>8, LockKept DEF IInv
<1>11. CacheInv'
  <2>1. Counts(p)
    BY <1>1, <1>2, <1>6, Typed DEF Counts, Buffer
  <2> QED
    BY <1>2, <1>7, <1>9, <2>1, CacheKept, Zenon DEF Quiet, IInv, CacheInv
<1>12. WaitInv'
  BY <1>2, <1>6, <1>7, WaitKept DEF At
<1>13. DataInv'
  <2>1. KnowsOK(p)'
    <3>1. KnowsOK(p)
      BY DEF IInv, DataInv, KnowsOK
    <3> QED
      BY <1>1, <1>2, <1>6, <1>8, <3>1 DEF KnowsOK, At
  <2>2. /\ \A j \in Buf : data'[j] = data[j]
        /\ \A j \in Buf : j \in pinned \/ (thread[p].k = j /\ thread[p].dirty) =>
             j \in pinned' \/ (thread'[p].k = j /\ thread'[p].dirty)
        /\ pinned' \subseteq Buf /\ \A j \in pinned' : j \in pinned
        /\ \A j \in Buf : buf'[j].block = buf[j].block /\ buf'[j].valid = buf[j].valid
    BY <1>1, <1>2, <1>6, Typed
  <2> QED
    BY <1>2, <1>7, <1>9, <2>1, <2>2, DataKept DEF Quiet
<1> QED
  BY <1>9, <1>10, <1>11, <1>12, <1>13, QuietStep

Refers(k, n) == buf' = [buf EXCEPT ![k].refcnt = n]

LEMMA RefersThat ==
  ASSUME buf \in [Buf -> Buffer], NEW k \in Buf, NEW n \in Int, Refers(k, n)
  PROVE  /\ \A j \in Buf : /\ buf'[j].block = buf[j].block /\ buf'[j].valid = buf[j].valid
                           /\ buf'[j].lock = buf[j].lock
         /\ \A j \in Buf \ {k} : buf'[j].refcnt = buf[j].refcnt
         /\ buf'[k].refcnt = n /\ \A j \in Buf : buf'[j].refcnt \in Int
         /\ n \in 0..Cardinality(Process) + 1 => buf' \in [Buf -> Buffer]
<1>1. PICK c : c = [buf[k] EXCEPT !.refcnt = n]
  BY Zenon
<1>2. buf[k] \in Buffer /\ \A j \in Buf : buf[j].refcnt \in Int
  BY DEF Buffer
<1>3. c.refcnt = n /\ c.block = buf[k].block /\ c.valid = buf[k].valid /\ c.lock = buf[k].lock
  BY <1>1, <1>2 DEF Buffer
<1>4. buf' = [buf EXCEPT ![k] = c]
  BY <1>1 DEF Refers
<1>5. buf'[k] = c /\ \A j \in Buf \ {k} : buf'[j] = buf[j]
  BY <1>4
<1>6. n \in 0..Cardinality(Process) + 1 => c \in Buffer
  BY <1>1, <1>2, SetRefcnt, Zenon
<1>7. n \in 0..Cardinality(Process) + 1 => buf' \in [Buf -> Buffer]
  BY <1>4, <1>6
<1> QED
  BY <1>2, <1>3, <1>5, <1>7, Zenon

(* Bpin and Bunpin: the lock stays.                                        *)
LEMMA PinKeeps ==
  ASSUME IInv, NEW p \in Process, Bpin(p) \/ Bunpin(p)
  PROVE  IInv'
<1>1. PICK k \in Buf : k = thread[p].k
  BY Typed DEF Bpin, Bunpin, ThreadOK, At, Thread
<1>2. /\ thread[p].at = "holding"
      /\ disk' = disk /\ data' = data /\ owned' = owned /\ driver' = driver /\ lru' = lru
  BY DEF Bpin, Bunpin, At
<1>3. /\ ThreadOK(p) /\ p \notin InRequest /\ ~ thread[p].write /\ thread[p].write \in BOOLEAN
      /\ buf[k].valid /\ thread[p].at \in HasLock /\ thread[p].dirty \in BOOLEAN
      /\ buf[k].refcnt \in Int
  BY <1>1, <1>2, Typed DEF ThreadOK, At, AtDisk, HasLock, IInv, DataInv, Thread, Buffer
<1>4. PICK n \in Int, d \in BOOLEAN :
        /\ Becomes(p, "holding", thread[p].write, d) /\ (d => thread[p].dirty)
        /\ Refers(k, n)
        /\ n + IsIn(k, pinned) = buf[k].refcnt + IsIn(k, pinned')
        /\ thread[p].dirty => d \/ k \in pinned'
        /\ \/ pinned' = pinned \/ pinned' = pinned \union {k}
           \/ pinned' = pinned \ {k} /\ disk[buf[k].block] = data[k]
  <2>0. thread[p] \in Thread /\ buf[k] \in Buffer
    BY Typed
  <2>1. CASE Bpin(p)
    <3>1. thread' = [thread EXCEPT ![p] = [thread[p] EXCEPT !.dirty = FALSE]] /\ thread[p].dirty
      BY <2>1 DEF Bpin
    <3>2. [thread[p] EXCEPT !.dirty = FALSE] =
            [thread[p] EXCEPT !.at = "holding", !.write = thread[p].write, !.dirty = FALSE]
      BY <1>2, <2>0, Zenon DEF Thread
    <3>3. Becomes(p, "holding", thread[p].write, FALSE)
      BY <3>1, <3>2, Zenon DEF Becomes
    <3>4. CASE k \in pinned /\ UNCHANGED <<buf, pinned>>
      <4>1. [buf[k] EXCEPT !.refcnt = buf[k].refcnt] = buf[k]
        BY <2>0 DEF Buffer
      <4>2. Refers(k, buf[k].refcnt)
        BY <3>4, <4>1, Typed DEF Refers
      <4> QED
        BY <1>3, <3>1, <3>3, <3>4, <4>2, Zenon
    <3>5. CASE k \notin pinned /\ buf' = [buf EXCEPT ![k].refcnt = @ + 1] /\ pinned' = pinned \union {k}
      <4>1. Refers(k, buf[k].refcnt + 1)
        BY <3>5 DEF Refers
      <4>2. IsIn(k, pinned) = 0 /\ IsIn(k, pinned') = 1
        BY <3>5 DEF IsIn
      <4>3. buf[k].refcnt + 1 \in Int /\ (buf[k].refcnt + 1) + 0 = buf[k].refcnt + 1
        BY <1>3
      <4>4. k \in pinned'
        BY <3>5
      <4> QED
        BY <3>1, <3>3, <3>5, <4>1, <4>2, <4>3, <4>4, Zenon
    <3> QED
      BY <1>1, <2>1, <3>4, <3>5 DEF Bpin
  <2>2. CASE Bunpin(p)
    <3>1. /\ thread' = thread /\ k \in pinned /\ disk[buf[k].block] = data[k]
          /\ buf' = [buf EXCEPT ![k].refcnt = @ - 1] /\ pinned' = pinned \ {k}
      BY <1>1, <2>2 DEF Bunpin
    <3>2. [thread[p] EXCEPT !.at = "holding", !.write = thread[p].write, !.dirty = thread[p].dirty] = thread[p]
      BY <1>2, <2>0, Zenon DEF Thread
    <3>3. Becomes(p, "holding", thread[p].write, thread[p].dirty)
      BY <3>1, <3>2, Typed DEF Becomes
    <3>4. Refers(k, buf[k].refcnt - 1)
      BY <3>1 DEF Refers
    <3>5. IsIn(k, pinned) = 1 /\ IsIn(k, pinned') = 0
      BY <3>1 DEF IsIn
    <3>6. buf[k].refcnt - 1 \in Int /\ (buf[k].refcnt - 1) + 1 = buf[k].refcnt + 0
      BY <1>3
    <3> QED
      BY <1>3, <3>1, <3>3, <3>4, <3>5, <3>6
  <2> QED
    BY <2>1, <2>2
<1>5. /\ thread' \in [Process -> Thread]
      /\ thread'[p].at = "holding" /\ thread'[p].k = k /\ thread'[p].head = thread[p].head
      /\ thread'[p].write = thread[p].write /\ thread'[p].dirty = d
      /\ \A q \in Process \ {p} : thread'[q] = thread[q] /\ Keeps(q)
  <2>1. "holding" \in Location
    BY DEF Location
  <2> QED
    BY <1>1, <1>3, <1>4, <2>1, BecomesThat, Typed
<1>6. /\ \A j \in Buf : /\ buf'[j].block = buf[j].block /\ buf'[j].valid = buf[j].valid
                        /\ buf'[j].lock = buf[j].lock
      /\ \A j \in Buf \ {k} : buf'[j].refcnt = buf[j].refcnt
      /\ buf'[k].refcnt = n /\ \A j \in Buf : buf'[j].refcnt \in Int
      /\ n \in 0..Cardinality(Process) + 1 => buf' \in [Buf -> Buffer]
  BY <1>4, RefersThat, Typed
<1>7. Counts(p)
  <2>1. ASSUME NEW j \in Buf
        PROVE  buf'[j].refcnt + Is(thread[p].k, j) + IsIn(j, pinned) =
               buf[j].refcnt + Is(thread'[p].k, j) + IsIn(j, pinned')
    <3>1. Is(thread'[p].k, j) = Is(thread[p].k, j) /\ Is(thread[p].k, j) \in Int
      BY <1>1, <1>5 DEF Is
    <3>2. CASE j = k
      <4>1. IsIn(k, pinned) \in Int /\ IsIn(k, pinned') \in Int
        BY DEF IsIn
      <4>2. buf'[k].refcnt = n /\ buf[k].refcnt \in Int
        BY <1>3, <1>6
      <4>3. n + IsIn(k, pinned) = buf[k].refcnt + IsIn(k, pinned')
        BY <1>4, Zenon
      <4> QED
        BY <3>1, <3>2, <4>1, <4>2, <4>3
    <3>3. CASE j # k
      <4>1. IsIn(j, pinned) = IsIn(j, pinned')
        BY <1>4, <3>3 DEF IsIn
      <4>2. buf'[j].refcnt = buf[j].refcnt
        BY <1>6, <3>3
      <4> QED
        BY <3>1, <4>1, <4>2
    <3> QED
      BY <3>2, <3>3
  <2> QED
    BY <1>6, <2>1 DEF Counts
<1>8. n \in 0..Cardinality(Process) + 1
  BY <1>5, <1>6, <1>7, Counted DEF IInv
<1>9. Quiet(p)
  <2>1. ThreadOK(p)'
    BY <1>1, <1>2, <1>3, <1>4, <1>5 DEF ThreadOK, At, InRequest, AtDisk, HasLock
  <2>2. p \notin InRequest'
    BY <1>5 DEF InRequest
  <2>3. pinned' \subseteq Buf
    BY <1>4, Typed
  <2> QED
    BY <1>2, <1>3, <1>5, <1>6, <1>8, <2>1, <2>2, <2>3, Typed DEF Quiet
<1>10. LockInv'
  BY <1>1, <1>2, <1>5, <1>6, LockKept DEF IInv
<1>11. CacheInv'
  <2>1. \A j \in Buf : buf'[j].refcnt # 0 => buf[j].block \in Block
    <3>1. buf[k].block \in Block
      BY <1>3 DEF IInv, CacheInv
    <3> QED
      BY <1>6, <3>1, Zenon DEF IInv, CacheInv
  <2> QED
    BY <1>5, <1>6, <1>7, <1>9, <2>1, CacheKept, Zenon DEF Quiet
<1>12. WaitInv'
  BY <1>2, <1>5, <1>6, WaitKept DEF At
<1>13. DataInv'
  <2>1. KnowsOK(p)'
    BY <1>3, <1>5, <1>6 DEF KnowsOK, At, AtDisk
  <2>2. /\ \A j \in Buf : data'[j] = data[j]
        /\ \A j \in Buf : j \in pinned \/ (thread[p].k = j /\ thread[p].dirty) =>
             \/ j \in pinned' \/ (thread'[p].k = j /\ thread'[p].dirty)
             \/ data[j] = disk[buf[j].block]
        /\ pinned' \subseteq Buf /\ \A j \in pinned' : j \in pinned \/ buf[j].valid
    BY <1>1, <1>2, <1>3, <1>4, <1>5, <1>9 DEF Quiet
  <2> QED
    BY <1>2, <1>5, <1>6, <1>9, <2>1, <2>2, DataKept, Zenon DEF Quiet
<1> QED
  BY <1>9, <1>10, <1>11, <1>12, <1>13, QuietStep

LEMMA ReleasesleepKeeps ==
  ASSUME IInv, NEW p \in Process, Releasesleep(p)
  PROVE  IInv'
<1>1. PICK k \in Buf : k = thread[p].k
  BY Typed DEF Releasesleep, ThreadOK, At, Thread
<1>2. /\ thread[p].at = "holding" /\ ~ thread[p].dirty
      /\ disk' = disk /\ data' = data /\ owned' = owned /\ driver' = driver
      /\ lru' = lru /\ pinned' = pinned
      /\ buf' = [buf EXCEPT ![k].lock = NoProcess]
      /\ thread' = WakeFor(Goto(p, "unref"), k, "lock_asleep", "lock")
  BY <1>1 DEF Releasesleep, At
<1>3. /\ ThreadOK(p) /\ p \notin InRequest /\ ~ thread[p].write /\ thread[p].at \in HasLock
  BY <1>1, <1>2, Typed DEF ThreadOK, At, AtDisk, HasLock
<1>4. PICK t : t = Goto(p, "unref")
  OBVIOUS
<1>5. /\ t \in [Process -> Thread]
      /\ t[p].at = "unref" /\ t[p].k = k /\ t[p].head = thread[p].head
      /\ t[p].write = thread[p].write /\ t[p].dirty = thread[p].dirty
      /\ \A q \in Process \ {p} : t[q] = thread[q]
  <2>1. "unref" \in Location /\ thread[p] \in Thread
    BY Typed DEF Location
  <2>2. PICK u : u = [thread[p] EXCEPT !.at = "unref"]
    BY Zenon
  <2>3. /\ u \in Thread /\ u.at = "unref" /\ u.k = k /\ u.head = thread[p].head
        /\ u.write = thread[p].write /\ u.dirty = thread[p].dirty
    BY <1>1, <2>1, <2>2, SetAt
  <2>4. t = [thread EXCEPT ![p] = u]
    BY <1>4, <2>2 DEF Goto
  <2> QED
    BY <2>3, <2>4, Typed
<1>6. /\ thread' \in [Process -> Thread] /\ thread'[p] = t[p]
      /\ \A q \in Process \ {p} :
           \/ thread'[q] = thread[q] /\ ~ (thread[q].at = "lock_asleep" /\ thread[q].k = k)
           \/ thread[q].at = "lock_asleep" /\ thread'[q] = [thread[q] EXCEPT !.at = "lock"]
  <2>1. thread' = WakeFor(t, k, "lock_asleep", "lock")
    BY <1>2, <1>4
  <2>2. thread' \in [Process -> Thread]
    <3>1. "lock" \in Location
      BY DEF Location
    <3> QED
      BY <1>5, <2>1, <3>1, Wakes, Zenon
  <2>3. \A q \in Process : thread'[q] =
           IF t[q].at = "lock_asleep" /\ t[q].k = k THEN [t[q] EXCEPT !.at = "lock"] ELSE t[q]
    BY <2>1, Zenon DEF WakeFor
  <2>4. t[p].at # "lock_asleep"
    BY <1>5
  <2> QED
    BY <1>5, <2>2, <2>3, <2>4
<1>7. \A q \in Process \ {p} : Keeps(q)
  BY <1>6, Kept, Typed
<1>8. /\ buf' \in [Buf -> Buffer] /\ buf'[k].lock = NoProcess
      /\ \A j \in Buf : buf'[j].block = buf[j].block /\ buf'[j].valid = buf[j].valid /\ buf'[j].refcnt = buf[j].refcnt
      /\ \A j \in Buf \ {k} : buf'[j].lock = buf[j].lock
  <2>1. buf[k] \in Buffer
    BY Typed
  <2>2. PICK c : c = [buf[k] EXCEPT !.lock = NoProcess]
    BY Zenon
  <2>3. /\ c \in Buffer /\ c.block = buf[k].block /\ c.valid = buf[k].valid /\ c.refcnt = buf[k].refcnt
        /\ c.lock = NoProcess
    BY <2>1, <2>2, SetLock
  <2>4. buf' = [buf EXCEPT ![k] = c]
    BY <1>2, <2>2
  <2>5. buf' \in [Buf -> Buffer] /\ buf'[k] = c /\ \A j \in Buf \ {k} : buf'[j] = buf[j]
    BY <2>3, <2>4, Typed
  <2> QED
    BY <2>3, <2>5
<1>9. thread'[p].at \notin HasLock /\ thread'[p].at \notin AtDisk
  BY <1>5, <1>6 DEF HasLock, AtDisk
<1>10. Quiet(p)
  <2>1. ThreadOK(p)' /\ p \notin InRequest'
    BY <1>2, <1>3, <1>5, <1>6 DEF ThreadOK, At, InRequest
  <2> QED
    BY <1>2, <1>3, <1>6, <1>7, <1>8, <2>1, Typed DEF Quiet
<1>11. LockInv'
  <2>1. ASSUME NEW q \in Process, NEW j \in Buf
        PROVE  buf'[j].lock = q <=> thread'[q].k = j /\ thread'[q].at \in HasLock
    <3>1. /\ buf[j].lock = q <=> thread[q].k = j /\ thread[q].at \in HasLock
          /\ buf[j].lock = p <=> thread[p].k = j /\ thread[p].at \in HasLock
      BY DEF IInv, LockInv
    <3>2. CASE q = p
      BY <1>1, <1>3, <1>8, <1>9, <3>1, <3>2
    <3>3. CASE q # p
      <4>1. Keeps(q)
        BY <1>7, <3>3
      <4>2. j = k => buf[j].lock = p
        BY <1>1, <1>3, <3>1
      <4> QED
        BY <1>8, <3>1, <3>3, <4>1, <4>2 DEF Keeps
    <3> QED
      BY <3>2, <3>3
  <2> QED
    BY <2>1 DEF LockInv
<1>12. CacheInv'
  <2>1. Counts(p)
    BY <1>1, <1>2, <1>5, <1>6, <1>8, Typed DEF Counts, Buffer
  <2> QED
    BY <1>7, <1>8, <1>10, <2>1, CacheKept, Zenon DEF Quiet, IInv, CacheInv
<1>13. WaitInv'
  <2>1. free' = free
    BY <1>2 DEF driver
  <2>2. ASSUME NEW q \in Process
        PROVE  /\ At(q, "rw_nodesc")' => Cardinality(free)' < 3
               /\ At(q, "lock_asleep")' => buf'[thread'[q].k].lock # NoProcess
    <3>1. CASE q = p
      BY <1>5, <1>6, <3>1 DEF At
    <3>2. CASE q # p
      <4>1. Keeps(q)
        BY <1>7, <3>2
      <4>2. At(q, "lock_asleep")' => At(q, "lock_asleep") /\ thread[q].k # k /\ thread[q].k \in Buf
        <5>1. ASSUME At(q, "lock_asleep")'
              PROVE  At(q, "lock_asleep") /\ thread[q].k # k
          <6>1. thread[q] \in Thread
            BY Typed
          <6>2. thread'[q] # [thread[q] EXCEPT !.at = "lock"]
            BY <5>1, <6>1 DEF At, Thread
          <6> QED
            BY <1>6, <3>2, <5>1, <6>2 DEF At
        <5>2. At(q, "lock_asleep") => thread[q].k \in Buf
          BY Typed DEF ThreadOK, At, Thread
        <5> QED
          BY <5>1, <5>2
      <4> QED
        BY <1>8, <2>1, <4>1, <4>2 DEF At, Keeps, IInv, WaitInv
    <3> QED
      BY <3>1, <3>2
  <2> QED
    BY <2>2 DEF WaitInv
<1>14. DataInv'
  <2>1. KnowsOK(p)'
    BY <1>2, <1>5, <1>6, <1>9 DEF KnowsOK, At
  <2>2. /\ \A j \in Buf : data'[j] = data[j]
        /\ \A j \in Buf : j \in pinned \/ (thread[p].k = j /\ thread[p].dirty) => j \in pinned'
        /\ pinned' \subseteq Buf /\ \A j \in pinned' : j \in pinned
    BY <1>2, Typed
  <2> QED
    BY <1>2, <1>7, <1>8, <1>10, <2>1, <2>2, DataKept DEF Quiet
<1> QED
  BY <1>10, <1>11, <1>12, <1>13, <1>14, QuietStep

LEMMA IdleIs ==
  /\ Idle \in Thread /\ Idle.at = "idle" /\ Idle.k = NoBuf /\ Idle.head = NoDesc
  /\ Idle.write = FALSE /\ Idle.dirty = FALSE
  /\ \A k \in Buf : LET u == [Idle EXCEPT !.at = "lock", !.k = k] IN
       /\ u \in Thread /\ u.at = "lock" /\ u.k = k /\ u.head = NoDesc
       /\ u.write = FALSE /\ u.dirty = FALSE
<1>1. {"idle", "lock"} \subseteq Location
  BY DEF Location
<1> DEFINE L == Location
<1>2. {"idle", "lock"} \subseteq L /\ Thread = [at : L, k : Buf \union {NoBuf}, write : BOOLEAN,
                head : Desc \union {NoDesc}, dirty : BOOLEAN]
  BY <1>1 DEF Thread
<1> HIDE DEF L
<1> QED
  BY <1>2, Zenon DEF Idle

LEMMA UnrefKeeps ==
  ASSUME IInv, NEW p \in Process, Unref(p)
  PROVE  IInv'
<1>1. PICK k \in Buf : k = thread[p].k
  BY Typed DEF Unref, ThreadOK, At, Thread
<1>2. /\ thread[p].at = "unref"
      /\ disk' = disk /\ data' = data /\ owned' = owned /\ driver' = driver /\ pinned' = pinned
      /\ Refers(k, buf[k].refcnt - 1)
      /\ lru' = lru \/ lru' = MovedToFront(k)
      /\ thread' = [thread EXCEPT ![p] = Idle]
  BY <1>1 DEF Unref, At, Refers
<1>3. /\ ThreadOK(p) /\ p \notin InRequest /\ ~ thread[p].dirty /\ buf[k].refcnt \in Int
  <2>1. ThreadOK(p) /\ buf[k] \in Buffer /\ (p \in InRequest => At(p, "rw_asleep") \/ At(p, "rw_woken"))
    BY Typed
  <2>2. p \notin InRequest
    BY <1>2, <2>1 DEF At
  <2>3. thread[p].at \notin HasLock
    BY <1>2 DEF AtDisk, HasLock
  <2>4. ~ thread[p].dirty
    BY <2>1, <2>3, Zenon DEF ThreadOK
  <2>5. buf[k].refcnt \in 0..Cardinality(Process) + 1
    BY <2>1, Zenon DEF Buffer
  <2>6. buf[k].refcnt \in Int
    BY <2>5
  <2> QED
    BY <2>1, <2>2, <2>4, <2>6, Zenon
<1>5. /\ thread' \in [Process -> Thread] /\ thread'[p] = Idle
      /\ \A q \in Process \ {p} : thread'[q] = thread[q]
  BY <1>2, IdleIs, Typed, Zenon
<1>7. \A q \in Process \ {p} : Keeps(q)
  BY <1>5, Kept, Typed
<1>4. PICK n \in Int : n = buf[k].refcnt - 1
  BY <1>3
<1>6. /\ \A j \in Buf : /\ buf'[j].block = buf[j].block /\ buf'[j].valid = buf[j].valid
                        /\ buf'[j].lock = buf[j].lock
      /\ \A j \in Buf \ {k} : buf'[j].refcnt = buf[j].refcnt
      /\ buf'[k].refcnt = n /\ \A j \in Buf : buf'[j].refcnt \in Int
      /\ n \in 0..Cardinality(Process) + 1 => buf' \in [Buf -> Buffer]
  <2>1. Refers(k, n)
    BY <1>2, <1>4
  <2> QED
    BY <2>1, RefersThat, Typed
<1>8. Counts(p)
  <2>1. ASSUME NEW j \in Buf
        PROVE  buf'[j].refcnt + Is(thread[p].k, j) + IsIn(j, pinned) =
               buf[j].refcnt + Is(thread'[p].k, j) + IsIn(j, pinned')
    <3>1. /\ Is(thread'[p].k, j) = 0 /\ IsIn(j, pinned) = IsIn(j, pinned') /\ IsIn(j, pinned) \in Int
          /\ buf[j].refcnt \in Int
      <4>1. thread'[p].k = 0 /\ j # 0
        BY <1>5 DEF Idle
      <4>2. buf[j].refcnt \in Int
        BY Typed DEF Buffer
      <4>3. Is(thread'[p].k, j) = 0
        BY <4>1 DEF Is
      <4>4. IsIn(j, pinned) = IsIn(j, pinned') /\ IsIn(j, pinned) \in Int
        BY <1>2 DEF IsIn
      <4> QED
        BY <4>2, <4>3, <4>4
    <3>2. CASE j = k
      <4>1. Is(thread[p].k, j) = 1
        BY <1>1, <3>2 DEF Is
      <4>2. buf'[j].refcnt = buf[j].refcnt - 1
        BY <1>4, <1>6, <3>2
      <4> QED
        BY <3>1, <4>1, <4>2
    <3>3. CASE j # k
      <4>1. Is(thread[p].k, j) = 0
        BY <1>1, <3>3 DEF Is
      <4>2. buf'[j].refcnt = buf[j].refcnt
        BY <1>6, <3>3
      <4> QED
        BY <3>1, <4>1, <4>2
    <3> QED
      BY <3>2, <3>3
  <2> QED
    BY <1>6, <2>1 DEF Counts
<1>9. n \in 0..Cardinality(Process) + 1
  BY <1>6, <1>7, <1>8, Counted DEF IInv
<1>10. thread'[p].at \notin HasLock /\ thread'[p].at \notin AtDisk /\ thread[p].at \notin HasLock
  BY <1>2, <1>5, IdleIs, Zenon DEF HasLock, AtDisk
<1>11. Quiet(p)
  <2>1. ThreadOK(p)' /\ p \notin InRequest'
    BY <1>5, IdleIs, Zenon DEF ThreadOK, At, InRequest
  <2>2. Listed(lru')
    BY <1>2, Moved, Typed
  <2> QED
    BY <1>2, <1>3, <1>5, <1>6, <1>7, <1>9, <2>1, <2>2, Typed DEF Quiet
<1>12. LockInv'
  BY <1>6, <1>7, <1>10, LockKept DEF IInv
<1>13. CacheInv'
  <2>1. ASSUME NEW j \in Buf
        PROVE  buf'[j].refcnt # 0 => buf[j].block \in Block
    <3>1. CASE j = k
      <4>1. References(k) >= 1
        BY <1>1, <1>7, References2
      <4>2. buf[k].refcnt # 0
        BY <4>1 DEF IInv, CacheInv
      <4> QED
        BY <3>1, <4>2 DEF IInv, CacheInv
    <3>2. CASE j # k
      BY <1>6, <3>2, Zenon DEF IInv, CacheInv
    <3> QED
      BY <3>1, <3>2
  <2> QED
    BY <1>6, <1>7, <1>8, <1>11, <2>1, CacheKept DEF Quiet
<1>14. WaitInv'
  BY <1>2, <1>5, <1>6, <1>7, IdleIs, WaitKept, Zenon DEF At
<1>15. DataInv'
  <2>1. KnowsOK(p)'
    BY <1>5, <1>10, IdleIs, Zenon DEF KnowsOK, At
  <2>2. /\ \A j \in Buf : data'[j] = data[j]
        /\ \A j \in Buf : j \in pinned \/ (thread[p].k = j /\ thread[p].dirty) => j \in pinned'
        /\ pinned' \subseteq Buf /\ \A j \in pinned' : j \in pinned
    BY <1>2, <1>3, Typed
  <2> QED
    BY <1>2, <1>6, <1>7, <1>11, <2>1, <2>2, DataKept DEF Quiet
<1> QED
  BY <1>11, <1>12, <1>13, <1>14, <1>15, QuietStep

LEMMA BgetKeeps ==
  ASSUME IInv, NEW p \in Process, NEW b \in Block, Bget(p, b)
  PROVE  IInv'
<1>1. /\ thread[p].at = "idle"
      /\ disk' = disk /\ data' = data /\ owned' = owned /\ driver' = driver /\ lru' = lru
      /\ pinned' = pinned
  BY Zenon DEF Bget, At
<1>2. PICK k \in Buf :
        /\ thread' = [thread EXCEPT ![p] = [Idle EXCEPT !.at = "lock", !.k = k]]
        /\ \/ buf[k].block = b /\ Refers(k, buf[k].refcnt + 1)
           \/ Cached(b) = {} /\ buf[k].refcnt = 0 /\ Recycle(k, b)
  <2>1. CASE \E k \in Cached(b) :
               /\ buf' = [buf EXCEPT ![k].refcnt = @ + 1]
               /\ thread' = [thread EXCEPT ![p] = [Idle EXCEPT !.at = "lock", !.k = k]]
    BY <2>1, Zenon DEF Cached, Refers
  <2>2. CASE /\ Cached(b) = {} /\ Unused # {} /\ Recycle(LeastRecentUnused, b)
             /\ thread' = [thread EXCEPT ![p] = [Idle EXCEPT !.at = "lock", !.k = LeastRecentUnused]]
    <3>1. LeastRecentUnused \in Unused
      BY <2>2, Recycled, Typed
    <3>2. PICK k \in Buf : k = LeastRecentUnused /\ buf[k].refcnt = 0
      BY <3>1 DEF Unused
    <3> QED
      BY <2>2, <3>2, Zenon
  <2> QED
    BY <2>1, <2>2, Zenon DEF Bget
<1>3. /\ thread' \in [Process -> Thread]
      /\ thread'[p].at = "lock" /\ thread'[p].k = k /\ thread'[p].head = NoDesc
      /\ thread'[p].write = FALSE /\ thread'[p].dirty = FALSE
      /\ \A q \in Process \ {p} : thread'[q] = thread[q] /\ Keeps(q)
  <2>1. PICK u : u = [Idle EXCEPT !.at = "lock", !.k = k]
    OBVIOUS
  <2>2. u \in Thread /\ u.at = "lock" /\ u.k = k /\ u.head = NoDesc /\ u.write = FALSE /\ u.dirty = FALSE
    BY <2>1, IdleIs, Zenon
  <2>3. thread' = [thread EXCEPT ![p] = u]
    BY <1>2, <2>1
  <2>4. thread' \in [Process -> Thread] /\ thread'[p] = u /\ \A q \in Process \ {p} : thread'[q] = thread[q]
    BY <2>2, <2>3, Typed
  <2>5. \A q \in Process \ {p} : Keeps(q)
    BY <2>4, Kept, Typed
  <2>6. /\ thread'[p].at = "lock" /\ thread'[p].k = k /\ thread'[p].head = NoDesc
        /\ thread'[p].write = FALSE /\ thread'[p].dirty = FALSE
    BY <2>2, <2>4
  <2>7. \A q \in Process \ {p} : thread'[q] = thread[q]
    BY <2>4
  <2>8. \A q \in Process \ {p} : thread'[q] = thread[q] /\ Keeps(q)
    BY <2>5, <2>7, Zenon
  <2> QED
    BY <2>4, <2>6, <2>8, Zenon
<1>4. /\ ThreadOK(p) /\ p \notin InRequest /\ ~ thread[p].dirty /\ thread[p].k = NoBuf
      /\ buf[k].refcnt \in Int /\ buf[k] \in Buffer
  BY <1>1, Typed DEF ThreadOK, At, AtDisk, HasLock, Buffer
<1>5. /\ thread'[p].at \notin HasLock /\ thread'[p].at \notin AtDisk /\ thread[p].at \notin HasLock
      /\ p \notin InRequest'
  BY <1>1, <1>3 DEF HasLock, AtDisk, InRequest
<1>6. ThreadOK(p)'
  BY <1>3, <1>5 DEF ThreadOK, At
<1>7. PICK n \in Int : n = buf[k].refcnt + 1
  BY <1>4
<1>8. /\ \A j \in Buf : buf'[j].lock = buf[j].lock /\ buf'[j].refcnt \in Int
      /\ \A j \in Buf \ {k} : /\ buf'[j].block = buf[j].block /\ buf'[j].valid = buf[j].valid
                              /\ buf'[j].refcnt = buf[j].refcnt
      /\ buf'[k].refcnt = n /\ buf'[k].block = b
      /\ \/ buf[k].block = b /\ buf'[k].valid = buf[k].valid
         \/ Cached(b) = {} /\ buf[k].refcnt = 0 /\ ~ buf'[k].valid
      /\ n \in 0..Cardinality(Process) + 1 => buf' \in [Buf -> Buffer]
  <2>1. CASE buf[k].block = b /\ Refers(k, buf[k].refcnt + 1)
    <3>1. Refers(k, n)
      BY <1>7, <2>1
    <3> QED
      BY <2>1, <3>1, RefersThat, Typed
  <2>2. CASE Cached(b) = {} /\ buf[k].refcnt = 0 /\ Recycle(k, b)
    <3>1. PICK c : c = [buf[k] EXCEPT !.block = b, !.valid = FALSE, !.refcnt = 1]
      OBVIOUS
    <3>2. 1 \in 0..Cardinality(Process) + 1
      <4>1. Cardinality(Process) \in Nat
        BY FS_CardinalityType
      <4> QED
        BY <4>1
    <3>3. c \in Buffer /\ c.block = b /\ ~ c.valid /\ c.refcnt = 1 /\ c.lock = buf[k].lock
      BY <1>4, <3>1, <3>2, Zenon DEF Buffer
    <3>4. buf' = [buf EXCEPT ![k] = c]
      BY <2>2, <3>1 DEF Recycle
    <3>5. buf' \in [Buf -> Buffer] /\ buf'[k] = c /\ \A j \in Buf \ {k} : buf'[j] = buf[j]
      BY <3>3, <3>4, Typed
    <3>6. n = 1 /\ \A j \in Buf : buf[j].refcnt \in Int
      BY <1>7, <2>2, Typed DEF Buffer
    <3> QED
      BY <2>2, <3>3, <3>5, <3>6
  <2> QED
    BY <1>2, <2>1, <2>2
<1>9. Counts(p)
  <2>1. ASSUME NEW j \in Buf
        PROVE  buf'[j].refcnt + Is(thread[p].k, j) + IsIn(j, pinned) =
               buf[j].refcnt + Is(thread'[p].k, j) + IsIn(j, pinned')
    <3>1. Is(thread[p].k, j) = 0
      BY <1>4 DEF Is
    <3>2. IsIn(j, pinned) = IsIn(j, pinned') /\ IsIn(j, pinned) \in Int
      BY <1>1 DEF IsIn
    <3>3. buf[j].refcnt \in Int
      BY Typed DEF Buffer
    <3>4. CASE j = k
      <4>1. Is(thread'[p].k, j) = 1
        BY <1>3, <3>4 DEF Is
      <4>2. buf'[j].refcnt = buf[j].refcnt + 1
        BY <1>7, <1>8, <3>4
      <4> QED
        BY <3>1, <3>2, <3>3, <4>1, <4>2
    <3>5. CASE j # k
      <4>1. Is(thread'[p].k, j) = 0
        BY <1>3, <3>5 DEF Is
      <4>2. buf'[j].refcnt = buf[j].refcnt
        BY <1>8, <3>5
      <4> QED
        BY <3>1, <3>2, <3>3, <4>1, <4>2
    <3> QED
      BY <3>4, <3>5
  <2> QED
    BY <1>8, <2>1 DEF Counts
<1>10. /\ \A j \in Buf : buf'[j].refcnt = References(j)' /\ buf'[j].refcnt \in 0..Cardinality(Process) + 1
       /\ buf' \in [Buf -> Buffer]
  <2>1. \A j \in Buf : buf'[j].refcnt = References(j)' /\ buf'[j].refcnt \in 0..Cardinality(Process) + 1
    BY <1>3, <1>9, Counted DEF IInv
  <2> QED
    BY <1>8, <2>1
<1>11. Quiet(p)
  BY <1>1, <1>3, <1>4, <1>5, <1>6, <1>8, <1>10, Typed DEF Quiet
<1>12. LockInv'
  BY <1>3, <1>5, <1>8, LockKept DEF IInv
<1>13. WaitInv'
  BY <1>1, <1>3, <1>8, WaitKept DEF At
<1>14. ASSUME Cached(b) = {}, buf[k].refcnt = 0
       PROVE  k \notin pinned /\ \A q \in Process : thread[q].k # k
  BY <1>14, NotReferred DEF IInv
<1>15. CacheInv'
  <2>1. ASSUME NEW i \in Buf, NEW j \in Buf, buf'[i].block = buf'[j].block, buf'[i].block # NoBlock
        PROVE  i = j
    <3>1. buf[k].block = b \/ Cached(b) = {}
      BY <1>8, Zenon
    <3>2. b # NoBlock
      BY VirtioAssumption
    <3>3. ASSUME NEW l \in Buf, l # k, buf[l].block = b
          PROVE  FALSE
      <4>1. Cached(b) # {}
        BY <3>3 DEF Cached
      <4>2. buf[l].block = buf[k].block /\ buf[l].block # NoBlock
        BY <3>1, <3>2, <3>3, <4>1, Zenon
      <4>3. l = k
        BY <4>2, CacheIs, Zenon
      <4> QED
        BY <3>3, <4>3, Zenon
    <3>4. \A l \in Buf : l # k => buf'[l].block = buf[l].block
      BY <1>8
    <3>5. buf'[k].block = b
      BY <1>8, Zenon
    <3>6. CASE i # k /\ j # k
      <4>1. buf[i].block = buf[j].block /\ buf[i].block # NoBlock
        BY <2>1, <3>4, <3>6, Zenon
      <4> QED
        BY <4>1, CacheIs, Zenon
    <3>7. CASE i = k /\ j # k
      BY <2>1, <3>3, <3>4, <3>5, <3>7, Zenon
    <3>8. CASE i # k /\ j = k
      BY <2>1, <3>3, <3>4, <3>5, <3>8, Zenon
    <3> QED
      BY <3>6, <3>7, <3>8, Zenon
  <2>2. ASSUME NEW j \in Buf, buf'[j].valid \/ buf'[j].refcnt # 0
        PROVE  buf'[j].block \in Block
    <3>1. CASE j = k
      BY <1>8, <3>1, Zenon
    <3>2. CASE j # k
      <4>1. buf'[j].block = buf[j].block /\ buf'[j].valid = buf[j].valid /\ buf'[j].refcnt = buf[j].refcnt
        BY <1>8, <3>2
      <4>2. buf[j].valid \/ buf[j].refcnt # 0
        BY <2>2, <4>1, Zenon
      <4>3. buf[j].block \in Block
        BY <4>2, CacheIs, Zenon
      <4> QED
        BY <4>1, <4>3, Zenon
    <3> QED
      BY <3>1, <3>2, Zenon
  <2>3. \A j \in Buf : \E i \in Buf : lru'[i] = j
    BY <1>1 DEF IInv, CacheInv
  <2> QED
    BY <1>10, <2>1, <2>2, <2>3, Zenon DEF CacheInv
<1>16. DataInv'
  <2>1. KnowsOK(p)'
    BY <1>3, <1>5 DEF KnowsOK, At
  <2>2. CASE buf[k].block = b /\ buf'[k].valid = buf[k].valid
    <3>1. /\ \A j \in Buf : data'[j] = data[j]
          /\ \A j \in Buf : buf'[j].block = buf[j].block /\ buf'[j].valid = buf[j].valid
          /\ \A j \in Buf : j \in pinned \/ (thread[p].k = j /\ thread[p].dirty) => j \in pinned'
          /\ pinned' \subseteq Buf /\ \A j \in pinned' : j \in pinned
      BY <1>1, <1>4, <1>8, <2>2, Typed
    <3> QED
      BY <1>1, <1>3, <1>5, <2>1, <3>1, DataKept
  <2>3. CASE Cached(b) = {} /\ buf[k].refcnt = 0 /\ ~ buf'[k].valid
    <3>1. k \notin pinned /\ \A q \in Process : thread[q].k # k
      BY <1>14, <2>3
    <3>2. ASSUME NEW q \in Process
          PROVE  KnowsOK(q)'
      <4>1. CASE q = p
        BY <2>1, <4>1
      <4>2. CASE q # p
        <5>1. KnowsOK(q) /\ thread'[q] = thread[q]
          BY <1>3, <4>2 DEF IInv, DataInv, KnowsOK
        <5>2. thread[q].at \in AtDisk \union {"holding"} \/ thread[q].dirty => thread[q].k \in Buf
          BY Typed DEF ThreadOK, At, Thread, AtDisk, HasLock
        <5> QED
          BY <1>8, <3>1, <5>1, <5>2 DEF KnowsOK, At
      <4> QED
        BY <4>1, <4>2
    <3>3. ASSUME NEW q \in InRequest', thread'[q].head \notin InDevice'
          PROVE  data'[thread'[q].k] = disk'[buf'[thread'[q].k].block]
      <4>1. q \in Process /\ q # p
        BY <1>5 DEF InRequest
      <4>2. thread'[q] = thread[q] /\ q \in InRequest /\ InDevice' = InDevice
        BY <1>1, <1>3, <4>1, InDevice2 DEF Keeps
      <4>3. thread[q].k \in Buf /\ thread[q].k # k
        BY <3>1, <4>1, <4>2, Typed DEF ThreadOK, At, Thread, InRequest
      <4> QED
        BY <1>1, <1>8, <3>3, <4>2, <4>3 DEF IInv, DataInv
    <3>4. ASSUME NEW j \in Buf, buf'[j].valid, data'[j] # disk'[buf'[j].block]
          PROVE  j \in pinned' \/ \E q \in Process : thread'[q].k = j /\ thread'[q].dirty
      <4>1. j # k
        BY <2>3, <3>4
      <4>2. j \in pinned \/ \E q \in Process : thread[q].k = j /\ thread[q].dirty
        BY <1>1, <1>8, <3>4, <4>1 DEF IInv, DataInv
      <4> QED
        BY <1>1, <1>3, <1>4, <4>2
    <3>5. \A j \in pinned' : buf'[j].valid
      BY <1>1, <1>8, <3>1, Typed DEF IInv, DataInv
    <3> QED
      BY <3>2, <3>3, <3>4, <3>5 DEF DataInv, KnowsOK
  <2> QED
    BY <1>8, <2>2, <2>3
<1> QED
  BY <1>11, <1>12, <1>13, <1>15, <1>16, QuietStep

-----------------------------------------------------------------------------
(* Steps of the device and the interrupt handler                           *)

LEMMA DriverTyped ==
  ASSUME IInv
  PROVE  /\ avail \in Ring /\ used \in Ring /\ used_idx \in Index /\ device.last \in Index
         /\ device.work \in SUBSET Desc /\ free \in SUBSET Desc
         /\ device \in [last : Index, work : SUBSET Desc, irq : BOOLEAN]
         /\ Pending = Entries(avail) /\ Reported = Entries(used)
BY DEF IInv, TypeOK, VirtioTypeOK, Ring, Index, Pending, Reported, Entries

(* A request is somewhere: who it is, and that it is the only one there.   *)
LEMMA RequestOf ==
  ASSUME IInv, NEW d \in InDevice \union Reported
  PROVE  \E p \in InRequest, k \in Buf :
           /\ d = thread[p].head /\ k = thread[p].k /\ buf[k].lock = p /\ d \in Desc
           /\ info[d].buf = k /\ desc[Second(d)].buf = k /\ buf[k].block \in Block
           /\ ops[d].write = thread[p].write /\ ops[d].block = buf[k].block
           /\ owned[k] /\ At(p, "rw_asleep")
           /\ \A q \in InRequest : q # p => thread[q].head # d /\ thread[q].k # k
<1>1. PICK p \in InRequest : d = thread[p].head
  BY DEF IInv, PlacesInv
<1>2. PICK k \in Buf : k = thread[p].k
  BY Typed DEF ThreadOK, At, Thread, InRequest
<1>3. /\ RequestOK(p) /\ owned[k] /\ d \in Desc
  BY <1>1, <1>2 DEF IInv, RequestInv, RequestOK, ChainInv
<1>4. \A q \in InRequest : q \in Process /\ thread[q].at \in HasLock
  BY DEF InRequest, HasLock, AtDisk
<1>5. buf[k].lock = p
  BY <1>2, <1>4 DEF IInv, LockInv
<1>6. buf[k].block \in Block
  <2>2. buf[k].refcnt # 0
    BY <1>2, <1>4, NotReferred DEF IInv
  <2> QED
    BY <2>2, CacheIs, Zenon
<1>7. ASSUME NEW q \in InRequest, q # p
      PROVE  thread[q].head # d /\ thread[q].k # k
  <2>1. thread[q].head # d
    <3>1. ChainInv
      BY Zenon DEF IInv
    <3>2. Chain(thread[p].head) \intersect Chain(thread[q].head) = {}
      BY <1>1, <1>7, <3>1 DEF ChainInv
    <3>3. thread[p].head \in Chain(thread[p].head) /\ thread[q].head \in Chain(thread[q].head)
      BY DEF Chain
    <3> QED
      BY <1>1, <3>2, <3>3
  <2>2. thread[q].k # k
    BY <1>4, <1>5, <1>7 DEF IInv, LockInv
  <2> QED
    BY <2>1, <2>2
<1> QED
  BY <1>1, <1>2, <1>3, <1>5, <1>6, <1>7 DEF RequestOK

(* Threads, cache and free descriptors as they are.                        *)
LEMMA HardwareFrame ==
  ASSUME IInv, thread' = thread, cache' = cache, free' = free
  PROVE  /\ ThreadInv' /\ LockInv' /\ CacheInv' /\ WaitInv' /\ InRequest' = InRequest
         /\ VirtioTypeOK' => TypeOK'
<1>1. buf' = buf /\ lru' = lru /\ pinned' = pinned
  BY DEF cache
<1>2. ThreadInv' /\ InRequest' = InRequest
  BY DEF IInv, ThreadInv, ThreadOK, InRequest, At
<1>3. LockInv'
  BY <1>1 DEF IInv, LockInv
<1>4. CacheInv'
  <2>1. \A k : References(k)' = References(k)
    BY <1>1 DEF References
  <2> QED
    BY <1>1, <2>1 DEF IInv, CacheInv
<1>5. WaitInv'
  BY <1>1 DEF IInv, WaitInv, At
<1>6. VirtioTypeOK' => TypeOK'
  BY <1>1, Zenon DEF IInv, TypeOK
<1> QED
  BY <1>2, <1>3, <1>4, <1>5, <1>6

LEMMA DeviceFetchesKeeps ==
  ASSUME IInv, DeviceFetches, UNCHANGED cache
  PROVE  IInv'
<1>1. /\ device.last # avail.idx
      /\ disk' = disk /\ data' = data /\ owned' = owned /\ free' = free /\ desc' = desc /\ ops' = ops
      /\ info' = info /\ used' = used /\ used_idx' = used_idx /\ intr' = intr /\ thread' = thread
      /\ cache' = cache /\ buf' = buf /\ pinned' = pinned
  BY DEF DeviceFetches, cache
<1>2. PICK x : x = avail.ring[device.last % NUM]
  OBVIOUS
<1>3. /\ device'.last = (device.last + 1) % IdxMod /\ device'.work = device.work \union {x}
      /\ device'.irq = device.irq /\ DOMAIN device' = {"last", "work", "irq"}
      /\ device' = [last |-> (device.last + 1) % IdxMod, work |-> device.work \union {x}, irq |-> device.irq]
      /\ avail' = Taken(avail, device.last)
  BY <1>2, DriverTyped, Zenon DEF DeviceFetches, Taken
<1>4. /\ x \in Pending /\ x \in Desc /\ device'.last \in Index
      /\ avail' \in Ring /\ RingOK(avail', device'.last) /\ Pending' = Pending \ {x}
  <2>1. Pending' = Entries(avail')
    BY DEF Pending, Entries
  <2>2. RingOK(avail, device.last)
    BY DEF IInv, DeviceInv
  <2> QED
    BY <1>1, <1>2, <1>3, <2>1, <2>2, RingTake, DriverTyped
<1>5. Pending \intersect device.work = {}
  BY DEF IInv, DeviceInv
<1>6. InDevice' = InDevice /\ Reported' = Reported
  BY <1>1, <1>3, <1>4 DEF InDevice, Reported
<1>7. VirtioTypeOK'
  <2>1. device' \in [last : Index, work : SUBSET Desc, irq : BOOLEAN]
    BY <1>3, <1>4, DriverTyped
  <2>2. VirtioTypeOK
    BY Zenon DEF IInv, TypeOK
  <2>3. /\ disk' \in [Block -> Val] /\ data' \in [Buf -> Val]
        /\ owned' \in [Buf -> BOOLEAN] /\ free' \subseteq Desc
        /\ desc' \in [Desc -> [next : Desc \union {NoDesc}, buf : Buf \union {NoBuf}]]
        /\ ops' \in [Desc -> [write : BOOLEAN, block : Block \union {NoBlock}]]
        /\ info' \in [Desc -> [buf : Buf \union {NoBuf}, ok : BOOLEAN]]
        /\ intr' \in BOOLEAN
    BY <1>1, <2>2, Zenon DEF VirtioTypeOK
  <2>4. used' \in Ring /\ used_idx' \in Index
    BY <1>1, DriverTyped, Zenon
  <2>5. {avail', used'} \subseteq Ring
    BY <1>4, <2>4, Zenon
  <2> QED
    BY <2>1, <2>3, <2>4, <2>5, Zenon DEF VirtioTypeOK, Ring, Index
<1>8. /\ ThreadInv' /\ LockInv' /\ CacheInv' /\ WaitInv' /\ InRequest' = InRequest /\ TypeOK'
  BY <1>1, <1>7, HardwareFrame
<1>9. ChainInv' /\ RequestInv' /\ PlacesInv'
  <2>1. SameRequests
    BY <1>1, <1>6, <1>8 DEF SameRequests
  <2> QED
    BY <2>1, Frame DEF IInv
<1>10. DeviceInv'
  <2>1. RingOK(used, used_idx)'
    BY <1>1, Zenon DEF IInv, DeviceInv, RingOK
  <2>2. RingOK(avail, device.last)'
    BY <1>4, Zenon DEF RingOK
  <2> QED
    BY <1>1, <1>3, <1>4, <1>5, <2>1, <2>2 DEF IInv, DeviceInv
<1>11. DataInv'
  BY <1>1, <1>6, <1>8 DEF IInv, DataInv, At
<1> QED
  BY <1>8, <1>9, <1>10, <1>11 DEF IInv

LEMMA IntrAckKeeps ==
  ASSUME IInv, IntrAck, UNCHANGED cache
  PROVE  IInv'
<1>1. /\ disk' = disk /\ data' = data /\ owned' = owned /\ free' = free /\ desc' = desc /\ ops' = ops
      /\ info' = info /\ used' = used /\ used_idx' = used_idx /\ avail' = avail /\ thread' = thread
      /\ cache' = cache /\ buf' = buf /\ pinned' = pinned
      /\ intr' \in BOOLEAN /\ (intr' => used_idx # used.idx)
  BY Zenon DEF IntrAck, cache
<1>2. device' = [last |-> device.last, work |-> device.work, irq |-> FALSE]
  BY DriverTyped, Zenon DEF IntrAck
<1>3. InDevice' = InDevice /\ Reported' = Reported /\ Pending' = Pending
  BY <1>1, <1>2 DEF InDevice, Reported, Pending
<1>4. VirtioTypeOK'
  <2>1. device' \in [last : Index, work : SUBSET Desc, irq : BOOLEAN]
    BY <1>2, DriverTyped
  <2> QED
    BY <1>1, <2>1, Zenon DEF IInv, TypeOK, VirtioTypeOK, Index
<1>5. /\ ThreadInv' /\ LockInv' /\ CacheInv' /\ WaitInv' /\ InRequest' = InRequest /\ TypeOK'
  BY <1>1, <1>4, HardwareFrame
<1>6. ChainInv' /\ RequestInv' /\ PlacesInv'
  <2>1. SameRequests
    BY <1>1, <1>3, <1>5 DEF SameRequests
  <2> QED
    BY <2>1, Frame DEF IInv
<1>7. DeviceInv'
  <2>1. device'.last = device.last /\ device'.work = device.work
    BY <1>2
  <2>2. RingOK(used, used_idx)'
    BY <1>1, Zenon DEF IInv, DeviceInv, RingOK
  <2>3. RingOK(avail, device.last)'
    <3>1. RingOK(avail', device'.last)
      BY <1>1, <2>1, Zenon DEF IInv, DeviceInv
    <3> QED
      BY <3>1, Zenon DEF RingOK
  <2> QED
    BY <1>1, <1>3, <2>1, <2>2, <2>3 DEF IInv, DeviceInv
<1>8. DataInv'
  BY <1>1, <1>3, <1>5 DEF IInv, DataInv, At
<1> QED
  BY <1>5, <1>6, <1>7, <1>8 DEF IInv

LEMMA DeviceFinishesKeeps ==
  ASSUME IInv, NEW d \in Desc, DeviceFinishes(d), UNCHANGED cache
  PROVE  IInv'
<1>1. /\ d \in device.work
      /\ owned' = owned /\ free' = free /\ desc' = desc /\ ops' = ops /\ used_idx' = used_idx
      /\ avail' = avail /\ intr' = intr /\ thread' = thread
      /\ cache' = cache /\ buf' = buf /\ lru' = lru /\ pinned' = pinned
  BY DEF DeviceFinishes, cache
<1>2. d \in InDevice /\ d \notin Reported /\ d \notin Pending
  BY <1>1 DEF InDevice, IInv, DeviceInv, PlacesInv
<1>3. PICK p \in InRequest, k \in Buf :
           /\ d = thread[p].head /\ k = thread[p].k /\ buf[k].lock = p /\ d \in Desc
           /\ info[d].buf = k /\ desc[Second(d)].buf = k /\ buf[k].block \in Block
           /\ ops[d].write = thread[p].write /\ ops[d].block = buf[k].block
           /\ owned[k] /\ At(p, "rw_asleep")
           /\ \A q \in InRequest : q # p => thread[q].head # d /\ thread[q].k # k
  BY <1>2, RequestOf
<1>4. PICK b \in Block : b = buf[k].block
  BY <1>3
<1>5. /\ device' = [last |-> device.last, work |-> device.work \ {d}, irq |-> TRUE]
      /\ used' = Added(used, d)
      /\ info' = [info EXCEPT ![d].ok = TRUE]
      /\ \/ disk' = [disk EXCEPT ![b] = data[k]] /\ data' = data
         \/ disk' = disk /\ data' = [data EXCEPT ![k] = disk[b]]
  <2>1. /\ info' = [info EXCEPT ![d].ok = TRUE]
        /\ used' = Added(used, d)
        /\ device' = [device EXCEPT !.work = @ \ {d}, !.irq = TRUE]
    BY DEF DeviceFinishes, Added
  <2>2. /\ disk' = IF ops[d].write THEN [disk EXCEPT ![b] = data[k]] ELSE disk
        /\ data' = IF ops[d].write THEN data ELSE [data EXCEPT ![k] = disk[b]]
    BY <1>3, <1>4 DEF DeviceFinishes, Second
  <2>3. device' = [last |-> device.last, work |-> device.work \ {d}, irq |-> TRUE]
    BY <2>1, DriverTyped, Zenon
  <2> QED
    BY <2>1, <2>2, <2>3, Zenon
<1>6. /\ used' \in Ring /\ RingOK(used', used_idx) /\ Reported' = Reported \union {d}
  <2>1. PICK e \in Desc : e = Second(d) /\ e # d
    BY <1>3 DEF IInv, ChainInv
  <2>2. e \notin Reported
    <3>1. ASSUME e \in Reported
          PROVE  FALSE
      <4>1. PICK q \in InRequest : e = thread[q].head
        BY <3>1 DEF IInv, PlacesInv
      <4>2. q # p
        BY <1>3, <2>1, <4>1
      <4>3. e \in Chain(thread[q].head) /\ e \in Chain(thread[p].head)
        BY <1>3, <2>1, <4>1 DEF Chain, Second
      <4> QED
        BY <4>2, <4>3, Zenon DEF IInv, ChainInv
    <3> QED
      BY <3>1
  <2>3. RingOK(used, used_idx) /\ d \notin Entries(used) /\ e \notin Entries(used)
    BY <1>2, <2>2, DriverTyped DEF IInv, DeviceInv
  <2>4. Length(used, used_idx) + 1 < NUM
    BY <2>1, <2>3, Room, DriverTyped
  <2>5. Reported' = Entries(used')
    BY DEF Reported, Entries
  <2> QED
    BY <1>5, <2>3, <2>4, <2>5, RingAdd, DriverTyped
<1>7. InDevice' = InDevice \ {d} /\ Pending' = Pending
  <2>1. Pending' = Pending
    BY <1>1 DEF Pending
  <2>2. device'.work = device.work \ {d} /\ d \notin Pending
    BY <1>2, <1>5
  <2> QED
    BY <2>1, <2>2 DEF InDevice
<1>8. /\ \A j \in Buf : j # k => data'[j] = data[j]
      /\ \A c \in Block : c # b => disk'[c] = disk[c]
      /\ data'[k] = disk'[b]
      /\ data' \in [Buf -> Val] /\ disk' \in [Block -> Val]
  BY <1>5, Typed, Zenon
<1>9. /\ info' \in [Desc -> [buf : Buf \union {NoBuf}, ok : BOOLEAN]]
      /\ info'[d].ok /\ info'[d].buf = k /\ \A e \in Desc : e # d => info'[e] = info[e]
  <2>1. info \in [Desc -> [buf : Buf \union {NoBuf}, ok : BOOLEAN]]
    BY Zenon DEF IInv, TypeOK, VirtioTypeOK
  <2>2. info' = [info EXCEPT ![d].ok = TRUE]
    BY <1>5, Zenon
  <2>3. PICK c : c = [info[d] EXCEPT !.ok = TRUE]
    OBVIOUS
  <2>4. info[d] \in [buf : Buf \union {NoBuf}, ok : BOOLEAN] /\ info[d].buf = k
    BY <1>3, <2>1, Zenon
  <2>5. c \in [buf : Buf \union {NoBuf}, ok : BOOLEAN] /\ c.ok /\ c.buf = k
    BY <2>3, <2>4
  <2>6. info' = [info EXCEPT ![d] = c]
    BY <2>2, <2>3
  <2>7. /\ info' \in [Desc -> [buf : Buf \union {NoBuf}, ok : BOOLEAN]]
        /\ info'[d] = c /\ \A e \in Desc : e # d => info'[e] = info[e]
    BY <2>1, <2>5, <2>6
  <2> QED
    BY <2>5, <2>7, Zenon
<1>10. VirtioTypeOK'
  <2>1. device' \in [last : Index, work : SUBSET Desc, irq : BOOLEAN]
    BY <1>5, DriverTyped
  <2>2. VirtioTypeOK
    BY Zenon DEF IInv, TypeOK
  <2>3. /\ owned' \in [Buf -> BOOLEAN] /\ free' \subseteq Desc
        /\ desc' \in [Desc -> [next : Desc \union {NoDesc}, buf : Buf \union {NoBuf}]]
        /\ ops' \in [Desc -> [write : BOOLEAN, block : Block \union {NoBlock}]]
        /\ intr' \in BOOLEAN
    BY <1>1, <2>2, Zenon DEF VirtioTypeOK
  <2>4. avail' \in Ring /\ used_idx' \in Index
    BY <1>1, DriverTyped, Zenon
  <2>5. {avail', used'} \subseteq Ring
    BY <1>6, <2>4, Zenon
  <2> QED
    BY <1>8, <1>9, <2>1, <2>3, <2>4, <2>5, Zenon DEF VirtioTypeOK, Ring, Index
<1>11. /\ ThreadInv' /\ LockInv' /\ CacheInv' /\ WaitInv' /\ InRequest' = InRequest /\ TypeOK'
  BY <1>1, <1>10, HardwareFrame
<1>12. ChainInv'
  <2>1. ChainInv
    BY DEF IInv
  <2> QED
    BY <1>1, <1>11, <2>1, ChainsKept, Zenon
<1>13. RequestInv'
  <2>1. ASSUME NEW q \in InRequest
        PROVE  RequestOK(q)'
    <3>1. RequestOK(q) /\ thread[q].head \in Desc
      BY DEF IInv, RequestInv, ChainInv
    <3>2. CASE q = p
      <4>1. thread'[q].head = d /\ thread'[q].k = k
        BY <1>1, <1>3, <3>2
      <4>2. /\ info'[d].buf = k /\ desc'[Second(d)'].buf = k
            /\ ops'[d].write = thread'[q].write /\ ops'[d].block = buf'[k].block
        BY <1>1, <1>3, <1>9, <3>2 DEF Second
      <4>3. owned'[k] /\ d \in Reported' /\ At(q, "rw_asleep")' /\ info'[d].ok /\ d \notin InDevice'
        BY <1>1, <1>3, <1>6, <1>7, <1>9, <3>2 DEF At
      <4> QED
        BY <4>1, <4>2, <4>3 DEF RequestOK
    <3>3. CASE q # p
      <4>1. thread[q].head # d
        BY <1>3, <3>3
      <4>2. PICK e \in Desc : e = thread[q].head /\ e = thread'[q].head
        BY <1>1, <3>1
      <4>3. info'[e] = info[e] /\ (e \in InDevice' <=> e \in InDevice) /\ (e \in Reported' <=> e \in Reported)
        BY <1>6, <1>7, <1>9, <4>1, <4>2
      <4> QED
        BY <1>1, <3>1, <4>2, <4>3 DEF RequestOK, At, Second
    <3> QED
      BY <3>2, <3>3
  <2> QED
    BY <1>11, <2>1 DEF RequestInv
<1>14. PlacesInv'
  BY <1>1, <1>2, <1>6, <1>7, <1>11 DEF IInv, PlacesInv
<1>15. DeviceInv'
  <2>1. device'.last = device.last /\ device'.work = device.work \ {d}
    BY <1>5
  <2>2. RingOK(used, used_idx)'
    <3>1. RingOK(used', used_idx')
      BY <1>1, <1>6, Zenon
    <3> QED
      BY <3>1, Zenon DEF RingOK
  <2>3. RingOK(avail, device.last)'
    <3>1. RingOK(avail', device'.last)
      BY <1>1, <2>1, Zenon DEF IInv, DeviceInv
    <3> QED
      BY <3>1, Zenon DEF RingOK
  <2>4. intr' => used_idx' # used'.idx
    <3>1. CASE used'.idx = used_idx
      <4>1. Entries(used') = {}
        <5>1. HoldsFrom(used', used_idx, Length(used', used_idx)) /\ Length(used', used_idx) = 0
          BY <1>6, <3>1, RingIs, DriverTyped
        <5>2. \A s \in Desc : ~ InWindow(s, used_idx, 0)
          BY DEF InWindow
        <5>3. \A s \in Desc : used'.ring[s] = NoDesc
          BY <5>1, <5>2, Zenon DEF HoldsFrom
        <5> QED
          BY <5>3 DEF Entries
      <4>2. Entries(used') = Reported'
        BY DEF Entries, Reported
      <4> QED
        BY <1>6, <4>1, <4>2
    <3> QED
      BY <1>1, <3>1
  <2> QED
    BY <1>7, <2>1, <2>2, <2>3, <2>4 DEF IInv, DeviceInv
<1>16. DataInv'
  <2>1. ASSUME NEW j \in Buf, buf[j].valid
        PROVE  data'[j] = disk'[buf[j].block] \/ (data'[j] = data[j] /\ disk'[buf[j].block] = disk[buf[j].block])
    <3>1. CASE j = k
      BY <1>4, <1>8, <3>1
    <3>2. CASE j # k
      <4>1. buf[j].block \in Block /\ buf[j].block # NoBlock
        BY <2>1 DEF IInv, CacheInv
      <4>2. buf[j].block # b
        BY <1>4, <3>2, <4>1 DEF IInv, CacheInv
      <4> QED
        BY <1>8, <3>2, <4>1, <4>2
    <3> QED
      BY <3>1, <3>2
  <2>2. ASSUME NEW j \in Buf, buf'[j].valid, data'[j] # disk'[buf'[j].block]
        PROVE  j \in pinned' \/ \E q \in Process : thread'[q].k = j /\ thread'[q].dirty
    BY <1>1, <2>1, <2>2 DEF IInv, DataInv
  <2>3. ASSUME NEW q \in InRequest', thread'[q].head \notin InDevice'
        PROVE  data'[thread'[q].k] = disk'[buf'[thread'[q].k].block]
    <3>1. q \in InRequest /\ q \in Process
      BY <1>11 DEF InRequest
    <3>2. CASE q = p
      BY <1>1, <1>3, <1>4, <1>8, <3>2
    <3>3. CASE q # p
      <4>1. thread[q].head # d /\ thread[q].k # k
        BY <1>3, <3>1, <3>3
      <4>2. PICK j \in Buf : j = thread[q].k
        BY <3>1, Typed, Zenon DEF ThreadOK, At, Thread
      <4>3. buf[j].block \in Block
        <5>1. buf[j].refcnt # 0
          BY <3>1, <4>2, NotReferred DEF IInv
        <5> QED
          BY <5>1 DEF IInv, CacheInv
      <4>4. buf[j].block # b
        BY <1>4, <4>1, <4>2, <4>3 DEF IInv, CacheInv
      <4>5. data[j] = disk[buf[j].block]
        BY <1>1, <1>7, <2>3, <3>1, <4>1, <4>2 DEF IInv, DataInv
      <4> QED
        BY <1>1, <1>8, <4>1, <4>2, <4>3, <4>4, <4>5
    <3> QED
      BY <3>2, <3>3
  <2>4. /\ \A q \in Process : KnowsOK(q)' 
        /\ \A j \in pinned' : buf'[j].valid
    BY <1>1 DEF IInv, DataInv, KnowsOK, At
  <2> QED
    BY <2>2, <2>3, <2>4 DEF DataInv, KnowsOK
<1> QED
  BY <1>11, <1>12, <1>13, <1>14, <1>15, <1>16 DEF IInv

(* The handler never meets an entry that did not go well.                  *)
LEMMA NoPanic ==
  ASSUME IInv, intr
  PROVE  ~ IntrPanics
<1>1. used_idx # used.idx /\ RingOK(used, used_idx)
  BY DEF IInv, DeviceInv
<1>2. PICK x : x = used.ring[used_idx % NUM]
  OBVIOUS
<1>3. x \in Reported
  BY <1>1, <1>2, RingTake, DriverTyped
<1>4. x \notin InDevice
  BY <1>3 DEF IInv, PlacesInv
<1>5. PICK p \in InRequest : x = thread[p].head
  BY <1>3 DEF IInv, PlacesInv
<1>6. info[x].ok
  BY <1>4, <1>5 DEF IInv, RequestInv, RequestOK
<1> QED
  BY <1>2, <1>6 DEF IntrPanics

LEMMA IntrEntryKeeps ==
  ASSUME IInv, IntrEntry, UNCHANGED cache
  PROVE  IInv'
<1>1. /\ intr
      /\ disk' = disk /\ data' = data /\ free' = free /\ desc' = desc /\ ops' = ops /\ info' = info
      /\ avail' = avail /\ device' = device
      /\ cache' = cache /\ buf' = buf /\ lru' = lru /\ pinned' = pinned
      /\ intr' \in BOOLEAN /\ (intr' => used_idx' # used.idx)
  BY Zenon DEF IntrEntry, cache
<1>2. used_idx # used.idx /\ RingOK(used, used_idx)
  BY <1>1 DEF IInv, DeviceInv
<1>3. PICK x : x = used.ring[used_idx % NUM]
  OBVIOUS
<1>4. x \in Reported /\ x \notin InDevice
  <2>1. x \in Reported
    BY <1>2, <1>3, RingTake, DriverTyped
  <2> QED
    BY <2>1 DEF IInv, PlacesInv
<1>5. PICK p \in InRequest, k \in Buf :
           /\ x = thread[p].head /\ k = thread[p].k /\ buf[k].lock = p /\ x \in Desc
           /\ info[x].buf = k /\ desc[Second(x)].buf = k /\ buf[k].block \in Block
           /\ ops[x].write = thread[p].write /\ ops[x].block = buf[k].block
           /\ owned[k] /\ At(p, "rw_asleep")
           /\ \A q \in InRequest : q # p => thread[q].head # x /\ thread[q].k # k
  BY <1>4, RequestOf
<1>6. /\ owned' = [owned EXCEPT ![k] = FALSE] /\ thread' = WakeFor(thread, k, "rw_asleep", "rw_woken")
      /\ used' = Taken(used, used_idx) /\ used_idx' = (used_idx + 1) % IdxMod
  BY <1>3, <1>5 DEF IntrEntry, Complete, Taken
<1>7. /\ used' \in Ring /\ RingOK(used', used_idx') /\ used_idx' \in Index /\ Reported' = Reported \ {x}
      /\ used'.idx = used.idx
  <2>1. Reported' = Entries(used')
    BY DEF Reported, Entries
  <2>2. used'.idx = used.idx
    BY <1>6, DriverTyped DEF Taken, Ring
  <2> QED
    BY <1>2, <1>3, <1>6, <2>1, <2>2, RingTake, DriverTyped
<1>8. /\ owned' \in [Buf -> BOOLEAN] /\ ~ owned'[k] /\ \A j \in Buf : j # k => owned'[j] = owned[j]
  BY <1>6 DEF IInv, TypeOK, VirtioTypeOK
<1>9. p \in Process /\ thread[p].at = "rw_asleep" /\ thread[p] \in Thread
  BY <1>5, Typed DEF InRequest, At
<1>10. /\ thread' \in [Process -> Thread]
       /\ thread'[p].at = "rw_woken" /\ thread'[p].k = k /\ thread'[p].head = x
       /\ thread'[p].write = thread[p].write /\ thread'[p].dirty = thread[p].dirty
       /\ \A q \in Process \ {p} : thread'[q] = thread[q]
  <2>1. "rw_woken" \in Location
    BY DEF Location
  <2>2. thread' \in [Process -> Thread]
    BY <1>6, <2>1, Wakes, Typed
  <2>3. thread'[p] = [thread[p] EXCEPT !.at = "rw_woken"]
    BY <1>5, <1>6, <1>9 DEF WakeFor
  <2>4. ASSUME NEW q \in Process, q # p
        PROVE  thread'[q] = thread[q]
    <3>1. ~ (thread[q].at = "rw_asleep" /\ thread[q].k = k)
      BY <1>5, <2>4 DEF InRequest
    <3> QED
      BY <1>6, <3>1 DEF WakeFor
  <2>5. /\ thread'[p].at = "rw_woken" /\ thread'[p].k = thread[p].k /\ thread'[p].head = thread[p].head
        /\ thread'[p].write = thread[p].write /\ thread'[p].dirty = thread[p].dirty
    <3>1. PICK u : u = [thread[p] EXCEPT !.at = "rw_woken"]
      OBVIOUS
    <3>2. /\ u.at = "rw_woken" /\ u.k = thread[p].k /\ u.head = thread[p].head
          /\ u.write = thread[p].write /\ u.dirty = thread[p].dirty
      BY <1>9, <2>1, <3>1, SetAt
    <3>3. thread'[p] = u
      BY <2>3, <3>1, Zenon
    <3> QED
      BY <3>2, <3>3, Zenon
  <2>6. thread[p].k = k /\ thread[p].head = x
    BY <1>5
  <2> QED
    BY <2>2, <2>4, <2>5, <2>6, Zenon
<1>11. InRequest' = InRequest
  BY <1>5, <1>10 DEF InRequest
<1>12. InDevice' = InDevice /\ Pending' = Pending
  BY <1>1 DEF InDevice, Pending
<1>13. TypeOK'
  <2>1. VirtioTypeOK'
    <3>1. VirtioTypeOK
      BY Zenon DEF IInv, TypeOK
    <3>2. used' \in Ring /\ used_idx' \in Index
      BY <1>7, Zenon
    <3>3. owned' \in [Buf -> BOOLEAN]
      BY <1>8, Zenon
    <3>4. /\ disk' \in [Block -> Val] /\ data' \in [Buf -> Val] /\ free' \subseteq Desc
          /\ desc' \in [Desc -> [next : Desc \union {NoDesc}, buf : Buf \union {NoBuf}]]
          /\ ops' \in [Desc -> [write : BOOLEAN, block : Block \union {NoBlock}]]
          /\ info' \in [Desc -> [buf : Buf \union {NoBuf}, ok : BOOLEAN]]
          /\ intr' \in BOOLEAN
      BY <1>1, <3>1, Zenon DEF VirtioTypeOK
    <3>5. device' \in [last : Index, work : SUBSET Desc, irq : BOOLEAN]
      BY <1>1, DriverTyped, Zenon
    <3>6. avail' \in Ring
      BY <1>1, DriverTyped, Zenon
    <3>7. {avail', used'} \subseteq Ring
      BY <3>2, <3>6, Zenon
    <3> QED
      BY <3>2, <3>3, <3>4, <3>5, <3>7, Zenon DEF VirtioTypeOK, Ring, Index
  <2>2. TypeOK
    BY Zenon DEF IInv
  <2>3. buf' = buf /\ lru' = lru /\ pinned' = pinned /\ thread' \in [Process -> Thread]
    BY <1>1, <1>10, Zenon
  <2> QED
    BY <2>1, <2>2, <2>3, Zenon DEF TypeOK, Thread
<1>14. \A q \in Process :
         /\ thread'[q].k = thread[q].k /\ thread'[q].head = thread[q].head
         /\ thread'[q].write = thread[q].write /\ thread'[q].dirty = thread[q].dirty
         /\ thread'[q].at \in AtDisk <=> thread[q].at \in AtDisk
         /\ thread'[q].at \in HasLock <=> thread[q].at \in HasLock
         /\ \A l \in {"idle", "holding", "rw_nodesc", "lock_asleep"} : At(q, l)' <=> At(q, l)
  <2>1. ASSUME NEW q \in Process
        PROVE  /\ thread'[q].k = thread[q].k /\ thread'[q].head = thread[q].head
               /\ thread'[q].write = thread[q].write /\ thread'[q].dirty = thread[q].dirty
               /\ thread'[q].at \in AtDisk <=> thread[q].at \in AtDisk
               /\ thread'[q].at \in HasLock <=> thread[q].at \in HasLock
               /\ \A l \in {"idle", "holding", "rw_nodesc", "lock_asleep"} :
                    At(q, l)' <=> At(q, l)
    <3>1. CASE q = p
      BY <1>5, <1>9, <1>10, <3>1 DEF At, AtDisk, HasLock
    <3>2. CASE q # p
      BY <1>10, <3>2 DEF At
    <3> QED
      BY <3>1, <3>2, Zenon
  <2> QED
    BY <2>1, Zenon
<1>15. ThreadInv'
  BY <1>11, <1>14 DEF IInv, ThreadInv, ThreadOK
<1>16. LockInv'
  BY <1>1, <1>14 DEF IInv, LockInv
<1>17. CacheInv'
  <2>1. \A j : References(j)' = References(j)
    BY <1>1, <1>14, Zenon DEF References
  <2> QED
    BY <1>1, <2>1 DEF IInv, CacheInv
<1>18. WaitInv'
  BY <1>1, <1>14 DEF IInv, WaitInv
<1>19. ChainInv'
  <2>1. \A q \in InRequest : thread'[q].head = thread[q].head
    BY <1>14 DEF InRequest
  <2> QED
    BY <1>1, <1>11, <2>1, ChainsKept DEF IInv
<1>20. RequestInv'
  <2>1. ASSUME NEW q \in InRequest
        PROVE  RequestOK(q)'
    <3>1. RequestOK(q) /\ q \in Process
      BY DEF IInv, RequestInv, InRequest
    <3>2. CASE q = p
      <4>1. /\ info'[x].buf = k /\ desc'[Second(x)'].buf = k
            /\ ops'[x].write = thread'[q].write /\ ops'[x].block = buf'[k].block
        BY <1>1, <1>5, <1>10, <3>2 DEF Second
      <4>2. ~ owned'[k] /\ x \notin Reported' /\ x \notin InDevice' /\ ~ At(q, "rw_asleep")' /\ info'[x].ok
        BY <1>1, <1>4, <1>5, <1>7, <1>8, <1>10, <1>12, <3>1, <3>2 DEF At, RequestOK
      <4> QED
        BY <1>10, <3>2, <4>1, <4>2 DEF RequestOK
    <3>3. CASE q # p
      <4>1. thread[q].head # x /\ thread[q].k # k /\ thread'[q] = thread[q] /\ thread[q].k \in Buf
        BY <1>5, <1>10, <3>1, <3>3, Typed DEF ThreadOK, At, Thread
      <4>2. owned'[thread[q].k] = owned[thread[q].k]
        BY <1>8, <4>1
      <4>3. thread[q].head \in Reported' <=> thread[q].head \in Reported
        BY <1>7, <4>1
      <4> QED
        BY <1>1, <1>12, <3>1, <4>1, <4>2, <4>3 DEF RequestOK, At, Second
    <3> QED
      BY <3>2, <3>3
  <2> QED
    BY <1>11, <2>1 DEF RequestInv
<1>21. PlacesInv'
  <2>1. {thread'[q].head : q \in InRequest'} = {thread[q].head : q \in InRequest}
    BY <1>11, <1>14 DEF InRequest
  <2>2. \A j \in Buf : owned'[j] => \E q \in InRequest' : thread'[q].k = j
    BY <1>8, <1>11, <1>14 DEF IInv, PlacesInv, InRequest
  <2> QED
    BY <1>7, <1>12, <2>1, <2>2 DEF IInv, PlacesInv
<1>22. DeviceInv'
  <2>2. RingOK(used, used_idx)'
    <3>1. RingOK(used', used_idx')
      BY <1>7, Zenon
    <3> QED
      BY <3>1, Zenon DEF RingOK
  <2>3. RingOK(avail, device.last)'
    <3>1. RingOK(avail', device'.last)
      BY <1>1, Zenon DEF IInv, DeviceInv
    <3> QED
      BY <3>1, Zenon DEF RingOK
  <2> QED
    BY <1>1, <1>7, <1>12, <2>2, <2>3 DEF IInv, DeviceInv
<1>23. DataInv'
  <2>1. \A q \in InRequest : q \in Process
    BY DEF InRequest
  <2> QED
    BY <1>1, <1>11, <1>12, <1>14, <2>1 DEF IInv, DataInv
<1> QED
  BY <1>13, <1>15, <1>16, <1>17, <1>18, <1>19, <1>20, <1>21, <1>22, <1>23 DEF IInv

-----------------------------------------------------------------------------
(* A request is submitted, and is over                                     *)

(* Only who works on it has a buffer with the disk.                        *)
LEMMA LockedAlone ==
  ASSUME IInv, NEW p \in Process, thread[p].at \in HasLock
  PROVE  /\ thread[p].k \in Buf /\ buf[thread[p].k].block \in Block
         /\ \A q \in Process \ {p} : thread[q].at \in HasLock => thread[q].k # thread[p].k
         /\ \A q \in InRequest : q \in Process /\ thread[q].at \in HasLock /\ thread[q].k \in Buf
<1>1. PICK k \in Buf : k = thread[p].k
  BY Typed DEF ThreadOK, At, Thread, HasLock, AtDisk
<1>2. buf[k].refcnt # 0
  BY <1>1, NotReferred DEF IInv
<1>3. buf[k].block \in Block
  BY <1>2 DEF IInv, CacheInv
<1>4. \A q \in Process \ {p} : thread[q].at \in HasLock => thread[q].k # k
  BY <1>1 DEF IInv, LockInv
<1>5. \A q \in InRequest : q \in Process /\ thread[q].at \in HasLock /\ thread[q].k \in Buf
  BY Typed DEF InRequest, HasLock, AtDisk, ThreadOK, At, Thread
<1> QED
  BY <1>1, <1>3, <1>4, <1>5

LEMMA SubmitKeeps ==
  ASSUME IInv, NEW p \in Process, Submit(p)
  PROVE  IInv'
<1>1. /\ thread[p].at = "rw" /\ Cardinality(free) >= 3
      /\ disk' = disk /\ data' = data /\ used' = used /\ used_idx' = used_idx /\ device' = device
      /\ intr' = intr /\ cache' = cache /\ buf' = buf /\ lru' = lru /\ pinned' = pinned
  BY DEF Submit, RwSubmits, At, cache
<1>2. thread[p].at \in HasLock /\ thread[p].at \in AtDisk /\ p \notin InRequest /\ thread[p] \in Thread
  BY <1>1, Typed DEF HasLock, AtDisk, InRequest
<1>3. PICK k \in Buf, b \in Block :
        /\ k = thread[p].k /\ b = buf[k].block
        /\ \A q \in InRequest : q \in Process /\ q # p /\ thread[q].k \in Buf /\ thread[q].k # k
  BY <1>2, LockedAlone
<1>4. PICK d0 \in Desc, d1 \in Desc, d2 \in Desc :
        /\ d0 = Lowest(1) /\ d1 = Lowest(2) /\ d2 = Lowest(3)
        /\ {d0, d1, d2} \subseteq free /\ d0 # d1 /\ d0 # d2 /\ d1 # d2
  BY <1>1, ThreeFree, DriverTyped
<1>5. /\ free' = free \ {d0, d1, d2}
      /\ desc' = [desc EXCEPT ![d0] = [next |-> d1, buf |-> NoBuf],
                              ![d1] = [next |-> d2, buf |-> k], ![d2] = NoChain]
      /\ ops' = [ops EXCEPT ![d0] = [write |-> thread[p].write, block |-> b]]
      /\ info' = [info EXCEPT ![d0] = [buf |-> k, ok |-> FALSE]]
      /\ owned' = [owned EXCEPT ![k] = TRUE]
      /\ avail' = Added(avail, d0)
      /\ thread' = [thread EXCEPT ![p].at = "rw_asleep", ![p].head = d0]
  BY <1>3, <1>4 DEF Submit, RwSubmits, Added
<1>6. /\ desc \in [Desc -> [next : Desc \union {NoDesc}, buf : Buf \union {NoBuf}]]
      /\ ops \in [Desc -> [write : BOOLEAN, block : Block \union {NoBlock}]]
      /\ info \in [Desc -> [buf : Buf \union {NoBuf}, ok : BOOLEAN]]
      /\ owned \in [Buf -> BOOLEAN]
  BY Zenon DEF IInv, TypeOK, VirtioTypeOK
<1>7. /\ desc' \in [Desc -> [next : Desc \union {NoDesc}, buf : Buf \union {NoBuf}]]
      /\ desc'[d0].next = d1 /\ desc'[d1].next = d2 /\ desc'[d1].buf = k
      /\ \A e \in Desc \ {d0, d1, d2} : desc'[e] = desc[e]
  BY <1>4, <1>5, <1>6, Zenon DEF NoChain
<1>8. /\ ops' \in [Desc -> [write : BOOLEAN, block : Block \union {NoBlock}]]
      /\ ops'[d0].write = thread[p].write /\ ops'[d0].block = b
      /\ \A e \in Desc \ {d0} : ops'[e] = ops[e]
  <2>1. PICK o \in [write : BOOLEAN, block : Block \union {NoBlock}] :
           o = [write |-> thread[p].write, block |-> b]
    BY <1>2, Zenon DEF Thread
  <2>2. ops' = [ops EXCEPT ![d0] = o] /\ o.write = thread[p].write /\ o.block = b
    BY <1>5, <2>1
  <2> QED
    BY <1>6, <2>2
<1>9. /\ info' \in [Desc -> [buf : Buf \union {NoBuf}, ok : BOOLEAN]]
      /\ info'[d0].buf = k /\ ~ info'[d0].ok
      /\ \A e \in Desc \ {d0} : info'[e] = info[e]
  BY <1>5, <1>6
<1>10. /\ owned' \in [Buf -> BOOLEAN] /\ owned'[k] /\ \A j \in Buf \ {k} : owned'[j] = owned[j]
  BY <1>5, <1>6
<1>11. /\ thread' \in [Process -> Thread]
       /\ thread'[p].at = "rw_asleep" /\ thread'[p].k = k /\ thread'[p].head = d0
       /\ thread'[p].write = thread[p].write /\ thread'[p].dirty = thread[p].dirty
       /\ \A q \in Process \ {p} : thread'[q] = thread[q]
  <2> DEFINE L == Location
  <2>1. "rw_asleep" \in L /\ Thread = [at : L, k : Buf \union {NoBuf}, write : BOOLEAN,
                                       head : Desc \union {NoDesc}, dirty : BOOLEAN]
    BY DEF Location, Thread
  <2>2. PICK u : u = [thread[p] EXCEPT !.at = "rw_asleep", !.head = d0]
    OBVIOUS
  <2>3. /\ u \in Thread /\ u.at = "rw_asleep" /\ u.k = thread[p].k /\ u.head = d0
        /\ u.write = thread[p].write /\ u.dirty = thread[p].dirty
    <3> HIDE DEF L
    <3> QED
      BY <1>2, <2>1, <2>2, Zenon
  <2>4. thread' = [thread EXCEPT ![p] = u]
    BY <1>5, <2>2, Typed, Zenon
  <2> QED
    BY <1>3, <2>3, <2>4, Typed
<1>12. InRequest' = InRequest \union {p}
  BY <1>11 DEF InRequest
<1>13. /\ \A q \in InRequest : /\ thread[q].head \in Desc
                               /\ Chain(thread[q].head) \subseteq Desc \ free
       /\ Reported \union InDevice \subseteq Desc \ free
  BY DEF IInv, ChainInv, PlacesInv, Chain, Second, Third
<1>14. /\ avail' \in Ring /\ RingOK(avail', device.last) /\ Pending' = Pending \union {d0}
  <2>1. d0 \notin Pending /\ d1 \notin Pending
    BY <1>4, <1>13 DEF InDevice
  <2>2. RingOK(avail, device.last) /\ d0 \notin Entries(avail) /\ d1 \notin Entries(avail)
    BY <2>1, DriverTyped DEF IInv, DeviceInv
  <2>3. Length(avail, device.last) + 1 < NUM
    BY <1>4, <2>2, Room, DriverTyped
  <2>4. Pending' = Entries(avail')
    BY DEF Pending, Entries
  <2> QED
    BY <1>5, <2>2, <2>3, <2>4, RingAdd, DriverTyped
<1>15. /\ InDevice' = InDevice \union {d0} /\ Reported' = Reported
       /\ d0 \notin InDevice /\ d0 \notin Reported /\ d0 \notin device.work
  BY <1>1, <1>4, <1>13, <1>14 DEF InDevice, Reported
<1>16. TypeOK'
  <2>1. VirtioTypeOK'
    <3>1. avail' \in Ring /\ used' \in Ring
      BY <1>1, <1>14, DriverTyped
    <3> QED
      BY <1>1, <1>5, <1>7, <1>8, <1>9, <1>10, <3>1, Zenon DEF IInv, TypeOK, VirtioTypeOK, Ring, Index
  <2>2. TypeOK
    BY Zenon DEF IInv
  <2>3. buf' = buf /\ lru' = lru /\ pinned' = pinned /\ thread' \in [Process -> Thread]
    BY <1>1, <1>11, Zenon
  <2> QED
    BY <2>1, <2>2, <2>3, Zenon DEF TypeOK, Thread
<1>17. /\ thread'[p].at \in HasLock /\ thread'[p].at \in AtDisk
       /\ thread'[p].at \notin {"idle", "holding", "rw_nodesc", "lock_asleep"}
  BY <1>11 DEF HasLock, AtDisk
<1>18. ThreadInv'
  <2>1. ThreadOK(p)'
    BY <1>3, <1>11, <1>12, <1>17 DEF ThreadOK, At
  <2>2. ASSUME NEW q \in Process, q # p
        PROVE  ThreadOK(q)'
    <3>1. ThreadOK(q) /\ thread'[q] = thread[q] /\ (q \in InRequest' <=> q \in InRequest)
      BY <1>11, <1>12, <2>2 DEF IInv, ThreadInv
    <3> QED
      BY <3>1 DEF ThreadOK, At
  <2> QED
    BY <2>1, <2>2 DEF ThreadInv
<1>19. LockInv'
  <2>1. ASSUME NEW q \in Process, NEW j \in Buf
        PROVE  buf'[j].lock = q <=> thread'[q].k = j /\ thread'[q].at \in HasLock
    <3>1. buf[j].lock = q <=> thread[q].k = j /\ thread[q].at \in HasLock
      BY DEF IInv, LockInv
    <3>2. CASE q = p
      BY <1>1, <1>2, <1>3, <1>11, <1>17, <3>1, <3>2
    <3>3. CASE q # p
      BY <1>1, <1>11, <3>1, <3>3
    <3> QED
      BY <3>2, <3>3
  <2> QED
    BY <2>1 DEF LockInv
<1>20. CacheInv'
  <2>1. \A q \in Process : thread'[q].k = thread[q].k
    BY <1>3, <1>11
  <2>2. \A j : References(j)' = References(j)
    BY <1>1, <2>1, Zenon DEF References
  <2> QED
    BY <1>1, <2>2 DEF IInv, CacheInv
<1>21. WaitInv'
  <2>1. ASSUME NEW q \in Process
        PROVE  /\ At(q, "rw_nodesc")' => Cardinality(free)' < 3
               /\ At(q, "lock_asleep")' => buf'[thread'[q].k].lock # NoProcess
    <3>1. CASE q = p
      BY <1>17, <3>1 DEF At
    <3>2. CASE q # p
      <4>1. thread'[q] = thread[q]
        BY <1>11, <3>2
      <4>2. ~ At(q, "rw_nodesc")
        <5>1. Cardinality(free) \in Nat
          <6>1. IsFiniteSet(Desc)
            BY FS_Interval
          <6> QED
            BY <6>1, FS_Subset, FS_CardinalityType, DriverTyped
        <5> QED
          BY <1>1, <5>1 DEF IInv, WaitInv
      <4> QED
        BY <1>1, <4>1, <4>2 DEF At, IInv, WaitInv
    <3> QED
      BY <3>1, <3>2
  <2> QED
    BY <2>1 DEF WaitInv
<1>22. /\ \A q \in InRequest : /\ thread'[q] = thread[q] /\ q # p
                               /\ Chain(thread[q].head) \intersect {d0, d1, d2} = {}
                               /\ desc'[thread[q].head] = desc[thread[q].head]
                               /\ desc'[Second(thread[q].head)] = desc[Second(thread[q].head)]
  <2>1. ASSUME NEW q \in InRequest
        PROVE  /\ thread'[q] = thread[q] /\ q # p
               /\ Chain(thread[q].head) \intersect {d0, d1, d2} = {}
               /\ desc'[thread[q].head] = desc[thread[q].head]
               /\ desc'[Second(thread[q].head)] = desc[Second(thread[q].head)]
    <3>1. thread'[q] = thread[q] /\ q # p
      BY <1>3, <1>11
    <3>2. Chain(thread[q].head) \subseteq Desc \ {d0, d1, d2}
      BY <1>4, <1>13
    <3>3. {thread[q].head, Second(thread[q].head)} \subseteq Desc \ {d0, d1, d2}
      BY <3>2 DEF Chain, Second
    <3> QED
      BY <1>7, <3>1, <3>2, <3>3, Zenon
  <2> QED
    BY <2>1
<1>23. ChainInv'
  <2>0. /\ \A q \in InRequest : LET d == thread[q].head IN
             /\ {d, Second(d), Third(d)} \subseteq Desc \ free
             /\ d # Second(d) /\ d # Third(d) /\ Second(d) # Third(d)
        /\ \A q, r \in InRequest :
             q # r => Chain(thread[q].head) \intersect Chain(thread[r].head) = {}
        /\ \A d \in Desc \ free : \E q \in InRequest : d \in Chain(thread[q].head)
    BY Zenon DEF IInv, ChainInv
  <2>1. \A q \in InRequest : LET d == thread'[q].head IN
          /\ d = thread[q].head /\ desc'[d].next = Second(d) /\ desc'[desc'[d].next].next = Third(d)
    BY <1>22 DEF Second, Third
  <2>2. desc'[d0].next = d1 /\ desc'[desc'[d0].next].next = d2
    BY <1>7
  <2> DEFINE NewChain(d) == {d, desc'[d].next, desc'[desc'[d].next].next}
  <2>3. \A q \in InRequest : NewChain(thread'[q].head) = Chain(thread[q].head)
    BY <2>1 DEF Chain, Second, Third
  <2>4. NewChain(thread'[p].head) = {d0, d1, d2}
    BY <1>11, <2>2
  <2>5. ASSUME NEW q \in InRequest'
        PROVE  LET d == thread'[q].head IN
               /\ {d, desc'[d].next, desc'[desc'[d].next].next} \subseteq Desc \ free'
               /\ d # desc'[d].next /\ d # desc'[desc'[d].next].next
               /\ desc'[d].next # desc'[desc'[d].next].next
    <3>1. CASE q = p
      <4>1. PICK e : e = thread'[q].head /\ e = d0
        BY <1>11, <3>1
      <4>2. desc'[e].next = d1 /\ desc'[desc'[e].next].next = d2
        BY <2>2, <4>1
      <4>3. {d0, d1, d2} \subseteq Desc \ free' /\ d0 # d1 /\ d0 # d2 /\ d1 # d2
        BY <1>4, <1>5
      <4> QED
        BY <4>1, <4>2, <4>3
    <3>2. CASE q \in InRequest
      <4>1. PICK e : /\ e = thread[q].head /\ e = thread'[q].head
                     /\ desc'[e].next = Second(e) /\ desc'[desc'[e].next].next = Third(e)
        BY <2>1, <3>2
      <4>2. /\ {e, Second(e), Third(e)} \subseteq Desc \ free
            /\ e # Second(e) /\ e # Third(e) /\ Second(e) # Third(e)
        <5>1. LET a == thread[q].head IN
              /\ {a, Second(a), Third(a)} \subseteq Desc \ free
              /\ a # Second(a) /\ a # Third(a) /\ Second(a) # Third(a)
          BY <3>2 DEF IInv, ChainInv
        <5> QED
          BY <4>1, <5>1
      <4> QED
        BY <1>5, <4>1, <4>2, Zenon
    <3> QED
      BY <1>12, <3>1, <3>2
  <2>6. ASSUME NEW q \in InRequest', NEW r \in InRequest', q # r
        PROVE  NewChain(thread'[q].head) \intersect NewChain(thread'[r].head) = {}
    <3> HIDE DEF NewChain
    <3>1. CASE q \in InRequest /\ r \in InRequest
      <4>1. Chain(thread[q].head) \intersect Chain(thread[r].head) = {}
        BY <2>0, <2>6, <3>1, Zenon
      <4>2. /\ NewChain(thread'[q].head) = Chain(thread[q].head)
            /\ NewChain(thread'[r].head) = Chain(thread[r].head)
        BY <2>3, <3>1
      <4> QED
        BY <4>1, <4>2
    <3>2. CASE q = p /\ r \in InRequest
      <4>1. Chain(thread[r].head) \intersect {d0, d1, d2} = {}
        BY <1>22, <3>2
      <4>2. NewChain(thread'[q].head) = {d0, d1, d2} /\ NewChain(thread'[r].head) = Chain(thread[r].head)
        BY <2>3, <2>4, <3>2
      <4> QED
        BY <4>1, <4>2
    <3>3. CASE q \in InRequest /\ r = p
      <4>1. Chain(thread[q].head) \intersect {d0, d1, d2} = {}
        BY <1>22, <3>3
      <4>2. NewChain(thread'[r].head) = {d0, d1, d2} /\ NewChain(thread'[q].head) = Chain(thread[q].head)
        BY <2>3, <2>4, <3>3
      <4> QED
        BY <4>1, <4>2
    <3> QED
      BY <1>12, <2>6, <3>1, <3>2, <3>3
  <2>7. ASSUME NEW d \in Desc \ free'
        PROVE  \E q \in InRequest' : d \in NewChain(thread'[q].head)
    <3> HIDE DEF NewChain
    <3>1. CASE d \in free
      BY <1>5, <1>12, <2>4, <3>1, Zenon
    <3>2. CASE d \notin free
      BY <1>12, <2>0, <2>3, <3>2
    <3> QED
      BY <3>1, <3>2
  <2> QED
    BY <2>5, <2>6, <2>7 DEF ChainInv, Chain, Second, Third
<1>24. RequestInv'
  <2>1. RequestOK(p)'
    <3>1. /\ info'[d0].buf = k /\ desc'[desc'[d0].next].buf = k
          /\ ops'[d0].write = thread'[p].write /\ ops'[d0].block = buf'[k].block
      BY <1>1, <1>3, <1>7, <1>8, <1>9, <1>11
    <3>2. owned'[k] /\ d0 \in InDevice' /\ At(p, "rw_asleep")' /\ ~ info'[d0].ok
      BY <1>9, <1>10, <1>11, <1>15 DEF At
    <3> QED
      BY <1>11, <3>1, <3>2 DEF RequestOK, Second
  <2>2. ASSUME NEW q \in InRequest
        PROVE  RequestOK(q)'
    <3>1. RequestOK(q) /\ thread'[q] = thread[q] /\ thread[q].head \in Desc /\ thread[q].head # d0
      BY <1>13, <1>22, Zenon DEF IInv, RequestInv, Chain
    <3>2. PICK e \in Desc : /\ e = thread[q].head /\ e # d0 /\ desc'[e] = desc[e]
                           /\ desc'[desc[e].next] = desc[desc[e].next]
      BY <1>22, <3>1 DEF Second
    <3>3. /\ info'[e] = info[e] /\ ops'[e] = ops[e] /\ owned'[thread[q].k] = owned[thread[q].k]
          /\ (e \in InDevice' <=> e \in InDevice) /\ Reported' = Reported
      BY <1>3, <1>8, <1>9, <1>10, <1>15, <3>2, Zenon
    <3> QED
      BY <1>1, <3>1, <3>2, <3>3 DEF RequestOK, At, Second
  <2> QED
    BY <1>12, <2>1, <2>2 DEF RequestInv
<1>25. PlacesInv'
  <2>1. {thread'[q].head : q \in InRequest'} = {thread[q].head : q \in InRequest} \union {d0}
    BY <1>11, <1>12, <1>22
  <2>2. ASSUME NEW j \in Buf, owned'[j]
        PROVE  \E q \in InRequest' : thread'[q].k = j
    <3>1. CASE j = k
      BY <1>11, <1>12, <3>1
    <3>2. CASE j # k
      BY <1>10, <1>12, <1>22, <2>2, <3>2 DEF IInv, PlacesInv
    <3> QED
      BY <3>1, <3>2
  <2> QED
    BY <1>15, <2>1, <2>2, Zenon DEF IInv, PlacesInv
<1>26. DeviceInv'
  <2>1. RingOK(used, used_idx)'
    BY <1>1, Zenon DEF IInv, DeviceInv, RingOK
  <2>2. RingOK(avail, device.last)'
    <3>1. RingOK(avail', device'.last)
      BY <1>1, <1>14, Zenon
    <3> QED
      BY <3>1, Zenon DEF RingOK
  <2> QED
    BY <1>1, <1>14, <1>15, <2>1, <2>2 DEF IInv, DeviceInv
<1>27. DataInv'
  <2>1. ASSUME NEW q \in Process
        PROVE  KnowsOK(q)'
    <3>1. KnowsOK(q)
      BY DEF IInv, DataInv, KnowsOK
    <3>2. CASE q = p
      BY <1>1, <1>2, <1>3, <1>11, <1>17, <3>1, <3>2 DEF KnowsOK, At
    <3>3. CASE q # p
      BY <1>1, <1>11, <3>1, <3>3 DEF KnowsOK, At
    <3> QED
      BY <3>2, <3>3
  <2>2. ASSUME NEW q \in InRequest', thread'[q].head \notin InDevice'
        PROVE  data'[thread'[q].k] = disk'[buf'[thread'[q].k].block]
    <3>1. q # p
      BY <1>11, <1>15, <2>2
    <3>2. q \in InRequest /\ thread'[q] = thread[q]
      BY <1>12, <1>22, <3>1
    <3> QED
      BY <1>1, <1>15, <2>2, <3>2 DEF IInv, DataInv
  <2>3. \A q \in Process : thread'[q].k = thread[q].k /\ thread'[q].dirty = thread[q].dirty
    BY <1>3, <1>11
  <2>4. \A j \in Buf : buf'[j].valid /\ data'[j] # disk'[buf'[j].block] =>
          j \in pinned' \/ \E q \in Process : thread'[q].k = j /\ thread'[q].dirty
    <3>1. \A j \in Buf : buf[j].valid /\ data[j] # disk[buf[j].block] =>
            j \in pinned \/ \E q \in Process : thread[q].k = j /\ thread[q].dirty
      BY DEF IInv, DataInv
    <3>2. ASSUME NEW j \in Buf, buf'[j].valid, data'[j] # disk'[buf'[j].block], j \notin pinned'
          PROVE  \E q \in Process : thread'[q].k = j /\ thread'[q].dirty
      <4>1. buf[j].valid /\ data[j] # disk[buf[j].block] /\ j \notin pinned
        BY <1>1, <3>2, Zenon
      <4>2. PICK q \in Process : thread[q].k = j /\ thread[q].dirty
        BY <3>1, <4>1, Zenon
      <4> QED
        BY <2>3, <4>2, Zenon
    <3> QED
      BY <3>2, Zenon
  <2>5. \A q \in InRequest' : thread'[q].head \notin InDevice' =>
          data'[thread'[q].k] = disk'[buf'[thread'[q].k].block]
    BY <2>2, Zenon
  <2>6. \A q \in Process : KnowsOK(q)'
    BY <2>1, Zenon
  <2>7. \A j \in pinned' : buf'[j].valid
    BY <1>1 DEF IInv, DataInv
  <2> QED
    BY <2>4, <2>5, <2>6, <2>7, DataIs, Zenon
<1> QED
  BY <1>16, <1>18, <1>19, <1>20, <1>21, <1>23, <1>24, <1>25, <1>26, <1>27 DEF IInv

LEMMA FinishKeeps ==
  ASSUME IInv, NEW p \in Process, Finish(p)
  PROVE  IInv'
<1>1. /\ thread[p].at = "rw_woken"
      /\ disk' = disk /\ data' = data /\ owned' = owned /\ avail' = avail /\ used' = used
      /\ used_idx' = used_idx /\ device' = device /\ intr' = intr /\ lru' = lru /\ pinned' = pinned
  BY DEF Finish, RwDone, At
<1>2. /\ thread[p].at \in HasLock /\ thread[p].at \in AtDisk /\ p \in InRequest /\ thread[p] \in Thread
      /\ p \in Process
  BY <1>1, Typed DEF HasLock, AtDisk, InRequest
<1>3. PICK k \in Buf, b \in Block, d \in Desc :
        /\ k = thread[p].k /\ b = buf[k].block /\ d = thread[p].head
        /\ \A q \in InRequest \ {p} : q \in Process /\ thread[q].k \in Buf /\ thread[q].k # k
  <2>1. /\ thread[p].k \in Buf /\ buf[thread[p].k].block \in Block
        /\ \A q \in Process \ {p} : thread[q].at \in HasLock => thread[q].k # thread[p].k
        /\ \A q \in InRequest : q \in Process /\ thread[q].at \in HasLock /\ thread[q].k \in Buf
    BY <1>2, LockedAlone, Zenon
  <2>2. thread[p].head \in Desc
    BY <1>2 DEF IInv, ChainInv
  <2> QED
    BY <2>1, <2>2, Zenon
<1>4. PICK w \in BOOLEAN, dirty \in BOOLEAN :
        /\ w = thread[p].write /\ dirty = (thread[p].dirty /\ ~ w)
        /\ (w <=> buf[k].valid) /\ (thread[p].dirty => buf[k].valid)
  BY <1>2, <1>3, Zenon DEF Thread, IInv, DataInv
<1>5. ~ dirty
  BY <1>4, Zenon
<1>6. PICK t : t = [thread EXCEPT ![p].at = "holding", ![p].head = NoDesc, ![p].write = FALSE,
                                  ![p].dirty = @ /\ ~ thread[p].write]
  BY Zenon
<1>7. /\ ~ owned[k]
      /\ free' = free \union Chain(d)
      /\ desc' = [e \in Desc |-> IF e \in Chain(d) THEN NoChain ELSE desc[e]]
      /\ info' = [info EXCEPT ![d] = NoInfo] /\ ops' = [ops EXCEPT ![d] = NoOp]
      /\ thread' = WakeAll(t, "rw_nodesc", "rw")
      /\ buf' = [buf EXCEPT ![k].valid = TRUE]
  BY <1>3, <1>6 DEF Finish, RwDone, FreeChain
<1>8. /\ t \in [Process -> Thread] /\ t[p].at = "holding" /\ t[p].head = NoDesc /\ t[p].write = FALSE
      /\ t[p].dirty = FALSE /\ t[p].k = k
      /\ \A q \in Process \ {p} : t[q] = thread[q]
  <2> DEFINE L == Location
  <2>1. "holding" \in L /\ Thread = [at : L, k : Buf \union {NoBuf}, write : BOOLEAN,
                                     head : Desc \union {NoDesc}, dirty : BOOLEAN]
    BY DEF Location, Thread
  <2>2. PICK u : u = [thread[p] EXCEPT !.at = "holding", !.head = NoDesc, !.write = FALSE, !.dirty = FALSE]
    OBVIOUS
  <2>3. /\ u \in Thread /\ u.at = "holding" /\ u.k = thread[p].k /\ u.head = NoDesc
        /\ u.write = FALSE /\ u.dirty = FALSE
    <3> HIDE DEF L
    <3> QED
      BY <1>2, <2>1, <2>2, Zenon
  <2>4. t = [thread EXCEPT ![p] = u]
    <3>1. (thread[p].dirty /\ ~ thread[p].write) = FALSE
      BY <1>4, <1>5
    <3> QED
      BY <1>6, <2>2, <3>1, Typed, Zenon
  <2> QED
    BY <1>3, <2>3, <2>4, Typed
<1>9. /\ thread' \in [Process -> Thread] /\ thread'[p] = t[p]
      /\ \A q \in Process \ {p} : /\ Keeps(q) /\ ~ At(q, "rw_nodesc")'
                                  /\ (q \in InRequest => thread'[q] = thread[q])
  <2>1. thread' \in [Process -> Thread]
    <3>1. "rw" \in Location
      BY DEF Location
    <3> QED
      BY <1>7, <1>8, <3>1, Wakes, Zenon
  <2>2. \A q \in Process : thread'[q] = IF t[q].at = "rw_nodesc" THEN [t[q] EXCEPT !.at = "rw"] ELSE t[q]
    BY <1>7, Zenon DEF WakeAll
  <2>3. thread'[p] = t[p]
    BY <1>8, <2>2, Zenon
  <2>4. ASSUME NEW q \in Process, q # p
        PROVE  /\ Keeps(q) /\ ~ At(q, "rw_nodesc")' /\ (q \in InRequest => thread'[q] = thread[q])
    <3>1. /\ t[q] = thread[q] /\ thread[q] \in Thread
          /\ thread'[q] = IF thread[q].at = "rw_nodesc" THEN [thread[q] EXCEPT !.at = "rw"] ELSE thread[q]
      BY <1>8, <2>2, <2>4
    <3>2. Keeps(q)
      BY <3>1, Kept, Typed, Zenon
    <3>3. ~ At(q, "rw_nodesc")'
      BY <3>1 DEF At, Thread
    <3>4. q \in InRequest => thread'[q] = thread[q]
      BY <3>1 DEF InRequest
    <3> QED
      BY <3>2, <3>3, <3>4
  <2> QED
    BY <2>1, <2>3, <2>4
<1>10. /\ thread'[p].at = "holding" /\ thread'[p].k = k /\ thread'[p].head = NoDesc
       /\ ~ thread'[p].write /\ ~ thread'[p].dirty /\ thread'[p].at \in HasLock /\ thread'[p].at \notin AtDisk
  BY <1>8, <1>9 DEF HasLock, AtDisk
<1>11. InRequest' = InRequest \ {p}
  <2>1. \A q \in Process \ {p} : q \in InRequest' <=> q \in InRequest
    BY <1>9 DEF Keeps
  <2>2. p \notin InRequest'
    BY <1>10 DEF InRequest
  <2> QED
    BY <2>1, <2>2 DEF InRequest
<1>12. /\ buf' \in [Buf -> Buffer] /\ buf'[k].valid
       /\ \A j \in Buf : /\ buf'[j].block = buf[j].block /\ buf'[j].refcnt = buf[j].refcnt
                         /\ buf'[j].lock = buf[j].lock
       /\ \A j \in Buf \ {k} : buf'[j].valid = buf[j].valid
  <2>1. PICK c : c = [buf[k] EXCEPT !.valid = TRUE]
    BY Zenon
  <2>2. buf[k] \in Buffer
    BY Typed
  <2>3. /\ c \in Buffer /\ c.valid /\ c.block = buf[k].block /\ c.refcnt = buf[k].refcnt
        /\ c.lock = buf[k].lock
    BY <2>1, <2>2, Zenon DEF Buffer
  <2>4. buf' = [buf EXCEPT ![k] = c]
    BY <1>7, <2>1
  <2>5. buf' \in [Buf -> Buffer] /\ buf'[k] = c /\ \A j \in Buf \ {k} : buf'[j] = buf[j]
    BY <2>3, <2>4, Typed
  <2> QED
    BY <2>3, <2>5
<1>13. /\ desc \in [Desc -> [next : Desc \union {NoDesc}, buf : Buf \union {NoBuf}]]
       /\ ops \in [Desc -> [write : BOOLEAN, block : Block \union {NoBlock}]]
       /\ info \in [Desc -> [buf : Buf \union {NoBuf}, ok : BOOLEAN]]
  BY Zenon DEF IInv, TypeOK, VirtioTypeOK
<1>14. /\ desc' \in [Desc -> [next : Desc \union {NoDesc}, buf : Buf \union {NoBuf}]]
       /\ \A e \in Desc : e \notin Chain(d) => desc'[e] = desc[e]
  <2>1. NoChain \in [next : Desc \union {NoDesc}, buf : Buf \union {NoBuf}]
    BY DEF NoChain
  <2> QED
    BY <1>7, <1>13, <2>1
<1>15. /\ ops' \in [Desc -> [write : BOOLEAN, block : Block \union {NoBlock}]]
       /\ info' \in [Desc -> [buf : Buf \union {NoBuf}, ok : BOOLEAN]]
       /\ \A e \in Desc : e # d => ops'[e] = ops[e] /\ info'[e] = info[e]
  <2>1. NoOp \in [write : BOOLEAN, block : Block \union {NoBlock}]
    BY DEF NoOp
  <2>2. NoInfo \in [buf : Buf \union {NoBuf}, ok : BOOLEAN]
    BY DEF NoInfo
  <2> QED
    BY <1>7, <1>13, <2>1, <2>2
<1>16. /\ InDevice' = InDevice /\ Reported' = Reported /\ Pending' = Pending
       /\ d \notin InDevice /\ d \notin Reported
  <2>1. RequestOK(p)
    BY <1>2 DEF IInv, RequestInv
  <2> QED
    BY <1>1, <1>3, <1>7, <2>1 DEF RequestOK, InDevice, Reported, Pending
<1>17. /\ Chain(d) \subseteq Desc \ free
       /\ \A q \in InRequest \ {p} :
            /\ Chain(thread[q].head) \intersect Chain(d) = {}
            /\ {thread[q].head, Second(thread[q].head)} \subseteq Desc
            /\ thread[q].head # d /\ thread'[q] = thread[q]
            /\ desc'[thread[q].head] = desc[thread[q].head]
            /\ desc'[Second(thread[q].head)] = desc[Second(thread[q].head)]
  <2>1. Chain(d) \subseteq Desc \ free
    BY <1>2, <1>3 DEF IInv, ChainInv, Chain, Second, Third
  <2>2. ASSUME NEW q \in InRequest, q # p
        PROVE  /\ Chain(thread[q].head) \intersect Chain(d) = {}
               /\ {thread[q].head, Second(thread[q].head)} \subseteq Desc
               /\ thread[q].head # d /\ thread'[q] = thread[q]
               /\ desc'[thread[q].head] = desc[thread[q].head]
               /\ desc'[Second(thread[q].head)] = desc[Second(thread[q].head)]
    <3>1. Chain(thread[q].head) \intersect Chain(d) = {}
      BY <1>2, <1>3, <2>2, Zenon DEF IInv, ChainInv
    <3>2. {thread[q].head, Second(thread[q].head)} \subseteq Desc
      BY DEF IInv, ChainInv
    <3>3. thread[q].head \in Chain(thread[q].head) /\ Second(thread[q].head) \in Chain(thread[q].head) /\ d \in Chain(d)
      BY DEF Chain, Second
    <3>4. thread'[q] = thread[q]
      BY <1>9, <2>2 DEF InRequest
    <3> QED
      BY <1>14, <3>1, <3>2, <3>3, <3>4
  <2> QED
    BY <2>1, <2>2
<1>18. TypeOK'
  <2>1. free' \subseteq Desc
    BY <1>7, <1>17, DriverTyped
  <2>2. VirtioTypeOK'
    BY <1>1, <1>14, <1>15, <2>1, Zenon DEF IInv, TypeOK, VirtioTypeOK
  <2> QED
    BY <1>1, <1>9, <1>12, <2>2 DEF IInv, TypeOK, Thread, Buffer
<1>19. ThreadInv'
  <2>1. ThreadOK(p)'
    BY <1>10, <1>11 DEF ThreadOK, At
  <2> QED
    BY <1>9, <2>1, Threads DEF IInv
<1>20. LockInv'
  BY <1>2, <1>3, <1>9, <1>10, <1>12, LockKept DEF IInv
<1>21. CacheInv'
  <2>1. \A q \in Process : thread'[q].k = thread[q].k
    BY <1>3, <1>9, <1>10 DEF Keeps
  <2>2. \A j : References(j)' = References(j)
    BY <1>1, <2>1, Zenon DEF References
  <2>3. buf[k].block \in Block
    BY <1>3
  <2>4. ASSUME NEW j \in Buf, buf'[j].valid \/ buf'[j].refcnt # 0
        PROVE  buf'[j].block \in Block
    <3>1. CASE j = k
      BY <1>12, <2>3, <3>1
    <3>2. CASE j # k
      BY <1>12, <2>4, <3>2, Zenon DEF IInv, CacheInv
    <3> QED
      BY <3>1, <3>2
  <2>5. ASSUME NEW i \in Buf, NEW j \in Buf, buf'[i].block = buf'[j].block, buf'[i].block # NoBlock
        PROVE  i = j
    <3>1. buf[i].block = buf[j].block /\ buf[i].block # NoBlock
      BY <1>12, <2>5
    <3> QED
      BY <3>1 DEF IInv, CacheInv
  <2>6. \A j \in Buf : buf'[j].refcnt = References(j)'
    BY <1>12, <2>2, Zenon DEF IInv, CacheInv
  <2>7. \A j \in Buf : \E i \in Buf : lru'[i] = j
    BY <1>1 DEF IInv, CacheInv
  <2> QED
    BY <2>4, <2>5, <2>6, <2>7 DEF CacheInv
<1>22. WaitInv'
  <2>1. ASSUME NEW q \in Process
        PROVE  /\ At(q, "rw_nodesc")' => Cardinality(free)' < 3
               /\ At(q, "lock_asleep")' => buf'[thread'[q].k].lock # NoProcess
    <3>1. CASE q = p
      BY <1>10, <3>1 DEF At
    <3>2. CASE q # p
      <4>1. Keeps(q) /\ ~ At(q, "rw_nodesc")'
        BY <1>9, <3>2
      <4>2. At(q, "lock_asleep") => thread[q].k \in Buf
        BY Typed DEF ThreadOK, At, Thread
      <4> QED
        BY <1>12, <4>1, <4>2 DEF Keeps, At, IInv, WaitInv
    <3> QED
      BY <3>1, <3>2
  <2> QED
    BY <2>1 DEF WaitInv
<1>23. ChainInv'
  <2>0. /\ \A q \in InRequest : LET e == thread[q].head IN
             /\ {e, Second(e), Third(e)} \subseteq Desc \ free
             /\ e # Second(e) /\ e # Third(e) /\ Second(e) # Third(e)
        /\ \A q, r \in InRequest :
             q # r => Chain(thread[q].head) \intersect Chain(thread[r].head) = {}
        /\ \A e \in Desc \ free : \E q \in InRequest : e \in Chain(thread[q].head)
    BY Zenon DEF IInv, ChainInv
  <2> DEFINE NewChain(e) == {e, desc'[e].next, desc'[desc'[e].next].next}
  <2>1. ASSUME NEW q \in InRequest'
        PROVE  LET e == thread'[q].head IN
               /\ e = thread[q].head /\ desc'[e].next = Second(e) /\ desc'[desc'[e].next].next = Third(e)
    BY <1>11, <1>17 DEF Second, Third
  <2>2. \A q \in InRequest' : NewChain(thread'[q].head) = Chain(thread[q].head)
    BY <2>1 DEF Chain, Second, Third
  <2>3. ASSUME NEW q \in InRequest'
        PROVE  LET e == thread'[q].head IN
               /\ {e, desc'[e].next, desc'[desc'[e].next].next} \subseteq Desc \ free'
               /\ e # desc'[e].next /\ e # desc'[desc'[e].next].next
               /\ desc'[e].next # desc'[desc'[e].next].next
    <3>1. PICK e : /\ e = thread[q].head /\ e = thread'[q].head
                   /\ desc'[e].next = Second(e) /\ desc'[desc'[e].next].next = Third(e)
      BY <2>1
    <3>2. /\ {e, Second(e), Third(e)} \subseteq Desc \ free
          /\ e # Second(e) /\ e # Third(e) /\ Second(e) # Third(e)
      <4>1. q \in InRequest
        BY <1>11
      <4>2. LET a == thread[q].head IN
            /\ {a, Second(a), Third(a)} \subseteq Desc \ free
            /\ a # Second(a) /\ a # Third(a) /\ Second(a) # Third(a)
        BY <4>1 DEF IInv, ChainInv
      <4> QED
        BY <3>1, <4>2
    <3>3. {e, Second(e), Third(e)} \intersect Chain(d) = {}
      BY <1>11, <1>17, <3>1 DEF Chain, Second, Third
    <3>4. PICK f, g : f = Second(e) /\ g = Third(e)
      OBVIOUS
    <3>5. {e, f, g} \subseteq Desc \ free' /\ e # f /\ e # g /\ f # g
      BY <1>7, <3>2, <3>3, <3>4
    <3>6. e = thread'[q].head /\ f = desc'[e].next /\ g = desc'[f].next
      BY <3>1, <3>4
    <3> QED
      BY <3>5, <3>6
  <2>4. ASSUME NEW q \in InRequest', NEW r \in InRequest', q # r
        PROVE  NewChain(thread'[q].head) \intersect NewChain(thread'[r].head) = {}
    <3> HIDE DEF NewChain
    <3>1. Chain(thread[q].head) \intersect Chain(thread[r].head) = {}
      BY <1>11, <2>0, <2>4, Zenon
    <3> QED
      BY <2>2, <3>1
  <2>5. ASSUME NEW e \in Desc \ free'
        PROVE  \E q \in InRequest' : e \in NewChain(thread'[q].head)
    <3> HIDE DEF NewChain
    <3>1. e \in Desc \ free /\ e \notin Chain(d)
      BY <1>7
    <3>2. PICK q \in InRequest : e \in Chain(thread[q].head)
      BY <2>0, <3>1
    <3>3. q \in InRequest'
      BY <1>3, <1>11, <3>1, <3>2
    <3> QED
      BY <2>2, <3>2, <3>3
  <2> QED
    BY <2>3, <2>4, <2>5 DEF ChainInv, Chain, Second, Third
<1>24. RequestInv'
  <2>1. ASSUME NEW q \in InRequest \ {p}
        PROVE  RequestOK(q)'
    <3>1. RequestOK(q) /\ thread'[q] = thread[q] /\ thread[q].k \in Buf
      BY <1>3, <1>17 DEF IInv, RequestInv
    <3>2. PICK e \in Desc : /\ e = thread[q].head /\ e # d /\ desc'[e] = desc[e]
                           /\ desc'[desc[e].next] = desc[desc[e].next]
      BY <1>17 DEF Second
    <3>3. /\ info'[e] = info[e] /\ ops'[e] = ops[e] /\ buf'[thread[q].k].block = buf[thread[q].k].block
      BY <1>12, <1>15, <3>1, <3>2
    <3> QED
      BY <1>1, <1>16, <3>1, <3>2, <3>3 DEF RequestOK, At, Second
  <2> QED
    BY <1>11, <2>1 DEF RequestInv
<1>25. PlacesInv'
  <2>1. \A e \in InDevice \union Reported : \E q \in InRequest \ {p} : e = thread'[q].head
    <3>1. ASSUME NEW e \in InDevice \union Reported
          PROVE  \E q \in InRequest \ {p} : e = thread'[q].head
      <4>1. PICK q \in InRequest : e = thread[q].head
        BY DEF IInv, PlacesInv
      <4>2. q # p
        BY <1>3, <1>16, <4>1
      <4> QED
        BY <1>17, <4>1, <4>2
    <3> QED
      BY <3>1
  <2>2. ASSUME NEW j \in Buf, owned'[j]
        PROVE  \E q \in InRequest' : thread'[q].k = j
    <3>1. PICK q \in InRequest : thread[q].k = j
      BY <1>1, <2>2 DEF IInv, PlacesInv
    <3>2. q # p
      BY <1>1, <1>3, <1>7, <2>2, <3>1
    <3> QED
      BY <1>11, <1>17, <3>1, <3>2
  <2> QED
    BY <1>11, <1>16, <2>1, <2>2 DEF IInv, PlacesInv
<1>26. DeviceInv'
  <2>1. RingOK(used, used_idx)'
    BY <1>1, Zenon DEF IInv, DeviceInv, RingOK
  <2>2. RingOK(avail, device.last)'
    BY <1>1, Zenon DEF IInv, DeviceInv, RingOK
  <2> QED
    BY <1>1, <1>16, <2>1, <2>2 DEF IInv, DeviceInv
<1>27. DataInv'
  <2>0. data[k] = disk[buf[k].block]
    BY <1>2, <1>3, <1>16 DEF IInv, DataInv
  <2>1. ASSUME NEW q \in Process
        PROVE  KnowsOK(q)'
    <3>1. CASE q = p
      BY <1>10, <1>12, <3>1 DEF KnowsOK, At
    <3>2. CASE q # p
      <4>1. KnowsOK(q) /\ Keeps(q)
        BY <1>9, <3>2 DEF IInv, DataInv, KnowsOK
      <4>2. thread[q].at \in HasLock => thread[q].k \in Buf /\ thread[q].k # k
        BY <1>2, <1>3, <3>2, LockedAlone, Typed DEF ThreadOK, At, Thread, HasLock, AtDisk
      <4>3. /\ thread[q].at \in AtDisk \union {"holding"} => thread[q].at \in HasLock
            /\ thread[q].dirty => thread[q].at \in HasLock
        BY Typed DEF HasLock, ThreadOK
      <4> QED
        BY <1>12, <4>1, <4>2, <4>3 DEF KnowsOK, Keeps, At
    <3> QED
      BY <3>1, <3>2
  <2>2. ASSUME NEW q \in InRequest', thread'[q].head \notin InDevice'
        PROVE  data'[thread'[q].k] = disk'[buf'[thread'[q].k].block]
    <3>1. q \in InRequest \ {p} /\ thread'[q] = thread[q] /\ thread[q].k \in Buf
      BY <1>3, <1>11, <1>17
    <3> QED
      BY <1>1, <1>12, <1>16, <2>2, <3>1 DEF IInv, DataInv
  <2>3. ASSUME NEW j \in Buf, buf'[j].valid, data'[j] # disk'[buf'[j].block]
        PROVE  j \in pinned' \/ \E q \in Process : thread'[q].k = j /\ thread'[q].dirty
    <3>1. j # k
      BY <1>1, <1>12, <2>0, <2>3
    <3>2. j \in pinned \/ \E q \in Process : thread[q].k = j /\ thread[q].dirty
      BY <1>1, <1>12, <2>3, <3>1 DEF IInv, DataInv
    <3>3. \A q \in Process : thread[q].k = j => q # p
      BY <1>3, <3>1
    <3> QED
      BY <1>1, <1>9, <3>2, <3>3 DEF Keeps
  <2>4. \A j \in pinned' : buf'[j].valid
    BY <1>1, <1>12, Typed DEF IInv, DataInv
  <2> QED
    BY <2>1, <2>2, <2>3, <2>4 DEF DataInv, KnowsOK
<1> QED
  BY <1>18, <1>19, <1>20, <1>21, <1>22, <1>23, <1>24, <1>25, <1>26, <1>27 DEF IInv

-----------------------------------------------------------------------------
(* The invariant                                                           *)

LEMMA InitIInv == Init => IInv
<1> SUFFICES ASSUME Init PROVE IInv
  OBVIOUS
<1>1. /\ disk = [b \in Block |-> 0] /\ data = [k \in Buf |-> 0] /\ owned = [k \in Buf |-> FALSE]
      /\ free = Desc /\ desc = [d \in Desc |-> NoChain] /\ ops = [d \in Desc |-> NoOp]
      /\ info = [d \in Desc |-> NoInfo]
      /\ avail = [ring |-> [s \in Desc |-> NoDesc], idx |-> 0]
      /\ used = [ring |-> [s \in Desc |-> NoDesc], idx |-> 0] /\ used_idx = 0
      /\ device = [last |-> 0, work |-> {}, irq |-> FALSE] /\ intr = FALSE
      /\ pinned = {} /\ thread = [p \in Process |-> Idle]
      /\ lru = [i \in Buf |-> NBUF + 1 - i]
      /\ buf = [k \in Buf |-> [block |-> NoBlock, valid |-> FALSE, refcnt |-> 0, lock |-> NoProcess]]
  BY DEF Init, VirtioInit, Blank, EmptyRing
<1>2. InRequest = {}
  BY <1>1 DEF InRequest, Idle
<1>3. Pending = {} /\ Reported = {} /\ InDevice = {}
  BY <1>1 DEF Pending, Reported, InDevice
<1>4. Cardinality(Process) \in Nat
  BY FS_CardinalityType
<1>5. lru \in [Buf -> Buf] /\ IsInjective(lru) /\ \A k \in Buf : \E i \in Buf : lru[i] = k
  <2>1. lru \in [Buf -> Buf]
    BY <1>1
  <2>2. IsInjective(lru)
    <3>1. \A i, j \in Buf : lru[i] = lru[j] => i = j
      BY <1>1
    <3>2. DOMAIN lru = Buf
      BY <1>1
    <3> QED
      BY <3>1, <3>2 DEF IsInjective
  <2>3. ASSUME NEW k \in Buf
        PROVE  \E i \in Buf : lru[i] = k
    <3>1. NBUF + 1 - k \in Buf /\ NBUF + 1 - (NBUF + 1 - k) = k
      OBVIOUS
    <3> QED
      BY <1>1, <3>1
  <2> QED
    BY <2>1, <2>2, <2>3, Zenon
<1>6. buf \in [Buf -> Buffer]
  <2>1. 0 \in 0..Cardinality(Process) + 1
    BY <1>4
  <2> QED
    BY <1>1, <2>1 DEF Buffer
<1>7. 0 \in 0..IdxMod - 1
  OBVIOUS
<1>8. VirtioTypeOK
  <2>1. /\ disk \in [Block -> Val] /\ data \in [Buf -> Val] /\ owned \in [Buf -> BOOLEAN]
        /\ free \subseteq Desc /\ intr \in BOOLEAN
    BY <1>1, Zenon DEF Val
  <2>2. desc \in [Desc -> [next : Desc \union {NoDesc}, buf : Buf \union {NoBuf}]]
    BY <1>1 DEF NoChain
  <2>3. ops \in [Desc -> [write : BOOLEAN, block : Block \union {NoBlock}]]
    BY <1>1 DEF NoOp
  <2>4. info \in [Desc -> [buf : Buf \union {NoBuf}, ok : BOOLEAN]]
    BY <1>1 DEF NoInfo
  <2>5. {avail, used} \subseteq [ring : [Desc -> Desc \union {NoDesc}], idx : 0..IdxMod - 1]
    BY <1>1, <1>7
  <2>6. device \in [last : 0..IdxMod - 1, work : SUBSET Desc, irq : BOOLEAN] /\ used_idx \in 0..IdxMod - 1
    BY <1>1, <1>7
  <2> QED
    BY <2>1, <2>2, <2>3, <2>4, <2>5, <2>6 DEF VirtioTypeOK
<1>9. TypeOK
  <2>1. thread \in [Process -> Thread]
    BY <1>1, IdleIs, Zenon
  <2> QED
    BY <1>1, <1>5, <1>6, <1>8, <2>1, Zenon DEF TypeOK, Thread, Buffer
<1>10. ThreadInv /\ LockInv /\ WaitInv
  <2>1. ThreadInv
    BY <1>1, <1>2 DEF ThreadInv, ThreadOK, At, Idle
  <2>2. LockInv
    BY <1>1 DEF LockInv, Idle, HasLock, AtDisk
  <2>3. WaitInv
    BY <1>1 DEF WaitInv, At, Idle
  <2> QED
    BY <2>1, <2>2, <2>3
<1>11. CacheInv
  <2>1. ASSUME NEW k \in Buf
        PROVE  buf[k].refcnt = References(k)
    <3>1. {q \in Process : thread[q].k = k} = {}
      BY <1>1 DEF Idle
    <3>2. Cardinality({q \in Process : thread[q].k = k}) = 0
      BY <3>1, FS_EmptySet
    <3> QED
      BY <1>1, <3>2 DEF References
  <2> QED
    BY <1>1, <1>5, <2>1 DEF CacheInv
<1>12. ChainInv /\ RequestInv /\ PlacesInv /\ DataInv
  <2>1. ChainInv /\ RequestInv /\ PlacesInv
    BY <1>1, <1>2, <1>3 DEF ChainInv, RequestInv, PlacesInv
  <2>2. DataInv
    BY <1>1, <1>2 DEF DataInv, At, Idle, AtDisk
  <2> QED
    BY <2>1, <2>2
<1>13. DeviceInv
  <2>1. ASSUME NEW r, r = [ring |-> [s \in Desc |-> NoDesc], idx |-> 0]
        PROVE  RingOK(r, 0)
    <3>1. 0 \in Nat /\ 0 < NUM /\ 0 < IdxMod /\ 0 \in Index
      BY Sizes DEF Index
    <3>2. r.idx = (0 + 0) % IdxMod
      BY <2>1, <3>1, Apart
    <3>3. \A s \in Desc : (r.ring[s] # NoDesc) = InWindow(s, 0, 0)
      <4>1. \A s \in Desc : ~ InWindow(s, 0, 0) /\ r.ring[s] = NoDesc
        BY <2>1 DEF InWindow
      <4>2. \A s \in Desc : InWindow(s, 0, 0) = FALSE
        BY <4>1, Zenon DEF InWindow
      <4>3. \A s \in Desc : (r.ring[s] # NoDesc) = FALSE
        BY <4>1, Zenon
      <4> QED
        BY <4>2, <4>3, Zenon
    <3>4. HoldsFrom(r, 0, 0)
      BY <2>1, <3>1, <3>2, <3>3 DEF HoldsFrom
    <3> QED
      BY <3>1, <3>4, IsRing
  <2>2. RingOK(avail, device.last) /\ RingOK(used, used_idx)
    <3>1. device.last = 0
      BY <1>1
    <3> QED
      BY <1>1, <2>1, <3>1, Zenon
  <2> QED
    BY <1>1, <1>3, <2>2 DEF DeviceInv
<1> QED
  BY <1>9, <1>10, <1>11, <1>12, <1>13 DEF IInv

LEMMA StutterKeeps == IInv /\ UNCHANGED vars => IInv'
<1> SUFFICES ASSUME IInv, UNCHANGED vars PROVE IInv'
  OBVIOUS
<1>1. /\ disk' = disk /\ data' = data /\ owned' = owned /\ driver' = driver /\ thread' = thread
      /\ cache' = cache /\ buf' = buf /\ pinned' = pinned
  BY DEF vars, cache
<1>2. /\ free' = free /\ desc' = desc /\ ops' = ops /\ info' = info /\ avail' = avail
      /\ used' = used /\ used_idx' = used_idx /\ device' = device /\ intr' = intr
  BY <1>1 DEF driver
<1>3. VirtioTypeOK'
  BY <1>1, <1>2, Zenon DEF IInv, TypeOK, VirtioTypeOK
<1>4. /\ ThreadInv' /\ LockInv' /\ CacheInv' /\ WaitInv' /\ InRequest' = InRequest /\ TypeOK'
  BY <1>1, <1>2, <1>3, HardwareFrame
<1>5. InDevice' = InDevice /\ Reported' = Reported /\ Pending' = Pending
  BY <1>2 DEF InDevice, Reported, Pending
<1>6. ChainInv' /\ RequestInv' /\ PlacesInv'
  <2>1. SameRequests
    BY <1>1, <1>2, <1>4, <1>5 DEF SameRequests
  <2> QED
    BY <2>1, Frame DEF IInv
<1>7. DeviceInv'
  <2>1. RingOK(used, used_idx)'
    BY <1>2, Zenon DEF IInv, DeviceInv, RingOK
  <2>2. RingOK(avail, device.last)'
    BY <1>2, Zenon DEF IInv, DeviceInv, RingOK
  <2> QED
    BY <1>2, <1>5, <2>1, <2>2 DEF IInv, DeviceInv
<1>8. DataInv'
  BY <1>1, <1>4, <1>5 DEF IInv, DataInv, At
<1> QED
  BY <1>4, <1>6, <1>7, <1>8 DEF IInv

LEMMA NextKeeps == IInv /\ [Next]_vars => IInv'
<1> SUFFICES ASSUME IInv, [Next]_vars PROVE IInv'
  OBVIOUS
<1>1. ASSUME NEW p \in Process,
             Bread(p) \/ Bwrite(p) \/ Brelse(p) \/ Change(p) \/ Bpin(p) \/ Bunpin(p)
      PROVE  IInv'
  <2>1. ASSUME NEW b \in Block, Bget(p, b) PROVE IInv'
    BY <2>1, BgetKeeps
  <2>2. CASE SleepLock(p)
    BY <2>2, SleepLockKeeps
  <2>3. CASE WaitDesc(p)
    BY <2>3, WaitDescKeeps
  <2>4. CASE Submit(p)
    BY <2>4, SubmitKeeps
  <2>5. CASE Finish(p)
    BY <2>5, FinishKeeps
  <2>6. CASE Change(p) \/ Bwrite(p)
    <3>1. At(p, "holding")
      BY <2>6 DEF Change, Bwrite
    <3> QED
      BY <2>6, <3>1, HolderKeeps
  <2>7. CASE Bpin(p) \/ Bunpin(p)
    BY <2>7, PinKeeps
  <2>8. CASE Releasesleep(p)
    BY <2>8, ReleasesleepKeeps
  <2>9. CASE Unref(p)
    BY <2>9, UnrefKeeps
  <2> QED
    BY <1>1, <2>1, <2>2, <2>3, <2>4, <2>5, <2>6, <2>7, <2>8, <2>9 DEF Bread, VirtioDiskRw, Brelse
<1>2. CASE Hardware
  <2>1. CASE DeviceFetches
    BY <1>2, <2>1, DeviceFetchesKeeps DEF Hardware
  <2>2. ASSUME NEW d \in Desc, DeviceFinishes(d) PROVE IInv'
    BY <1>2, <2>2, DeviceFinishesKeeps DEF Hardware
  <2>3. CASE IntrAck
    BY <1>2, <2>3, IntrAckKeeps DEF Hardware
  <2>4. CASE IntrEntry
    BY <1>2, <2>4, IntrEntryKeeps DEF Hardware
  <2> QED
    BY <1>2, <2>1, <2>2, <2>3, <2>4 DEF Hardware, Device, VirtioDiskIntr
<1>3. CASE UNCHANGED vars
  BY <1>3, StutterKeeps
<1> QED
  BY <1>1, <1>2, <1>3 DEF Next

(* The inductive invariant holds in every reachable state of the cache, its
   sleep locks and the disk driver, whatever the sizes of the tables and the
   width of the ring indices. *)
THEOREM SpecIInv == Spec => []IInv
<1> QED
  BY InitIInv, NextKeeps, PTL DEF Spec

-----------------------------------------------------------------------------
(* The books are in order and nobody sleeps for what has happened          *)

LEMMA ThreeElements ==
  ASSUME NEW a, NEW b, NEW c, a # b, a # c, b # c
  PROVE  Cardinality({a, b, c}) = 3
<1>1. PICK R : R = {a}
  BY Zenon
<1>2. PICK S : S = R \union {b}
  BY Zenon
<1>3. PICK T : T = S \union {c}
  BY Zenon
<1>4. IsFiniteSet(R) /\ Cardinality(R) = 1
  BY <1>1, FS_Singleton, Zenon
<1>5. b \notin R /\ c \notin S /\ {a, b, c} = T
  BY <1>1, <1>2, <1>3
<1>6. IsFiniteSet(S) /\ Cardinality(S) = 2
  BY <1>2, <1>4, <1>5, FS_AddElement
<1>7. Cardinality(T) = 3
  <2>1. Cardinality(S \union {c}) = Cardinality(S) + 1
    BY <1>5, <1>6, FS_AddElement, Zenon
  <2> QED
    BY <1>3, <1>6, <2>1
<1> QED
  BY <1>5, <1>7

LEMMA IsOneBuffer == IInv => OneBuffer
<1> SUFFICES ASSUME IInv PROVE OneBuffer
  OBVIOUS
<1>1. ASSUME NEW b \in Block
      PROVE  Cardinality(Cached(b)) <= 1
  <2>1. CASE Cached(b) = {}
    <3>1. Cardinality({}) = 0
      BY FS_EmptySet
    <3> QED
      BY <2>1, <3>1
  <2>2. ASSUME NEW k \in Cached(b) PROVE Cardinality(Cached(b)) <= 1
    <3>1. b # NoBlock
      BY VirtioAssumption
    <3>2. Cached(b) = {k}
      BY <2>2, <3>1 DEF Cached, IInv, CacheInv
    <3>3. Cardinality({k}) = 1
      BY FS_Singleton
    <3> QED
      BY <3>2, <3>3
  <2> QED
    BY <2>1, <2>2
<1>2. \A k \in Buf : buf[k].refcnt = References(k)
  BY DEF IInv, CacheInv
<1> QED
  BY <1>1, <1>2 DEF OneBuffer

LEMMA AreRequestsAccounted == IInv => RequestsAccounted
<1> SUFFICES ASSUME IInv PROVE RequestsAccounted
  OBVIOUS
<1>1. Desc = free \union UNION {Chain(thread[p].head) : p \in InRequest}
  <2>1. ASSUME NEW p \in InRequest
        PROVE  Chain(thread[p].head) \subseteq Desc
    <3>1. PICK d : d = thread[p].head
      OBVIOUS
    <3>2. {d, Second(d), Third(d)} \subseteq Desc \ free
      BY <3>1, Zenon DEF IInv, ChainInv
    <3> QED
      BY <3>1, <3>2 DEF Chain, Second, Third
  <2>2. \A d \in Desc \ free : \E p \in InRequest : d \in Chain(thread[p].head)
    BY DEF IInv, ChainInv
  <2>3. free \subseteq Desc
    BY DriverTyped
  <2> HIDE DEF Desc
  <2> QED
    BY <2>1, <2>2, <2>3
<1>2. ASSUME NEW p \in InRequest
      PROVE  LET d == thread[p].head IN
             /\ Cardinality(Chain(d)) = 3 /\ Chain(d) \intersect free = {}
             /\ \A q \in InRequest \ {p} : Chain(d) \intersect Chain(thread[q].head) = {}
             /\ info[d].buf = thread[p].k /\ buf[thread[p].k].lock = p
             /\ owned[thread[p].k] = (d \in Pending \union device.work \union Reported)
             /\ info[d].ok = (d \notin Pending \union device.work)
  <2>1. PICK d \in Desc, k \in Buf : d = thread[p].head /\ k = thread[p].k
    BY Typed, Zenon DEF IInv, ChainInv, ThreadOK, At, Thread, InRequest
  <2>2. /\ {d, Second(d), Third(d)} \subseteq Desc \ free
        /\ d # Second(d) /\ d # Third(d) /\ Second(d) # Third(d)
    BY <2>1 DEF IInv, ChainInv
  <2>3. Chain(d) = {d, Second(d), Third(d)}
    BY DEF Chain, Second, Third
  <2>4. Cardinality(Chain(d)) = 3
    <3>1. PICK e, f : e = Second(d) /\ f = Third(d)
      OBVIOUS
    <3>2. Cardinality({d, e, f}) = 3
      BY <2>2, <3>1, ThreeElements, Zenon
    <3> QED
      BY <2>3, <3>1, <3>2
  <2>5. \A q \in InRequest \ {p} : Chain(d) \intersect Chain(thread[q].head) = {}
    BY <2>1, Zenon DEF IInv, ChainInv
  <2>6. RequestOK(p)
    BY DEF IInv, RequestInv
  <2>7. buf[k].lock = p
    BY <2>1 DEF IInv, LockInv, InRequest, HasLock, AtDisk
  <2>8. owned[k] \in BOOLEAN /\ info[d].ok \in BOOLEAN
    BY Zenon DEF IInv, TypeOK, VirtioTypeOK
  <2>9. /\ owned[k] <=> d \in Pending \union device.work \union Reported
        /\ info[d].ok <=> d \notin Pending \union device.work
        /\ info[d].buf = k
    BY <2>1, <2>6 DEF RequestOK, InDevice
  <2>10. /\ owned[k] = (d \in Pending \union device.work \union Reported)
         /\ info[d].ok = (d \notin Pending \union device.work)
    BY <2>8, <2>9
  <2>11. Chain(d) \intersect free = {}
    BY <2>2, <2>3
  <2> QED
    BY <2>1, <2>4, <2>5, <2>7, <2>9, <2>10, <2>11
<1>3. /\ \A k \in Buf : owned[k] => \E p \in InRequest : thread[p].k = k
      /\ Pending \intersect device.work = {} /\ Reported \intersect device.work = {}
      /\ Pending \union device.work \union Reported \subseteq {thread[p].head : p \in InRequest}
  BY DEF IInv, PlacesInv, DeviceInv, InDevice
<1>4. intr => used_idx # used.idx /\ ~ IntrPanics
  BY NoPanic DEF IInv, DeviceInv
<1> QED
  BY <1>1, <1>2, <1>3, <1>4, Zenon DEF RequestsAccounted

(* bget, brelse, bpin, alloc3_desc, free_chain, virtio_disk_rw and         *)
(* virtio_disk_intr keep the books of cache and driver: a block has one    *)
(* buffer, refcnt counts who refers to it, every descriptor is free or in  *)
(* the chain of one request, and no request is lost, served twice or seen  *)
(* by the handler before the device reported that it went well.            *)
THEOREM SpecAccounted == Spec => []Accounted
<1>1. IInv => Accounted
  BY IsOneBuffer, AreRequestsAccounted DEF IInv, Accounted
<1> QED
  BY <1>1, SpecIInv, PTL

(* Who sleeps in virtio_disk_rw or acquiresleep sleeps for something that  *)
(* is still to come: no wakeup of virtio_disk_intr, free_desc or           *)
(* releasesleep is missed, whatever the order of their steps.              *)
THEOREM SpecNoLostWakeup == Spec => []NoLostWakeup
<1>1. ASSUME IInv, NEW p \in Process, At(p, "rw_asleep")
      PROVE  owned[thread[p].k]
  <2>1. p \in InRequest
    BY <1>1 DEF InRequest, At
  <2>2. RequestOK(p)
    BY <1>1, <2>1 DEF IInv, RequestInv
  <2> QED
    BY <1>1, <2>2 DEF RequestOK
<1>2. IInv => NoLostWakeup
  BY <1>1 DEF IInv, WaitInv, NoLostWakeup
<1> QED
  BY <1>2, SpecIInv, PTL

-----------------------------------------------------------------------------
(* What a block contains and who holds it                                  *)

ContentsIn(bf, dt, dk, b) ==
  LET cached == {k \in Buf : bf[k].block = b} IN
  IF \E k \in cached : bf[k].valid
    THEN dt[CHOOSE k \in cached : bf[k].valid] ELSE dk[b]

Holds(p) ==
  IF At(p, "holding") \/ (thread[p].k # NoBuf /\ thread[p].write)
    THEN buf[thread[p].k].block ELSE NoBlock

LEMMA ContentsThat ==
  ASSUME NEW bf, NEW dt, NEW dk, NEW b, b # NoBlock,
         \A i, j \in Buf : bf[i].block = bf[j].block /\ bf[i].block # NoBlock => i = j
  PROVE  /\ \A k \in Buf : bf[k].block = b =>
              ContentsIn(bf, dt, dk, b) = IF bf[k].valid THEN dt[k] ELSE dk[b]
         /\ (\A k \in Buf : bf[k].block # b) => ContentsIn(bf, dt, dk, b) = dk[b]
<1>1. ASSUME NEW k \in Buf, bf[k].block = b
      PROVE  ContentsIn(bf, dt, dk, b) = IF bf[k].valid THEN dt[k] ELSE dk[b]
  <2>1. {j \in Buf : bf[j].block = b} = {k}
    BY <1>1
  <2>2. (CHOOSE j \in {k} : bf[j].valid) = k \/ ~ bf[k].valid
    OBVIOUS
  <2> QED
    BY <2>1, <2>2 DEF ContentsIn
<1>2. ASSUME \A k \in Buf : bf[k].block # b
      PROVE  ContentsIn(bf, dt, dk, b) = dk[b]
  BY <1>2 DEF ContentsIn
<1> QED
  BY <1>1, <1>2

LEMMA ContentsOf ==
  ASSUME IInv, NEW b \in Block
  PROVE  /\ \A k \in Buf : buf[k].block = b =>
              Contents(b) = IF buf[k].valid THEN data[k] ELSE disk[b]
         /\ (\A k \in Buf : buf[k].block # b) => Contents(b) = disk[b]
<1>1. PICK bf, dt, dk : bf = buf /\ dt = data /\ dk = disk
  OBVIOUS
<1>2. b # NoBlock /\ \A i, j \in Buf : bf[i].block = bf[j].block /\ bf[i].block # NoBlock => i = j
  BY <1>1, VirtioAssumption DEF IInv, CacheInv
<1>3. Contents(b) = ContentsIn(bf, dt, dk, b)
  BY <1>1, Zenon DEF Contents, ContentsIn, Cached
<1> QED
  BY <1>1, <1>2, <1>3, ContentsThat

LEMMA ContentsNext ==
  ASSUME IInv', NEW b \in Block
  PROVE  /\ \A k \in Buf : buf'[k].block = b =>
              Contents(b)' = IF buf'[k].valid THEN data'[k] ELSE disk'[b]
         /\ (\A k \in Buf : buf'[k].block # b) => Contents(b)' = disk'[b]
<1>1. PICK bf, dt, dk : bf = buf' /\ dt = data' /\ dk = disk'
  OBVIOUS
<1>2. b # NoBlock /\ \A i, j \in Buf : bf[i].block = bf[j].block /\ bf[i].block # NoBlock => i = j
  BY <1>1, VirtioAssumption DEF IInv, CacheInv
<1>3. Contents(b)' = ContentsIn(bf, dt, dk, b)
  BY <1>1, Zenon DEF Contents, ContentsIn, Cached
<1> QED
  BY <1>1, <1>2, <1>3, ContentsThat

(* Nobody recycles the buffer of b, and its value, cached or not, stays.   *)
LEMMA ContentsKept ==
  ASSUME IInv, IInv', NEW b \in Block,
         \A k \in Buf : buf'[k].block = buf[k].block,
         \A k \in Buf : buf[k].block = b =>
           (IF buf'[k].valid THEN data'[k] ELSE disk'[b]) =
           (IF buf[k].valid THEN data[k] ELSE disk[b]),
         (\A k \in Buf : buf[k].block # b) => disk'[b] = disk[b]
  PROVE  Contents(b)' = Contents(b)
<1>1. CASE \E k \in Buf : buf[k].block = b
  <2>1. PICK k \in Buf : buf[k].block = b
    BY <1>1
  <2>2. Contents(b) = IF buf[k].valid THEN data[k] ELSE disk[b]
    BY <2>1, ContentsOf
  <2>3. buf'[k].block = b
    BY <2>1
  <2>4. Contents(b)' = IF buf'[k].valid THEN data'[k] ELSE disk'[b]
    BY <2>3, ContentsNext
  <2> QED
    BY <2>1, <2>2, <2>4
<1>2. CASE \A k \in Buf : buf[k].block # b
  <2>1. Contents(b) = disk[b]
    BY <1>2, ContentsOf
  <2>2. \A k \in Buf : buf'[k].block # b
    BY <1>2
  <2>3. Contents(b)' = disk'[b]
    BY <2>2, ContentsNext
  <2> QED
    BY <1>2, <2>1, <2>3
<1> QED
  BY <1>1, <1>2

(* A process goes on to work on its buffer, or not to.                     *)
Like(x, y) == x.k = y.k /\ x.write = y.write /\ (x.at = "holding" <=> y.at = "holding")

LEMMA HoldsKept ==
  ASSUME IInv, NEW q \in Process, Like(thread'[q], thread[q]),
         \A k \in Buf : buf'[k].block = buf[k].block \/ buf[k].refcnt = 0
  PROVE  Holds(q)' = Holds(q)
<1>1. thread'[q].k = thread[q].k /\ thread'[q].write = thread[q].write
      /\ (At(q, "holding")' <=> At(q, "holding"))
  BY DEF Like, At
<1>2. CASE thread[q].k = NoBuf
  <2>1. ~ At(q, "holding")
    BY <1>2, Typed DEF ThreadOK, At
  <2> QED
    BY <1>1, <1>2, <2>1 DEF Holds
<1>3. CASE thread[q].k # NoBuf
  <2>1. PICK k \in Buf : k = thread[q].k
    BY <1>3, Typed DEF Thread
  <2>2. buf[k].refcnt # 0
    BY <2>1, NotReferred DEF IInv
  <2>3. buf'[k].block = buf[k].block
    BY <2>2
  <2> QED
    BY <1>1, <2>1, <2>3 DEF Holds
<1> QED
  BY <1>2, <1>3

(* Who holds a block has the lock of its only buffer.                      *)
LEMMA HeldBy ==
  ASSUME IInv, NEW q \in Process
  PROVE  /\ (At(q, "holding") \/ thread[q].write) =>
              /\ thread[q].at \in HasLock /\ thread[q].k \in Buf
              /\ Holds(q) = buf[thread[q].k].block /\ Holds(q) \in Block
         /\ ~ At(q, "holding") /\ ~ thread[q].write => Holds(q) = NoBlock
<1>1. ~ At(q, "holding") /\ ~ thread[q].write => Holds(q) = NoBlock
  BY DEF Holds
<1>2. ASSUME At(q, "holding") \/ thread[q].write
      PROVE  /\ thread[q].at \in HasLock /\ thread[q].k \in Buf
             /\ Holds(q) = buf[thread[q].k].block /\ Holds(q) \in Block
  <2>1. thread[q].at \in HasLock
    BY <1>2, Typed DEF ThreadOK, At, HasLock
  <2>2. thread[q].k \in Buf /\ buf[thread[q].k].block \in Block
    BY <2>1, LockedAlone
  <2>3. thread[q].k # NoBuf
    BY <2>2
  <2> QED
    BY <1>2, <2>1, <2>2, <2>3 DEF Holds
<1> QED
  BY <1>1, <1>2

LEMMA HeldAlone ==
  ASSUME IInv, NEW p \in Process, NEW k \in Buf, buf[k].block \in Block,
         buf[k].lock \in {p, NoProcess}
  PROVE  \A q \in Process : q # p => Holds(q) # buf[k].block
<1>1. ASSUME NEW q \in Process, q # p, Holds(q) = buf[k].block
      PROVE  FALSE
  <2>1. buf[k].block # NoBlock
    BY VirtioAssumption
  <2>2. /\ thread[q].at \in HasLock /\ thread[q].k \in Buf
        /\ Holds(q) = buf[thread[q].k].block
    BY <1>1, <2>1, HeldBy
  <2>3. thread[q].k = k
    <3>1. PICK j \in Buf : j = thread[q].k
      BY <2>2
    <3>2. buf[j].block = buf[k].block /\ buf[j].block # NoBlock
      BY <1>1, <2>1, <2>2, <3>1
    <3>3. j = k
      BY <3>2 DEF IInv, CacheInv
    <3> QED
      BY <3>1, <3>3
  <2>4. buf[k].lock = q
    BY <2>2, <2>3 DEF IInv, LockInv
  <2> QED
    BY <1>1, <2>4, BcacheAssumption
<1> QED
  BY <1>1

-----------------------------------------------------------------------------
(* Every step is one of BlockStore or leaves contents and holders          *)

SameBlocks == \A b \in Block : Contents(b)' = Contents(b)
SameHolders == \A q \in Process : Holds(q)' = Holds(q)
Implements == [Blocks!Next]_(Blocks!vars)

LEMMA StutterRefines ==
  ASSUME SameBlocks, SameHolders
  PROVE  Implements
<1>1. UNCHANGED Blocks!vars
  BY DEF SameBlocks, SameHolders, Holds, Blocks!vars
<1> QED
  BY <1>1, Zenon DEF Implements

LEMMA HoldRefines ==
  ASSUME SameBlocks, NEW p \in Process, NEW b \in Block,
         Holds(p) = NoBlock, \A q \in Process : Holds(q) # b,
         Holds(p)' = b, \A q \in Process \ {p} : Holds(q)' = Holds(q)
  PROVE  Implements
<1>1. Blocks!Hold(p, b)
  BY Zenon DEF SameBlocks, Holds, Blocks!Hold
<1> QED
  BY <1>1, Zenon DEF Implements, Blocks!Next

LEMMA DropRefines ==
  ASSUME SameBlocks, NEW p \in Process, Holds(p) # NoBlock,
         Holds(p)' = NoBlock, \A q \in Process \ {p} : Holds(q)' = Holds(q)
  PROVE  Implements
<1>1. Blocks!Drop(p)
  BY Zenon DEF SameBlocks, Holds, Blocks!Drop
<1> QED
  BY <1>1, Zenon DEF Implements, Blocks!Next

LEMMA ChangeBlockRefines ==
  ASSUME SameHolders, NEW p \in Process, NEW b \in Block, NEW v \in Val, Holds(p) = b, b # NoBlock,
         Contents(b)' = v, \A c \in Block \ {b} : Contents(c)' = Contents(c)
  PROVE  Implements
<1>1. Blocks!Change(p, v)
  BY Zenon DEF SameHolders, Holds, Blocks!Change
<1> QED
  BY <1>1, Zenon DEF Implements, Blocks!Next

(* Steps that leave the disk, the data and what the buffers are.           *)
LEMMA BlocksKept ==
  ASSUME IInv, IInv', disk' = disk, \A k \in Buf : data'[k] = data[k],
         \A k \in Buf : buf'[k].block = buf[k].block /\ buf'[k].valid = buf[k].valid
  PROVE  SameBlocks
<1>1. ASSUME NEW b \in Block
      PROVE  Contents(b)' = Contents(b)
  BY ContentsKept
<1> QED
  BY <1>1 DEF SameBlocks

-----------------------------------------------------------------------------
(* The steps of a process                                                  *)

LEMMA OthersLike ==
  ASSUME IInv, NEW p \in Process, NEW t, \A q \in Process \ {p} : t[q] = thread[q], NEW k,
         \/ thread' = t
         \/ thread' = WakeAll(t, "rw_nodesc", "rw")
         \/ thread' = WakeFor(t, k, "lock_asleep", "lock")
         \/ thread' = WakeFor(t, k, "rw_asleep", "rw_woken")
  PROVE  /\ \A q \in Process \ {p} : Like(thread'[q], thread[q])
         /\ t[p].at \notin {"rw_nodesc", "lock_asleep", "rw_asleep"} => thread'[p] = t[p]
<1>1. ASSUME NEW q \in Process
      PROVE  \/ thread'[q] = t[q]
             \/ \E l \in {"rw", "lock", "rw_woken"} :
                  /\ t[q].at \in {"rw_nodesc", "lock_asleep", "rw_asleep"}
                  /\ thread'[q] = [t[q] EXCEPT !.at = l]
  <2>1. CASE thread' = WakeAll(t, "rw_nodesc", "rw")
    <3>1. thread'[q] = IF t[q].at = "rw_nodesc" THEN [t[q] EXCEPT !.at = "rw"] ELSE t[q]
      BY <2>1, Zenon DEF WakeAll
    <3> QED
      BY <3>1
  <2>2. CASE thread' = WakeFor(t, k, "lock_asleep", "lock")
    <3>1. thread'[q] = IF t[q].at = "lock_asleep" /\ t[q].k = k
                         THEN [t[q] EXCEPT !.at = "lock"] ELSE t[q]
      BY <2>2, Zenon DEF WakeFor
    <3> QED
      BY <3>1
  <2>3. CASE thread' = WakeFor(t, k, "rw_asleep", "rw_woken")
    <3>1. thread'[q] = IF t[q].at = "rw_asleep" /\ t[q].k = k
                         THEN [t[q] EXCEPT !.at = "rw_woken"] ELSE t[q]
      BY <2>3, Zenon DEF WakeFor
    <3> QED
      BY <3>1
  <2> QED
    BY <2>1, <2>2, <2>3
<1>2. ASSUME NEW q \in Process \ {p}
      PROVE  Like(thread'[q], thread[q])
  <2>1. t[q] = thread[q] /\ thread[q] \in Thread
    BY Typed
  <2>2. CASE thread'[q] = t[q]
    BY <2>1, <2>2 DEF Like
  <2>3. CASE \E l \in {"rw", "lock", "rw_woken"} :
                  /\ t[q].at \in {"rw_nodesc", "lock_asleep", "rw_asleep"}
                  /\ thread'[q] = [t[q] EXCEPT !.at = l]
    BY <2>1, <2>3 DEF Like, Thread
  <2> QED
    BY <1>1, <2>2, <2>3
<1> QED
  BY <1>1, <1>2, Zenon

(* A step that leaves the disk and what every buffer in use is.            *)
LEMMA ThreadRefines ==
  ASSUME IInv, IInv', NEW p \in Process, \A q \in Process \ {p} : Like(thread'[q], thread[q]),
         Holds(p)' = Holds(p), disk' = disk, data' = data,
         \A k \in Buf : buf'[k].block = buf[k].block /\ buf'[k].valid = buf[k].valid
  PROVE  Implements
<1>1. SameBlocks
  BY BlocksKept
<1>2. \A q \in Process \ {p} : Holds(q)' = Holds(q)
  BY HoldsKept
<1>3. SameHolders
  BY <1>2 DEF SameHolders
<1> QED
  BY <1>1, <1>3, StutterRefines

(* Only p moves, to l, with w and the same buffer.                         *)
Advance(p, l, w, h, d) ==
  [thread EXCEPT ![p] = [@ EXCEPT !.at = l, !.write = w, !.head = h, !.dirty = d]]

LEMMA Advanced ==
  ASSUME IInv, NEW p \in Process, NEW t, NEW l, NEW w, NEW h, NEW d, t = Advance(p, l, w, h, d)
  PROVE  /\ t[p].at = l /\ t[p].write = w /\ t[p].k = thread[p].k
         /\ \A q \in Process \ {p} : t[q] = thread[q]
<1>1. PICK u : u = [thread[p] EXCEPT !.at = l, !.write = w, !.head = h, !.dirty = d]
  OBVIOUS
<1>2. thread[p] \in Thread
  BY Typed
<1>3. u.at = l /\ u.write = w /\ u.k = thread[p].k
  BY <1>1, <1>2 DEF Thread
<1>4. t = [thread EXCEPT ![p] = u]
  BY <1>1 DEF Advance
<1> QED
  BY <1>3, <1>4, Typed

LEMMA Advances ==
  ASSUME IInv, NEW p \in Process, NEW l, NEW h, NEW d
  PROVE  LET t == thread[p] IN
         /\ Goto(p, l) = Advance(p, l, t.write, t.head, t.dirty)
         /\ [thread EXCEPT ![p].dirty = d] = Advance(p, t.at, t.write, t.head, d)
         /\ [thread EXCEPT ![p].at = l, ![p].head = h] = Advance(p, l, t.write, h, t.dirty)
<1>1. thread \in [Process -> Thread] /\ thread[p] \in Thread
  BY Typed
<1>2. /\ [thread[p] EXCEPT !.at = l] = [thread[p] EXCEPT !.at = l, !.write = thread[p].write,
                             !.head = thread[p].head, !.dirty = thread[p].dirty]
      /\ [thread[p] EXCEPT !.dirty = d] = [thread[p] EXCEPT !.at = thread[p].at,
                             !.write = thread[p].write, !.head = thread[p].head, !.dirty = d]
      /\ [thread[p] EXCEPT !.at = l, !.head = h] = [thread[p] EXCEPT !.at = l,
                             !.write = thread[p].write, !.head = h, !.dirty = thread[p].dirty]
  BY <1>1, Zenon DEF Thread
<1>3. [thread EXCEPT ![p].at = l, ![p].head = h] =
         [thread EXCEPT ![p] = [thread[p] EXCEPT !.at = l, !.head = h]]
  BY <1>1, Zenon
<1> QED
  BY <1>2, <1>3, Zenon DEF Goto, Advance

LEMMA BufKept ==
  ASSUME IInv, NEW k \in Buf, NEW x,
         buf' = buf \/ buf' = [buf EXCEPT ![k].lock = x] \/ buf' = [buf EXCEPT ![k].refcnt = x]
  PROVE  \A j \in Buf : buf'[j].block = buf[j].block /\ buf'[j].valid = buf[j].valid
<1>1. buf[k] \in Buffer /\ buf \in [Buf -> Buffer]
  BY Typed
<1>2. ASSUME NEW c, buf' = [buf EXCEPT ![k] = c], c.block = buf[k].block, c.valid = buf[k].valid
      PROVE  \A j \in Buf : buf'[j].block = buf[j].block /\ buf'[j].valid = buf[j].valid
  BY <1>1, <1>2
<1>3. CASE buf' = [buf EXCEPT ![k].lock = x]
  <2>1. PICK c : c = [buf[k] EXCEPT !.lock = x]
    BY Zenon
  <2>2. c.block = buf[k].block /\ c.valid = buf[k].valid
    BY <1>1, <2>1 DEF Buffer
  <2>3. buf' = [buf EXCEPT ![k] = c]
    BY <1>3, <2>1
  <2> QED
    BY <1>2, <2>2, <2>3
<1>4. CASE buf' = [buf EXCEPT ![k].refcnt = x]
  <2>1. PICK c : c = [buf[k] EXCEPT !.refcnt = x]
    BY Zenon
  <2>2. c.block = buf[k].block /\ c.valid = buf[k].valid
    BY <1>1, <2>1 DEF Buffer
  <2>3. buf' = [buf EXCEPT ![k] = c]
    BY <1>4, <2>1
  <2> QED
    BY <1>2, <2>2, <2>3
<1> QED
  BY <1>3, <1>4

LEMMA WaitDescRefines ==
  ASSUME IInv, IInv', NEW p \in Process, WaitDesc(p)
  PROVE  Implements
<1>1. /\ thread[p].at = "rw" /\ disk' = disk /\ data' = data /\ buf' = buf
  BY DEF WaitDesc, RwWaits, At, cache
<1>2. PICK t : /\ t = IF free = {} THEN thread ELSE WakeAll(thread, "rw_nodesc", "rw")
               /\ thread' = [t EXCEPT ![p].at = "rw_nodesc"]
  BY Zenon DEF WaitDesc, RwWaits
<1>3. /\ t[p] = thread[p]
      /\ \A q \in Process : \/ t[q] = thread[q]
                            \/ thread[q].at = "rw_nodesc" /\ t[q] = [thread[q] EXCEPT !.at = "rw"]
      /\ DOMAIN t = Process
  <2>1. CASE t = thread
    BY <2>1, Typed
  <2>2. CASE t = WakeAll(thread, "rw_nodesc", "rw")
    BY <1>1, <2>2 DEF WakeAll
  <2> QED
    BY <1>2, <2>1, <2>2
<1>4. /\ \A q \in Process \ {p} : thread'[q] = t[q]
      /\ p \in DOMAIN t /\ thread'[p] = [t[p] EXCEPT !.at = "rw_nodesc"]
  BY <1>2, <1>3
<1>5. ASSUME NEW q \in Process
      PROVE  Like(thread'[q], thread[q])
  <2>1. thread[q] \in Thread
    BY Typed
  <2>2. CASE q = p
    BY <1>1, <1>3, <1>4, <2>1, <2>2 DEF Like, Thread
  <2>3. CASE q # p
    BY <1>3, <1>4, <2>1, <2>3 DEF Like, Thread
  <2> QED
    BY <2>2, <2>3
<1>6. Holds(p)' = Holds(p)
  BY <1>1, <1>5, HoldsKept
<1> QED
  BY <1>1, <1>5, <1>6, ThreadRefines

LEMMA SubmitRefines ==
  ASSUME IInv, IInv', NEW p \in Process, Submit(p)
  PROVE  Implements
<1>1. PICK h :
        /\ thread[p].at = "rw" /\ disk' = disk /\ data' = data /\ buf' = buf
        /\ thread' = [thread EXCEPT ![p].at = "rw_asleep", ![p].head = h]
  BY Zenon DEF Submit, RwSubmits, At, cache
<1>2. /\ thread'[p].at = "rw_asleep" /\ thread'[p].write = thread[p].write /\ thread'[p].k = thread[p].k
      /\ \A q \in Process \ {p} : thread'[q] = thread[q]
  <2>1. thread' = Advance(p, "rw_asleep", thread[p].write, h, thread[p].dirty)
    BY <1>1, Advances, Zenon
  <2> QED
    BY <2>1, Advanced
<1>3. \A q \in Process : Like(thread'[q], thread[q])
  BY <1>1, <1>2, Zenon DEF Like
<1>4. Holds(p)' = Holds(p)
  BY <1>1, <1>3, HoldsKept, Zenon
<1> QED
  BY <1>1, <1>3, <1>4, ThreadRefines, Zenon

LEMMA BwriteRefines ==
  ASSUME IInv, IInv', NEW p \in Process, Bwrite(p)
  PROVE  Implements
<1>1. /\ At(p, "holding") /\ disk' = disk /\ data' = data /\ buf' = buf
      /\ thread' = [thread EXCEPT ![p].at = "rw", ![p].write = TRUE]
  BY DEF Bwrite, cache
<1>2. /\ thread'[p].at = "rw" /\ thread'[p].write = TRUE /\ thread'[p].k = thread[p].k
      /\ \A q \in Process \ {p} : thread'[q] = thread[q]
  <2>1. PICK u : u = [thread[p] EXCEPT !.at = "rw", !.write = TRUE]
    OBVIOUS
  <2>2. thread[p] \in Thread
    BY Typed
  <2>3. u.at = "rw" /\ u.write = TRUE /\ u.k = thread[p].k
    BY <2>1, <2>2 DEF Thread
  <2>4. thread' = [thread EXCEPT ![p] = u]
    BY <1>1, <2>1, Typed, Zenon
  <2> QED
    BY <2>3, <2>4, Typed
<1>3. \A q \in Process \ {p} : Like(thread'[q], thread[q])
  BY <1>2 DEF Like
<1>4. thread[p].k \in Buf /\ thread[p].k # NoBuf
  BY <1>1, HeldBy
<1>5. Holds(p)' = Holds(p)
  BY <1>1, <1>2, <1>4 DEF Holds, At
<1> QED
  BY <1>1, <1>3, <1>5, ThreadRefines, Zenon

LEMMA PinRefines ==
  ASSUME IInv, IInv', NEW p \in Process, Bpin(p) \/ Bunpin(p)
  PROVE  Implements
<1>1. PICK k \in Buf : k = thread[p].k
  BY HeldBy DEF Bpin, Bunpin
<1>2. /\ disk' = disk /\ data' = data
      /\ \/ buf' = buf
         \/ \E x : buf' = [buf EXCEPT ![k].refcnt = x]
      /\ thread' = thread \/ thread' = [thread EXCEPT ![p].dirty = FALSE]
  BY <1>1, Zenon DEF Bpin, Bunpin
<1>3. /\ thread'[p].at = thread[p].at /\ thread'[p].write = thread[p].write /\ thread'[p].k = thread[p].k
      /\ \A q \in Process \ {p} : thread'[q] = thread[q]
  <2>1. CASE thread' = [thread EXCEPT ![p].dirty = FALSE]
    <3>1. PICK d : thread' = Advance(p, thread[p].at, thread[p].write, thread[p].head, d)
      BY <2>1, Advances, Zenon
    <3> QED
      BY <3>1, Advanced
  <2> QED
    BY <1>2, <2>1
<1>4. \A q \in Process : Like(thread'[q], thread[q])
  BY <1>3 DEF Like
<1>5. \A j \in Buf : buf'[j].block = buf[j].block /\ buf'[j].valid = buf[j].valid
  BY <1>2, BufKept
<1>6. Holds(p)' = Holds(p)
  BY <1>4, <1>5, HoldsKept
<1> QED
  BY <1>2, <1>4, <1>5, <1>6, ThreadRefines

LEMMA UnrefRefines ==
  ASSUME IInv, IInv', NEW p \in Process, Unref(p)
  PROVE  Implements
<1>1. PICK k \in Buf : k = thread[p].k
  BY Typed DEF Unref, ThreadOK, At, Thread
<1>2. /\ thread[p].at = "unref" /\ disk' = disk /\ data' = data
      /\ \E x : buf' = [buf EXCEPT ![k].refcnt = x]
      /\ thread' = [thread EXCEPT ![p] = Idle]
  BY <1>1, Zenon DEF Unref, At
<1>3. thread'[p] = Idle /\ \A q \in Process \ {p} : thread'[q] = thread[q]
  BY <1>2, Typed
<1>4. ~ thread[p].write
  BY <1>2, Typed DEF ThreadOK, AtDisk
<1>5. Holds(p)' = NoBlock /\ Holds(p) = NoBlock
  BY <1>2, <1>3, <1>4, IdleIs, Zenon DEF Holds, At
<1>6. \A q \in Process \ {p} : Like(thread'[q], thread[q])
  BY <1>3 DEF Like
<1>7. \A j \in Buf : buf'[j].block = buf[j].block /\ buf'[j].valid = buf[j].valid
  BY <1>2, BufKept
<1> QED
  BY <1>2, <1>5, <1>6, <1>7, ThreadRefines

LEMMA ReleasesleepRefines ==
  ASSUME IInv, IInv', NEW p \in Process, Releasesleep(p)
  PROVE  Implements
<1>1. PICK k \in Buf : k = thread[p].k
  BY HeldBy DEF Releasesleep
<1>2. /\ At(p, "holding") /\ disk' = disk /\ data' = data
      /\ buf' = [buf EXCEPT ![k].lock = NoProcess]
      /\ thread' = WakeFor(Goto(p, "unref"), k, "lock_asleep", "lock")
  BY <1>1 DEF Releasesleep
<1>3. PICK t : t = Goto(p, "unref")
  OBVIOUS
<1>4. /\ t[p].at = "unref" /\ t[p].write = thread[p].write /\ t[p].k = thread[p].k
      /\ \A q \in Process \ {p} : t[q] = thread[q]
  <2>1. t = Advance(p, "unref", thread[p].write, thread[p].head, thread[p].dirty)
    BY <1>3, Advances, Zenon
  <2> QED
    BY <2>1, Advanced
<1>5. /\ \A q \in Process \ {p} : Like(thread'[q], thread[q])
      /\ thread'[p] = t[p]
  BY <1>2, <1>3, <1>4, OthersLike
<1>6. \A j \in Buf : buf'[j].block = buf[j].block /\ buf'[j].valid = buf[j].valid
  BY <1>2, BufKept
<1>7. SameBlocks
  BY <1>2, <1>6, BlocksKept
<1>8. \A q \in Process \ {p} : Holds(q)' = Holds(q)
  BY <1>5, <1>6, HoldsKept
<1>9. ~ thread[p].write
  BY <1>2, Typed, Zenon DEF ThreadOK, At, AtDisk
<1>10. Holds(p)' = NoBlock
  BY <1>4, <1>5, <1>9 DEF Holds, At
<1>11. Holds(p) # NoBlock
  BY <1>2, HeldBy, VirtioAssumption
<1> QED
  BY <1>7, <1>8, <1>10, <1>11, DropRefines

LEMMA SleepLockRefines ==
  ASSUME IInv, IInv', NEW p \in Process, SleepLock(p)
  PROVE  Implements
<1>1. PICK k \in Buf : k = thread[p].k
  BY Typed DEF SleepLock, ThreadOK, At, Thread
<1>2. PICK l :
        /\ thread[p].at = "lock" /\ disk' = disk /\ data' = data /\ thread' = Goto(p, l)
        /\ \/ l # "holding" /\ buf' = buf
           \/ buf' = [buf EXCEPT ![k].lock = p] /\ buf[k].lock = NoProcess
  BY <1>1 DEF SleepLock, At
<1>3. /\ thread'[p].at = l /\ thread'[p].write = thread[p].write /\ thread'[p].k = thread[p].k
      /\ \A q \in Process \ {p} : thread'[q] = thread[q]
  <2>1. thread' = Advance(p, l, thread[p].write, thread[p].head, thread[p].dirty)
    BY <1>2, Advances, Zenon
  <2> QED
    BY <2>1, Advanced
<1>4. \A q \in Process \ {p} : Like(thread'[q], thread[q])
  BY <1>3 DEF Like
<1>5. \A j \in Buf : buf'[j].block = buf[j].block /\ buf'[j].valid = buf[j].valid
  BY <1>2, BufKept
<1>6. ~ thread[p].write /\ Holds(p) = NoBlock
  <2>1. ~ thread[p].write /\ ~ At(p, "holding")
    BY <1>2, Typed DEF ThreadOK, At, AtDisk
  <2> QED
    BY <2>1, HeldBy
<1>7. CASE l # "holding"
  <2>1. Holds(p)' = NoBlock
    BY <1>3, <1>6, <1>7 DEF Holds, At
  <2> QED
    BY <1>2, <1>4, <1>5, <1>6, <2>1, ThreadRefines
<1>8. CASE l = "holding"
  <2>1. SameBlocks
    BY <1>2, <1>5, BlocksKept
  <2>2. \A q \in Process \ {p} : Holds(q)' = Holds(q)
    BY <1>4, <1>5, HoldsKept
  <2>3. PICK b : b = buf[k].block
    OBVIOUS
  <2>4. b \in Block /\ b # NoBlock
    <3>1. buf[k].refcnt # 0
      BY <1>1, NotReferred DEF IInv
    <3> QED
      BY <2>3, <3>1, VirtioAssumption, Zenon DEF IInv, CacheInv
  <2>5. Holds(p)' = b
    <3>1. thread'[p].k = k /\ At(p, "holding")' /\ buf'[k].block = b
      BY <1>1, <1>3, <1>5, <1>8, <2>3 DEF At
    <3> QED
      BY <3>1 DEF Holds, At
  <2>6. \A q \in Process : Holds(q) # b
    BY <1>2, <1>6, <1>8, <2>3, <2>4, HeldAlone
  <2> QED
    BY <1>6, <2>1, <2>2, <2>4, <2>5, <2>6, HoldRefines
<1> QED
  BY <1>7, <1>8

LEMMA ChangeRefines ==
  ASSUME IInv, IInv', NEW p \in Process, Change(p)
  PROVE  Implements
<1>1. PICK k \in Buf, b \in Block : k = thread[p].k /\ b = buf[k].block /\ Holds(p) = b
  BY HeldBy DEF Change
<1>2. /\ At(p, "holding") /\ disk' = disk /\ buf' = buf
      /\ data' = [data EXCEPT ![k] = 1 - data[k]]
      /\ thread' = [thread EXCEPT ![p].dirty = TRUE]
  BY <1>1 DEF Change, cache
<1>3. /\ thread'[p].at = thread[p].at /\ thread'[p].write = thread[p].write /\ thread'[p].k = thread[p].k
      /\ \A q \in Process \ {p} : thread'[q] = thread[q]
  <2>1. PICK d : thread' = Advance(p, thread[p].at, thread[p].write, thread[p].head, d)
    BY <1>2, Advances, Zenon
  <2> QED
    BY <2>1, Advanced
<1>4. \A q \in Process : Holds(q)' = Holds(q)
  <2>1. \A q \in Process : Like(thread'[q], thread[q])
    BY <1>3 DEF Like
  <2> QED
    BY <1>2, <2>1, HoldsKept, Zenon
<1>5. /\ data'[k] \in Val /\ \A j \in Buf \ {k} : data'[j] = data[j]
  BY <1>2, Typed DEF Val
<1>6. buf[k].valid
  BY <1>1, <1>2 DEF IInv, DataInv
<1>7. Contents(b)' = data'[k]
  <2>1. buf'[k].block = b /\ buf'[k].valid
    BY <1>1, <1>2, <1>6
  <2> QED
    BY <2>1, ContentsNext
<1>8. ASSUME NEW c \in Block \ {b}
      PROVE  Contents(c)' = Contents(c)
  <2>1. \A j \in Buf : buf[j].block = c => data'[j] = data[j]
    BY <1>1, <1>5
  <2> QED
    BY <1>2, <2>1, ContentsKept
<1>9. b # NoBlock
  BY VirtioAssumption
<1> QED
  BY <1>1, <1>4, <1>5, <1>7, <1>8, <1>9, ChangeBlockRefines DEF SameHolders

(* After a read the process holds the block, after a write it still does.  *)
LEMMA FinishRefines ==
  ASSUME IInv, IInv', NEW p \in Process, Finish(p)
  PROVE  Implements
<1>1. /\ thread[p].at = "rw_woken" /\ disk' = disk /\ data' = data
      /\ thread' = WakeAll([thread EXCEPT ![p].at = "holding", ![p].head = NoDesc,
                                          ![p].write = FALSE,
                                          ![p].dirty = @ /\ ~ thread[p].write],
                           "rw_nodesc", "rw")
      /\ buf' = [buf EXCEPT ![thread[p].k].valid = TRUE] /\ ~ owned[thread[p].k]
  BY DEF Finish, RwDone, At
<1>2. thread[p].at \in HasLock /\ p \in InRequest
  BY <1>1 DEF HasLock, AtDisk, InRequest
<1>3. PICK k \in Buf, b \in Block : k = thread[p].k /\ b = buf[k].block /\ b # NoBlock
  BY <1>2, LockedAlone, VirtioAssumption
<1>4. PICK t : t = [thread EXCEPT ![p].at = "holding", ![p].head = NoDesc, ![p].write = FALSE,
                                  ![p].dirty = @ /\ ~ thread[p].write]
  BY Zenon
<1>5. /\ t[p].at = "holding" /\ t[p].write = FALSE /\ t[p].k = k
      /\ \A q \in Process \ {p} : t[q] = thread[q]
  <2>1. PICK u : u = [thread[p] EXCEPT !.at = "holding", !.head = NoDesc, !.write = FALSE,
                                       !.dirty = thread[p].dirty /\ ~ thread[p].write]
    OBVIOUS
  <2>2. u.at = "holding" /\ u.write = FALSE /\ u.k = k
    <3>1. PICK d : u = [thread[p] EXCEPT !.at = "holding", !.head = NoDesc, !.write = FALSE, !.dirty = d]
      BY <2>1, Zenon
    <3>2. thread[p] \in Thread
      BY Typed
    <3> QED
      BY <1>3, <3>1, <3>2 DEF Thread
  <2>3. t = [thread EXCEPT ![p] = u]
    BY <1>4, <2>1, Typed, Zenon
  <2> QED
    BY <2>2, <2>3, Typed
<1>6. /\ \A q \in Process \ {p} : Like(thread'[q], thread[q])
      /\ thread'[p] = t[p]
  <2>1. thread' = WakeAll(t, "rw_nodesc", "rw")
    BY <1>1, <1>4
  <2> QED
    BY <1>5, <2>1, OthersLike
<1>7. /\ \A j \in Buf : buf'[j].block = buf[j].block
      /\ buf'[k].valid /\ \A j \in Buf \ {k} : buf'[j].valid = buf[j].valid
  <2>1. PICK c : c = [buf[k] EXCEPT !.valid = TRUE]
    BY Zenon
  <2>2. c.block = buf[k].block /\ c.valid
    BY <2>1, Typed DEF Buffer
  <2>3. buf' = [buf EXCEPT ![k] = c]
    BY <1>1, <1>3, <2>1
  <2> QED
    BY <2>2, <2>3, Typed
<1>8. data[k] = disk[b]
  <2>1. RequestOK(p)
    BY <1>2 DEF IInv, RequestInv
  <2>2. thread[p].head \notin InDevice
    BY <1>1, <2>1 DEF RequestOK
  <2> QED
    BY <1>2, <1>3, <2>2 DEF IInv, DataInv
<1>9. SameBlocks
  <2>1. ASSUME NEW c \in Block
        PROVE  Contents(c)' = Contents(c)
    <3>1. ASSUME NEW j \in Buf, buf[j].block = c
          PROVE  (IF buf'[j].valid THEN data'[j] ELSE disk'[c]) =
                 (IF buf[j].valid THEN data[j] ELSE disk[c])
      <4>1. CASE j = k
        BY <1>1, <1>3, <1>7, <1>8, <3>1, <4>1
      <4>2. CASE j # k
        BY <1>1, <1>7, <4>2, Zenon
      <4> QED
        BY <4>1, <4>2
    <3> QED
      BY <1>1, <1>7, <3>1, ContentsKept
  <2> QED
    BY <2>1 DEF SameBlocks
<1>10. \A q \in Process \ {p} : Holds(q)' = Holds(q)
  BY <1>6, <1>7, HoldsKept
<1>11. Holds(p)' = b
  <2>1. thread'[p].k = k /\ At(p, "holding")' /\ buf'[k].block = b
    BY <1>3, <1>5, <1>6, <1>7 DEF At
  <2> QED
    BY <2>1 DEF Holds, At
<1>12. CASE thread[p].write
  <2>1. Holds(p) = b
    BY <1>3, <1>12, HeldBy
  <2>2. SameHolders
    BY <1>10, <1>11, <2>1 DEF SameHolders
  <2> QED
    BY <1>9, <2>2, StutterRefines
<1>13. CASE ~ thread[p].write
  <2>1. Holds(p) = NoBlock
    BY <1>1, <1>13, HeldBy DEF At
  <2>2. buf[k].lock = p
    BY <1>2, <1>3 DEF IInv, LockInv
  <2>3. \A q \in Process : Holds(q) # b
    BY <1>3, <2>1, <2>2, HeldAlone
  <2> QED
    BY <1>9, <1>10, <1>11, <2>1, <2>3, HoldRefines
<1> QED
  BY <1>12, <1>13

(* A buffer is recycled while nobody refers to it: what it holds is on the *)
(* disk as well.                                                           *)
LEMMA BgetRefines ==
  ASSUME IInv, IInv', NEW p \in Process, NEW b \in Block, Bget(p, b)
  PROVE  Implements
<1>1. /\ thread[p].at = "idle" /\ disk' = disk /\ data' = data
  BY Zenon DEF Bget, At
<1>2. PICK k \in Buf :
        /\ thread' = [thread EXCEPT ![p] = [Idle EXCEPT !.at = "lock", !.k = k]]
        /\ \/ \E x : buf' = [buf EXCEPT ![k].refcnt = x]
           \/ Cached(b) = {} /\ buf[k].refcnt = 0 /\ Recycle(k, b)
  <2>1. CASE \E k \in Cached(b) :
               /\ buf' = [buf EXCEPT ![k].refcnt = @ + 1]
               /\ thread' = [thread EXCEPT ![p] = [Idle EXCEPT !.at = "lock", !.k = k]]
    BY <2>1, Zenon DEF Cached
  <2>2. CASE /\ Cached(b) = {} /\ Unused # {} /\ Recycle(LeastRecentUnused, b)
             /\ thread' = [thread EXCEPT ![p] = [Idle EXCEPT !.at = "lock", !.k = LeastRecentUnused]]
    <3>1. LeastRecentUnused \in Unused
      BY <2>2, Recycled, Typed
    <3>2. PICK k \in Buf : k = LeastRecentUnused /\ buf[k].refcnt = 0
      BY <3>1 DEF Unused
    <3>3. Cached(b) = {} /\ buf[k].refcnt = 0 /\ Recycle(k, b)
      BY <2>2, <3>2, Zenon
    <3>4. thread' = [thread EXCEPT ![p] = [Idle EXCEPT !.at = "lock", !.k = k]]
      BY <2>2, <3>2, Zenon
    <3> QED
      BY <3>3, <3>4, Zenon
  <2> QED
    BY <2>1, <2>2, Zenon DEF Bget
<1>3. /\ thread'[p].at = "lock" /\ thread'[p].write = FALSE
      /\ \A q \in Process \ {p} : thread'[q] = thread[q]
  <2>1. PICK u : u = [Idle EXCEPT !.at = "lock", !.k = k]
    OBVIOUS
  <2>3. u.at = "lock" /\ u.write = FALSE
    BY <2>1, IdleIs, Zenon
  <2>2. thread' = [thread EXCEPT ![p] = u]
    BY <1>2, <2>1
  <2> QED
    BY <2>2, <2>3, Typed
<1>4. Holds(p) = NoBlock /\ Holds(p)' = NoBlock
  <2>1. ~ thread[p].write
    BY <1>1, Typed DEF ThreadOK, AtDisk
  <2> QED
    BY <1>1, <1>3, <2>1 DEF Holds, At
<1>5. \A q \in Process \ {p} : Like(thread'[q], thread[q])
  BY <1>3 DEF Like
<1>6. CASE \E x : buf' = [buf EXCEPT ![k].refcnt = x]
  <2>1. \A j \in Buf : buf'[j].block = buf[j].block /\ buf'[j].valid = buf[j].valid
    BY <1>6, BufKept
  <2> QED
    BY <1>1, <1>4, <1>5, <2>1, ThreadRefines
<1>7. CASE Cached(b) = {} /\ buf[k].refcnt = 0 /\ Recycle(k, b)
  <2>1. /\ buf'[k].block = b /\ ~ buf'[k].valid
        /\ \A j \in Buf \ {k} : buf'[j].block = buf[j].block /\ buf'[j].valid = buf[j].valid
    <3>1. PICK c : c = [buf[k] EXCEPT !.block = b, !.valid = FALSE, !.refcnt = 1]
      OBVIOUS
    <3>2. c.block = b /\ ~ c.valid
      BY <3>1, Typed DEF Buffer
    <3>3. buf' = [buf EXCEPT ![k] = c]
      BY <1>7, <3>1 DEF Recycle
    <3> QED
      BY <3>2, <3>3, Typed
  <2>2. \A q \in Process \ {p} : Holds(q)' = Holds(q)
    BY <1>5, <1>7, <2>1, HoldsKept
  <2>3. SameHolders
    BY <1>4, <2>2 DEF SameHolders
  <2>4. buf[k].valid => data[k] = disk[buf[k].block]
    BY <1>7, NotReferred DEF IInv, DataInv
  <2>5. \A j \in Buf : buf[j].block # b
    BY <1>7 DEF Cached
  <2>6. ASSUME NEW c \in Block
        PROVE  Contents(c)' = Contents(c)
    <3>1. CASE c = b
      <4>1. Contents(c) = disk[c]
        BY <2>5, <3>1, ContentsOf
      <4>2. Contents(c)' = disk'[c]
        BY <2>1, <3>1, ContentsNext
      <4> QED
        BY <1>1, <4>1, <4>2
    <3>2. CASE c = buf[k].block
      <4>1. Contents(c) = disk[c]
        BY <2>4, <3>2, ContentsOf
      <4>2. \A j \in Buf : buf'[j].block # c
        <5>1. c # NoBlock
          BY VirtioAssumption
        <5>2. \A j \in Buf \ {k} : buf[j].block # c
          BY <3>2, <5>1, Zenon DEF IInv, CacheInv
        <5> QED
          BY <2>1, <2>5, <3>2, <5>2
      <4>3. Contents(c)' = disk'[c]
        BY <4>2, ContentsNext
      <4> QED
        BY <1>1, <4>1, <4>3
    <3>3. CASE c # b /\ c # buf[k].block
      <4>1. CASE \E j \in Buf : buf[j].block = c
        <5>1. PICK j \in Buf : buf[j].block = c
          BY <4>1
        <5>2. Contents(c) = IF buf[j].valid THEN data[j] ELSE disk[c]
          BY <5>1, ContentsOf
        <5>3. buf'[j].block = c /\ buf'[j].valid = buf[j].valid
          BY <2>1, <3>3, <5>1
        <5>4. Contents(c)' = IF buf'[j].valid THEN data'[j] ELSE disk'[c]
          BY <5>3, ContentsNext
        <5> QED
          BY <1>1, <5>2, <5>3, <5>4
      <4>2. CASE \A j \in Buf : buf[j].block # c
        <5>1. Contents(c) = disk[c]
          BY <4>2, ContentsOf
        <5>2. \A j \in Buf : buf'[j].block # c
          BY <2>1, <3>3, <4>2
        <5>3. Contents(c)' = disk'[c]
          BY <5>2, ContentsNext
        <5> QED
          BY <1>1, <5>1, <5>3
      <4> QED
        BY <4>1, <4>2
    <3> QED
      BY <3>1, <3>2, <3>3
  <2> QED
    BY <2>3, <2>6, StutterRefines DEF SameBlocks
<1> QED
  BY <1>2, <1>6, <1>7

-----------------------------------------------------------------------------
(* The steps of device and interrupt handler                               *)

(* A write takes to the disk what the buffer has, a read fills a buffer    *)
(* that is not valid yet.                                                  *)
LEMMA DeviceFinishesRefines ==
  ASSUME IInv, IInv', NEW d \in Desc, DeviceFinishes(d), UNCHANGED cache
  PROVE  Implements
<1>1. /\ d \in InDevice /\ thread' = thread /\ buf' = buf
  BY DEF DeviceFinishes, InDevice, cache
<1>2. PICK p \in InRequest, k \in Buf :
           /\ d = thread[p].head /\ k = thread[p].k /\ buf[k].lock = p /\ d \in Desc
           /\ info[d].buf = k /\ desc[Second(d)].buf = k /\ buf[k].block \in Block
           /\ ops[d].write = thread[p].write /\ ops[d].block = buf[k].block
           /\ owned[k] /\ At(p, "rw_asleep")
           /\ \A q \in InRequest : q # p => thread[q].head # d /\ thread[q].k # k
  BY <1>1, RequestOf
<1>3. PICK b \in Block : b = buf[k].block /\ b # NoBlock
  BY <1>2, VirtioAssumption
<1>4. /\ disk' = IF ops[d].write THEN [disk EXCEPT ![b] = data[k]] ELSE disk
      /\ data' = IF ops[d].write THEN data ELSE [data EXCEPT ![k] = disk[b]]
  BY <1>2, <1>3 DEF DeviceFinishes, Second
<1>5. ops[d].write <=> buf[k].valid
  BY <1>2 DEF IInv, DataInv, At, AtDisk, InRequest
<1>6. /\ \A j \in Buf \ {k} : data'[j] = data[j]
      /\ \A c \in Block \ {b} : disk'[c] = disk[c]
      /\ buf[k].valid => data'[k] = data[k]
      /\ ~ buf[k].valid => disk'[b] = disk[b]
  BY <1>4, <1>5, Typed
<1>7. ASSUME NEW c \in Block
      PROVE  Contents(c)' = Contents(c)
  <2>1. ASSUME NEW j \in Buf, buf[j].block = c
        PROVE  (IF buf'[j].valid THEN data'[j] ELSE disk'[c]) =
               (IF buf[j].valid THEN data[j] ELSE disk[c])
    <3>1. CASE j = k
      BY <1>1, <1>3, <1>6, <2>1, <3>1
    <3>2. CASE j # k
      <4>1. c # b
        <5>1. ASSUME c = b PROVE FALSE
          <6>1. buf[j].block = buf[k].block /\ buf[j].block # NoBlock
            BY <1>3, <2>1, <5>1
          <6> QED
            BY <3>2, <6>1 DEF IInv, CacheInv
        <5> QED
          BY <5>1
      <4> QED
        BY <1>1, <1>6, <3>2, <4>1
    <3> QED
      BY <3>1, <3>2
  <2>2. (\A j \in Buf : buf[j].block # c) => disk'[c] = disk[c]
    BY <1>3, <1>6
  <2> QED
    BY <1>1, <2>1, <2>2, ContentsKept
<1>8. SameHolders
  <2>1. \A q \in Process : Like(thread'[q], thread[q])
    BY <1>1 DEF Like
  <2>2. \A q \in Process : Holds(q)' = Holds(q)
    BY <1>1, <2>1, HoldsKept
  <2> QED
    BY <2>2 DEF SameHolders
<1> QED
  BY <1>7, <1>8, StutterRefines DEF SameBlocks

LEMMA QuietHardwareRefines ==
  ASSUME IInv, IInv', DeviceFetches \/ IntrAck \/ IntrEntry, UNCHANGED cache
  PROVE  Implements
<1>1. disk' = disk /\ data' = data /\ buf' = buf
  BY DEF DeviceFetches, IntrAck, IntrEntry, cache
<1>2. ASSUME NEW q \in Process
      PROVE  Like(thread'[q], thread[q])
  <2>1. CASE thread' = thread
    BY <2>1 DEF Like
  <2>2. CASE IntrEntry
    <3>1. PICK k : thread' = WakeFor(thread, k, "rw_asleep", "rw_woken")
      BY <2>2 DEF IntrEntry, Complete
    <3>2. thread'[q] = IF thread[q].at = "rw_asleep" /\ thread[q].k = k
                         THEN [thread[q] EXCEPT !.at = "rw_woken"] ELSE thread[q]
      BY <3>1, Zenon DEF WakeFor
    <3>3. thread[q] \in Thread
      BY Typed
    <3> QED
      BY <3>2, <3>3 DEF Like, Thread
  <2> QED
    BY <2>1, <2>2 DEF DeviceFetches, IntrAck
<1>3. SameHolders
  <2>1. \A q \in Process : Holds(q)' = Holds(q)
    BY <1>1, <1>2, HoldsKept
  <2> QED
    BY <2>1 DEF SameHolders
<1>4. SameBlocks
  BY <1>1, BlocksKept
<1> QED
  BY <1>3, <1>4, StutterRefines

LEMMA InitRefines == Init => Blocks!Init
<1> SUFFICES ASSUME Init PROVE Blocks!Init
  OBVIOUS
<1>1. /\ disk = [b \in Block |-> Blank] /\ thread = [p \in Process |-> Idle]
      /\ \A k \in Buf : buf[k].valid = FALSE
  BY DEF Init, VirtioInit
<1>2. \A b \in Block : Contents(b) = Blank
  <2>1. ASSUME NEW b \in Block
        PROVE  Contents(b) = Blank
    <3>1. ~ \E k \in Cached(b) : buf[k].valid
      BY <1>1 DEF Cached
    <3> QED
      BY <1>1, <3>1 DEF Contents
  <2> QED
    BY <2>1
<1>3. \A p \in Process : Holds(p) = NoBlock
  <2>1. \A p \in Process : ~ At(p, "holding") /\ ~ thread[p].write
    BY <1>1, IdleIs, Zenon DEF At
  <2> QED
    BY <2>1 DEF Holds
<1> QED
  BY <1>2, <1>3 DEF Blocks!Init, Holds

LEMMA NextRefines == IInv /\ IInv' /\ [Next]_vars => Implements
<1> SUFFICES ASSUME IInv, IInv', [Next]_vars PROVE Implements
  OBVIOUS
<1>1. ASSUME NEW p \in Process,
             Bread(p) \/ Bwrite(p) \/ Brelse(p) \/ Change(p) \/ Bpin(p) \/ Bunpin(p)
      PROVE  Implements
  <2>1. ASSUME NEW b \in Block, Bget(p, b) PROVE Implements
    BY <2>1, BgetRefines
  <2>2. CASE SleepLock(p)
    BY <2>2, SleepLockRefines
  <2>3. CASE WaitDesc(p) \/ Submit(p) \/ Finish(p)
    BY <2>3, WaitDescRefines, SubmitRefines, FinishRefines
  <2>4. CASE Change(p)
    BY <2>4, ChangeRefines
  <2>5. CASE Bwrite(p)
    BY <2>5, BwriteRefines
  <2>6. CASE Bpin(p) \/ Bunpin(p)
    BY <2>6, PinRefines
  <2>7. CASE Releasesleep(p) \/ Unref(p)
    BY <2>7, ReleasesleepRefines, UnrefRefines
  <2> QED
    BY <1>1, <2>1, <2>2, <2>3, <2>4, <2>5, <2>6, <2>7 DEF Bread, VirtioDiskRw, Brelse
<1>2. CASE Hardware
  <2>1. UNCHANGED cache
    BY <1>2 DEF Hardware
  <2>2. CASE DeviceFetches \/ IntrAck \/ IntrEntry
    BY <2>1, <2>2, QuietHardwareRefines
  <2>3. ASSUME NEW d \in Desc, DeviceFinishes(d) PROVE Implements
    BY <2>1, <2>3, DeviceFinishesRefines
  <2> QED
    BY <1>2, <2>2, <2>3 DEF Hardware, Device, VirtioDiskIntr
<1>3. CASE UNCHANGED vars
  <2>1. disk' = disk /\ data' = data /\ buf' = buf /\ thread' = thread
    BY <1>3 DEF vars, cache
  <2>2. SameBlocks
    BY <2>1, BlocksKept
  <2>3. \A q \in Process : Holds(q)' = Holds(q)
    BY <2>1 DEF Holds, At
  <2> QED
    BY <2>2, <2>3, StutterRefines DEF SameHolders
<1> QED
  BY <1>1, <1>2, <1>3 DEF Next

(* Buffers, their recycling, pins, sleep locks and the disk behind them    *)
(* implement the blocks of a disk: who gets a block from bread sees what   *)
(* the last holder left there, and holds it alone until brelse.            *)
THEOREM Refinement == Spec => Coherent
<1>1. IInv /\ IInv' /\ [Next]_vars => [Blocks!Next]_(Blocks!vars)
  BY NextRefines DEF Implements
<1> QED
  BY <1>1, InitRefines, SpecIInv, PTL DEF Spec, Coherent, Blocks!Spec
=============================================================================
