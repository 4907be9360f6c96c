-------------------------------- MODULE VmProofs -------------------------------
(***************************************************************************)
(* No page of user memory is lost or freed twice, whichever call fails,    *)
(* and every process keeps the protection exec gave it, for any number of  *)
(* processes and pages, any sizes and any programs.                        *)
(***************************************************************************)
EXTENDS Vm, FiniteSetTheorems, WellFoundedInduction, TLAPS

-----------------------------------------------------------------------------
(* The parts of the invariant                                              *)

MemSize == TRAPFRAME * PGSIZE
Flags == SUBSET {"U", "W"}
Leaves == UNION {[S -> Flags] : S \in SUBSET Page}
Table ==
  [root : BOOLEAN, mid : SUBSET (0..FANOUT - 1), low : SUBSET (0..FANOUT * FANOUT - 1),
   leaf : Leaves, kern : SUBSET {TRAMPOLINE, TRAPFRAME}]

Memory == [pt : Table, sz : 0..MemSize, trapframe : BOOLEAN]

ExecAt == {"exec", "segment", "stack", "args", "commit"}
CallAt == ExecAt \union {"argv", "copy", "failed"}
Place == CallAt \union {"user", "grow", "absent", "embryo"}

Call ==
  [at : Place, a : Nat, end : Nat, oldsz : Nat, new : Table, sz : Nat,
   program : Program \union {<< >>}, i : Nat \ {0}, argv : 0..MAXARG,
   child : Process \union {NoProcess}, before : Leaves \X Nat]

Typed ==
  /\ free \in Nat /\ other \in 0..MaxOther /\ panicked = FALSE
  /\ proc \in [Process -> Memory]
  /\ thread \in [Process -> Call]
  /\ image \in [Process -> Leaves]

Conserved == free + other + Cardinality(Owned) = NPAGES

(* The rest is about the memory m of one process, the call t it is in, and  *)
(* the pages f that exec gave it.                                          *)
Has(m, t) == Pages(m.pt) + Pages(t.new) + t.argv + (IF m.trapframe THEN 1 ELSE 0)

(* It has what its place in the code says it has.                          *)
HasOK(m, t) ==
  /\ t.at = "absent" => m = NoProc
  /\ t.at # "absent" => m.trapframe
  /\ t.at \notin ExecAt => t.new = NoTable
  /\ t.at \notin ExecAt \union {"argv", "failed"} => t.argv = 0
  /\ t.at = "argv" => t.i = 1 /\ t.sz = 0

(* sz covers what is mapped.                                               *)
Sized(m) == \A v \in UserPages(m.pt) : v < PageUp(m.sz)
SizeOK(m, t) == t.at \notin {"absent", "embryo", "grow"} => Sized(m)

(* A call that may fail has the memory it began with; uvmalloc has the     *)
(* pages below a besides.                                                  *)
CallOK(m, t) == t.at \in CallAt => t.before = <<m.pt.leaf, m.sz>>
GrowOK(m, t) ==
  t.at = "grow" =>
    /\ m.sz = t.oldsz /\ t.end <= MemSize
    /\ PageUp(t.oldsz) <= t.a /\ t.a <= PageUp(t.end)
    /\ \A v \in UserPages(m.pt) : v < t.a
    /\ t.before = <<Restrict(m.pt.leaf, {v \in UserPages(m.pt) : v < PageUp(t.oldsz)}), t.oldsz>>

(* What kexec has built: the first n segments, which end at sz.            *)
Reaches(g, n, sz) ==
  /\ \A j \in 1..n : g[j].end <= sz
  /\ (sz = 0 /\ n = 0) \/ \E j \in 1..n : sz = g[j].end
Flagged(leaf, g, n, v) == \E i \in 1..n : Loads(g, i, v) /\ leaf[v] = Flags2perm(g[i])

SegmentsOK(t) ==
  /\ t.i \in 1..Len(t.program) + 1 /\ Reaches(t.program, t.i - 1, t.sz)
  /\ DOMAIN t.new.leaf = 0..PageUp(t.sz) - 1
  /\ \A v \in DOMAIN t.new.leaf : Flagged(t.new.leaf, t.program, t.i - 1, v)
SegmentOK(t) ==
  /\ t.i \in 1..Len(t.program) /\ Reaches(t.program, t.i - 1, t.sz)
  /\ t.oldsz = t.sz /\ t.end = t.program[t.i].end
  /\ PageUp(t.sz) <= t.a /\ (t.a <= PageUp(t.end) \/ t.a = PageUp(t.sz))
  /\ DOMAIN t.new.leaf = 0..t.a - 1
  /\ \A v \in DOMAIN t.new.leaf : Flagged(t.new.leaf, t.program, t.i, v)
StackOK(t) ==
  LET g == t.program IN
  /\ t.sz = t.oldsz /\ PageUp(t.oldsz) = Guard(g)
  /\ t.oldsz = Guard(g) * PGSIZE /\ t.end = (Guard(g) + StackPages) * PGSIZE
  /\ Guard(g) <= t.a /\ t.a <= Guard(g) + StackPages
  /\ DOMAIN t.new.leaf = 0..t.a - 1
  /\ \A v \in DOMAIN t.new.leaf :
       IF v < Guard(g) THEN Flagged(t.new.leaf, g, Len(g), v) ELSE t.new.leaf[v] = {"U", "W"}
BuiltOK(t) ==
  LET g == t.program IN
  /\ t.oldsz = Guard(g) * PGSIZE /\ t.sz = (Guard(g) + StackPages) * PGSIZE
  /\ t.new.leaf = Image(g)

ExecOK(t) ==
  t.at \in ExecAt =>
    /\ t.program \in Program
    /\ \A v \in UserPages(t.new) : Low(v) \in t.new.low
    /\ t.at = "exec" => SegmentsOK(t)
    /\ t.at = "segment" => SegmentOK(t)
    /\ t.at = "stack" => StackOK(t)
    /\ t.at \in {"args", "commit"} => BuiltOK(t)

(* The protection exec gave, and sbrk's pages besides.                     *)
Imaged(m, f) ==
  /\ DOMAIN f \subseteq UserPages(m.pt)
  /\ \A v \in DOMAIN f : v < PageUp(m.sz)
  /\ \A v \in UserPages(m.pt) : m.pt.leaf[v] = IF v \in DOMAIN f THEN f[v] ELSE {"U", "W"}
ImageOK(m, t, f) == t.at \notin {"absent", "embryo"} => Imaged(m, f)

OwnOK(m, t, f) ==
  /\ HasOK(m, t) /\ SizeOK(m, t) /\ CallOK(m, t) /\ GrowOK(m, t)
  /\ ExecOK(t) /\ ImageOK(m, t, f)

(* The pages below a.                                                      *)
Cut(leaf, a) == Restrict(leaf, {v \in DOMAIN leaf : v < a})

(* A child that fork makes has the pages of its parent below a, and has    *)
(* one parent.                                                             *)
ForkOK(p) ==
  LET c == thread[p].child
      leaf == proc[p].pt.leaf IN
  At(p, "copy") =>
    /\ c \in Process /\ At(c, "embryo") /\ proc[c].sz = 0
    /\ thread[p].a <= PageUp(proc[p].sz)
    /\ proc[c].pt.leaf = Cut(leaf, thread[p].a)
    /\ \A q \in Process : At(q, "copy") /\ thread[q].child = c => q = p

IInv ==
  /\ Typed /\ Conserved
  /\ \A p \in Process : OwnOK(proc[p], thread[p], image[p])
  /\ \A p \in Process : ForkOK(p)

-----------------------------------------------------------------------------
(* Numbers                                                                 *)

LEMMA Sizes ==
  /\ NPAGES \in Nat /\ PGSIZE \in Nat \ {0} /\ FANOUT \in Nat /\ FANOUT >= 2
  /\ USERSTACK \in Nat /\ MAXARG \in Nat /\ MaxOther \in Nat /\ Amounts \subseteq Nat
  /\ IsFiniteSet(Process) /\ InitProcess \in Process
  /\ TRAMPOLINE \in Nat /\ TRAPFRAME \in Nat /\ TRAPFRAME + 1 = TRAMPOLINE
  /\ TRAMPOLINE < FANOUT * FANOUT * FANOUT
  /\ StackPages \in Nat /\ StackPages = USERSTACK + 1 /\ MemSize \in Nat
<1>1. /\ NPAGES \in Nat /\ PGSIZE \in Nat \ {0} /\ FANOUT \in Nat /\ FANOUT >= 2
      /\ USERSTACK \in Nat /\ MAXARG \in Nat /\ MaxOther \in Nat /\ Amounts \subseteq Nat
      /\ IsFiniteSet(Process) /\ InitProcess \in Process
  BY VmAssumption
<1>2. FANOUT * FANOUT \in Nat /\ FANOUT * FANOUT >= 4
  BY <1>1
<1>3. FANOUT * FANOUT * FANOUT \in Nat /\ FANOUT * FANOUT * FANOUT >= 8
  BY <1>1, <1>2
<1>4. TRAMPOLINE \in Nat /\ TRAPFRAME \in Nat /\ TRAPFRAME + 1 = TRAMPOLINE
  BY <1>3 DEF TRAMPOLINE, TRAPFRAME
<1>5. TRAMPOLINE < FANOUT * FANOUT * FANOUT
  BY <1>3 DEF TRAMPOLINE
<1>6. MemSize \in Nat
  BY <1>1, <1>4 DEF MemSize
<1> QED
  BY <1>1, <1>4, <1>5, <1>6 DEF StackPages

LEMMA PageIndex ==
  ASSUME NEW v \in 0..TRAMPOLINE
  PROVE  Low(v) \in 0..FANOUT * FANOUT - 1 /\ Mid(v) \in 0..FANOUT - 1
<1>1. /\ FANOUT \in Nat /\ FANOUT >= 2 /\ v \in Nat /\ v < FANOUT * FANOUT * FANOUT
      /\ FANOUT * FANOUT \in Nat \ {0}
  <2>1. FANOUT \in Nat /\ FANOUT >= 2 /\ TRAMPOLINE \in Nat /\ TRAMPOLINE < FANOUT * FANOUT * FANOUT
    BY Sizes
  <2>2. FANOUT * FANOUT \in Nat \ {0} /\ FANOUT * FANOUT * FANOUT \in Nat
    BY <2>1
  <2> QED
    BY <2>1, <2>2
<1>2. Low(v) \in Nat /\ Low(v) * FANOUT <= v
  BY <1>1 DEF Low
<1>3. Mid(v) \in Nat /\ Mid(v) * (FANOUT * FANOUT) <= v
  BY <1>1 DEF Mid
<1>4. Low(v) < FANOUT * FANOUT
  BY <1>1, <1>2
<1>5. Mid(v) < FANOUT
  BY <1>1, <1>3
<1> QED
  BY <1>1, <1>2, <1>3, <1>4, <1>5

LEMMA Quotient ==
  ASSUME NEW n \in Nat
  PROVE  n \div PGSIZE \in Nat /\ (n \div PGSIZE) * PGSIZE <= n /\ n < (n \div PGSIZE) * PGSIZE + PGSIZE
BY Sizes

LEMMA Grows ==
  ASSUME NEW a \in Int, NEW b \in Int, a <= b
  PROVE  a * PGSIZE <= b * PGSIZE
BY Sizes

(* The pages below address n are those that begin below it.                *)
LEMMA Below ==
  ASSUME NEW a \in Nat, NEW n \in Nat
  PROVE  PageUp(n) \in Nat /\ (a * PGSIZE < n <=> a < PageUp(n))
<1>1. PGSIZE \in Nat \ {0} /\ n + PGSIZE - 1 \in Nat
  BY Sizes
<1>2. PICK q \in Nat : q = PageUp(n) /\ q * PGSIZE <= n + PGSIZE - 1 /\ n + PGSIZE - 1 < q * PGSIZE + PGSIZE
  BY <1>1, Quotient DEF PageUp
<1>3. CASE a < q
  <2>1. (a + 1) * PGSIZE <= q * PGSIZE
    <3>1. a + 1 \in Int /\ a + 1 <= q
      BY <1>3
    <3> QED
      BY <3>1, Grows
  <2> QED
    BY <1>1, <1>2, <1>3, <2>1
<1>4. CASE q <= a
  <2>1. q * PGSIZE <= a * PGSIZE
    BY <1>4, Grows
  <2> QED
    BY <1>1, <1>2, <1>4, <2>1
<1> QED
  BY <1>2, <1>3, <1>4

LEMMA Rounded ==
  ASSUME NEW m \in Nat, NEW n \in Nat
  PROVE  /\ m <= n => PageUp(m) <= PageUp(n)
         /\ PageUp(m * PGSIZE) = m /\ m * PGSIZE \in Nat
         /\ n <= PageUp(n) * PGSIZE /\ PageUp(n) * PGSIZE < n + PGSIZE
<1>1. PGSIZE \in Nat \ {0} /\ m * PGSIZE \in Nat
  BY Sizes
<1>2. PageUp(m) \in Nat /\ PageUp(n) \in Nat /\ PageUp(m * PGSIZE) \in Nat
  BY <1>1, Below
<1>3. ASSUME m <= n, PageUp(n) < PageUp(m)
      PROVE  FALSE
  <2>1. PageUp(n) * PGSIZE < m
    BY <1>2, <1>3, Below
  <2>2. PageUp(n) * PGSIZE < n
    <3>1. PageUp(n) * PGSIZE \in Int
      BY <1>1, <1>2
    <3> QED
      BY <1>3, <2>1, <3>1
  <2> QED
    BY <1>2, <2>2, Below
<1>4. PageUp(m * PGSIZE) = m
  <2>1. ASSUME NEW a \in Nat
        PROVE  a < PageUp(m * PGSIZE) <=> a < m
    <3>1. a * PGSIZE < m * PGSIZE <=> a < PageUp(m * PGSIZE)
      BY <1>1, Below
    <3>2. a < m => a * PGSIZE < m * PGSIZE
      BY <1>1
    <3>3. m <= a => m * PGSIZE <= a * PGSIZE
      BY Grows
    <3> QED
      BY <1>1, <3>1, <3>2, <3>3
  <2>2. m < PageUp(m * PGSIZE) <=> m < m
    BY <2>1
  <2>3. PageUp(m * PGSIZE) < PageUp(m * PGSIZE) <=> PageUp(m * PGSIZE) < m
    BY <1>2, <2>1
  <2> QED
    BY <1>2, <2>2, <2>3
<1>5. n <= PageUp(n) * PGSIZE /\ PageUp(n) * PGSIZE < n + PGSIZE
  <2>1. n + PGSIZE - 1 \in Nat
    BY <1>1
  <2>2. PICK q \in Nat : q = PageUp(n) /\ q * PGSIZE <= n + PGSIZE - 1 /\ n + PGSIZE - 1 < q * PGSIZE + PGSIZE
    BY <2>1, Quotient DEF PageUp
  <2>3. q * PGSIZE \in Int
    BY <1>1
  <2> QED
    BY <1>1, <2>2, <2>3
<1> QED
  BY <1>1, <1>2, <1>3, <1>4, <1>5

LEMMA AddressPage ==
  ASSUME NEW a \in Nat, NEW n \in Nat
  PROVE  /\ PageOf(a) \in Nat /\ PageOf(a) * PGSIZE <= a /\ a < (PageOf(a) + 1) * PGSIZE
         /\ a < n => PageOf(a) < PageUp(n)
<1>1. PGSIZE \in Nat \ {0}
  BY Sizes
<1>2. /\ PageOf(a) \in Nat /\ PageOf(a) * PGSIZE <= a /\ a < PageOf(a) * PGSIZE + PGSIZE
  BY Quotient DEF PageOf
<1>3. a < (PageOf(a) + 1) * PGSIZE
  BY <1>1, <1>2
<1>4. ASSUME a < n
      PROVE  PageOf(a) < PageUp(n)
  <2>1. PageOf(a) * PGSIZE < n
    <3>1. PageOf(a) * PGSIZE \in Int
      BY <1>1, <1>2
    <3> QED
      BY <1>2, <1>4, <3>1
  <2> QED
    BY <1>2, <2>1, Below
<1> QED
  BY <1>2, <1>3, <1>4

(* A set of naturals has a least element, a bounded one a greatest.        *)
LEMMA Least ==
  ASSUME NEW S, S \subseteq Nat, S # {}
  PROVE  \E n \in S : \A m \in S : n <= m
<1>1. PICK R : R = OpToRel(<, Nat)
  OBVIOUS
<1>2. IsWellFoundedOn(R, Nat)
  BY <1>1, NatLessThanWellFounded
<1>3. \A x \in Nat, y \in Nat : x < y => <<x, y>> \in R
  BY <1>1 DEF OpToRel
<1>4. PICK x \in S : \A y \in S : ~ (<<y, x>> \in R)
  BY <1>2, WFMin, Zenon
<1>5. ASSUME NEW m \in S
      PROVE  x <= m
  <2>1. m \in Nat /\ x \in Nat
    OBVIOUS
  <2>2. ~ (m < x)
    BY <1>3, <1>4, <2>1, Zenon
  <2> QED
    BY <2>1, <2>2
<1> QED
  BY <1>5

LEMMA Greatest ==
  ASSUME NEW n \in Nat, NEW S, S \subseteq 0..n, S # {}
  PROVE  Max(S) \in S /\ \A y \in S : y <= Max(S)
<1>1. PICK T : T = {n - y : y \in S}
  OBVIOUS
<1>2. T \subseteq Nat /\ T # {}
  <2>1. \A y \in S : n - y \in Nat
    OBVIOUS
  <2>2. PICK y \in S : TRUE
    OBVIOUS
  <2>3. n - y \in T
    BY <1>1
  <2> QED
    BY <1>1, <2>1, <2>3
<1>3. PICK t \in T : \A m \in T : t <= m
  BY <1>2, Least
<1>4. PICK x \in S : t = n - x
  BY <1>1
<1>5. \A y \in S : x >= y
  <2>1. ASSUME NEW y \in S
        PROVE  x >= y
    <3>1. n - y \in T
      BY <1>1
    <3>2. t <= n - y
      BY <1>3, <3>1
    <3>3. x \in Int /\ y \in Int
      OBVIOUS
    <3> QED
      BY <1>4, <3>2, <3>3
  <2> QED
    BY <2>1
<1>6. /\ Max(S) \in S /\ \A y \in S : Max(S) >= y
  BY <1>5, Zenon DEF Max
<1> QED
  BY <1>6

LEMMA MaxIs ==
  ASSUME NEW S, S \subseteq Int, NEW x \in S, \A y \in S : y <= x
  PROVE  Max(S) = x
<1>1. \A y \in S : x >= y
  OBVIOUS
<1>2. Max(S) \in S /\ \A y \in S : Max(S) >= y
  BY <1>1, Zenon DEF Max
<1>3. Max(S) >= x /\ Max(S) \in Int /\ x \in Int
  BY <1>2
<1>4. x >= Max(S)
  BY <1>1, <1>2
<1> QED
  BY <1>3, <1>4

-----------------------------------------------------------------------------
(* Page tables                                                             *)

LEMMA Leaf ==
  ASSUME NEW f
  PROVE  f \in Leaves <=> /\ f = [v \in DOMAIN f |-> f[v]]
                          /\ DOMAIN f \subseteq Page
                          /\ \A v \in DOMAIN f : f[v] \in Flags
<1>1. ASSUME f \in Leaves
      PROVE  /\ f = [v \in DOMAIN f |-> f[v]]
             /\ DOMAIN f \subseteq Page
             /\ \A v \in DOMAIN f : f[v] \in Flags
  <2>1. PICK S \in SUBSET Page : f \in [S -> Flags]
    BY <1>1, Zenon DEF Leaves
  <2> QED
    BY <2>1
<1>2. ASSUME f = [v \in DOMAIN f |-> f[v]],
             DOMAIN f \subseteq Page,
             \A v \in DOMAIN f : f[v] \in Flags
      PROVE  f \in Leaves
  <2>1. f \in [DOMAIN f -> Flags]
    BY <1>2
  <2>2. DOMAIN f \in SUBSET Page
    BY <1>2
  <2> QED
    BY <2>1, <2>2, Zenon DEF Leaves
<1> QED
  BY <1>1, <1>2, Zenon

LEMMA EmptyLeaf ==
  NoPages \in Leaves /\ DOMAIN NoPages = {}
<1>1. DOMAIN NoPages = {} /\ NoPages = [v \in DOMAIN NoPages |-> NoPages[v]]
  BY DEF NoPages
<1> QED
  BY <1>1, Leaf

LEMMA LeafPut ==
  ASSUME NEW f \in Leaves, NEW v \in Page, NEW x \in Flags
  PROVE  LET g == WithPage(f, v, x) IN
         /\ g \in Leaves /\ DOMAIN g = DOMAIN f \union {v} /\ g[v] = x
         /\ \A w \in DOMAIN f : w # v => g[w] = f[w]
<1>1. PICK g : g = WithPage(f, v, x)
  OBVIOUS
<1>2. /\ DOMAIN g = DOMAIN f \union {v} /\ g[v] = x
      /\ \A w \in DOMAIN f : w # v => g[w] = f[w]
      /\ g = [w \in DOMAIN g |-> g[w]]
  BY <1>1 DEF WithPage
<1>3. DOMAIN f \subseteq Page /\ \A w \in DOMAIN f : f[w] \in Flags
  BY Leaf
<1>4. DOMAIN g \subseteq Page /\ \A w \in DOMAIN g : g[w] \in Flags
  BY <1>2, <1>3
<1>5. g \in Leaves
  BY <1>2, <1>4, Leaf
<1> QED
  BY <1>1, <1>2, <1>5

LEMMA LeafCut ==
  ASSUME NEW f \in Leaves, NEW S
  PROVE  LET g == Restrict(f, S \intersect DOMAIN f) IN
         /\ g \in Leaves /\ DOMAIN g = S \intersect DOMAIN f
         /\ \A w \in DOMAIN g : g[w] = f[w]
<1>1. PICK g : g = Restrict(f, S \intersect DOMAIN f)
  OBVIOUS
<1>2. /\ DOMAIN g = S \intersect DOMAIN f
      /\ \A w \in DOMAIN g : g[w] = f[w]
      /\ g = [w \in DOMAIN g |-> g[w]]
  BY <1>1 DEF Restrict
<1>3. DOMAIN f \subseteq Page /\ \A w \in DOMAIN f : f[w] \in Flags
  BY Leaf
<1>4. DOMAIN g \subseteq Page /\ \A w \in DOMAIN g : g[w] \in Flags
  BY <1>2, <1>3
<1>5. g \in Leaves
  BY <1>2, <1>4, Leaf
<1> QED
  BY <1>1, <1>2, <1>5

(* Two assignments of flags are one if they agree on the same pages.       *)
LEMMA SameLeaf ==
  ASSUME NEW f \in Leaves, NEW g \in Leaves, DOMAIN f = DOMAIN g,
         \A v \in DOMAIN f : f[v] = g[v]
  PROVE  f = g
<1>1. f = [v \in DOMAIN f |-> f[v]] /\ g = [v \in DOMAIN g |-> g[v]]
  BY Leaf
<1> QED
  BY <1>1

(* The sets of a page table are finite, and its pages can be counted.      *)
LEMMA Counted ==
  ASSUME NEW pt \in Table
  PROVE  /\ IsFiniteSet(pt.mid) /\ IsFiniteSet(pt.low) /\ IsFiniteSet(UserPages(pt))
         /\ Cardinality(pt.mid) \in Nat /\ Cardinality(pt.low) \in Nat
         /\ Cardinality(UserPages(pt)) \in Nat
         /\ Tables(pt) \in Nat /\ Pages(pt) \in Nat
         /\ pt.leaf \in Leaves /\ UserPages(pt) \subseteq Page
<1>1. /\ pt.mid \subseteq 0..FANOUT - 1 /\ pt.low \subseteq 0..FANOUT * FANOUT - 1
      /\ pt.leaf \in Leaves /\ pt.root \in BOOLEAN
  BY DEF Table
<1>2. UserPages(pt) \subseteq 0..TRAPFRAME - 1
  BY <1>1, Leaf DEF UserPages, Page
<1>3. FANOUT - 1 \in Int /\ FANOUT * FANOUT - 1 \in Int /\ TRAPFRAME - 1 \in Int
  BY Sizes
<1>4. IsFiniteSet(0..FANOUT - 1) /\ IsFiniteSet(0..FANOUT * FANOUT - 1) /\ IsFiniteSet(0..TRAPFRAME - 1)
  BY <1>3, FS_Interval
<1>5. IsFiniteSet(pt.mid) /\ IsFiniteSet(pt.low) /\ IsFiniteSet(UserPages(pt))
  BY <1>1, <1>2, <1>4, FS_Subset
<1>6. /\ Cardinality(pt.mid) \in Nat /\ Cardinality(pt.low) \in Nat
      /\ Cardinality(UserPages(pt)) \in Nat
  BY <1>5, FS_CardinalityType
<1>7. Tables(pt) \in Nat
  BY <1>6 DEF Tables
<1>8. Pages(pt) \in Nat
  BY <1>6, <1>7 DEF Pages
<1> QED
  BY <1>1, <1>2, <1>5, <1>6, <1>7, <1>8 DEF Page

LEMMA EmptyTable ==
  /\ NoTable \in Table /\ UserPages(NoTable) = {} /\ NoTable.leaf = NoPages
  /\ Tables(NoTable) = 0 /\ Pages(NoTable) = 0 /\ NoTable.kern = {}
  /\ NoTable.mid = {} /\ NoTable.low = {} /\ NoTable.root = FALSE
<1>1. NoTable \in Table
  BY EmptyLeaf DEF NoTable, Table
<1>2. UserPages(NoTable) = {}
  BY EmptyLeaf DEF NoTable, UserPages
<1>3. NoTable.mid = {} /\ NoTable.low = {} /\ NoTable.root = FALSE /\ NoTable.kern = {} /\ NoTable.leaf = NoPages
  BY DEF NoTable
<1>4. Cardinality({}) = 0
  BY FS_EmptySet
<1> QED
  BY <1>1, <1>2, <1>3, <1>4 DEF Tables, Pages

-----------------------------------------------------------------------------
(* The operators of vm.c                                                   *)

VmState == [pt : Table, free : Nat, ok : BOOLEAN, panic : BOOLEAN]

Balance(s) == s.free + Pages(s.pt)

(* What walk does not touch, and that it pays for what it makes.           *)
Extends(s, t) ==
  /\ t \in VmState /\ t.panic = s.panic
  /\ t.pt.leaf = s.pt.leaf /\ t.pt.kern = s.pt.kern /\ t.pt.root = s.pt.root
  /\ s.pt.mid \subseteq t.pt.mid /\ s.pt.low \subseteq t.pt.low
  /\ Balance(t) = Balance(s)

LEMMA StateFields ==
  ASSUME NEW s \in VmState
  PROVE  /\ s.pt \in Table /\ s.free \in Nat /\ s.ok \in BOOLEAN /\ s.panic \in BOOLEAN
         /\ Balance(s) \in Nat
<1>1. s.pt \in Table /\ s.free \in Nat /\ s.ok \in BOOLEAN /\ s.panic \in BOOLEAN
  BY DEF VmState
<1> QED
  BY <1>1, Counted DEF Balance

LEMMA FailIs ==
  ASSUME NEW s \in VmState
  PROVE  Extends(s, Fail(s)) /\ ~ Fail(s).ok /\ Fail(s).free = s.free /\ Fail(s).pt = s.pt
<1>1. /\ Fail(s) \in VmState /\ ~ Fail(s).ok /\ Fail(s).free = s.free /\ Fail(s).pt = s.pt
      /\ Fail(s).panic = s.panic
  BY DEF Fail, VmState
<1> QED
  BY <1>1 DEF Extends, Balance

LEMMA ExtendsSelf ==
  ASSUME NEW s \in VmState
  PROVE  Extends(s, s)
BY DEF Extends

LEMMA ExtendsTwice ==
  ASSUME NEW s, NEW t, NEW u, Extends(s, t), Extends(t, u)
  PROVE  Extends(s, u)
BY DEF Extends

LEMMA WalkMidExtends ==
  ASSUME NEW s \in VmState, NEW v \in 0..TRAMPOLINE
  PROVE  Extends(s, WalkMid(s, v)) /\ (s.ok /\ WalkMid(s, v).ok => Mid(v) \in WalkMid(s, v).pt.mid)
<1>1. CASE Mid(v) \in s.pt.mid
  BY <1>1, ExtendsSelf DEF WalkMid
<1>2. CASE Mid(v) \notin s.pt.mid /\ s.free = 0
  BY <1>2, FailIs DEF WalkMid
<1>3. CASE Mid(v) \notin s.pt.mid /\ s.free # 0
  <2>1. PICK t : t = WalkMid(s, v)
    OBVIOUS
  <2>2. t = [s EXCEPT !.pt.mid = @ \union {Mid(v)}, !.free = @ - 1]
    BY <1>3, <2>1 DEF WalkMid
  <2>3. s.pt \in Table /\ s.free \in Nat
    BY StateFields
  <2>4. s.free - 1 \in Nat /\ Mid(v) \in 0..FANOUT - 1
    BY <1>3, <2>3, PageIndex
  <2>5. /\ t.free = s.free - 1 /\ t.panic = s.panic /\ t.ok = s.ok
        /\ t.pt = [s.pt EXCEPT !.mid = @ \union {Mid(v)}]
        /\ t = [pt |-> t.pt, free |-> t.free, ok |-> t.ok, panic |-> t.panic]
    BY <2>2 DEF VmState
  <2>6. /\ t.pt.leaf = s.pt.leaf /\ t.pt.kern = s.pt.kern /\ t.pt.root = s.pt.root
        /\ t.pt.low = s.pt.low /\ t.pt.mid = s.pt.mid \union {Mid(v)}
    BY <2>3, <2>5 DEF Table
  <2>7. t.pt \in Table
    BY <2>3, <2>4, <2>5 DEF Table
  <2>8. t \in VmState
    BY <2>4, <2>5, <2>7 DEF VmState
  <2>9. Cardinality(t.pt.mid) = Cardinality(s.pt.mid) + 1
    BY <1>3, <2>3, <2>6, Counted, FS_AddElement
  <2>10. Balance(t) = Balance(s)
    <3>1. /\ Cardinality(s.pt.mid) \in Nat /\ Cardinality(s.pt.low) \in Nat
          /\ Cardinality(UserPages(s.pt)) \in Nat
      BY <2>3, Counted
    <3>2. UserPages(t.pt) = UserPages(s.pt)
      BY <2>6 DEF UserPages
    <3> QED
      BY <2>3, <2>5, <2>6, <2>9, <3>1, <3>2 DEF Balance, Pages, Tables
  <2>11. Mid(v) \in t.pt.mid
    BY <2>6
  <2> QED
    BY <2>1, <2>5, <2>6, <2>8, <2>10, <2>11 DEF Extends
<1> QED
  BY <1>1, <1>2, <1>3

LEMMA WalkLowExtends ==
  ASSUME NEW s \in VmState, NEW v \in 0..TRAMPOLINE
  PROVE  /\ Extends(s, WalkLow(s, v))
         /\ WalkLow(s, v).ok => s.ok /\ Low(v) \in WalkLow(s, v).pt.low
<1>1. CASE Low(v) \in s.pt.low \/ ~ s.ok
  BY <1>1, ExtendsSelf DEF WalkLow
<1>2. CASE Low(v) \notin s.pt.low /\ s.ok /\ s.free = 0
  BY <1>2, FailIs DEF WalkLow
<1>3. CASE Low(v) \notin s.pt.low /\ s.ok /\ s.free # 0
  <2>1. PICK t : t = WalkLow(s, v)
    OBVIOUS
  <2>2. t = [s EXCEPT !.pt.low = @ \union {Low(v)}, !.free = @ - 1]
    BY <1>3, <2>1 DEF WalkLow
  <2>3. s.pt \in Table /\ s.free \in Nat
    BY StateFields
  <2>4. s.free - 1 \in Nat /\ Low(v) \in 0..FANOUT * FANOUT - 1
    BY <1>3, <2>3, PageIndex
  <2>5. /\ t.free = s.free - 1 /\ t.panic = s.panic /\ t.ok = s.ok
        /\ t.pt = [s.pt EXCEPT !.low = @ \union {Low(v)}]
        /\ t = [pt |-> t.pt, free |-> t.free, ok |-> t.ok, panic |-> t.panic]
    BY <2>2 DEF VmState
  <2>6. /\ t.pt.leaf = s.pt.leaf /\ t.pt.kern = s.pt.kern /\ t.pt.root = s.pt.root
        /\ t.pt.mid = s.pt.mid /\ t.pt.low = s.pt.low \union {Low(v)}
    BY <2>3, <2>5 DEF Table
  <2>7. t.pt \in Table
    BY <2>3, <2>4, <2>5 DEF Table
  <2>8. t \in VmState
    BY <2>4, <2>5, <2>7 DEF VmState
  <2>9. Cardinality(t.pt.low) = Cardinality(s.pt.low) + 1
    BY <1>3, <2>3, <2>6, Counted, FS_AddElement
  <2>10. Balance(t) = Balance(s)
    <3>1. /\ Cardinality(s.pt.mid) \in Nat /\ Cardinality(s.pt.low) \in Nat
          /\ Cardinality(UserPages(s.pt)) \in Nat
      BY <2>3, Counted
    <3>2. UserPages(t.pt) = UserPages(s.pt)
      BY <2>6 DEF UserPages
    <3> QED
      BY <2>3, <2>5, <2>6, <2>9, <3>1, <3>2 DEF Balance, Pages, Tables
  <2>11. Low(v) \in t.pt.low
    BY <2>6
  <2> QED
    BY <1>3, <2>1, <2>5, <2>6, <2>8, <2>10, <2>11 DEF Extends
<1>4. s.ok \in BOOLEAN
  BY StateFields
<1> QED
  BY <1>1, <1>2, <1>3, <1>4

LEMMA WalkExtends ==
  ASSUME NEW s \in VmState, NEW v \in 0..TRAMPOLINE
  PROVE  Extends(s, Walk(s, v)) /\ (Walk(s, v).ok => Low(v) \in Walk(s, v).pt.low)
<1>1. PICK t : t = WalkMid(s, v)
  OBVIOUS
<1>2. Extends(s, t) /\ t \in VmState
  BY <1>1, WalkMidExtends DEF Extends
<1>3. Walk(s, v) = WalkLow(t, v)
  BY <1>1 DEF Walk
<1>4. Extends(t, WalkLow(t, v)) /\ (WalkLow(t, v).ok => Low(v) \in WalkLow(t, v).pt.low)
  BY <1>2, WalkLowExtends
<1> QED
  BY <1>2, <1>3, <1>4, ExtendsTwice

(* kalloc and mappages together: one page more, or no page more, and none  *)
(* lost.                                                                   *)
Adds(s, t, v, x) ==
  /\ t \in VmState /\ t.panic = s.panic /\ Balance(t) = Balance(s)
  /\ s.pt.low \subseteq t.pt.low
  /\ t.ok => t.pt.leaf = WithPage(s.pt.leaf, v, x) /\ Low(v) \in t.pt.low
  /\ ~ t.ok => t.pt.leaf = s.pt.leaf

LEMMA NewPageAdds ==
  ASSUME NEW s \in VmState, s.ok, NEW v \in Page, v \notin UserPages(s.pt), NEW x \in Flags
  PROVE  Adds(s, NewPage(s, v, x), v, x)
<1>0. v \in 0..TRAMPOLINE /\ s.pt \in Table /\ s.free \in Nat
  BY Sizes, StateFields DEF Page
<1>1. CASE s.free = 0
  <2>1. NewPage(s, v, x) = Fail(s)
    BY <1>1 DEF NewPage
  <2> QED
    BY <2>1, FailIs DEF Extends, Adds
<1>2. CASE s.free # 0
  <2>1. PICK r : r = [s EXCEPT !.free = @ - 1]
    OBVIOUS
  <2>2. /\ r \in VmState /\ r.pt = s.pt /\ r.free = s.free - 1 /\ r.ok = s.ok /\ r.panic = s.panic
    <3>1. s.free - 1 \in Nat /\ s.ok \in BOOLEAN /\ s.panic \in BOOLEAN
      BY <1>0, <1>2, StateFields
    <3>2. /\ r.pt = s.pt /\ r.free = s.free - 1 /\ r.ok = s.ok /\ r.panic = s.panic
          /\ r = [pt |-> r.pt, free |-> r.free, ok |-> r.ok, panic |-> r.panic]
      BY <2>1 DEF VmState
    <3> QED
      BY <1>0, <3>1, <3>2 DEF VmState
  <2>3. Balance(r) = Balance(s) - 1
    BY <1>0, <2>2, Counted DEF Balance
  <2>4. PICK w : w = Walk(r, v)
    OBVIOUS
  <2>5. Extends(r, w) /\ (w.ok => Low(v) \in w.pt.low)
    BY <1>0, <2>2, <2>4, WalkExtends
  <2>6. /\ w \in VmState /\ w.panic = s.panic /\ w.pt.leaf = s.pt.leaf
        /\ s.pt.low \subseteq w.pt.low /\ Balance(w) = Balance(s) - 1
    BY <2>2, <2>3, <2>5 DEF Extends
  <2>7. UserPages(w.pt) = UserPages(s.pt)
    BY <2>6 DEF UserPages
  <2>8. w.pt \in Table /\ w.free \in Nat /\ w.ok \in BOOLEAN /\ Balance(s) \in Nat
    BY <2>6, StateFields
  <2>9. CASE ~ w.ok
    <3>1. PICK t : t = NewPage(s, v, x)
      OBVIOUS
    <3>2. t = [w EXCEPT !.free = @ + 1]
      BY <1>2, <2>1, <2>4, <2>9, <3>1 DEF NewPage, Mappages, GivesPageBack
    <3>3. /\ t \in VmState /\ t.pt = w.pt /\ t.free = w.free + 1 /\ t.ok = w.ok /\ t.panic = w.panic
      BY <2>6, <2>8, <3>2 DEF VmState
    <3>4. Balance(t) = Balance(w) + 1
      BY <2>8, <3>3, Counted DEF Balance
    <3>5. Balance(t) = Balance(s)
      BY <2>6, <2>8, <3>4
    <3> QED
      BY <2>6, <2>9, <3>1, <3>3, <3>5 DEF Adds
  <2>10. CASE w.ok
    <3>1. PICK t : t = NewPage(s, v, x)
      OBVIOUS
    <3>2. t = [w EXCEPT !.pt.leaf = WithPage(@, v, x)]
      <4>1. PICK m : m = [w EXCEPT !.pt.leaf = WithPage(@, v, x)]
        OBVIOUS
      <4>2. m.ok = w.ok
        BY <2>6, <4>1 DEF VmState
      <4>3. Mappages(r, v, x) = m
        BY <2>4, <2>7, <2>10, <4>1 DEF Mappages
      <4>4. t = IF Mappages(r, v, x).ok THEN Mappages(r, v, x) ELSE GivesPageBack(Mappages(r, v, x))
        BY <1>2, <2>1, <3>1 DEF NewPage
      <4> QED
        BY <2>10, <4>1, <4>2, <4>3, <4>4
    <3>3. /\ t.pt = [w.pt EXCEPT !.leaf = WithPage(@, v, x)]
          /\ t.free = w.free /\ t.ok = w.ok /\ t.panic = w.panic
          /\ t = [pt |-> t.pt, free |-> t.free, ok |-> t.ok, panic |-> t.panic]
      BY <2>6, <3>2 DEF VmState
    <3>4. /\ w.pt.leaf \in Leaves
          /\ WithPage(w.pt.leaf, v, x) \in Leaves
          /\ DOMAIN WithPage(w.pt.leaf, v, x) = DOMAIN w.pt.leaf \union {v}
      <4>1. w.pt.leaf \in Leaves
        BY <2>8, Counted
      <4>2. \A f \in Leaves : /\ WithPage(f, v, x) \in Leaves
                              /\ DOMAIN WithPage(f, v, x) = DOMAIN f \union {v}
        BY LeafPut
      <4> QED
        BY <4>1, <4>2, Zenon
    <3>5. /\ t.pt.leaf = WithPage(w.pt.leaf, v, x)
          /\ t.pt.mid = w.pt.mid /\ t.pt.low = w.pt.low /\ t.pt.root = w.pt.root
      BY <2>8, <3>3 DEF Table
    <3>6. t.pt \in Table
      BY <2>8, <3>3, <3>4 DEF Table
    <3>7. t \in VmState
      BY <2>8, <3>3, <3>6, StateFields, <2>6 DEF VmState
    <3>8. Cardinality(UserPages(t.pt)) = Cardinality(UserPages(w.pt)) + 1
      <4>1. UserPages(t.pt) = UserPages(w.pt) \union {v} /\ v \notin UserPages(w.pt)
        BY <2>7, <3>4, <3>5 DEF UserPages
      <4> QED
        BY <2>8, <4>1, Counted, FS_AddElement
    <3>9. Balance(t) = Balance(w) + 1
      <4>1. Tables(t.pt) = Tables(w.pt)
        BY <3>5 DEF Tables
      <4>2. Tables(w.pt) \in Nat /\ Cardinality(UserPages(w.pt)) \in Nat
        BY <2>8, Counted
      <4> QED
        BY <2>8, <3>3, <3>8, <4>1, <4>2 DEF Balance, Pages
    <3>10. Balance(t) = Balance(s)
      BY <2>6, <2>8, <3>9
    <3> QED
      BY <2>5, <2>6, <2>10, <3>1, <3>3, <3>5, <3>7, <3>10 DEF Adds
  <2> QED
    BY <2>8, <2>9, <2>10
<1> QED
  BY <1>0, <1>1, <1>2

(* uvmunmap frees the pages it takes away, and nothing else.               *)
LEMMA UnmapIs ==
  ASSUME NEW s \in VmState, NEW S
  PROVE  LET t == Uvmunmap(s, S) IN
         /\ t \in VmState /\ t.panic = s.panic /\ t.ok = s.ok /\ Balance(t) = Balance(s)
         /\ t.pt.low = s.pt.low /\ t.pt.kern = s.pt.kern /\ t.pt.mid = s.pt.mid
         /\ t.pt.leaf = Restrict(s.pt.leaf, UserPages(s.pt) \ S)
         /\ UserPages(t.pt) = UserPages(s.pt) \ S
<1>1. PICK t : t = Uvmunmap(s, S)
  OBVIOUS
<1>2. s.pt \in Table /\ s.free \in Nat /\ s.ok \in BOOLEAN /\ s.panic \in BOOLEAN
  BY StateFields
<1>3. PICK U : U = UserPages(s.pt)
  OBVIOUS
<1>4. PICK f : f = Restrict(s.pt.leaf, U \ S)
  OBVIOUS
<1>5. f \in Leaves /\ DOMAIN f = U \ S
  <2>1. s.pt.leaf \in Leaves /\ DOMAIN s.pt.leaf = U
    BY <1>2, <1>3, Counted DEF UserPages
  <2>2. U \ S = (U \ S) \intersect DOMAIN s.pt.leaf
    BY <2>1
  <2> QED
    BY <1>4, <2>1, <2>2, LeafCut
<1>6. /\ IsFiniteSet(U) /\ IsFiniteSet(U \intersect S) /\ IsFiniteSet(U \ S)
      /\ Cardinality(U \intersect S) \in Nat /\ Cardinality(U \ S) \in Nat
      /\ Cardinality(U) = Cardinality(U \intersect S) + Cardinality(U \ S)
  <2>1. IsFiniteSet(U)
    BY <1>2, <1>3, Counted
  <2>2. IsFiniteSet(U \intersect S) /\ IsFiniteSet(U \ S)
    BY <2>1, FS_Subset
  <2>3. Cardinality(U \intersect S) \in Nat /\ Cardinality(U \ S) \in Nat
    BY <2>2, FS_CardinalityType
  <2>4. U = (U \intersect S) \union (U \ S) /\ (U \intersect S) \intersect (U \ S) = {}
    OBVIOUS
  <2>5. Cardinality(U) = Cardinality(U \intersect S) + Cardinality(U \ S) - Cardinality({})
    BY <2>2, <2>4, FS_Union
  <2> QED
    BY <2>1, <2>2, <2>3, <2>5, FS_EmptySet
<1>7. /\ t.free = s.free + Cardinality(U \intersect S) /\ t.ok = s.ok /\ t.panic = s.panic
      /\ t.pt = [s.pt EXCEPT !.leaf = f]
      /\ t = [pt |-> t.pt, free |-> t.free, ok |-> t.ok, panic |-> t.panic]
  BY <1>1, <1>3, <1>4 DEF Uvmunmap, VmState
<1>8. /\ t.pt.leaf = f /\ t.pt.mid = s.pt.mid /\ t.pt.low = s.pt.low
      /\ t.pt.root = s.pt.root /\ t.pt.kern = s.pt.kern /\ t.pt \in Table
  BY <1>2, <1>5, <1>7 DEF Table
<1>9. t \in VmState
  BY <1>2, <1>6, <1>7, <1>8 DEF VmState
<1>10. UserPages(t.pt) = U \ S
  BY <1>5, <1>8 DEF UserPages
<1>11. Balance(t) = Balance(s)
  <2>1. Tables(t.pt) = Tables(s.pt) /\ Tables(s.pt) \in Nat
    BY <1>2, <1>8, Counted DEF Tables
  <2>2. Pages(s.pt) = Tables(s.pt) + Cardinality(U) /\ Pages(t.pt) = Tables(s.pt) + Cardinality(U \ S)
    BY <1>3, <1>10, <2>1 DEF Pages
  <2> QED
    BY <1>2, <1>6, <1>7, <2>1, <2>2 DEF Balance
<1> QED
  BY <1>1, <1>3, <1>4, <1>7, <1>8, <1>9, <1>10, <1>11

LEMMA Unmapped ==
  ASSUME NEW s \in VmState
  PROVE  \A S : \A t : t = Uvmunmap(s, S) =>
           /\ t \in VmState /\ t.panic = s.panic /\ Balance(t) = Balance(s)
           /\ UserPages(t.pt) = UserPages(s.pt) \ S
<1>1. ASSUME NEW S, NEW t, t = Uvmunmap(s, S)
      PROVE  /\ t \in VmState /\ t.panic = s.panic /\ Balance(t) = Balance(s)
             /\ UserPages(t.pt) = UserPages(s.pt) \ S
  BY <1>1, UnmapIs, Zenon
<1> QED
  BY <1>1, Zenon

(* uvmfree frees a page table and what it maps, if that is below sz.       *)
Frees(s, t) ==
  /\ t \in VmState /\ t.panic = s.panic /\ t.ok = s.ok
  /\ t.pt = NoTable /\ t.free = Balance(s)

LEMMA UvmfreeFrees ==
  ASSUME NEW s \in VmState, NEW sz, s.pt.kern = {},
         \A v \in UserPages(s.pt) : v \in 0..PageUp(sz) - 1
  PROVE  Frees(s, Uvmfree(s, sz))
<1>1. PICK u : u = Uvmunmap(s, 0..PageUp(sz) - 1)
  OBVIOUS
<1>2. /\ u \in VmState /\ u.panic = s.panic /\ u.ok = s.ok /\ Balance(u) = Balance(s)
      /\ u.pt.kern = {} /\ UserPages(u.pt) = {}
  <2>1. /\ u \in VmState /\ u.panic = s.panic /\ u.ok = s.ok /\ Balance(u) = Balance(s)
        /\ u.pt.kern = s.pt.kern /\ UserPages(u.pt) = UserPages(s.pt) \ (0..PageUp(sz) - 1)
    BY <1>1, UnmapIs
  <2>2. UserPages(s.pt) \ (0..PageUp(sz) - 1) = {}
    OBVIOUS
  <2> QED
    BY <2>1, <2>2
<1>3. PICK t : t = Uvmfree(s, sz)
  OBVIOUS
<1>4. t = [u EXCEPT !.pt = NoTable, !.free = @ + Tables(u.pt),
                    !.panic = @ \/ UserPages(u.pt) \union u.pt.kern # {}]
  BY <1>1, <1>3 DEF Uvmfree, Freewalk
<1>5. u.pt \in Table /\ u.free \in Nat /\ u.ok \in BOOLEAN /\ u.panic \in BOOLEAN /\ Tables(u.pt) \in Nat
  BY <1>2, StateFields, Counted
<1>6. /\ t.pt = NoTable /\ t.free = u.free + Tables(u.pt) /\ t.ok = u.ok
      /\ t.panic = (u.panic \/ UserPages(u.pt) \union u.pt.kern # {})
      /\ t = [pt |-> t.pt, free |-> t.free, ok |-> t.ok, panic |-> t.panic]
  BY <1>2, <1>4 DEF VmState
<1>7. t.panic = u.panic
  BY <1>2, <1>5, <1>6
<1>8. Balance(u) = u.free + Tables(u.pt)
  <2>1. Cardinality(UserPages(u.pt)) = 0
    BY <1>2, FS_EmptySet
  <2> QED
    BY <1>5, <2>1 DEF Balance, Pages
<1>9. t \in VmState
  BY <1>5, <1>6, <1>7, EmptyTable DEF VmState
<1> QED
  BY <1>2, <1>3, <1>6, <1>7, <1>8, <1>9 DEF Frees

LEMMA FreepagetableFrees ==
  ASSUME NEW s \in VmState, NEW sz, \A v \in UserPages(s.pt) : v \in 0..PageUp(sz) - 1
  PROVE  Frees(s, ProcFreepagetable(s, sz))
<1>1. PICK r : r = [s EXCEPT !.pt.kern = {}]
  OBVIOUS
<1>2. s.pt \in Table /\ s.free \in Nat /\ s.ok \in BOOLEAN /\ s.panic \in BOOLEAN
  BY StateFields
<1>3. /\ r.free = s.free /\ r.ok = s.ok /\ r.panic = s.panic
      /\ r.pt = [s.pt EXCEPT !.kern = {}]
      /\ r = [pt |-> r.pt, free |-> r.free, ok |-> r.ok, panic |-> r.panic]
  BY <1>1 DEF VmState
<1>4. /\ r.pt.leaf = s.pt.leaf /\ r.pt.mid = s.pt.mid /\ r.pt.low = s.pt.low
      /\ r.pt.root = s.pt.root /\ r.pt.kern = {} /\ r.pt \in Table
  BY <1>2, <1>3 DEF Table
<1>5. r \in VmState
  BY <1>2, <1>3, <1>4 DEF VmState
<1>6. UserPages(r.pt) = UserPages(s.pt) /\ Balance(r) = Balance(s)
  BY <1>3, <1>4 DEF UserPages, Balance, Pages, Tables
<1>7. Frees(r, Uvmfree(r, sz))
  BY <1>4, <1>5, <1>6, UvmfreeFrees
<1> QED
  BY <1>1, <1>3, <1>6, <1>7 DEF Frees, ProcFreepagetable

(* freeproc: the trapframe, too.                                           *)
LEMMA FreeprocFrees ==
  ASSUME NEW s \in VmState, NEW sz, \A v \in UserPages(s.pt) : v \in 0..PageUp(sz) - 1
  PROVE  LET t == Freeproc(s, sz) IN
         /\ t.free = Balance(s) + 1 /\ t.panic = s.panic
<1>1. PICK f : f = ProcFreepagetable(s, sz)
  OBVIOUS
<1>2. Frees(s, f) /\ f \in VmState
  BY <1>1, FreepagetableFrees DEF Frees
<1>3. Freeproc(s, sz) = [f EXCEPT !.free = @ + 1]
  BY <1>1 DEF Freeproc
<1> QED
  BY <1>2, <1>3 DEF VmState, Frees

(* proc_pagetable makes a table without user pages, or nothing.            *)
Makes(s, t) ==
  /\ t \in VmState /\ t.panic = s.panic /\ Balance(t) = s.free
  /\ t.ok => t.pt.leaf = NoPages
  /\ ~ t.ok => t.pt = NoTable /\ t.free = s.free

LEMMA UndoneMakes ==
  ASSUME NEW s \in VmState, NEW t \in VmState, ~ t.ok, t.panic = s.panic, Balance(t) = s.free,
         t.pt.leaf = NoPages, t.pt.kern = {}
  PROVE  Makes(s, Uvmfree(t, 0))
<1>1. UserPages(t.pt) = {}
  BY EmptyLeaf DEF UserPages
<1>2. PICK u : u = Uvmfree(t, 0)
  OBVIOUS
<1>3. Frees(t, u)
  BY <1>1, <1>2, UvmfreeFrees
<1>4. Balance(u) = u.free
  BY <1>3, EmptyTable DEF Balance, Frees, VmState
<1> QED
  BY <1>2, <1>3, <1>4 DEF Makes, Frees

LEMMA PagetableMakes ==
  ASSUME NEW s \in VmState, s.ok, s.pt = NoTable
  PROVE  Makes(s, ProcPagetable(s))
<1>0. s.free \in Nat /\ s.panic \in BOOLEAN /\ Balance(s) = s.free
  <2>1. s.free \in Nat /\ s.panic \in BOOLEAN
    BY StateFields
  <2> QED
    BY <2>1, EmptyTable DEF Balance
<1>1. CASE s.free = 0
  <2>1. ProcPagetable(s) = Fail(s)
    BY <1>1 DEF ProcPagetable
  <2> QED
    BY <1>0, <2>1, FailIs DEF Makes, Extends
<1>2. CASE s.free # 0
  <2>1. PICK r : r = [s EXCEPT !.pt.root = TRUE, !.free = @ - 1]
    OBVIOUS
  <2>2. /\ r.pt = [NoTable EXCEPT !.root = TRUE] /\ r.free = s.free - 1
        /\ r.ok = s.ok /\ r.panic = s.panic
        /\ r = [pt |-> r.pt, free |-> r.free, ok |-> r.ok, panic |-> r.panic]
    BY <2>1 DEF VmState
  <2>3. /\ r.pt.leaf = NoPages /\ r.pt.kern = {} /\ r.pt.mid = {} /\ r.pt.low = {}
        /\ r.pt.root = TRUE /\ r.pt \in Table
    BY <2>2, EmptyTable DEF Table
  <2>4. r \in VmState
    <3>1. s.free - 1 \in Nat
      BY <1>0, <1>2
    <3>2. s.ok \in BOOLEAN
      BY StateFields
    <3> QED
      BY <1>0, <2>2, <2>3, <3>1, <3>2 DEF VmState
  <2>5. Balance(r) = s.free
    <3>1. UserPages(r.pt) = {}
      BY <2>3, EmptyLeaf DEF UserPages
    <3>2. Cardinality({}) = 0
      BY FS_EmptySet
    <3>3. Tables(r.pt) = 1
      <4>1. r.pt.root
        BY <2>3
      <4> QED
        BY <2>3, <3>2, <4>1 DEF Tables
    <3>4. Pages(r.pt) = 1
      BY <3>1, <3>2, <3>3 DEF Pages
    <3> QED
      BY <1>0, <2>2, <3>4 DEF Balance
  <2>6. PICK tramp : tramp = Walk(r, TRAMPOLINE)
    OBVIOUS
  <2>7. TRAMPOLINE \in 0..TRAMPOLINE /\ TRAPFRAME \in 0..TRAMPOLINE
    BY Sizes
  <2>8. Extends(r, tramp) /\ tramp \in VmState
    BY <2>4, <2>6, <2>7, WalkExtends DEF Extends
  <2>9. PICK tf : tf = Walk(tramp, TRAPFRAME)
    OBVIOUS
  <2>10. Extends(r, tf)
    <3>1. Extends(tramp, tf)
      BY <2>7, <2>8, <2>9, WalkExtends
    <3> QED
      BY <2>8, <3>1, ExtendsTwice
  <2>11. CASE ~ tramp.ok
    <3>1. ProcPagetable(s) = Uvmfree(tramp, 0)
      BY <1>2, <2>1, <2>6, <2>11 DEF ProcPagetable
    <3>2. /\ tramp.panic = s.panic /\ Balance(tramp) = s.free
          /\ tramp.pt.leaf = NoPages /\ tramp.pt.kern = {}
      BY <2>2, <2>3, <2>5, <2>8 DEF Extends
    <3> QED
      BY <2>8, <2>11, <3>1, <3>2, UndoneMakes
  <2>12. /\ tf \in VmState /\ tf.panic = s.panic /\ Balance(tf) = s.free
         /\ tf.pt.leaf = NoPages /\ tf.pt.kern = {}
    BY <2>2, <2>3, <2>5, <2>10 DEF Extends
  <2>13. CASE tramp.ok /\ ~ tf.ok
    <3>1. ProcPagetable(s) = Uvmfree(tf, 0)
      BY <1>2, <2>1, <2>6, <2>9, <2>13 DEF ProcPagetable
    <3> QED
      BY <2>12, <2>13, <3>1, UndoneMakes
  <2>14. CASE tramp.ok /\ tf.ok
    <3>1. PICK t : t = ProcPagetable(s)
      OBVIOUS
    <3>2. t = [tf EXCEPT !.pt.kern = {TRAMPOLINE, TRAPFRAME}]
      BY <1>2, <2>1, <2>6, <2>9, <2>14, <3>1 DEF ProcPagetable
    <3>3. /\ t.pt = [tf.pt EXCEPT !.kern = {TRAMPOLINE, TRAPFRAME}]
          /\ t.free = tf.free /\ t.ok = tf.ok /\ t.panic = tf.panic
          /\ t = [pt |-> t.pt, free |-> t.free, ok |-> t.ok, panic |-> t.panic]
      BY <2>12, <3>2 DEF VmState
    <3>4. tf.pt \in Table /\ tf.free \in Nat /\ tf.ok \in BOOLEAN /\ tf.panic \in BOOLEAN
      BY <2>12, StateFields
    <3>5. /\ t.pt \in Table /\ t.pt.leaf = tf.pt.leaf /\ t.pt.mid = tf.pt.mid
          /\ t.pt.low = tf.pt.low /\ t.pt.root = tf.pt.root
      BY <3>3, <3>4 DEF Table
    <3>6. t \in VmState
      BY <3>3, <3>4, <3>5 DEF VmState
    <3>7. Balance(t) = Balance(tf)
      BY <3>3, <3>5 DEF Balance, Pages, Tables, UserPages
    <3> QED
      BY <2>12, <2>14, <3>1, <3>3, <3>5, <3>6, <3>7 DEF Makes
  <2>15. tramp.ok \in BOOLEAN /\ tf.ok \in BOOLEAN
    BY <2>8, <2>12, StateFields
  <2> QED
    BY <2>11, <2>13, <2>14, <2>15
<1> QED
  BY <1>0, <1>1, <1>2


LEMMA StateIs ==
  ASSUME NEW pt \in Table, free \in Nat
  PROVE  /\ State(pt) \in VmState /\ State(pt).pt = pt /\ State(pt).free = free
         /\ State(pt).ok /\ State(pt).panic = FALSE /\ Balance(State(pt)) = free + Pages(pt)
<1>1. /\ State(pt) \in VmState /\ State(pt).pt = pt /\ State(pt).free = free
      /\ State(pt).ok /\ State(pt).panic = FALSE
  BY DEF State, VmState
<1> QED
  BY <1>1 DEF Balance

(* uvmdealloc leaves the pages below the new size.                         *)
LEMMA DeallocIs ==
  ASSUME NEW s \in VmState, NEW oldsz \in Nat, NEW newsz \in Nat,
         \A v \in UserPages(s.pt) : v < PageUp(oldsz)
  PROVE  LET t == Uvmdealloc(s, oldsz, newsz) IN
         /\ t \in VmState /\ t.panic = s.panic /\ Balance(t) = Balance(s)
         /\ t.pt.leaf = Restrict(s.pt.leaf, {v \in UserPages(s.pt) : v < PageUp(newsz)})
         /\ \A v \in UserPages(t.pt) : v \in UserPages(s.pt) /\ v < PageUp(newsz)
<1>1. s.pt \in Table /\ s.pt.leaf \in Leaves /\ UserPages(s.pt) \subseteq Nat
  BY StateFields, Counted DEF Page
<1>2. PageUp(newsz) \in Nat /\ PageUp(oldsz) \in Nat
  BY Below
<1>3. CASE newsz >= oldsz
  <2>1. Uvmdealloc(s, oldsz, newsz) = s
    BY <1>3 DEF Uvmdealloc
  <2>2. PageUp(oldsz) <= PageUp(newsz)
    BY <1>3, Rounded
  <2>3. \A v \in UserPages(s.pt) : v < PageUp(newsz)
    BY <1>1, <1>2, <2>2
  <2>4. {v \in UserPages(s.pt) : v < PageUp(newsz)} = DOMAIN s.pt.leaf
    BY <2>3 DEF UserPages
  <2>5. s.pt.leaf = [v \in DOMAIN s.pt.leaf |-> s.pt.leaf[v]]
    BY <1>1, Leaf
  <2>6. s.pt.leaf = Restrict(s.pt.leaf, DOMAIN s.pt.leaf)
    BY <2>5, Zenon DEF Restrict
  <2> QED
    BY <2>1, <2>3, <2>4, <2>6
<1>4. CASE newsz < oldsz
  <2>1. PICK t : t = Uvmunmap(s, PageUp(newsz)..PageUp(oldsz) - 1)
    OBVIOUS
  <2>2. Uvmdealloc(s, oldsz, newsz) = t
    BY <1>4, <2>1 DEF Uvmdealloc
  <2>3. UserPages(s.pt) \ (PageUp(newsz)..PageUp(oldsz) - 1) = {v \in UserPages(s.pt) : v < PageUp(newsz)}
    BY <1>1, <1>2
  <2>4. /\ t \in VmState /\ t.panic = s.panic /\ Balance(t) = Balance(s)
        /\ t.pt.leaf = Restrict(s.pt.leaf, UserPages(s.pt) \ (PageUp(newsz)..PageUp(oldsz) - 1))
        /\ UserPages(t.pt) = UserPages(s.pt) \ (PageUp(newsz)..PageUp(oldsz) - 1)
    BY <2>1, UnmapIs
  <2> QED
    BY <2>2, <2>3, <2>4
<1> QED
  BY <1>3, <1>4

LEMMA DeallocFrees ==
  ASSUME NEW s \in VmState, NEW oldsz \in Nat, NEW newsz \in Nat,
         \A v \in UserPages(s.pt) : v < PageUp(oldsz)
  PROVE  LET t == Uvmdealloc(s, oldsz, newsz) IN
         /\ t \in VmState /\ t.panic = s.panic /\ Balance(t) = Balance(s)
         /\ \A v \in UserPages(t.pt) : v \in UserPages(s.pt) /\ v < PageUp(newsz)
BY DeallocIs, Zenon

(* vmfault makes a page below sz that was not there, or fails.             *)
LEMMA VmfaultIs ==
  ASSUME NEW s \in VmState, s.ok, NEW sz \in 0..MemSize, NEW a \in Nat
  PROVE  LET t == Vmfault(s, sz, a) IN
         /\ Adds(s, t, PageOf(a), {"U", "W"})
         /\ t.ok => /\ a < sz /\ PageOf(a) \in Page \ UserPages(s.pt)
                    /\ PageOf(a) < PageUp(sz)
                    /\ t = NewPage(s, PageOf(a), {"U", "W"})
<1>1. sz \in Nat /\ MemSize \in Nat /\ PGSIZE \in Nat \ {0} /\ TRAPFRAME \in Nat
  BY Sizes
<1>2. PageOf(a) \in Nat /\ (a < sz => PageOf(a) < PageUp(sz)) /\ PageUp(sz) \in Nat
  BY <1>1, AddressPage, Below
<1>3. CASE a >= sz \/ PageOf(a) \in UserPages(s.pt)
  <2>1. Vmfault(s, sz, a) = Fail(s)
    BY <1>3 DEF Vmfault
  <2> QED
    BY <2>1, FailIs DEF Extends, Adds
<1>4. CASE a < sz /\ PageOf(a) \notin UserPages(s.pt)
  <2>1. Vmfault(s, sz, a) = NewPage(s, PageOf(a), {"U", "W"})
    BY <1>1, <1>4 DEF Vmfault
  <2>2. PageUp(sz) <= TRAPFRAME
    <3>1. PageUp(sz) <= PageUp(MemSize)
      BY <1>1, Rounded
    <3>2. PageUp(MemSize) = TRAPFRAME
      BY <1>1, Rounded DEF MemSize
    <3> QED
      BY <3>1, <3>2
  <2>3. PageOf(a) \in Page
    BY <1>1, <1>2, <1>4, <2>2 DEF Page
  <2>4. {"U", "W"} \in Flags
    BY DEF Flags
  <2>5. Adds(s, NewPage(s, PageOf(a), {"U", "W"}), PageOf(a), {"U", "W"})
    BY <1>4, <2>3, <2>4, NewPageAdds
  <2> QED
    BY <1>2, <1>4, <2>1, <2>3, <2>5
<1> QED
  BY <1>1, <1>3, <1>4

(* A fault or a copy leaves the memory as it is, or with a page more.      *)
Touches(s, t, sz) ==
  /\ t \in VmState /\ t.panic = s.panic /\ Balance(t) = Balance(s)
  /\ \/ t.pt.leaf = s.pt.leaf
     \/ \E v \in Page \ UserPages(s.pt) :
          v < PageUp(sz) /\ t.pt.leaf = WithPage(s.pt.leaf, v, {"U", "W"})

LEMMA VmfaultTouches ==
  ASSUME NEW s \in VmState, s.ok, NEW sz \in 0..MemSize, NEW a \in Nat
  PROVE  Touches(s, Vmfault(s, sz, a), sz)
<1>1. PICK t : t = Vmfault(s, sz, a)
  OBVIOUS
<1>2. Adds(s, t, PageOf(a), {"U", "W"})
  BY <1>1, VmfaultIs
<1>3. t.ok => PageOf(a) \in Page \ UserPages(s.pt) /\ PageOf(a) < PageUp(sz)
  BY <1>1, VmfaultIs
<1> QED
  BY <1>1, <1>2, <1>3 DEF Adds, Touches

LEMMA SelfTouches ==
  ASSUME NEW s \in VmState, NEW sz
  PROVE  Touches(s, s, sz)
BY DEF Touches

LEMMA CopyinTouches ==
  ASSUME NEW s \in VmState, s.ok, NEW sz \in 0..MemSize, NEW a \in Nat
  PROVE  Touches(s, Copyin(s, sz, a), sz) /\ Touches(s, Copyout(s, sz, a), sz)
<1>1. PICK c : c = Copyin(s, sz, a)
  OBVIOUS
<1>2. PageOf(a) * PGSIZE \in Nat
  BY AddressPage, Sizes
<1>3. Touches(s, c, sz)
  BY <1>1, <1>2, VmfaultTouches, SelfTouches DEF Copyin
<1>4. c \in VmState
  BY <1>3 DEF Touches
<1>5. Extends(c, Fail(c)) /\ Fail(c).pt = c.pt
  BY <1>4, FailIs
<1>6. Touches(s, Fail(c), sz)
  BY <1>3, <1>5 DEF Touches, Extends
<1>7. Copyout(s, sz, a) = c \/ Copyout(s, sz, a) = Fail(c)
  BY <1>1 DEF Copyout
<1> QED
  BY <1>1, <1>3, <1>6, <1>7

-----------------------------------------------------------------------------
(* Counting the pages of all processes                                     *)

Owns(f) == UNION {{p} \X (1..f[p]) : p \in Process}

LEMMA OwnsFinite ==
  ASSUME NEW f \in [Process -> Nat], NEW S \in SUBSET Process
  PROVE  IsFiniteSet(UNION {{p} \X (1..f[p]) : p \in S})
<1>1. PICK T : T = {{p} \X (1..f[p]) : p \in S}
  OBVIOUS
<1>2. IsFiniteSet(S)
  BY Sizes, FS_Subset
<1>3. PICK F : F = [p \in S |-> {p} \X (1..f[p])]
  OBVIOUS
<1>4. F \in Surjection(S, T)
  BY <1>1, <1>3 DEF Surjection
<1>5. IsFiniteSet(T)
  BY <1>2, <1>4, FS_Surjection
<1>6. ASSUME NEW Q \in T
      PROVE  IsFiniteSet(Q)
  <2>1. PICK p \in S : Q = {p} \X (1..f[p])
    BY <1>1
  <2>2. f[p] \in Int
    OBVIOUS
  <2>3. IsFiniteSet({p})
    BY FS_Singleton, Zenon
  <2>4. IsFiniteSet(1..f[p])
    BY <2>2, FS_Interval
  <2>5. IsFiniteSet({p} \X (1..f[p]))
    BY <2>3, <2>4, FS_Product
  <2> QED
    BY <2>1, <2>5
<1> QED
  BY <1>1, <1>5, <1>6, FS_UNION

(* What one process has more, all have more.                               *)
LEMMA Recount ==
  ASSUME NEW f \in [Process -> Nat], NEW g \in [Process -> Nat], NEW p \in Process,
         \A q \in Process \ {p} : f[q] = g[q]
  PROVE  /\ Cardinality(Owns(f)) \in Nat /\ Cardinality(Owns(g)) \in Nat
         /\ Cardinality(Owns(g)) + f[p] = Cardinality(Owns(f)) + g[p]
<1> DEFINE Rest(h) == UNION {{q} \X (1..h[q]) : q \in Process \ {p}}
<1>1. ASSUME NEW h \in [Process -> Nat]
      PROVE  /\ Cardinality(Owns(h)) \in Nat /\ Cardinality(Rest(h)) \in Nat
             /\ Cardinality(Owns(h)) = Cardinality(Rest(h)) + h[p]
  <2>1. PICK A : A = {p} \X (1..h[p])
    OBVIOUS
  <2>2. PICK B : B = Rest(h)
    OBVIOUS
  <2>3. Owns(h) = A \union B
    <3>1. Process = {p} \union (Process \ {p})
      OBVIOUS
    <3> QED
      BY <2>1, <2>2, <3>1 DEF Owns
  <2>4. A \intersect B = {}
    BY <2>1, <2>2
  <2>5. IsFiniteSet(B)
    BY <2>2, OwnsFinite
  <2>6. IsFiniteSet(A) /\ Cardinality(A) = h[p]
    <3>1. IsFiniteSet({p}) /\ Cardinality({p}) = 1
      BY FS_Singleton
    <3>2. h[p] \in Nat
      OBVIOUS
    <3>3. IsFiniteSet(1..h[p]) /\ Cardinality(1..h[p]) = h[p]
      BY <3>2, FS_Interval
    <3>4. IsFiniteSet(A) /\ Cardinality(A) = 1 * h[p]
      BY <2>1, <3>1, <3>3, FS_Product, Zenon
    <3> QED
      BY <3>2, <3>4
  <2>7. Cardinality(A) \in Nat /\ Cardinality(B) \in Nat /\ Cardinality({}) = 0
    BY <2>5, <2>6, FS_CardinalityType, FS_EmptySet
  <2>8. Cardinality(A \union B) = Cardinality(A) + Cardinality(B) - Cardinality({})
    BY <2>4, <2>5, <2>6, FS_Union
  <2> QED
    BY <2>2, <2>3, <2>6, <2>7, <2>8
<1>2. Rest(f) = Rest(g)
  OBVIOUS
<1>3. f[p] \in Nat /\ g[p] \in Nat
  OBVIOUS
<1> HIDE DEF Rest
<1>4. /\ Cardinality(Owns(f)) \in Nat /\ Cardinality(Rest(f)) \in Nat
      /\ Cardinality(Owns(f)) = Cardinality(Rest(f)) + f[p]
  BY <1>1
<1>5. Cardinality(Owns(g)) \in Nat /\ Cardinality(Owns(g)) = Cardinality(Rest(g)) + g[p]
  BY <1>1
<1> QED
  BY <1>2, <1>3, <1>4, <1>5

-----------------------------------------------------------------------------
(* A step of one or two processes                                          *)

LEMMA HasNat ==
  ASSUME NEW m \in Memory, NEW t \in Call
  PROVE  Has(m, t) \in Nat
<1>1. m.pt \in Table /\ t.new \in Table /\ t.argv \in Nat
  BY Sizes DEF Memory, Call
<1>2. Pages(m.pt) \in Nat /\ Pages(t.new) \in Nat
  BY <1>1, Counted
<1> QED
  BY <1>1, <1>2 DEF Has

LEMMA OwnedIs ==
  ASSUME proc \in [Process -> Memory], thread \in [Process -> Call]
  PROVE  Owned = Owns([q \in Process |-> Has(proc[q], thread[q])])
<1>1. PICK f : f = [q \in Process |-> Has(proc[q], thread[q])]
  OBVIOUS
<1>2. \A q \in Process : f[q] = InUse(q)
  BY <1>1 DEF Has, InUse
<1> QED
  BY <1>1, <1>2 DEF Owned, Owns

(* Only p has more or less, and the pages it has are free or taken.        *)
LEMMA StillConserved ==
  ASSUME Typed, Conserved, Typed', NEW p \in Process,
         \A q \in Process \ {p} : Has(proc'[q], thread'[q]) = Has(proc[q], thread[q]),
         free' + other' + Has(proc'[p], thread'[p]) = free + other + Has(proc[p], thread[p])
  PROVE  Conserved'
<1>1. PICK f : f = [q \in Process |-> Has(proc[q], thread[q])]
  OBVIOUS
<1>2. PICK g : g = [q \in Process |-> Has(proc'[q], thread'[q])]
  OBVIOUS
<1>3. f \in [Process -> Nat]
  <2>1. \A q \in Process : Has(proc[q], thread[q]) \in Nat
    BY HasNat DEF Typed
  <2> QED
    BY <1>1, <2>1
<1>4. g \in [Process -> Nat]
  <2>1. \A q \in Process : Has(proc'[q], thread'[q]) \in Nat
    BY HasNat DEF Typed
  <2> QED
    BY <1>2, <2>1
<1>5. \A q \in Process \ {p} : f[q] = g[q]
  BY <1>1, <1>2
<1>6. /\ Cardinality(Owns(f)) \in Nat /\ Cardinality(Owns(g)) \in Nat
      /\ Cardinality(Owns(g)) + f[p] = Cardinality(Owns(f)) + g[p]
  BY <1>3, <1>4, <1>5, Recount
<1>7. Owned = Owns(f)
  BY <1>1, OwnedIs DEF Typed
<1>8. Owned' = Owns(g)
  <2>1. Owned' = Owns([q \in Process |-> Has(proc'[q], thread'[q])])
    <3>1. \A q \in Process : InUse(q)' = Has(proc'[q], thread'[q])
      BY DEF Has, InUse
    <3>2. \A q \in Process : [r \in Process |-> Has(proc'[r], thread'[r])][q] = InUse(q)'
      BY <3>1
    <3> QED
      BY <3>2 DEF Owned, Owns
  <2> QED
    BY <1>2, <2>1
<1>9. f[p] = Has(proc[p], thread[p]) /\ g[p] = Has(proc'[p], thread'[p]) /\ f[p] \in Nat /\ g[p] \in Nat
  BY <1>1, <1>2, <1>3, <1>4
<1>10. NPAGES \in Nat /\ free \in Nat /\ other \in Nat /\ free' \in Nat /\ other' \in Nat
  BY Sizes DEF Typed
<1>11. free + other + Cardinality(Owns(f)) = NPAGES
  BY <1>7 DEF Conserved
<1>12. free' + other' + Cardinality(Owns(g)) = NPAGES
  BY <1>6, <1>9, <1>10, <1>11
<1> QED
  BY <1>8, <1>12 DEF Conserved

(* The processes of C change, and none of them is another's new child.     *)
LEMMA Frame ==
  ASSUME IInv, Typed', Conserved', NEW C \in SUBSET Process,
         \A q \in Process \ C :
           /\ proc'[q] = proc[q] /\ thread'[q] = thread[q] /\ image'[q] = image[q]
           /\ At(q, "copy") => thread[q].child \notin C,
         \A q \in C : OwnOK(proc'[q], thread'[q], image'[q]) /\ ForkOK(q)'
  PROVE  IInv'
<1>1. ASSUME NEW q \in Process
      PROVE  OwnOK(proc'[q], thread'[q], image'[q])
  <2>1. OwnOK(proc[q], thread[q], image[q])
    BY DEF IInv
  <2>2. CASE q \in C
    BY <2>2
  <2>3. CASE q \notin C
    <3>1. proc'[q] = proc[q] /\ thread'[q] = thread[q] /\ image'[q] = image[q]
      BY <2>3
    <3> QED
      BY <2>1, <3>1
  <2> QED
    BY <2>2, <2>3
<1>2. ASSUME NEW q \in Process
      PROVE  ForkOK(q)'
  <2>1. CASE q \in C
    BY <2>1
  <2>2. CASE q \notin C /\ ~ At(q, "copy")
    <3>1. thread'[q] = thread[q]
      BY <2>2
    <3>2. ~ At(q, "copy")'
      BY <2>2, <3>1 DEF At
    <3> QED
      BY <3>2 DEF ForkOK
  <2>3. CASE q \notin C /\ At(q, "copy")
    <3>1. PICK c : c = thread[q].child
      OBVIOUS
    <3>2. /\ c \in Process /\ At(c, "embryo") /\ proc[c].sz = 0
          /\ thread[q].a <= PageUp(proc[q].sz)
          /\ proc[c].pt.leaf = Cut(proc[q].pt.leaf, thread[q].a)
          /\ \A r \in Process : At(r, "copy") /\ thread[r].child = c => r = q
      <4>1. ForkOK(q)
        BY DEF IInv
      <4> QED
        BY <2>3, <3>1, <4>1 DEF ForkOK
    <3>3. c \notin C
      BY <2>3, <3>1
    <3>4. /\ thread'[q] = thread[q] /\ proc'[q] = proc[q]
          /\ thread'[c] = thread[c] /\ proc'[c] = proc[c]
      BY <2>3, <3>2, <3>3
    <3>5. ASSUME NEW r \in Process, At(r, "copy")', thread'[r].child = c
          PROVE  r = q
      <4>1. CASE r \in C
        <5>1. ForkOK(r)'
          BY <4>1
        <5>2. \A z \in Process : At(z, "copy")' /\ thread'[z].child = thread'[r].child => z = r
          BY <3>5, <5>1 DEF ForkOK
        <5>3. At(q, "copy")' /\ thread'[q].child = thread'[r].child
          BY <2>3, <3>1, <3>4, <3>5 DEF At
        <5> QED
          BY <5>2, <5>3
      <4>2. CASE r \notin C
        <5>1. thread'[r] = thread[r]
          BY <4>2
        <5>2. At(r, "copy") /\ thread[r].child = c
          BY <3>5, <5>1 DEF At
        <5> QED
          BY <3>2, <5>2
      <4> QED
        BY <4>1, <4>2
    <3>6. thread'[q].child = c
      BY <3>1, <3>4
    <3>7. /\ At(c, "embryo")' /\ proc'[c].sz = 0
          /\ thread'[q].a <= PageUp(proc'[q].sz)
          /\ proc'[c].pt.leaf = Cut(proc'[q].pt.leaf, thread'[q].a)
      BY <3>2, <3>4 DEF At
    <3> QED
      BY <3>2, <3>5, <3>6, <3>7 DEF ForkOK
  <2> QED
    BY <2>1, <2>2, <2>3
<1> QED
  BY <1>1, <1>2 DEF IInv

(* A step of p alone: its memory becomes m, its call t, its image f.       *)
LEMMA OneStep ==
  ASSUME IInv, NEW p \in Process, NEW m \in Memory, NEW t \in Call, NEW f \in Leaves,
         free' \in Nat, other' \in 0..MaxOther, panicked' = FALSE,
         proc' = [proc EXCEPT ![p] = m],
         thread' = [thread EXCEPT ![p] = t],
         image' = [image EXCEPT ![p] = f],
         free' + other' + Has(m, t) = free + other + Has(proc[p], thread[p]),
         thread[p].at # "embryo",
         OwnOK(m, t, f),
         t.at # "copy" \/ ForkOK(p)'
  PROVE  IInv'
<1>1. Typed /\ Conserved
  BY DEF IInv
<1>2. Typed'
  BY <1>1 DEF Typed
<1>3. proc'[p] = m /\ thread'[p] = t /\ image'[p] = f
  BY <1>1 DEF Typed
<1>4. ASSUME NEW q \in Process \ {p}
      PROVE  proc'[q] = proc[q] /\ thread'[q] = thread[q] /\ image'[q] = image[q]
  BY <1>1 DEF Typed
<1>5. Conserved'
  <2>1. \A q \in Process \ {p} : Has(proc'[q], thread'[q]) = Has(proc[q], thread[q])
    BY <1>4
  <2> QED
    BY <1>1, <1>2, <1>3, <2>1, StillConserved
<1>6. ASSUME NEW q \in Process \ {p}, At(q, "copy")
      PROVE  thread[q].child \notin {p}
  <2>1. ForkOK(q)
    BY DEF IInv
  <2>2. At(thread[q].child, "embryo")
    BY <1>6, <2>1 DEF ForkOK
  <2> QED
    BY <2>2 DEF At
<1>7. \A q \in Process \ {p} :
           /\ proc'[q] = proc[q] /\ thread'[q] = thread[q] /\ image'[q] = image[q]
           /\ At(q, "copy") => thread[q].child \notin {p}
  BY <1>4, <1>6
<1>8. ForkOK(p)'
  <2>1. t.at # "copy" => ~ At(p, "copy")'
    BY <1>3 DEF At
  <2> QED
    BY <2>1 DEF ForkOK
<1>9. \A q \in {p} : OwnOK(proc'[q], thread'[q], image'[q]) /\ ForkOK(q)'
  BY <1>3, <1>8
<1> QED
  BY <1>2, <1>5, <1>7, <1>9, Frame

LEMMA Here ==
  ASSUME IInv, NEW p \in Process
  PROVE  /\ proc[p] \in Memory /\ thread[p] \in Call /\ image[p] \in Leaves
         /\ OwnOK(proc[p], thread[p], image[p]) /\ ForkOK(p)
         /\ proc[p].pt \in Table /\ proc[p].sz \in 0..MemSize /\ proc[p].sz \in Nat
         /\ thread[p].new \in Table /\ thread[p].a \in Nat /\ thread[p].end \in Nat
         /\ thread[p].oldsz \in Nat /\ thread[p].sz \in Nat /\ thread[p].argv \in Nat
         /\ thread[p].i \in Nat
         /\ free \in Nat /\ other \in 0..MaxOther /\ panicked = FALSE
         /\ proc \in [Process -> Memory] /\ thread \in [Process -> Call]
         /\ image \in [Process -> Leaves]
<1>1. /\ free \in Nat /\ other \in 0..MaxOther /\ panicked = FALSE
      /\ proc \in [Process -> Memory] /\ thread \in [Process -> Call]
      /\ image \in [Process -> Leaves]
  BY DEF IInv, Typed
<1>2. OwnOK(proc[p], thread[p], image[p]) /\ ForkOK(p)
  BY DEF IInv
<1>3. proc[p] \in Memory /\ thread[p] \in Call /\ image[p] \in Leaves
  BY <1>1
<1>4. proc[p].pt \in Table /\ proc[p].sz \in 0..MemSize /\ proc[p].sz \in Nat
  BY <1>3, Sizes DEF Memory
<1>5. /\ thread[p].new \in Table /\ thread[p].a \in Nat /\ thread[p].end \in Nat
      /\ thread[p].oldsz \in Nat /\ thread[p].sz \in Nat /\ thread[p].argv \in Nat
      /\ thread[p].i \in Nat
  BY <1>3, Sizes DEF Call
<1> QED
  BY <1>1, <1>2, <1>3, <1>4, <1>5

LEMMA Idle ==
  ASSUME IInv, NEW p \in Process
  PROVE  /\ proc = [proc EXCEPT ![p] = proc[p]] /\ thread = [thread EXCEPT ![p] = thread[p]]
         /\ image = [image EXCEPT ![p] = image[p]]
BY DEF IInv, Typed

LEMMA UserIs ==
  /\ User \in Call /\ User.at = "user" /\ User.new = NoTable /\ User.argv = 0
  /\ Absent \in Call /\ Absent.at = "absent" /\ Absent.new = NoTable /\ Absent.argv = 0
<1>1. /\ NoTable \in Table /\ <<NoPages, 0>> \in Leaves \X Nat /\ 0 \in 0..MAXARG
      /\ "user" \in Place /\ "absent" \in Place
  BY EmptyTable, EmptyLeaf, Sizes DEF Place
<1>2. User \in Call /\ User.at = "user" /\ User.new = NoTable /\ User.argv = 0
  BY <1>1 DEF User, Call
<1>3. /\ Absent \in Call /\ Absent.at = "absent"
      /\ Absent.new = User.new /\ Absent.argv = User.argv
  BY <1>1, <1>2 DEF Absent, Call
<1> QED
  BY <1>2, <1>3

LEMMA UserOwn ==
  ASSUME NEW m, NEW t, NEW f, t.at = "user"
  PROVE  OwnOK(m, t, f) <=> /\ m.trapframe /\ t.new = NoTable /\ t.argv = 0
                            /\ Sized(m) /\ Imaged(m, f)
BY DEF OwnOK, HasOK, SizeOK, CallOK, GrowOK, ExecOK, ImageOK, CallAt, ExecAt

LEMMA FailedOwn ==
  ASSUME NEW m, NEW t, NEW f, t.at = "failed"
  PROVE  OwnOK(m, t, f) <=> /\ m.trapframe /\ t.new = NoTable /\ t.before = <<m.pt.leaf, m.sz>>
                            /\ Sized(m) /\ Imaged(m, f)
BY DEF OwnOK, HasOK, SizeOK, CallOK, GrowOK, ExecOK, ImageOK, CallAt, ExecAt

LEMMA ArgvOwn ==
  ASSUME NEW m, NEW t, NEW f, t.at = "argv"
  PROVE  OwnOK(m, t, f) <=> /\ m.trapframe /\ t.new = NoTable /\ t.before = <<m.pt.leaf, m.sz>>
                            /\ Sized(m) /\ Imaged(m, f) /\ t.i = 1 /\ t.sz = 0
BY DEF OwnOK, HasOK, SizeOK, CallOK, GrowOK, ExecOK, ImageOK, CallAt, ExecAt

LEMMA CopyOwn ==
  ASSUME NEW m, NEW t, NEW f, t.at = "copy"
  PROVE  OwnOK(m, t, f) <=> /\ m.trapframe /\ t.new = NoTable /\ t.argv = 0
                            /\ t.before = <<m.pt.leaf, m.sz>>
                            /\ Sized(m) /\ Imaged(m, f)
BY DEF OwnOK, HasOK, SizeOK, CallOK, GrowOK, ExecOK, ImageOK, CallAt, ExecAt

LEMMA GrowOwn ==
  ASSUME NEW m, NEW t, NEW f, t.at = "grow"
  PROVE  OwnOK(m, t, f) <=> /\ m.trapframe /\ t.new = NoTable /\ t.argv = 0
                            /\ GrowOK(m, t) /\ Imaged(m, f)
BY DEF OwnOK, HasOK, SizeOK, CallOK, ExecOK, ImageOK, CallAt, ExecAt

LEMMA ExecOwn ==
  ASSUME NEW m, NEW t, NEW f, t.at \in ExecAt
  PROVE  OwnOK(m, t, f) <=> /\ m.trapframe /\ t.before = <<m.pt.leaf, m.sz>>
                            /\ Sized(m) /\ Imaged(m, f) /\ ExecOK(t)
BY DEF OwnOK, HasOK, SizeOK, CallOK, GrowOK, ImageOK, CallAt, ExecAt

LEMMA OutsideOwn ==
  ASSUME NEW m, NEW t, NEW f, t.at \in {"absent", "embryo"}
  PROVE  OwnOK(m, t, f) <=> /\ t.new = NoTable /\ t.argv = 0
                            /\ t.at = "absent" => m = NoProc
                            /\ t.at = "embryo" => m.trapframe
BY DEF OwnOK, HasOK, SizeOK, CallOK, GrowOK, ExecOK, ImageOK, CallAt, ExecAt

(* The calls that use no page of their own have none.                      *)
LEMMA HasIs ==
  ASSUME NEW m \in Memory, NEW t \in Call, t.new = NoTable, m.trapframe
  PROVE  Has(m, t) = Pages(m.pt) + t.argv + 1 /\ Pages(m.pt) \in Nat /\ t.argv \in Nat
<1>1. m.pt \in Table /\ t.argv \in Nat
  BY Sizes DEF Memory, Call
<1>2. Pages(m.pt) \in Nat /\ Pages(NoTable) = 0
  BY <1>1, Counted, EmptyTable
<1> QED
  BY <1>1, <1>2 DEF Has

(* A step of p alone that pays for what it takes.                          *)
LEMMA Settles ==
  ASSUME IInv, NEW p \in Process, NEW m \in Memory, NEW t \in Call, NEW f \in Leaves,
         free' \in Nat, other' = other, panicked' = FALSE,
         proc' = [proc EXCEPT ![p] = m],
         thread' = [thread EXCEPT ![p] = t],
         image' = [image EXCEPT ![p] = f],
         free' + Has(m, t) = free + Has(proc[p], thread[p]),
         thread[p].at # "embryo",
         OwnOK(m, t, f),
         t.at # "copy" \/ ForkOK(p)'
  PROVE  IInv'
<1>1. free \in Nat /\ other \in 0..MaxOther /\ proc[p] \in Memory /\ thread[p] \in Call
  BY Here
<1>2. MaxOther \in Nat
  BY Sizes
<1>3. Has(m, t) \in Nat /\ Has(proc[p], thread[p]) \in Nat
  BY <1>1, HasNat
<1>4. other' \in 0..MaxOther /\ free' + other' + Has(m, t) = free + other + Has(proc[p], thread[p])
  BY <1>1, <1>2, <1>3
<1> QED
  BY <1>4, OneStep

LEMMA TakesIs ==
  ASSUME IInv, NEW s \in VmState, s.panic = FALSE, Takes(s)
  PROVE  free' = s.free /\ free' \in Nat /\ panicked' = FALSE
<1>1. free' = s.free /\ panicked' = (panicked \/ s.panic)
  BY DEF Takes
<1>2. s.free \in Nat
  BY StateFields
<1>3. panicked = FALSE
  BY DEF IInv, Typed
<1> QED
  BY <1>1, <1>2, <1>3

LEMMA FailsIs ==
  ASSUME IInv, NEW p \in Process
  PROVE  \E t \in Call :
           /\ t.at = "failed" /\ t.new = NoTable /\ t.before = thread[p].before
           /\ t.argv = thread[p].argv /\ Fails(p) = [thread EXCEPT ![p] = t]
<1>1. PICK t : t = [User EXCEPT !.at = "failed", !.before = thread[p].before,
                                !.argv = thread[p].argv]
  OBVIOUS
<1>2. Fails(p) = [thread EXCEPT ![p] = t]
  BY <1>1 DEF Fails
<1>3. thread[p].before \in Leaves \X Nat /\ thread[p].argv \in 0..MAXARG /\ "failed" \in Place
  BY Here DEF Call, Place, CallAt
<1>4. User \in Call /\ User.new = NoTable
  BY UserIs
<1>5. /\ t \in Call /\ t.at = "failed" /\ t.new = User.new /\ t.before = thread[p].before
      /\ t.argv = thread[p].argv
  BY <1>1, <1>3, <1>4 DEF Call
<1> QED
  BY <1>2, <1>4, <1>5

(* A call begins with the memory of the process before it.                 *)
LEMMA BeginsIs ==
  ASSUME IInv, NEW p \in Process, NEW l \in {"failed", "argv"}
  PROVE  LET t == [User EXCEPT !.at = l, !.before = Before(p)] IN
         /\ t \in Call /\ t.at = l /\ t.new = NoTable /\ t.argv = 0 /\ t.i = 1 /\ t.sz = 0
         /\ t.before = <<proc[p].pt.leaf, proc[p].sz>>
<1>1. PICK t : t = [User EXCEPT !.at = l, !.before = Before(p)]
  OBVIOUS
<1>2. proc[p].pt.leaf \in Leaves /\ proc[p].sz \in Nat
  BY Here, Counted
<1>3. Before(p) = <<proc[p].pt.leaf, proc[p].sz>> /\ Before(p) \in Leaves \X Nat
  BY <1>2 DEF Before
<1>4. l \in Place
  BY DEF Place, CallAt
<1>5. User \in Call /\ User.new = NoTable /\ User.argv = 0 /\ User.i = 1 /\ User.sz = 0
  BY UserIs DEF User
<1>6. /\ t \in Call /\ t.at = l /\ t.new = User.new /\ t.argv = User.argv /\ t.i = User.i
      /\ t.sz = User.sz /\ t.before = Before(p)
  BY <1>1, <1>3, <1>4, <1>5 DEF Call
<1> QED
  BY <1>1, <1>3, <1>5, <1>6

(* The process p with another page table.                                  *)
LEMMA WithTable ==
  ASSUME IInv, NEW p \in Process, NEW pt \in Table
  PROVE  LET m == [proc[p] EXCEPT !.pt = pt] IN
         m \in Memory /\ m.pt = pt /\ m.sz = proc[p].sz /\ m.trapframe = proc[p].trapframe
BY Here DEF Memory

(* A call that has come one page further.                                  *)
LEMMA NextPage ==
  ASSUME NEW c \in Call
  PROVE  LET t == [c EXCEPT !.a = @ + 1] IN
         /\ t \in Call /\ t.a = c.a + 1 /\ t.at = c.at /\ t.new = c.new /\ t.argv = c.argv
         /\ t.oldsz = c.oldsz /\ t.end = c.end /\ t.before = c.before /\ t.sz = c.sz
         /\ t.child = c.child /\ t.program = c.program /\ t.i = c.i
<1>1. PICK t : t = [c EXCEPT !.a = @ + 1]
  OBVIOUS
<1>2. /\ t.a = c.a + 1 /\ t.at = c.at /\ t.new = c.new /\ t.argv = c.argv
      /\ t.oldsz = c.oldsz /\ t.end = c.end /\ t.before = c.before /\ t.sz = c.sz
      /\ t.child = c.child /\ t.program = c.program /\ t.i = c.i
  BY <1>1 DEF Call
<1>3. c.a \in Nat
  BY DEF Call
<1>4. c.a + 1 \in Nat
  BY <1>3
<1>5. t \in Call
  BY <1>1, <1>4 DEF Call
<1> QED
  BY <1>1, <1>2, <1>5

-----------------------------------------------------------------------------
(* sbrk                                                                    *)

LEMMA SizeGrows ==
  ASSUME NEW m, NEW n, NEW f, m.sz \in Nat, n.sz \in Nat, m.sz <= n.sz, m.pt = n.pt,
         m.pt \in Table, Sized(m), Imaged(m, f)
  PROVE  Sized(n) /\ Imaged(n, f)
<1>1. PageUp(m.sz) \in Nat /\ PageUp(n.sz) \in Nat /\ PageUp(m.sz) <= PageUp(n.sz)
  BY Below, Rounded
<1>2. UserPages(m.pt) \subseteq Nat
  BY Counted DEF Page
<1>3. Sized(n)
  BY <1>1, <1>2 DEF Sized
<1>4. \A v \in DOMAIN f : v < PageUp(n.sz)
  <2>1. ASSUME NEW v \in DOMAIN f
        PROVE  v < PageUp(n.sz)
    <3>1. v \in Nat /\ v < PageUp(m.sz)
      BY <1>2 DEF Imaged
    <3> QED
      BY <1>1, <3>1
  <2> QED
    BY <2>1
<1> QED
  BY <1>3, <1>4 DEF Imaged

LEMMA SbrkLazyStep ==
  ASSUME IInv, NEW p \in Process, NEW n \in Nat, SbrkLazy(p, n)
  PROVE  IInv'
<1>1. PICK m : m = [proc[p] EXCEPT !.sz = @ + n]
  OBVIOUS
<1>2. thread[p].at = "user" /\ proc[p].sz + n <= MemSize
  BY DEF SbrkLazy, At, MemSize
<1>3. /\ m \in Memory /\ m.pt = proc[p].pt /\ m.sz = proc[p].sz + n
      /\ m.trapframe = proc[p].trapframe
  <2>1. proc[p] \in Memory /\ proc[p].sz \in Nat
    BY Here
  <2>2. MemSize \in Nat
    BY Sizes
  <2>3. proc[p].sz + n \in 0..MemSize
    BY <1>2, <2>1, <2>2
  <2> QED
    BY <1>1, <2>1, <2>3 DEF Memory
<1>4. proc' = [proc EXCEPT ![p] = m]
  BY <1>1 DEF SbrkLazy
<1>5. /\ proc[p].trapframe /\ thread[p].new = NoTable /\ thread[p].argv = 0
      /\ Sized(proc[p]) /\ Imaged(proc[p], image[p])
  BY <1>2, Here, UserOwn
<1>6. Sized(m) /\ Imaged(m, image[p])
  <2>1. proc[p].sz \in Nat /\ proc[p].pt \in Table
    BY Here
  <2>2. m.sz \in Nat /\ proc[p].sz <= m.sz
    BY <1>3, <2>1
  <2> QED
    BY <1>3, <1>5, <2>1, <2>2, SizeGrows
<1>7. OwnOK(m, thread[p], image[p])
  BY <1>2, <1>3, <1>5, <1>6, UserOwn
<1>8. Has(m, thread[p]) = Has(proc[p], thread[p])
  BY <1>3 DEF Has
<1>9. /\ free' = free /\ other' = other /\ panicked' = panicked
      /\ thread' = [thread EXCEPT ![p] = thread[p]] /\ image' = [image EXCEPT ![p] = image[p]]
  BY Idle DEF SbrkLazy
<1> QED
  BY <1>2, <1>3, <1>4, <1>7, <1>8, <1>9, Here, OneStep

LEMMA SbrkShrinkStep ==
  ASSUME IInv, NEW p \in Process, NEW n \in Nat, SbrkShrink(p, n)
  PROVE  IInv'
<1>1. PICK sz : sz = proc[p].sz - n
  OBVIOUS
<1>2. PICK s : s = Uvmdealloc(State(proc[p].pt), proc[p].sz, sz)
  OBVIOUS
<1>3. PICK m : m = [proc[p] EXCEPT !.pt = s.pt, !.sz = @ - n]
  OBVIOUS
<1>4. thread[p].at = "user" /\ n <= proc[p].sz /\ Takes(s)
  BY <1>1, <1>2 DEF SbrkShrink, At
<1>5. sz \in Nat /\ sz \in 0..MemSize /\ proc[p].sz \in Nat /\ proc[p].pt \in Table
  <2>1. proc[p].sz \in Nat /\ proc[p].sz \in 0..MemSize /\ proc[p].pt \in Table
    BY Here
  <2>2. MemSize \in Nat
    BY Sizes
  <2> QED
    BY <1>1, <1>4, <2>1, <2>2
<1>6. /\ proc[p].trapframe /\ thread[p].new = NoTable /\ thread[p].argv = 0
      /\ Sized(proc[p]) /\ Imaged(proc[p], image[p])
  BY <1>4, Here, UserOwn
<1>7. /\ State(proc[p].pt) \in VmState /\ State(proc[p].pt).pt = proc[p].pt
      /\ State(proc[p].pt).panic = FALSE /\ Balance(State(proc[p].pt)) = free + Pages(proc[p].pt)
  BY <1>5, Here, StateIs
<1>8. /\ s \in VmState /\ s.panic = FALSE /\ Balance(s) = free + Pages(proc[p].pt)
      /\ s.pt.leaf = Restrict(proc[p].pt.leaf, {v \in UserPages(proc[p].pt) : v < PageUp(sz)})
      /\ \A v \in UserPages(s.pt) : v \in UserPages(proc[p].pt) /\ v < PageUp(sz)
  <2>1. PICK r : r = State(proc[p].pt)
    OBVIOUS
  <2>2. /\ r \in VmState /\ r.pt = proc[p].pt /\ r.panic = FALSE
        /\ Balance(r) = free + Pages(proc[p].pt)
    BY <1>7, <2>1
  <2>3. \A v \in UserPages(r.pt) : v < PageUp(proc[p].sz)
    BY <1>6, <2>2 DEF Sized
  <2>4. s = Uvmdealloc(r, proc[p].sz, sz)
    BY <1>2, <2>1
  <2>5. /\ s \in VmState /\ s.panic = r.panic /\ Balance(s) = Balance(r)
        /\ s.pt.leaf = Restrict(r.pt.leaf, {v \in UserPages(r.pt) : v < PageUp(sz)})
        /\ \A v \in UserPages(s.pt) : v \in UserPages(r.pt) /\ v < PageUp(sz)
    BY <1>5, <2>2, <2>3, <2>4, DeallocIs
  <2> QED
    BY <2>2, <2>5
<1>9. s.pt \in Table /\ s.free \in Nat
  BY <1>8, StateFields
<1>10. /\ m \in Memory /\ m.pt = s.pt /\ m.sz = sz /\ m.trapframe = proc[p].trapframe
  <2>1. proc[p] \in Memory
    BY Here
  <2> QED
    BY <1>1, <1>3, <1>5, <1>9, <2>1 DEF Memory
<1>11. proc' = [proc EXCEPT ![p] = m]
  BY <1>1, <1>2, <1>3 DEF SbrkShrink
<1>12. proc'[p].sz = sz
  BY <1>10, <1>11, Here
<1>13. PICK f : f = Restrict(image[p], DOMAIN image[p] \ {v \in Page : v >= PageUp(sz)})
  OBVIOUS
<1>14. image' = [image EXCEPT ![p] = f]
  BY <1>12, <1>13 DEF SbrkShrink
<1>15. f \in Leaves /\ DOMAIN f = {v \in DOMAIN image[p] : v < PageUp(sz)}
       /\ \A v \in DOMAIN f : f[v] = image[p][v]
  <2>1. PICK S : S = DOMAIN image[p] \ {v \in Page : v >= PageUp(sz)}
    OBVIOUS
  <2>2. image[p] \in Leaves /\ DOMAIN image[p] \subseteq Page
    BY Here, Leaf
  <2>3. S = S \intersect DOMAIN image[p]
    BY <2>1
  <2>4. f \in Leaves /\ DOMAIN f = S /\ \A v \in DOMAIN f : f[v] = image[p][v]
    <3>1. PICK h : h = image[p]
      OBVIOUS
    <3>2. h \in Leaves /\ f = Restrict(h, S \intersect DOMAIN h)
      BY <1>13, <2>1, <2>2, <2>3, <3>1
    <3>3. PICK g : g = Restrict(h, S \intersect DOMAIN h)
      OBVIOUS
    <3>4. g \in Leaves /\ DOMAIN g = S \intersect DOMAIN h /\ \A v \in DOMAIN g : g[v] = h[v]
      BY <3>2, <3>3, LeafCut
    <3> QED
      BY <2>3, <3>1, <3>2, <3>3, <3>4
  <2>5. S = {v \in DOMAIN image[p] : v < PageUp(sz)}
    <3>1. PageUp(sz) \in Nat
      BY <1>5, Below
    <3>2. DOMAIN image[p] \subseteq Nat
      BY <2>2 DEF Page
    <3> QED
      BY <2>1, <2>2, <3>1, <3>2
  <2> QED
    BY <2>4, <2>5
<1>16. /\ UserPages(s.pt) = {v \in UserPages(proc[p].pt) : v < PageUp(sz)}
       /\ \A v \in UserPages(s.pt) : s.pt.leaf[v] = proc[p].pt.leaf[v]
  <2>1. PICK S : S = {v \in UserPages(proc[p].pt) : v < PageUp(sz)}
    OBVIOUS
  <2>2. s.pt.leaf = [v \in S |-> proc[p].pt.leaf[v]]
    BY <1>8, <2>1 DEF Restrict
  <2> QED
    BY <2>1, <2>2 DEF UserPages
<1>17. Sized(m)
  BY <1>8, <1>10 DEF Sized
<1>18. Imaged(m, f)
  BY <1>6, <1>10, <1>15, <1>16 DEF Imaged
<1>19. OwnOK(m, thread[p], f)
  BY <1>4, <1>6, <1>10, <1>17, <1>18, UserOwn
<1>20. s.free + Has(m, thread[p]) = free + Has(proc[p], thread[p])
  <2>1. /\ Has(m, thread[p]) = Pages(s.pt) + 0 + 1 /\ Pages(s.pt) \in Nat
        /\ Has(proc[p], thread[p]) = Pages(proc[p].pt) + 0 + 1 /\ Pages(proc[p].pt) \in Nat
    BY <1>6, <1>10, Here, HasIs
  <2>2. s.free + Pages(s.pt) = free + Pages(proc[p].pt)
    BY <1>8 DEF Balance
  <2>3. free \in Nat
    BY Here
  <2> QED
    BY <1>9, <2>1, <2>2, <2>3
<1>21. /\ free' = s.free /\ panicked' = FALSE /\ other' = other
       /\ thread' = [thread EXCEPT ![p] = thread[p]]
  <2>1. free' = s.free /\ panicked' = (panicked \/ s.panic)
    BY <1>4 DEF Takes
  <2>2. thread' = thread /\ other' = other
    BY DEF SbrkShrink
  <2> QED
    BY <1>8, <2>1, <2>2, Here, Idle
<1>22. /\ free' \in Nat /\ other' \in 0..MaxOther /\ thread[p] \in Call
       /\ free' + other' + Has(m, thread[p]) = free + other + Has(proc[p], thread[p])
  <2>1. /\ free \in Nat /\ other \in 0..MaxOther /\ MaxOther \in Nat /\ thread[p] \in Call
        /\ Has(m, thread[p]) \in Nat /\ Has(proc[p], thread[p]) \in Nat
    BY <1>10, Here, Sizes, HasNat
  <2> QED
    BY <1>9, <1>20, <1>21, <2>1
<1> QED
  BY <1>4, <1>10, <1>11, <1>14, <1>15, <1>19, <1>21, <1>22, OneStep

LEMMA SbrkGrowStep ==
  ASSUME IInv, NEW p \in Process, NEW n \in Nat, SbrkGrow(p, n)
  PROVE  IInv'
<1>1. PICK sz : sz = proc[p].sz
  OBVIOUS
<1>2. PICK t : t = [User EXCEPT !.at = "grow", !.a = PageUp(sz), !.end = sz + n, !.oldsz = sz,
                                !.before = Before(p)]
  OBVIOUS
<1>3. thread[p].at = "user" /\ sz + n <= MemSize
  BY <1>1 DEF SbrkGrow, At, MemSize
<1>4. sz \in Nat /\ proc[p].pt \in Table /\ proc[p].pt.leaf \in Leaves /\ PageUp(sz) \in Nat
  BY <1>1, Here, Counted, Below
<1>5. Before(p) = <<proc[p].pt.leaf, sz>> /\ Before(p) \in Leaves \X Nat
  BY <1>1, <1>4 DEF Before
<1>6. /\ t \in Call /\ t.at = "grow" /\ t.a = PageUp(sz) /\ t.end = sz + n /\ t.oldsz = sz
      /\ t.before = Before(p) /\ t.new = NoTable /\ t.argv = 0
  <2>1. User \in Call /\ "grow" \in Place /\ User.new = NoTable /\ User.argv = 0
    BY UserIs DEF Place
  <2>2. sz + n \in Nat
    BY <1>4
  <2>3. /\ t.at = "grow" /\ t.a = PageUp(sz) /\ t.end = sz + n /\ t.oldsz = sz
        /\ t.before = Before(p) /\ t.new = User.new /\ t.argv = User.argv
    BY <1>2, <2>1 DEF Call
  <2>4. t \in Call
    BY <1>2, <1>4, <1>5, <2>1, <2>2 DEF Call
  <2> QED
    BY <2>1, <2>3, <2>4
<1>7. /\ proc[p].trapframe /\ thread[p].new = NoTable /\ thread[p].argv = 0
      /\ Sized(proc[p]) /\ Imaged(proc[p], image[p])
  BY <1>3, Here, UserOwn
<1>8. proc[p].pt.leaf = Restrict(proc[p].pt.leaf, {v \in UserPages(proc[p].pt) : v < PageUp(sz)})
  <2>1. PICK g : g = proc[p].pt.leaf
    OBVIOUS
  <2>2. {v \in UserPages(proc[p].pt) : v < PageUp(sz)} = DOMAIN g
    BY <1>1, <1>7, <2>1 DEF Sized, UserPages
  <2>3. g = [v \in DOMAIN g |-> g[v]]
    BY <1>4, <2>1, Leaf
  <2>4. g = Restrict(g, DOMAIN g)
    BY <2>3, Zenon DEF Restrict
  <2> QED
    BY <2>1, <2>2, <2>4
<1>9. GrowOK(proc[p], t)
  <2>1. PageUp(sz) <= PageUp(sz + n) /\ PageUp(sz) <= PageUp(sz)
    <3>1. sz + n \in Nat /\ sz <= sz + n
      BY <1>4
    <3>2. PageUp(sz) <= PageUp(sz + n)
      BY <1>4, <3>1, Rounded
    <3> QED
      BY <1>4, <3>2
  <2>2. \A v \in UserPages(proc[p].pt) : v < PageUp(sz)
    BY <1>1, <1>7 DEF Sized
  <2> QED
    BY <1>1, <1>3, <1>5, <1>6, <1>8, <2>1, <2>2 DEF GrowOK
<1>10. OwnOK(proc[p], t, image[p])
  BY <1>6, <1>7, <1>9, GrowOwn
<1>11. Has(proc[p], t) = Has(proc[p], thread[p])
  BY <1>6, <1>7 DEF Has
<1>12. /\ free' = free /\ other' = other /\ panicked' = panicked
       /\ proc' = [proc EXCEPT ![p] = proc[p]] /\ image' = [image EXCEPT ![p] = image[p]]
       /\ thread' = [thread EXCEPT ![p] = t]
  BY <1>1, <1>2, Idle DEF SbrkGrow
<1> QED
  BY <1>3, <1>6, <1>10, <1>11, <1>12, Here, Settles

(* uvmalloc maps one page more.                                            *)
LEMMA GrowPageAdds ==
  ASSUME IInv, NEW p \in Process, thread[p].at = "grow", thread[p].a * PGSIZE < thread[p].end
  PROVE  LET s == NewPage(State(proc[p].pt), thread[p].a, {"U", "W"}) IN
         /\ Adds(State(proc[p].pt), s, thread[p].a, {"U", "W"})
         /\ thread[p].a \in Page \ UserPages(proc[p].pt)
<1>1. /\ thread[p].a \in Nat /\ thread[p].end \in Nat /\ proc[p].pt \in Table /\ free \in Nat
      /\ OwnOK(proc[p], thread[p], image[p])
  BY Here
<1>2. GrowOK(proc[p], thread[p])
  BY <1>1, GrowOwn
<1>3. thread[p].end <= MemSize /\ \A v \in UserPages(proc[p].pt) : v < thread[p].a
  BY <1>2 DEF GrowOK
<1>4. thread[p].a \notin UserPages(proc[p].pt)
  BY <1>1, <1>3
<1>5. thread[p].a \in Page
  <2>1. MemSize \in Nat /\ TRAPFRAME \in Nat /\ PGSIZE \in Nat
    BY Sizes
  <2>2. thread[p].a * PGSIZE < MemSize
    <3>1. thread[p].a * PGSIZE \in Nat
      BY <1>1, <2>1
    <3> QED
      BY <1>1, <1>3, <2>1, <3>1
  <2>3. thread[p].a < PageUp(MemSize)
    BY <1>1, <2>1, <2>2, Below
  <2>4. PageUp(MemSize) = TRAPFRAME
    BY <2>1, Rounded DEF MemSize
  <2> QED
    BY <1>1, <2>1, <2>3, <2>4 DEF Page
<1>6. State(proc[p].pt) \in VmState /\ State(proc[p].pt).pt = proc[p].pt /\ State(proc[p].pt).ok
  BY <1>1, StateIs
<1>7. {"U", "W"} \in Flags
  BY DEF Flags
<1> QED
  BY <1>4, <1>5, <1>6, <1>7, NewPageAdds

LEMMA GrowMoreStep ==
  ASSUME IInv, NEW p \in Process, thread[p].at = "grow", thread[p].a * PGSIZE < thread[p].end,
         NEW s, s = NewPage(State(proc[p].pt), thread[p].a, {"U", "W"}), s.ok,
         Takes(s),
         proc' = [proc EXCEPT ![p].pt = s.pt],
         thread' = [thread EXCEPT ![p].a = @ + 1],
         UNCHANGED <<other, image>>
  PROVE  IInv'
<1>1. PICK m : m = [proc[p] EXCEPT !.pt = s.pt]
  OBVIOUS
<1>2. PICK t : t = [thread[p] EXCEPT !.a = @ + 1]
  OBVIOUS
<1>3. /\ proc' = [proc EXCEPT ![p] = m] /\ thread' = [thread EXCEPT ![p] = t]
      /\ image' = [image EXCEPT ![p] = image[p]] /\ other' = other
  BY <1>1, <1>2, Idle
<1>4. /\ thread[p].a \in Nat /\ thread[p].end \in Nat /\ thread[p].oldsz \in Nat
      /\ proc[p].pt \in Table /\ proc[p].pt.leaf \in Leaves /\ free \in Nat
      /\ thread[p] \in Call /\ image[p] \in Leaves
      /\ OwnOK(proc[p], thread[p], image[p])
  BY Here, Counted
<1>5. /\ Adds(State(proc[p].pt), s, thread[p].a, {"U", "W"})
      /\ thread[p].a \in Page \ UserPages(proc[p].pt)
  BY GrowPageAdds
<1>6. /\ State(proc[p].pt).pt = proc[p].pt /\ State(proc[p].pt).panic = FALSE
      /\ Balance(State(proc[p].pt)) = free + Pages(proc[p].pt)
  BY <1>4, StateIs
<1>7. /\ s \in VmState /\ s.panic = FALSE /\ Balance(s) = free + Pages(proc[p].pt)
      /\ s.pt.leaf = WithPage(proc[p].pt.leaf, thread[p].a, {"U", "W"})
  BY <1>5, <1>6 DEF Adds
<1>8. s.pt \in Table /\ s.free \in Nat
  BY <1>7, StateFields
<1>9. m \in Memory /\ m.pt = s.pt /\ m.sz = proc[p].sz /\ m.trapframe = proc[p].trapframe
  BY <1>1, <1>8, WithTable
<1>10. /\ t \in Call /\ t.a = thread[p].a + 1 /\ t.at = "grow" /\ t.new = thread[p].new
       /\ t.argv = thread[p].argv /\ t.oldsz = thread[p].oldsz /\ t.end = thread[p].end
       /\ t.before = thread[p].before
  BY <1>2, <1>4, NextPage
<1>11. /\ proc[p].trapframe /\ thread[p].new = NoTable /\ thread[p].argv = 0
       /\ GrowOK(proc[p], thread[p]) /\ Imaged(proc[p], image[p])
  BY <1>4, GrowOwn
<1>12. /\ proc[p].sz = t.oldsz /\ t.end <= MemSize
       /\ PageUp(t.oldsz) <= thread[p].a
       /\ \A v \in UserPages(proc[p].pt) : v < thread[p].a
       /\ t.before = <<Restrict(proc[p].pt.leaf,
                                {v \in UserPages(proc[p].pt) : v < PageUp(t.oldsz)}), t.oldsz>>
  BY <1>10, <1>11 DEF GrowOK
<1>13. /\ UserPages(s.pt) = UserPages(proc[p].pt) \union {thread[p].a}
       /\ s.pt.leaf[thread[p].a] = {"U", "W"}
       /\ \A v \in UserPages(proc[p].pt) : s.pt.leaf[v] = proc[p].pt.leaf[v]
  <2>1. {"U", "W"} \in Flags
    BY DEF Flags
  <2>2. PICK g \in Leaves : g = proc[p].pt.leaf
    BY <1>4
  <2>3. PICK h : h = WithPage(g, thread[p].a, {"U", "W"})
    OBVIOUS
  <2>4. /\ DOMAIN h = DOMAIN g \union {thread[p].a} /\ h[thread[p].a] = {"U", "W"}
        /\ \A w \in DOMAIN g : w # thread[p].a => h[w] = g[w]
    BY <1>5, <2>1, <2>3, LeafPut
  <2> QED
    BY <1>5, <1>7, <2>2, <2>3, <2>4 DEF UserPages
<1>14. GrowOK(m, t)
  <2>1. PageUp(t.oldsz) \in Nat /\ PageUp(t.end) \in Nat /\ thread[p].a < PageUp(t.end)
    BY <1>4, <1>10, Below
  <2>2. UserPages(proc[p].pt) \subseteq Nat
    BY <1>4, Counted DEF Page
  <2>3. \A v \in UserPages(s.pt) : v < t.a
    BY <1>4, <1>10, <1>12, <1>13, <2>2
  <2>4. PageUp(t.oldsz) <= t.a /\ t.a <= PageUp(t.end)
    BY <1>4, <1>10, <1>12, <2>1
  <2>5. Restrict(s.pt.leaf, {v \in UserPages(s.pt) : v < PageUp(t.oldsz)})
          = Restrict(proc[p].pt.leaf, {v \in UserPages(proc[p].pt) : v < PageUp(t.oldsz)})
    <3>1. PICK S : S = {v \in UserPages(proc[p].pt) : v < PageUp(t.oldsz)}
      OBVIOUS
    <3>2. {v \in UserPages(s.pt) : v < PageUp(t.oldsz)} = S
      BY <1>4, <1>12, <1>13, <2>1, <3>1
    <3>3. \A v \in S : s.pt.leaf[v] = proc[p].pt.leaf[v]
      BY <1>13, <3>1
    <3>4. Restrict(s.pt.leaf, S) = Restrict(proc[p].pt.leaf, S)
      BY <3>3 DEF Restrict
    <3> QED
      BY <3>1, <3>2, <3>4
  <2> QED
    BY <1>9, <1>10, <1>12, <2>3, <2>4, <2>5 DEF GrowOK
<1>15. Imaged(m, image[p])
  <2>1. /\ DOMAIN image[p] \subseteq UserPages(proc[p].pt)
        /\ \A v \in DOMAIN image[p] : v < PageUp(proc[p].sz)
    BY <1>11 DEF Imaged
  <2>2. ASSUME NEW v \in UserPages(proc[p].pt)
        PROVE  proc[p].pt.leaf[v] = IF v \in DOMAIN image[p] THEN image[p][v] ELSE {"U", "W"}
    BY <1>11 DEF Imaged
  <2>3. DOMAIN image[p] \subseteq UserPages(m.pt) /\ \A v \in DOMAIN image[p] : v < PageUp(m.sz)
    BY <1>9, <1>13, <2>1
  <2>4. ASSUME NEW v \in UserPages(m.pt)
        PROVE  m.pt.leaf[v] = IF v \in DOMAIN image[p] THEN image[p][v] ELSE {"U", "W"}
    <3>1. CASE v = thread[p].a
      <4>1. v \notin DOMAIN image[p]
        BY <1>5, <2>1, <3>1
      <4> QED
        BY <1>9, <1>13, <3>1, <4>1
    <3>2. CASE v # thread[p].a
      <4>1. v \in UserPages(proc[p].pt)
        BY <1>9, <1>13, <3>2
      <4>2. m.pt.leaf[v] = proc[p].pt.leaf[v]
        BY <1>9, <1>13, <4>1
      <4> QED
        BY <2>2, <4>1, <4>2
    <3> QED
      BY <3>1, <3>2
  <2> QED
    BY <2>3, <2>4 DEF Imaged
<1>16. OwnOK(m, t, image[p])
  BY <1>9, <1>10, <1>11, <1>14, <1>15, GrowOwn
<1>17. free' = s.free /\ free' \in Nat /\ panicked' = FALSE
  BY <1>7, TakesIs
<1>18. free' + Has(m, t) = free + Has(proc[p], thread[p])
  <2>1. /\ Has(m, t) = Pages(s.pt) + 0 + 1 /\ Pages(s.pt) \in Nat
        /\ Has(proc[p], thread[p]) = Pages(proc[p].pt) + 0 + 1 /\ Pages(proc[p].pt) \in Nat
    BY <1>9, <1>10, <1>11, Here, HasIs
  <2>2. s.free + Pages(s.pt) = free + Pages(proc[p].pt)
    BY <1>7 DEF Balance
  <2> QED
    BY <1>4, <1>8, <1>17, <2>1, <2>2
<1> QED
  BY <1>3, <1>4, <1>9, <1>10, <1>16, <1>17, <1>18, Settles

(* uvmalloc cannot go on: the pages of this call are given back.           *)
LEMMA GrowBackStep ==
  ASSUME IInv, NEW p \in Process, thread[p].at = "grow", thread[p].a * PGSIZE < thread[p].end,
         NEW s, s = NewPage(State(proc[p].pt), thread[p].a, {"U", "W"}), ~ s.ok,
         NEW b, b = UndoUvmalloc(s, thread[p].a, thread[p].oldsz), Takes(b),
         proc' = [proc EXCEPT ![p].pt = b.pt],
         thread' = Fails(p),
         UNCHANGED <<other, image>>
  PROVE  IInv'
<1>1. PICK m : m = [proc[p] EXCEPT !.pt = b.pt]
  OBVIOUS
<1>2. PICK t \in Call : /\ t.at = "failed" /\ t.new = NoTable /\ t.before = thread[p].before
                        /\ t.argv = thread[p].argv /\ Fails(p) = [thread EXCEPT ![p] = t]
  BY FailsIs
<1>3. /\ proc' = [proc EXCEPT ![p] = m] /\ thread' = [thread EXCEPT ![p] = t]
      /\ image' = [image EXCEPT ![p] = image[p]] /\ other' = other
  BY <1>1, <1>2, Idle
<1>4. /\ thread[p].a \in Nat /\ thread[p].end \in Nat /\ thread[p].oldsz \in Nat
      /\ proc[p].pt \in Table /\ proc[p].pt.leaf \in Leaves /\ free \in Nat
      /\ thread[p] \in Call /\ image[p] \in Leaves
      /\ OwnOK(proc[p], thread[p], image[p])
  BY Here, Counted
<1>5. Adds(State(proc[p].pt), s, thread[p].a, {"U", "W"})
  BY GrowPageAdds
<1>6. /\ State(proc[p].pt).pt = proc[p].pt /\ State(proc[p].pt).panic = FALSE
      /\ Balance(State(proc[p].pt)) = free + Pages(proc[p].pt)
  BY <1>4, StateIs
<1>7. /\ s \in VmState /\ s.panic = FALSE /\ Balance(s) = free + Pages(proc[p].pt)
      /\ s.pt.leaf = proc[p].pt.leaf
  BY <1>5, <1>6 DEF Adds
<1>8. /\ proc[p].trapframe /\ thread[p].new = NoTable /\ thread[p].argv = 0
      /\ GrowOK(proc[p], thread[p]) /\ Imaged(proc[p], image[p])
  BY <1>4, GrowOwn
<1>9. PICK n \in Nat : n = PageUp(thread[p].oldsz)
  BY <1>4, Below
<1>10. PICK leaf : leaf = Restrict(proc[p].pt.leaf, {v \in UserPages(proc[p].pt) : v < n})
  OBVIOUS
<1>11. /\ proc[p].sz = thread[p].oldsz /\ n <= thread[p].a
       /\ \A v \in UserPages(proc[p].pt) : v < thread[p].a
       /\ thread[p].before = <<leaf, proc[p].sz>>
  BY <1>8, <1>9, <1>10 DEF GrowOK
<1>12. /\ b \in VmState /\ b.panic = FALSE /\ Balance(b) = free + Pages(proc[p].pt)
       /\ b.pt.leaf = leaf
  <2>1. PICK x \in Nat : x = thread[p].a * PGSIZE /\ PageUp(x) = thread[p].a
    BY <1>4, Rounded
  <2>2. PICK y \in Nat : y = n * PGSIZE /\ PageUp(y) = n
    BY Rounded
  <2>3. b = Uvmdealloc(s, x, y)
    BY <1>9, <2>1, <2>2 DEF UndoUvmalloc
  <2>4. UserPages(s.pt) = UserPages(proc[p].pt)
    BY <1>7 DEF UserPages
  <2>5. \A v \in UserPages(s.pt) : v < PageUp(x)
    BY <1>11, <2>1, <2>4
  <2>6. /\ b \in VmState /\ b.panic = s.panic /\ Balance(b) = Balance(s)
        /\ b.pt.leaf = Restrict(s.pt.leaf, {v \in UserPages(s.pt) : v < PageUp(y)})
    <3>1. s \in VmState
      BY <1>7
    <3>2. PICK c : c = Uvmdealloc(s, x, y)
      OBVIOUS
    <3>3. /\ c \in VmState /\ c.panic = s.panic /\ Balance(c) = Balance(s)
          /\ c.pt.leaf = Restrict(s.pt.leaf, {v \in UserPages(s.pt) : v < PageUp(y)})
      BY <2>5, <3>1, <3>2, DeallocIs
    <3> QED
      BY <2>3, <3>2, <3>3
  <2> QED
    BY <1>7, <1>10, <2>2, <2>4, <2>6
<1>13. b.pt \in Table /\ b.free \in Nat
  BY <1>12, StateFields
<1>14. m \in Memory /\ m.pt = b.pt /\ m.sz = proc[p].sz /\ m.trapframe = proc[p].trapframe
  BY <1>1, <1>13, WithTable
<1>15. /\ UserPages(m.pt) = {v \in UserPages(proc[p].pt) : v < n}
       /\ \A v \in UserPages(m.pt) : m.pt.leaf[v] = proc[p].pt.leaf[v]
  <2>1. PICK S : S = {v \in UserPages(proc[p].pt) : v < n}
    OBVIOUS
  <2>2. m.pt.leaf = [v \in S |-> proc[p].pt.leaf[v]]
    BY <1>10, <1>12, <1>14, <2>1 DEF Restrict
  <2> QED
    BY <2>1, <2>2 DEF UserPages
<1>16. Sized(m) /\ Imaged(m, image[p])
  BY <1>8, <1>9, <1>11, <1>14, <1>15 DEF Sized, Imaged
<1>17. OwnOK(m, t, image[p])
  BY <1>2, <1>8, <1>11, <1>12, <1>14, <1>16, FailedOwn
<1>18. free' = b.free /\ free' \in Nat /\ panicked' = FALSE
  BY <1>12, TakesIs
<1>19. free' + Has(m, t) = free + Has(proc[p], thread[p])
  <2>1. /\ Has(m, t) = Pages(b.pt) + 0 + 1 /\ Pages(b.pt) \in Nat
        /\ Has(proc[p], thread[p]) = Pages(proc[p].pt) + 0 + 1 /\ Pages(proc[p].pt) \in Nat
    BY <1>2, <1>8, <1>14, Here, HasIs
  <2>2. b.free + Pages(b.pt) = free + Pages(proc[p].pt)
    BY <1>12 DEF Balance
  <2> QED
    BY <1>4, <1>13, <1>18, <2>1, <2>2
<1> QED
  BY <1>2, <1>3, <1>4, <1>14, <1>17, <1>18, <1>19, Settles

LEMMA GrowEndStep ==
  ASSUME IInv, NEW p \in Process, thread[p].at = "grow", thread[p].a * PGSIZE >= thread[p].end,
         proc' = [proc EXCEPT ![p].sz = thread[p].end],
         thread' = [thread EXCEPT ![p] = User],
         UNCHANGED <<free, other, panicked, image>>
  PROVE  IInv'
<1>1. PICK m : m = [proc[p] EXCEPT !.sz = thread[p].end]
  OBVIOUS
<1>2. /\ thread[p].a \in Nat /\ thread[p].end \in Nat /\ thread[p].oldsz \in Nat
      /\ proc[p].pt \in Table /\ proc[p].pt.leaf \in Leaves /\ free \in Nat
      /\ thread[p] \in Call /\ image[p] \in Leaves /\ proc[p] \in Memory
      /\ OwnOK(proc[p], thread[p], image[p])
  BY Here, Counted
<1>3. /\ proc[p].trapframe /\ thread[p].new = NoTable /\ thread[p].argv = 0
      /\ GrowOK(proc[p], thread[p]) /\ Imaged(proc[p], image[p])
  BY <1>2, GrowOwn
<1>4. /\ proc[p].sz = thread[p].oldsz /\ thread[p].end <= MemSize
      /\ PageUp(thread[p].oldsz) <= thread[p].a /\ thread[p].a <= PageUp(thread[p].end)
      /\ \A v \in UserPages(proc[p].pt) : v < thread[p].a
  BY <1>3 DEF GrowOK
<1>5. /\ m \in Memory /\ m.pt = proc[p].pt /\ m.sz = thread[p].end
      /\ m.trapframe = proc[p].trapframe
  <2>1. MemSize \in Nat
    BY Sizes
  <2>2. thread[p].end \in 0..MemSize
    BY <1>2, <1>4, <2>1
  <2> QED
    BY <1>1, <1>2, <2>2 DEF Memory
<1>6. PageUp(thread[p].oldsz) \in Nat /\ PageUp(thread[p].end) \in Nat
  BY <1>2, Below
<1>7. UserPages(proc[p].pt) \subseteq Nat
  BY <1>2, Counted DEF Page
<1>8. Sized(m)
  BY <1>2, <1>4, <1>5, <1>6, <1>7 DEF Sized
<1>9. \A v \in DOMAIN image[p] : v < PageUp(m.sz)
  <2>1. ASSUME NEW v \in DOMAIN image[p]
        PROVE  v < PageUp(m.sz)
    <3>1. v \in UserPages(proc[p].pt)
      BY <1>3 DEF Imaged
    <3> QED
      BY <1>5, <1>8, <3>1 DEF Sized
  <2> QED
    BY <2>1
<1>10. Imaged(m, image[p])
  BY <1>3, <1>5, <1>9 DEF Imaged
<1>11. User \in Call /\ User.at = "user" /\ User.new = NoTable /\ User.argv = 0
  BY UserIs
<1>12. OwnOK(m, User, image[p])
  BY <1>3, <1>5, <1>8, <1>10, <1>11, UserOwn
<1>13. Has(m, User) = Has(proc[p], thread[p])
  BY <1>3, <1>5, <1>11 DEF Has
<1>14. /\ proc' = [proc EXCEPT ![p] = m] /\ image' = [image EXCEPT ![p] = image[p]]
       /\ free' = free /\ other' = other /\ panicked' = FALSE
  BY <1>1, Idle, Here
<1> QED
  BY <1>2, <1>5, <1>11, <1>12, <1>13, <1>14, Settles

LEMMA GrowPageStep ==
  ASSUME IInv, NEW p \in Process, GrowPage(p)
  PROVE  IInv'
<1>1. thread[p].at = "grow"
  BY DEF GrowPage, At
<1>2. PICK s : s = NewPage(State(proc[p].pt), thread[p].a, {"U", "W"})
  OBVIOUS
<1>3. PICK b : b = UndoUvmalloc(s, thread[p].a, thread[p].oldsz)
  OBVIOUS
<1>4. \/ /\ thread[p].a * PGSIZE < thread[p].end /\ s.ok
         /\ Takes(s)
         /\ proc' = [proc EXCEPT ![p].pt = s.pt]
         /\ thread' = [thread EXCEPT ![p].a = @ + 1]
      \/ /\ thread[p].a * PGSIZE < thread[p].end /\ ~ s.ok
         /\ Takes(b)
         /\ proc' = [proc EXCEPT ![p].pt = b.pt]
         /\ thread' = Fails(p)
      \/ /\ thread[p].a * PGSIZE >= thread[p].end
         /\ proc' = [proc EXCEPT ![p].sz = thread[p].end]
         /\ thread' = [thread EXCEPT ![p] = User]
         /\ UNCHANGED <<free, panicked>>
  BY <1>2, <1>3 DEF GrowPage
<1>5. UNCHANGED <<other, image>>
  BY DEF GrowPage
<1> QED
  BY <1>1, <1>2, <1>3, <1>4, <1>5, GrowMoreStep, GrowBackStep, GrowEndStep

-----------------------------------------------------------------------------
(* Page faults, copies, exit                                               *)

(* A fault or copy of a program that runs changes no more than its memory. *)
LEMMA TouchStep ==
  ASSUME IInv, NEW p \in Process, thread[p].at = "user",
         NEW s, Touches(State(proc[p].pt), s, proc[p].sz),
         Takes(s),
         proc' = [proc EXCEPT ![p].pt = s.pt],
         UNCHANGED <<other, thread, image>>
  PROVE  IInv'
<1>1. PICK m : m = [proc[p] EXCEPT !.pt = s.pt]
  OBVIOUS
<1>2. /\ proc[p].pt \in Table /\ proc[p].pt.leaf \in Leaves /\ free \in Nat
      /\ thread[p] \in Call /\ image[p] \in Leaves /\ proc[p] \in Memory
      /\ OwnOK(proc[p], thread[p], image[p])
  BY Here, Counted
<1>3. /\ proc[p].trapframe /\ thread[p].new = NoTable /\ thread[p].argv = 0
      /\ Sized(proc[p]) /\ Imaged(proc[p], image[p])
  BY <1>2, UserOwn
<1>4. /\ State(proc[p].pt).pt = proc[p].pt /\ State(proc[p].pt).panic = FALSE
      /\ Balance(State(proc[p].pt)) = free + Pages(proc[p].pt)
  BY <1>2, StateIs
<1>5. /\ s \in VmState /\ s.panic = FALSE /\ Balance(s) = free + Pages(proc[p].pt)
      /\ \/ s.pt.leaf = proc[p].pt.leaf
         \/ \E v \in Page \ UserPages(proc[p].pt) :
              v < PageUp(proc[p].sz) /\ s.pt.leaf = WithPage(proc[p].pt.leaf, v, {"U", "W"})
  BY <1>4 DEF Touches
<1>6. s.pt \in Table /\ s.free \in Nat
  BY <1>5, StateFields
<1>7. m \in Memory /\ m.pt = s.pt /\ m.sz = proc[p].sz /\ m.trapframe = proc[p].trapframe
  BY <1>1, <1>6, WithTable
<1>8. Sized(m) /\ Imaged(m, image[p])
  <2>1. CASE s.pt.leaf = proc[p].pt.leaf
    BY <1>3, <1>7, <2>1 DEF Sized, Imaged, UserPages
  <2>2. CASE \E v \in Page \ UserPages(proc[p].pt) :
               v < PageUp(proc[p].sz) /\ s.pt.leaf = WithPage(proc[p].pt.leaf, v, {"U", "W"})
    <3>1. PICK v \in Page \ UserPages(proc[p].pt) :
               v < PageUp(proc[p].sz) /\ s.pt.leaf = WithPage(proc[p].pt.leaf, v, {"U", "W"})
      BY <2>2
    <3>2. {"U", "W"} \in Flags
      BY DEF Flags
    <3>3. PICK g \in Leaves : g = proc[p].pt.leaf
      BY <1>2
    <3>4. PICK h : h = WithPage(g, v, {"U", "W"})
      OBVIOUS
    <3>5. /\ DOMAIN h = DOMAIN g \union {v} /\ h[v] = {"U", "W"}
          /\ \A w \in DOMAIN g : w # v => h[w] = g[w]
      <4>1. v \in Page
        OBVIOUS
      <4>2. PICK x \in Flags : x = {"U", "W"}
        BY <3>2
      <4>3. h = WithPage(g, v, x)
        BY <3>4, <4>2
      <4>4. /\ DOMAIN h = DOMAIN g \union {v} /\ h[v] = x
            /\ \A w \in DOMAIN g : w # v => h[w] = g[w]
        BY <4>3 DEF WithPage
      <4> QED
        BY <4>2, <4>4
    <3>6. /\ UserPages(m.pt) = UserPages(proc[p].pt) \union {v} /\ m.pt.leaf[v] = {"U", "W"}
          /\ \A w \in UserPages(proc[p].pt) : m.pt.leaf[w] = proc[p].pt.leaf[w]
      BY <1>7, <3>1, <3>3, <3>4, <3>5 DEF UserPages
    <3> QED
      BY <1>3, <1>7, <3>1, <3>6 DEF Sized, Imaged
  <2> QED
    BY <1>5, <2>1, <2>2
<1>9. OwnOK(m, thread[p], image[p])
  BY <1>3, <1>7, <1>8, UserOwn
<1>10. free' = s.free /\ free' \in Nat /\ panicked' = FALSE
  BY <1>5, TakesIs
<1>11. free' + Has(m, thread[p]) = free + Has(proc[p], thread[p])
  <2>1. /\ Has(m, thread[p]) = Pages(s.pt) + 0 + 1 /\ Pages(s.pt) \in Nat
        /\ Has(proc[p], thread[p]) = Pages(proc[p].pt) + 0 + 1 /\ Pages(proc[p].pt) \in Nat
    BY <1>2, <1>3, <1>7, HasIs
  <2>2. s.free + Pages(s.pt) = free + Pages(proc[p].pt)
    BY <1>5 DEF Balance
  <2> QED
    BY <1>2, <1>6, <1>10, <2>1, <2>2
<1>12. /\ proc' = [proc EXCEPT ![p] = m] /\ thread' = [thread EXCEPT ![p] = thread[p]]
       /\ image' = [image EXCEPT ![p] = image[p]] /\ other' = other
  BY <1>1, Idle
<1> QED
  BY <1>2, <1>7, <1>9, <1>10, <1>11, <1>12, Settles

(* A process that ends gives back all it has.                              *)
LEMMA EndsStep ==
  ASSUME IInv, NEW p \in Process, thread[p].at = "user",
         NEW s \in VmState, s.panic = FALSE, s.pt.leaf = proc[p].pt.leaf,
         Balance(s) = free + Pages(proc[p].pt), Ends(p, s)
  PROVE  IInv'
<1>1. /\ proc[p].pt \in Table /\ free \in Nat /\ proc[p].sz \in Nat
      /\ thread[p] \in Call /\ proc[p] \in Memory /\ panicked = FALSE
      /\ OwnOK(proc[p], thread[p], image[p])
  BY Here
<1>2. /\ proc[p].trapframe /\ thread[p].new = NoTable /\ thread[p].argv = 0
      /\ Sized(proc[p])
  BY <1>1, UserOwn
<1>3. \A v \in UserPages(s.pt) : v \in 0..PageUp(proc[p].sz) - 1
  <2>1. UserPages(s.pt) = UserPages(proc[p].pt) /\ UserPages(proc[p].pt) \subseteq Nat
    BY <1>1, Counted DEF UserPages, Page
  <2>2. PageUp(proc[p].sz) \in Nat
    BY <1>1, Below
  <2> QED
    BY <1>2, <2>1, <2>2 DEF Sized
<1>4. PICK b : b = Freeproc(s, proc[p].sz)
  OBVIOUS
<1>5. b.free = Balance(s) + 1 /\ b.panic = s.panic
  BY <1>3, <1>4, FreeprocFrees
<1>6. free' = free + Pages(proc[p].pt) + 1 /\ panicked' = FALSE
  BY <1>1, <1>4, <1>5 DEF Ends, Takes
<1>7. NoProc \in Memory /\ NoProc.pt = NoTable /\ NoProc.trapframe = FALSE
  BY EmptyTable, Sizes DEF NoProc, Memory
<1>8. Absent \in Call /\ Absent.at = "absent" /\ Absent.new = NoTable /\ Absent.argv = 0
  BY UserIs
<1>9. OwnOK(NoProc, Absent, NoPages)
  BY <1>8, OutsideOwn
<1>10. Has(NoProc, Absent) = 0
  BY <1>7, <1>8, EmptyTable DEF Has
<1>11. Has(proc[p], thread[p]) = Pages(proc[p].pt) + 0 + 1 /\ Pages(proc[p].pt) \in Nat
  BY <1>1, <1>2, HasIs
<1>12. free' \in Nat /\ free' + Has(NoProc, Absent) = free + Has(proc[p], thread[p])
  BY <1>1, <1>6, <1>10, <1>11
<1>13. /\ proc' = [proc EXCEPT ![p] = NoProc] /\ thread' = [thread EXCEPT ![p] = Absent]
       /\ image' = [image EXCEPT ![p] = NoPages] /\ other' = other
  BY DEF Ends
<1> QED
  BY <1>6, <1>7, <1>8, <1>9, <1>12, <1>13, EmptyLeaf, Settles

LEMMA ExitStep ==
  ASSUME IInv, NEW p \in Process, Exit(p)
  PROVE  IInv'
<1>1. PICK s : s = State(proc[p].pt)
  OBVIOUS
<1>2. thread[p].at = "user" /\ Ends(p, s)
  BY <1>1 DEF Exit, At
<1>3. proc[p].pt \in Table /\ free \in Nat
  BY Here
<1>4. /\ s \in VmState /\ s.panic = FALSE /\ s.pt = proc[p].pt
      /\ Balance(s) = free + Pages(proc[p].pt)
  BY <1>1, <1>3, StateIs
<1> QED
  BY <1>2, <1>4, EndsStep

LEMMA PageFaultStep ==
  ASSUME IInv, NEW p \in Process, NEW a \in Address, PageFault(p, a)
  PROVE  IInv'
<1>1. PICK r : r = State(proc[p].pt)
  OBVIOUS
<1>2. PICK s : s = Vmfault(r, proc[p].sz, a)
  OBVIOUS
<1>3. thread[p].at = "user" /\ proc[p].pt \in Table /\ free \in Nat /\ proc[p].sz \in 0..MemSize
  BY Here DEF PageFault, At
<1>4. a \in Nat
  BY DEF Address
<1>5. /\ r \in VmState /\ r.panic = FALSE /\ r.pt = proc[p].pt /\ r.ok
      /\ Balance(r) = free + Pages(proc[p].pt)
  BY <1>1, <1>3, StateIs
<1>6. CASE s.ok /\ Takes(s) /\ proc' = [proc EXCEPT ![p].pt = s.pt] /\ UNCHANGED <<other, thread, image>>
  <2>1. Touches(r, s, proc[p].sz)
    BY <1>2, <1>3, <1>4, <1>5, VmfaultTouches
  <2> QED
    BY <1>1, <1>3, <1>6, <2>1, TouchStep
<1>7. CASE ~ s.ok /\ Ends(p, s)
  <2>1. Adds(r, s, PageOf(a), {"U", "W"})
    BY <1>2, <1>3, <1>4, <1>5, VmfaultIs
  <2>2. s \in VmState /\ s.panic = FALSE /\ s.pt.leaf = proc[p].pt.leaf /\ Balance(s) = Balance(r)
    BY <1>5, <1>7, <2>1 DEF Adds
  <2> QED
    BY <1>3, <1>5, <1>7, <2>2, EndsStep
<1> QED
  BY <1>1, <1>2, <1>6, <1>7 DEF PageFault

LEMMA EitherCopyStep ==
  ASSUME IInv, NEW p \in Process, NEW a \in Address, EitherCopy(p, a)
  PROVE  IInv'
<1>1. PICK r : r = State(proc[p].pt)
  OBVIOUS
<1>2. PICK s \in {Copyin(r, proc[p].sz, a), Copyout(r, proc[p].sz, a)} :
         /\ At(p, "user")
         /\ Takes(s)
         /\ proc' = [proc EXCEPT ![p].pt = s.pt]
         /\ UNCHANGED <<other, thread, image>>
  BY <1>1 DEF EitherCopy
<1>3. thread[p].at = "user" /\ proc[p].pt \in Table /\ free \in Nat /\ proc[p].sz \in 0..MemSize
  BY <1>2, Here DEF At
<1>4. a \in Nat
  BY DEF Address
<1>5. r \in VmState /\ r.ok
  BY <1>1, <1>3, StateIs
<1>6. Touches(r, s, proc[p].sz)
  BY <1>2, <1>3, <1>4, <1>5, CopyinTouches
<1> QED
  BY <1>1, <1>2, <1>3, <1>6, TouchStep

-----------------------------------------------------------------------------
(* exec                                                                    *)

LEMMA HasOf ==
  ASSUME NEW m \in Memory, NEW t \in Call, m.trapframe
  PROVE  /\ Has(m, t) = Pages(m.pt) + Pages(t.new) + t.argv + 1
         /\ Pages(m.pt) \in Nat /\ Pages(t.new) \in Nat /\ t.argv \in Nat
<1>1. m.pt \in Table /\ t.new \in Table /\ t.argv \in Nat
  BY Sizes DEF Memory, Call
<1>2. Pages(m.pt) \in Nat /\ Pages(t.new) \in Nat
  BY <1>1, Counted
<1> QED
  BY <1>1, <1>2 DEF Has

(* While a call of exec is under way the process has the memory it had.    *)
LEMMA ExecHere ==
  ASSUME IInv, NEW p \in Process, thread[p].at \in ExecAt \union {"argv"}
  PROVE  /\ proc[p].trapframe /\ thread[p].before = <<proc[p].pt.leaf, proc[p].sz>>
         /\ Sized(proc[p]) /\ Imaged(proc[p], image[p])
         /\ thread[p].at = "argv" => thread[p].new = NoTable /\ thread[p].i = 1 /\ thread[p].sz = 0
         /\ thread[p].at \in ExecAt => ExecOK(thread[p])
<1>1. OwnOK(proc[p], thread[p], image[p])
  BY Here
<1>2. CASE thread[p].at = "argv"
  <2>1. thread[p].at \notin ExecAt
    BY <1>2 DEF ExecAt
  <2> QED
    BY <1>1, <1>2, <2>1, ArgvOwn
<1>3. CASE thread[p].at \in ExecAt
  <2>1. thread[p].at # "argv"
    BY <1>3 DEF ExecAt
  <2> QED
    BY <1>1, <1>3, <2>1, ExecOwn
<1> QED
  BY <1>2, <1>3

(* exec fails, after it gave back what it had built.                       *)
LEMMA FailStep ==
  ASSUME IInv, NEW p \in Process, thread[p].at \in ExecAt \union {"argv"},
         free' = free + Pages(thread[p].new), panicked' = FALSE,
         thread' = Fails(p),
         UNCHANGED <<other, proc, image>>
  PROVE  IInv'
<1>1. PICK t \in Call : /\ t.at = "failed" /\ t.new = NoTable /\ t.before = thread[p].before
                        /\ t.argv = thread[p].argv /\ Fails(p) = [thread EXCEPT ![p] = t]
  BY FailsIs
<1>2. /\ proc[p] \in Memory /\ thread[p] \in Call /\ image[p] \in Leaves /\ free \in Nat
  BY Here
<1>3. /\ proc[p].trapframe /\ thread[p].before = <<proc[p].pt.leaf, proc[p].sz>>
      /\ Sized(proc[p]) /\ Imaged(proc[p], image[p])
  BY ExecHere
<1>4. OwnOK(proc[p], t, image[p])
  BY <1>1, <1>3, FailedOwn
<1>5. /\ Has(proc[p], thread[p]) = Pages(proc[p].pt) + Pages(thread[p].new) + thread[p].argv + 1
      /\ Pages(proc[p].pt) \in Nat /\ Pages(thread[p].new) \in Nat /\ thread[p].argv \in Nat
  BY <1>2, <1>3, HasOf
<1>6. Has(proc[p], t) = Pages(proc[p].pt) + thread[p].argv + 1
  BY <1>1, <1>2, <1>3, HasIs
<1>7. free' \in Nat /\ free' + Has(proc[p], t) = free + Has(proc[p], thread[p])
  BY <1>2, <1>5, <1>6
<1>8. /\ proc' = [proc EXCEPT ![p] = proc[p]] /\ image' = [image EXCEPT ![p] = image[p]]
      /\ thread' = [thread EXCEPT ![p] = t] /\ other' = other
  BY <1>1, Idle
<1>9. thread[p].at # "embryo"
  BY DEF ExecAt
<1> QED
  BY <1>1, <1>2, <1>4, <1>7, <1>8, <1>9, Settles

LEMMA FailedReturnStep ==
  ASSUME IInv, NEW p \in Process, FailedReturn(p)
  PROVE  IInv'
<1>1. thread[p].at = "failed"
  BY DEF FailedReturn, At
<1>2. /\ proc[p] \in Memory /\ thread[p] \in Call /\ image[p] \in Leaves /\ free \in Nat
      /\ thread[p].argv \in Nat /\ panicked = FALSE
      /\ OwnOK(proc[p], thread[p], image[p])
  BY Here
<1>3. /\ proc[p].trapframe /\ thread[p].new = NoTable /\ Sized(proc[p]) /\ Imaged(proc[p], image[p])
  BY <1>1, <1>2, FailedOwn
<1>4. User \in Call /\ User.at = "user" /\ User.new = NoTable /\ User.argv = 0
  BY UserIs
<1>5. OwnOK(proc[p], User, image[p])
  BY <1>3, <1>4, UserOwn
<1>6. /\ Has(proc[p], thread[p]) = Pages(proc[p].pt) + thread[p].argv + 1
      /\ Has(proc[p], User) = Pages(proc[p].pt) + 0 + 1 /\ Pages(proc[p].pt) \in Nat
  BY <1>2, <1>3, <1>4, HasIs
<1>7. /\ free' = free + thread[p].argv /\ panicked' = FALSE /\ other' = other
      /\ thread' = [thread EXCEPT ![p] = User]
      /\ proc' = [proc EXCEPT ![p] = proc[p]] /\ image' = [image EXCEPT ![p] = image[p]]
  BY <1>2, Idle DEF FailedReturn
<1>8. free' \in Nat /\ free' + Has(proc[p], User) = free + Has(proc[p], thread[p])
  BY <1>2, <1>6, <1>7
<1> QED
  BY <1>1, <1>2, <1>4, <1>5, <1>7, <1>8, Settles

LEMMA ExecBeginStep ==
  ASSUME IInv, NEW p \in Process, ExecBegin(p)
  PROVE  IInv'
<1>1. PICK t : t = [User EXCEPT !.at = "argv", !.before = Before(p)]
  OBVIOUS
<1>2. /\ t \in Call /\ t.at = "argv" /\ t.new = NoTable /\ t.argv = 0 /\ t.i = 1 /\ t.sz = 0
      /\ t.before = <<proc[p].pt.leaf, proc[p].sz>>
  BY <1>1, BeginsIs
<1>3. thread[p].at = "user"
  BY DEF ExecBegin, At
<1>4. /\ proc[p] \in Memory /\ thread[p] \in Call /\ image[p] \in Leaves /\ free \in Nat
      /\ panicked = FALSE /\ OwnOK(proc[p], thread[p], image[p])
  BY Here
<1>5. /\ proc[p].trapframe /\ thread[p].new = NoTable /\ thread[p].argv = 0
      /\ Sized(proc[p]) /\ Imaged(proc[p], image[p])
  BY <1>3, <1>4, UserOwn
<1>6. OwnOK(proc[p], t, image[p])
  BY <1>2, <1>5, ArgvOwn
<1>7. Has(proc[p], t) = Has(proc[p], thread[p])
  BY <1>2, <1>5 DEF Has
<1>8. /\ free' = free /\ panicked' = FALSE /\ other' = other
      /\ thread' = [thread EXCEPT ![p] = t]
      /\ proc' = [proc EXCEPT ![p] = proc[p]] /\ image' = [image EXCEPT ![p] = image[p]]
  BY <1>1, <1>4, Idle DEF ExecBegin
<1> QED
  BY <1>2, <1>3, <1>4, <1>6, <1>7, <1>8, Settles

LEMMA NoArgumentStep ==
  ASSUME IInv, NEW p \in Process, thread[p].at = "argv", free' = free, panicked' = panicked,
         thread' = Fails(p),
         UNCHANGED <<other, proc, image>>
  PROVE  IInv'
<1>1. thread[p].new = NoTable
  BY ExecHere
<1>2. free \in Nat /\ panicked = FALSE
  BY Here
<1>3. free' = free + Pages(thread[p].new)
  BY <1>1, <1>2, EmptyTable
<1> QED
  BY <1>2, <1>3, FailStep

LEMMA ExecArgumentStep ==
  ASSUME IInv, NEW p \in Process, ExecArgument(p)
  PROVE  IInv'
<1>1. thread[p].at = "argv"
  BY DEF ExecArgument, At
<1>2. CASE free > 0 /\ thread[p].argv < MAXARG
  <2>1. PICK t : t = [thread[p] EXCEPT !.argv = @ + 1]
    OBVIOUS
  <2>2. /\ proc[p] \in Memory /\ thread[p] \in Call /\ image[p] \in Leaves /\ free \in Nat
        /\ panicked = FALSE /\ thread[p].argv \in Nat
    BY Here
  <2>3. MAXARG \in Nat
    BY Sizes
  <2>4. thread[p].argv + 1 \in 0..MAXARG
    BY <1>2, <2>2, <2>3
  <2>5. /\ t \in Call /\ t.at = "argv" /\ t.new = thread[p].new /\ t.argv = thread[p].argv + 1
        /\ t.i = thread[p].i /\ t.sz = thread[p].sz /\ t.before = thread[p].before
    BY <1>1, <2>1, <2>2, <2>4 DEF Call
  <2>6. /\ proc[p].trapframe /\ thread[p].before = <<proc[p].pt.leaf, proc[p].sz>>
        /\ Sized(proc[p]) /\ Imaged(proc[p], image[p])
        /\ thread[p].new = NoTable /\ thread[p].i = 1 /\ thread[p].sz = 0
    BY <1>1, ExecHere
  <2>7. OwnOK(proc[p], t, image[p])
    BY <2>5, <2>6, ArgvOwn
  <2>8. /\ Has(proc[p], thread[p]) = Pages(proc[p].pt) + thread[p].argv + 1
        /\ Has(proc[p], t) = Pages(proc[p].pt) + t.argv + 1 /\ Pages(proc[p].pt) \in Nat
    BY <2>2, <2>5, <2>6, HasIs
  <2>9. /\ free' = free - 1 /\ panicked' = FALSE /\ other' = other
        /\ thread' = [thread EXCEPT ![p] = t]
        /\ proc' = [proc EXCEPT ![p] = proc[p]] /\ image' = [image EXCEPT ![p] = image[p]]
    BY <1>2, <2>1, <2>2, Idle DEF ExecArgument
  <2>10. free' \in Nat /\ free' + Has(proc[p], t) = free + Has(proc[p], thread[p])
    BY <1>2, <2>2, <2>5, <2>8, <2>9
  <2> QED
    BY <1>1, <2>2, <2>5, <2>7, <2>9, <2>10, Settles
<1>3. CASE ~ (free > 0 /\ thread[p].argv < MAXARG)
  <2>1. /\ thread' = Fails(p) /\ free' = free /\ panicked' = panicked
        /\ UNCHANGED <<other, proc, image>>
    BY <1>3 DEF ExecArgument
  <2> QED
    BY <1>1, <2>1, NoArgumentStep
<1> QED
  BY <1>2, <1>3

LEMMA ExecBadArgumentStep ==
  ASSUME IInv, NEW p \in Process, ExecBadArgument(p)
  PROVE  IInv'
BY NoArgumentStep DEF ExecBadArgument, At

(* The segments of a program, and where its stack begins.                  *)
LEMMA ProgramIs ==
  ASSUME NEW g \in Program
  PROVE  /\ Len(g) \in Nat \ {0} /\ DOMAIN g = 1..Len(g)
         /\ \A i \in 1..Len(g) : /\ g[i].end \in Nat /\ g[i].start \in Nat /\ g[i].write \in BOOLEAN
                                 /\ g[i].end + (StackPages + 1) * PGSIZE <= MemSize
<1>1. /\ g \in Seq([start : Nat, end : Nat \ {0}, write : BOOLEAN]) /\ g # << >>
      /\ \A i \in DOMAIN g : g[i].end + (StackPages + 1) * PGSIZE <= TRAPFRAME * PGSIZE
  BY VmAssumption
<1>2. Len(g) \in Nat /\ DOMAIN g = 1..Len(g) /\ Len(g) # 0
  BY <1>1
<1>3. ASSUME NEW i \in 1..Len(g)
      PROVE  g[i].end \in Nat /\ g[i].start \in Nat /\ g[i].write \in BOOLEAN
  <2>1. PICK R : R = [start : Nat, end : Nat \ {0}, write : BOOLEAN]
    OBVIOUS
  <2>2. g \in Seq(R)
    BY <1>1, <2>1
  <2>3. g[i] \in R
    BY <2>2
  <2> QED
    BY <2>1, <2>3
<1> QED
  BY <1>1, <1>2, <1>3 DEF MemSize

LEMMA GuardIs ==
  ASSUME NEW g \in Program
  PROVE  /\ Guard(g) \in Nat /\ Guard(g) + StackPages < TRAPFRAME
         /\ \A i \in 1..Len(g) : PageUp(g[i].end) <= Guard(g)
         /\ \E i \in 1..Len(g) : /\ Guard(g) = PageUp(g[i].end)
                                 /\ \A j \in 1..Len(g) : g[j].end <= g[i].end
<1>1. PICK S : S = {g[i].end : i \in DOMAIN g}
  OBVIOUS
<1>2. PGSIZE \in Nat \ {0} /\ StackPages \in Nat /\ MemSize \in Nat /\ TRAPFRAME \in Nat
  BY Sizes
<1>3. (StackPages + 1) * PGSIZE \in Nat
  BY <1>2
<1>4. /\ Len(g) \in Nat \ {0} /\ DOMAIN g = 1..Len(g)
      /\ \A i \in 1..Len(g) : g[i].end \in Nat /\ g[i].end + (StackPages + 1) * PGSIZE <= MemSize
  BY ProgramIs
<1>5. S \subseteq 0..MemSize /\ S # {}
  <2>1. ASSUME NEW i \in 1..Len(g)
        PROVE  g[i].end \in 0..MemSize
    <3>1. PICK e \in Nat : e = g[i].end /\ e + (StackPages + 1) * PGSIZE <= MemSize
      BY <1>4
    <3> QED
      BY <1>2, <1>3, <3>1
  <2>2. 1 \in 1..Len(g)
    BY <1>4
  <2> QED
    BY <1>1, <1>4, <2>1, <2>2
<1>6. Max(S) \in S /\ \A y \in S : y <= Max(S)
  BY <1>2, <1>5, Greatest
<1>7. PICK i \in 1..Len(g) : Max(S) = g[i].end
  BY <1>1, <1>4, <1>6
<1>8. \A j \in 1..Len(g) : g[j].end <= g[i].end
  BY <1>1, <1>4, <1>6, <1>7
<1>9. PICK e \in Nat : e = g[i].end
  BY <1>4
<1>10. Guard(g) = PageUp(e)
  BY <1>1, <1>7, <1>9 DEF Guard
<1>11. PageUp(e) \in Nat /\ PageUp(e) * PGSIZE < e + PGSIZE
  BY Below, Rounded
<1>12. \A j \in 1..Len(g) : PageUp(g[j].end) <= PageUp(e)
  BY <1>4, <1>8, <1>9, Rounded
<1>13. PageUp(e) + StackPages < TRAPFRAME
  <2>1. PICK x \in Nat : x = PageUp(e) + StackPages
    BY <1>2, <1>11
  <2>2. x * PGSIZE = PageUp(e) * PGSIZE + StackPages * PGSIZE
    BY <1>2, <1>11, <2>1
  <2>3. (StackPages + 1) * PGSIZE = StackPages * PGSIZE + PGSIZE /\ StackPages * PGSIZE \in Nat
    BY <1>2
  <2>4. e + (StackPages + 1) * PGSIZE <= MemSize
    BY <1>4, <1>9
  <2>5. PageUp(e) * PGSIZE \in Nat
    BY <1>2, <1>11
  <2>6. x * PGSIZE < MemSize
    BY <1>2, <1>11, <2>2, <2>3, <2>4, <2>5
  <2>7. x < PageUp(MemSize)
    BY <1>2, <2>1, <2>6, Below
  <2>8. PageUp(MemSize) = TRAPFRAME
    BY <1>2, Rounded DEF MemSize
  <2> QED
    BY <2>1, <2>7, <2>8
<1> QED
  BY <1>8, <1>9, <1>10, <1>11, <1>12, <1>13

LEMMA FlagsOf ==
  ASSUME NEW seg
  PROVE  Flags2perm(seg) \in Flags /\ "U" \in Flags2perm(seg)
BY DEF Flags2perm, Flags

LEMMA ImageIs ==
  ASSUME NEW g \in Program
  PROVE  Image(g) \in Leaves /\ DOMAIN Image(g) = 0..Guard(g) + USERSTACK
<1>1. DOMAIN Image(g) = 0..Guard(g) + USERSTACK /\ Image(g) = [v \in DOMAIN Image(g) |-> Image(g)[v]]
  BY DEF Image
<1>2. Guard(g) \in Nat /\ Guard(g) + USERSTACK + 1 < TRAPFRAME /\ USERSTACK \in Nat /\ TRAPFRAME \in Nat
  BY GuardIs, Sizes
<1>3. DOMAIN Image(g) \subseteq Page
  BY <1>1, <1>2 DEF Page
<1>4. \A v \in DOMAIN Image(g) : Image(g)[v] \in Flags
  <2>1. {"W"} \in Flags /\ {"U", "W"} \in Flags
    BY DEF Flags
  <2> QED
    BY <1>1, <2>1, FlagsOf DEF Image
<1> QED
  BY <1>1, <1>3, <1>4, Leaf

(* A step of exec changes what exec has built, and pays for it.            *)
LEMMA BuildStep ==
  ASSUME IInv, NEW p \in Process, thread[p].at \in ExecAt \union {"argv"},
         NEW t \in Call, t.at \in ExecAt, ExecOK(t),
         t.argv = thread[p].argv, t.before = thread[p].before,
         free' \in Nat, panicked' = FALSE,
         free' + Pages(t.new) = free + Pages(thread[p].new),
         thread' = [thread EXCEPT ![p] = t],
         UNCHANGED <<other, proc, image>>
  PROVE  IInv'
<1>1. /\ proc[p] \in Memory /\ thread[p] \in Call /\ image[p] \in Leaves /\ free \in Nat
  BY Here
<1>2. /\ proc[p].trapframe /\ thread[p].before = <<proc[p].pt.leaf, proc[p].sz>>
      /\ Sized(proc[p]) /\ Imaged(proc[p], image[p])
  BY ExecHere
<1>3. OwnOK(proc[p], t, image[p])
  BY <1>2, ExecOwn
<1>4. /\ Has(proc[p], thread[p]) = Pages(proc[p].pt) + Pages(thread[p].new) + thread[p].argv + 1
      /\ Pages(proc[p].pt) \in Nat /\ Pages(thread[p].new) \in Nat /\ thread[p].argv \in Nat
      /\ Has(proc[p], t) = Pages(proc[p].pt) + Pages(t.new) + thread[p].argv + 1
      /\ Pages(t.new) \in Nat
  BY <1>1, <1>2, HasOf
<1>5. free' + Has(proc[p], t) = free + Has(proc[p], thread[p])
  BY <1>1, <1>4
<1>6. /\ proc' = [proc EXCEPT ![p] = proc[p]] /\ image' = [image EXCEPT ![p] = image[p]]
      /\ other' = other
  BY Idle
<1>7. thread[p].at # "embryo" /\ t.at # "copy"
  BY DEF ExecAt
<1> QED
  BY <1>1, <1>3, <1>5, <1>6, <1>7, Settles

LEMMA ExecTableStep ==
  ASSUME IInv, NEW p \in Process, NEW g \in Program, ExecTable(p, g)
  PROVE  IInv'
<1>1. PICK r : r = State(NoTable)
  OBVIOUS
<1>2. PICK s : s = ProcPagetable(r)
  OBVIOUS
<1>3. thread[p].at = "argv" /\ Takes(s) /\ UNCHANGED <<other, proc, image>>
  BY <1>1, <1>2 DEF ExecTable, At
<1>4. /\ free \in Nat /\ thread[p] \in Call
      /\ thread[p].new = NoTable /\ thread[p].i = 1 /\ thread[p].sz = 0
  BY <1>3, Here, ExecHere
<1>5. r \in VmState /\ r.pt = NoTable /\ r.free = free /\ r.ok /\ r.panic = FALSE
  BY <1>1, <1>4, EmptyTable, StateIs
<1>6. Makes(r, s)
  BY <1>2, <1>5, PagetableMakes
<1>7. s \in VmState /\ s.panic = FALSE /\ Balance(s) = free
  BY <1>5, <1>6 DEF Makes
<1>8. s.pt \in Table /\ s.free \in Nat /\ s.ok \in BOOLEAN
  BY <1>7, StateFields
<1>9. free' = s.free /\ free' \in Nat /\ panicked' = FALSE
  BY <1>3, <1>7, TakesIs
<1>10. CASE s.ok
  <2>1. PICK t : t = [thread[p] EXCEPT !.at = "exec", !.new = s.pt, !.program = g]
    OBVIOUS
  <2>2. /\ t \in Call /\ t.at = "exec" /\ t.new = s.pt /\ t.program = g
        /\ t.i = 1 /\ t.sz = 0 /\ t.argv = thread[p].argv /\ t.before = thread[p].before
    <3>1. "exec" \in Place
      BY DEF Place, CallAt, ExecAt
    <3> QED
      BY <1>4, <1>8, <2>1, <3>1 DEF Call
  <2>3. s.pt.leaf = NoPages /\ DOMAIN s.pt.leaf = {}
    BY <1>6, <1>10, EmptyLeaf DEF Makes
  <2>4. PageUp(0) = 0
    <3>1. PageUp(0 * PGSIZE) = 0 /\ PGSIZE \in Nat
      BY Rounded, Sizes
    <3>2. 0 * PGSIZE = 0
      BY <3>1
    <3> QED
      BY <3>1, <3>2
  <2>5. SegmentsOK(t)
    <3>1. Len(g) \in Nat
      BY ProgramIs
    <3>2. 1 \in 1..Len(g) + 1
      BY <3>1
    <3>3. Reaches(g, 0, 0)
      BY DEF Reaches
    <3>4. 0..PageUp(0) - 1 = {} /\ 1 - 1 = 0
      BY <2>4
    <3> QED
      BY <2>2, <2>3, <3>2, <3>3, <3>4 DEF SegmentsOK
  <2>6. ExecOK(t)
    BY <2>2, <2>3, <2>5 DEF ExecOK, UserPages
  <2>7. free' + Pages(t.new) = free + Pages(thread[p].new)
    BY <1>4, <1>7, <1>9, <2>2, EmptyTable DEF Balance
  <2>8. thread' = [thread EXCEPT ![p] = t]
    BY <1>1, <1>2, <1>10, <2>1 DEF ExecTable
  <2>9. t.at \in ExecAt
    BY <2>2 DEF ExecAt
  <2> QED
    BY <1>3, <1>9, <2>2, <2>6, <2>7, <2>8, <2>9, BuildStep
<1>11. CASE ~ s.ok
  <2>1. s.free = free
    BY <1>5, <1>6, <1>11 DEF Makes
  <2>2. thread' = Fails(p)
    BY <1>1, <1>2, <1>11 DEF ExecTable
  <2>3. panicked' = panicked
    BY <1>9, Here
  <2> QED
    BY <1>3, <1>9, <2>1, <2>2, <2>3, NoArgumentStep
<1> QED
  BY <1>8, <1>10, <1>11

LEMMA ExecSegmentStep ==
  ASSUME IInv, NEW p \in Process, ExecSegment(p)
  PROVE  IInv'
<1>1. PICK c : c = thread[p]
  OBVIOUS
<1>2. PICK t : t = [c EXCEPT !.at = "segment", !.a = PageUp(c.sz), !.oldsz = c.sz,
                             !.end = c.program[c.i].end]
  OBVIOUS
<1>3. c.at = "exec" /\ c.i <= Len(c.program) /\ UNCHANGED <<free, other, proc, panicked, image>>
  BY <1>1 DEF ExecSegment, At
<1>4. c \in Call /\ c.sz \in Nat /\ c.i \in Nat /\ free \in Nat /\ panicked = FALSE /\ c.new \in Table
  BY <1>1, Here
<1>5. c.at \in ExecAt
  BY <1>3 DEF ExecAt
<1>6. ExecOK(c)
  BY <1>1, <1>5, ExecHere
<1>7. PICK g \in Program : g = c.program
  BY <1>5, <1>6 DEF ExecOK
<1>8. SegmentsOK(c) /\ \A v \in UserPages(c.new) : Low(v) \in c.new.low
  BY <1>3, <1>5, <1>6 DEF ExecOK
<1>9. /\ c.i \in 1..Len(g) + 1 /\ Reaches(g, c.i - 1, c.sz)
      /\ DOMAIN c.new.leaf = 0..PageUp(c.sz) - 1
      /\ \A v \in DOMAIN c.new.leaf : Flagged(c.new.leaf, g, c.i - 1, v)
  BY <1>7, <1>8 DEF SegmentsOK
<1>10. /\ Len(g) \in Nat /\ \A i \in 1..Len(g) : g[i].end \in Nat
  BY ProgramIs
<1>11. c.i \in 1..Len(g) /\ g[c.i].end \in Nat /\ PageUp(c.sz) \in Nat
  <2>1. c.i \in 1..Len(g)
    BY <1>3, <1>4, <1>7, <1>9, <1>10
  <2> QED
    BY <1>4, <1>10, <2>1, Below
<1>12. /\ t.at = "segment" /\ t.a = PageUp(c.sz) /\ t.oldsz = c.sz /\ t.end = g[c.i].end
       /\ t.new = c.new /\ t.argv = c.argv /\ t.before = c.before /\ t.sz = c.sz
       /\ t.program = g /\ t.i = c.i
  BY <1>2, <1>4, <1>7 DEF Call
<1>13. t \in Call
  <2>1. "segment" \in Place
    BY DEF Place, CallAt, ExecAt
  <2> QED
    BY <1>2, <1>4, <1>7, <1>11, <2>1 DEF Call
<1>14. SegmentOK(t)
  <2>1. \A v \in DOMAIN c.new.leaf : Flagged(c.new.leaf, g, c.i, v)
    <3>1. \A i \in 1..c.i - 1 : i \in 1..c.i
      BY <1>11
    <3> QED
      BY <1>9, <3>1 DEF Flagged
  <2>2. PageUp(c.sz) <= PageUp(c.sz)
    BY <1>11
  <2> QED
    BY <1>9, <1>11, <1>12, <2>1, <2>2 DEF SegmentOK
<1>15. ExecOK(t)
  BY <1>7, <1>8, <1>12, <1>14 DEF ExecOK
<1>16. t.at \in ExecAt
  BY <1>12 DEF ExecAt
<1>17. thread' = [thread EXCEPT ![p] = t]
  BY <1>1, <1>2 DEF ExecSegment
<1>18. /\ free' \in Nat /\ panicked' = FALSE /\ free' + Pages(t.new) = free + Pages(thread[p].new)
  BY <1>1, <1>3, <1>4, <1>12
<1> QED
  BY <1>1, <1>3, <1>5, <1>12, <1>13, <1>15, <1>16, <1>17, <1>18, BuildStep

LEMMA ExecStackStep ==
  ASSUME IInv, NEW p \in Process, ExecStack(p)
  PROVE  IInv'
<1>1. PICK c : c = thread[p]
  OBVIOUS
<1>2. PICK sz : sz = PageUp(c.sz) * PGSIZE
  OBVIOUS
<1>3. PICK t : t = [c EXCEPT !.at = "stack", !.a = PageUp(c.sz), !.sz = sz, !.oldsz = sz,
                             !.end = sz + StackPages * PGSIZE]
  OBVIOUS
<1>4. c.at = "exec" /\ c.i > Len(c.program) /\ UNCHANGED <<free, other, proc, panicked, image>>
  BY <1>1 DEF ExecStack, At
<1>5. c \in Call /\ c.sz \in Nat /\ c.i \in Nat /\ free \in Nat /\ panicked = FALSE /\ c.new \in Table
  BY <1>1, Here
<1>6. c.at \in ExecAt
  BY <1>4 DEF ExecAt
<1>7. ExecOK(c)
  BY <1>1, <1>6, ExecHere
<1>8. PICK g \in Program : g = c.program
  BY <1>6, <1>7 DEF ExecOK
<1>9. SegmentsOK(c) /\ \A v \in UserPages(c.new) : Low(v) \in c.new.low
  BY <1>4, <1>6, <1>7 DEF ExecOK
<1>10. /\ Len(g) \in Nat \ {0} /\ \A i \in 1..Len(g) : g[i].end \in Nat
  BY ProgramIs
<1>11. c.i - 1 = Len(g)
  BY <1>4, <1>5, <1>8, <1>9, <1>10 DEF SegmentsOK
<1>12. /\ Reaches(g, Len(g), c.sz) /\ DOMAIN c.new.leaf = 0..PageUp(c.sz) - 1
       /\ \A v \in DOMAIN c.new.leaf : Flagged(c.new.leaf, g, Len(g), v)
  BY <1>8, <1>9, <1>11 DEF SegmentsOK
<1>13. PageUp(c.sz) = Guard(g)
  <2>1. PICK i \in 1..Len(g) : Guard(g) = PageUp(g[i].end) /\ \A j \in 1..Len(g) : g[j].end <= g[i].end
    BY GuardIs
  <2>2. PICK j \in 1..Len(g) : c.sz = g[j].end
    BY <1>10, <1>12 DEF Reaches
  <2>3. g[i].end <= c.sz /\ c.sz <= g[i].end
    BY <1>12, <2>1, <2>2 DEF Reaches
  <2>4. g[i].end = c.sz
    BY <1>5, <1>10, <2>3
  <2> QED
    BY <2>1, <2>4
<1>14. PICK n \in Nat : n = Guard(g)
  BY GuardIs
<1>15. PGSIZE \in Nat /\ StackPages \in Nat
  BY Sizes
<1>16. sz = n * PGSIZE /\ sz \in Nat /\ PageUp(sz) = n
  BY <1>2, <1>13, <1>14, Rounded
<1>17. sz + StackPages * PGSIZE = (n + StackPages) * PGSIZE /\ sz + StackPages * PGSIZE \in Nat
  BY <1>14, <1>15, <1>16
<1>18. /\ t.at = "stack" /\ t.a = n /\ t.oldsz = sz /\ t.end = (n + StackPages) * PGSIZE
       /\ t.new = c.new /\ t.argv = c.argv /\ t.before = c.before /\ t.sz = sz
       /\ t.program = g
  BY <1>3, <1>5, <1>8, <1>13, <1>14, <1>17 DEF Call
<1>19. t \in Call
  <2>1. "stack" \in Place
    BY DEF Place, CallAt, ExecAt
  <2> QED
    BY <1>3, <1>5, <1>13, <1>14, <1>16, <1>17, <2>1 DEF Call
<1>20. StackOK(t)
  <2>1. \A v \in DOMAIN c.new.leaf : v < n
    BY <1>12, <1>13, <1>14
  <2>2. n <= n /\ n <= n + StackPages
    BY <1>14, <1>15
  <2> QED
    BY <1>12, <1>13, <1>14, <1>16, <1>18, <2>1, <2>2 DEF StackOK
<1>21. ExecOK(t)
  BY <1>8, <1>9, <1>18, <1>20 DEF ExecOK
<1>22. t.at \in ExecAt
  BY <1>18 DEF ExecAt
<1>23. thread' = [thread EXCEPT ![p] = t]
  BY <1>1, <1>2, <1>3 DEF ExecStack
<1>24. /\ free' \in Nat /\ panicked' = FALSE /\ free' + Pages(t.new) = free + Pages(thread[p].new)
  BY <1>1, <1>4, <1>5, <1>18
<1> QED
  BY <1>1, <1>4, <1>6, <1>18, <1>19, <1>21, <1>22, <1>23, <1>24, BuildStep

(* The flags of the page that uvmalloc maps in the new image.              *)
PageFlags(c) == IF c.at = "segment" THEN Flags2perm(c.program[c.i]) ELSE {"U", "W"}

LEMMA BuildsPage ==
  ASSUME NEW c \in Call, c.at \in {"segment", "stack"}, ExecOK(c), c.a * PGSIZE < c.end
  PROVE  /\ c.a \in Page /\ UserPages(c.new) = 0..c.a - 1 /\ PageFlags(c) \in Flags
         /\ c.program \in Program
         /\ \A v \in UserPages(c.new) : Low(v) \in c.new.low
         /\ c.at = "segment" => SegmentOK(c) /\ c.a < PageUp(c.end)
         /\ c.at = "stack" => StackOK(c) /\ c.a < Guard(c.program) + StackPages
         /\ PageUp(c.oldsz) <= c.a /\ PageUp(c.oldsz) = PageUp(c.sz)
<1>1. c.a \in Nat /\ c.end \in Nat /\ c.oldsz \in Nat /\ c.sz \in Nat /\ c.i \in Nat
  BY DEF Call
<1>2. MemSize \in Nat /\ TRAPFRAME \in Nat /\ PGSIZE \in Nat /\ StackPages \in Nat
  BY Sizes
<1>3. c.program \in Program /\ \A v \in UserPages(c.new) : Low(v) \in c.new.low
  BY DEF ExecOK, ExecAt
<1>4. PICK g \in Program : g = c.program
  BY <1>3
<1>5. c.a < PageUp(c.end) /\ PageUp(c.end) \in Nat
  BY <1>1, Below
<1>6. PageFlags(c) \in Flags
  <2>1. {"U", "W"} \in Flags
    BY DEF Flags
  <2> QED
    BY <2>1, FlagsOf DEF PageFlags
<1>7. CASE c.at = "segment"
  <2>1. SegmentOK(c)
    BY <1>7 DEF ExecOK, ExecAt
  <2>2. /\ c.i \in 1..Len(g) /\ c.oldsz = c.sz /\ c.end = g[c.i].end /\ PageUp(c.sz) <= c.a
        /\ DOMAIN c.new.leaf = 0..c.a - 1
    BY <1>4, <2>1 DEF SegmentOK
  <2>3. PICK x \in Nat : x = Guard(g)
    BY GuardIs
  <2>4. x + StackPages < TRAPFRAME /\ PageUp(c.end) <= x
    BY <2>2, <2>3, GuardIs
  <2>5. c.a \in Page
    BY <1>1, <1>2, <1>5, <2>4 DEF Page
  <2> QED
    BY <1>3, <1>5, <1>6, <1>7, <2>1, <2>2, <2>5 DEF UserPages
<1>8. CASE c.at = "stack"
  <2>1. StackOK(c)
    BY <1>8 DEF ExecOK, ExecAt
  <2>2. PICK x \in Nat : x = Guard(g)
    BY GuardIs
  <2>3. x + StackPages < TRAPFRAME
    BY <2>2, GuardIs
  <2>4. /\ c.sz = c.oldsz /\ PageUp(c.oldsz) = x /\ c.end = (x + StackPages) * PGSIZE /\ x <= c.a
        /\ DOMAIN c.new.leaf = 0..c.a - 1
    BY <1>4, <2>1, <2>2 DEF StackOK
  <2>5. PageUp(c.end) = x + StackPages
    <3>1. PICK y \in Nat : y = x + StackPages
      BY <1>2
    <3>2. PageUp(y * PGSIZE) = y
      BY Rounded
    <3> QED
      BY <2>4, <3>1, <3>2
  <2>6. c.a \in Page
    BY <1>1, <1>2, <1>5, <2>3, <2>5 DEF Page
  <2> QED
    BY <1>3, <1>4, <1>5, <1>6, <1>8, <2>1, <2>2, <2>4, <2>5, <2>6 DEF UserPages
<1> QED
  BY <1>7, <1>8

(* What holds of exec's call c when uvmalloc is to map the page c.a.        *)
Builds(c) ==
  /\ c \in Call /\ c.at \in {"segment", "stack"} /\ c.program \in Program
  /\ c.a \in Page /\ UserPages(c.new) = 0..c.a - 1 /\ PageFlags(c) \in Flags
  /\ \A v \in UserPages(c.new) : Low(v) \in c.new.low
  /\ c.at = "segment" => SegmentOK(c) /\ c.a < PageUp(c.end)
  /\ c.at = "stack" => StackOK(c) /\ c.a < Guard(c.program) + StackPages

LEMMA BuiltPage ==
  ASSUME NEW c, Builds(c),
         NEW r \in VmState, r.pt = c.new, NEW s, Adds(r, s, c.a, PageFlags(c)), s.ok
  PROVE  LET t == [c EXCEPT !.new = s.pt, !.a = @ + 1] IN
         /\ t \in Call /\ ExecOK(t) /\ t.at = c.at /\ t.argv = c.argv /\ t.before = c.before
         /\ t.new = s.pt
<1>1. PICK t : t = [c EXCEPT !.new = s.pt, !.a = @ + 1]
  OBVIOUS
<1>2. /\ c \in Call /\ c.at \in {"segment", "stack"}
      /\ c.a \in Page /\ UserPages(c.new) = 0..c.a - 1 /\ PageFlags(c) \in Flags
      /\ c.program \in Program
      /\ \A v \in UserPages(c.new) : Low(v) \in c.new.low
      /\ c.at = "segment" => SegmentOK(c) /\ c.a < PageUp(c.end)
      /\ c.at = "stack" => StackOK(c) /\ c.a < Guard(c.program) + StackPages
  BY DEF Builds
<1>3. c.a \in Nat /\ c.new \in Table /\ c.new.leaf \in Leaves /\ c.i \in Nat /\ c.end \in Nat
      /\ c.sz \in Nat
  <2>1. c.a \in Nat /\ c.new \in Table /\ c.i \in Nat /\ c.end \in Nat /\ c.sz \in Nat
    BY <1>2 DEF Call
  <2> QED
    BY <2>1, Counted
<1>4. /\ s \in VmState /\ s.pt.leaf = WithPage(c.new.leaf, c.a, PageFlags(c))
      /\ c.new.low \subseteq s.pt.low /\ Low(c.a) \in s.pt.low
  BY DEF Adds
<1>5. s.pt \in Table /\ c.a + 1 \in Nat
  BY <1>3, <1>4, StateFields
<1>6. /\ t.at = c.at /\ t.argv = c.argv /\ t.before = c.before /\ t.new = s.pt /\ t.a = c.a + 1
      /\ t.program = c.program /\ t.i = c.i /\ t.sz = c.sz /\ t.oldsz = c.oldsz /\ t.end = c.end
  BY <1>1, <1>2 DEF Call
<1>7. t \in Call
  BY <1>1, <1>2, <1>5 DEF Call
<1>8. /\ DOMAIN s.pt.leaf = 0..t.a - 1
      /\ s.pt.leaf[c.a] = PageFlags(c)
      /\ \A v \in 0..c.a - 1 : s.pt.leaf[v] = c.new.leaf[v]
  <2>1. PICK f \in Leaves : f = c.new.leaf
    BY <1>3
  <2>2. PICK x \in Flags : x = PageFlags(c)
    BY <1>2
  <2>3. s.pt.leaf = WithPage(f, c.a, x)
    BY <1>4, <2>1, <2>2
  <2>4. PICK h : h = s.pt.leaf
    OBVIOUS
  <2>5. /\ DOMAIN h = DOMAIN f \union {c.a} /\ h[c.a] = x
        /\ \A w \in DOMAIN f : w # c.a => h[w] = f[w]
    <3>1. PICK a \in Page : a = c.a
      BY <1>2
    <3>2. h = WithPage(f, a, x)
      BY <2>3, <2>4, <3>1
    <3>3. /\ DOMAIN h = DOMAIN f \union {a} /\ h[a] = x
          /\ \A w \in DOMAIN f : w # a => h[w] = f[w]
      BY <3>2 DEF WithPage
    <3> QED
      BY <3>1, <3>3
  <2>6. DOMAIN f = 0..c.a - 1
    BY <1>2, <2>1 DEF UserPages
  <2>7. DOMAIN h = 0..t.a - 1
    BY <1>3, <1>6, <2>5, <2>6
  <2>8. \A v \in 0..c.a - 1 : v # c.a
    BY <1>3
  <2>9. \A v \in 0..c.a - 1 : h[v] = f[v]
    BY <2>5, <2>6, <2>8
  <2> QED
    BY <2>1, <2>2, <2>4, <2>5, <2>7, <2>9
<1>9. \A v \in UserPages(s.pt) : Low(v) \in s.pt.low
  <2>1. ASSUME NEW v \in UserPages(s.pt)
        PROVE  Low(v) \in s.pt.low
    <3>1. v \in 0..c.a - 1 \/ v = c.a
      BY <1>3, <1>6, <1>8 DEF UserPages
    <3> QED
      BY <1>2, <1>4, <3>1
  <2> QED
    BY <2>1
<1>10. PICK g \in Program : g = c.program
  BY <1>2
<1>11. CASE c.at = "segment"
  <2>1. /\ c.i \in 1..Len(g) /\ Reaches(g, c.i - 1, c.sz)
        /\ c.oldsz = c.sz /\ c.end = g[c.i].end
        /\ PageUp(c.sz) <= c.a /\ (c.a <= PageUp(c.end) \/ c.a = PageUp(c.sz))
        /\ DOMAIN c.new.leaf = 0..c.a - 1
        /\ \A v \in DOMAIN c.new.leaf : Flagged(c.new.leaf, g, c.i, v)
    BY <1>2, <1>10, <1>11 DEF SegmentOK
  <2>2. PageUp(c.sz) \in Nat /\ PageUp(c.end) \in Nat /\ c.a < PageUp(c.end)
    BY <1>2, <1>3, <1>11, Below
  <2>3. PageUp(c.sz) <= t.a /\ t.a <= PageUp(c.end)
    BY <1>3, <1>6, <2>1, <2>2
  <2>4. Flagged(s.pt.leaf, g, c.i, c.a)
    <3>1. PageFlags(c) = Flags2perm(g[c.i])
      BY <1>10, <1>11 DEF PageFlags
    <3>2. ASSUME NEW j \in 1..c.i - 1
          PROVE  PageUp(g[j].end) <= c.a
      <4>1. g[j].end <= c.sz
        BY <2>1 DEF Reaches
      <4>2. j \in 1..Len(g)
        BY <2>1, ProgramIs
      <4>3. g[j].end \in Nat
        BY <4>2, ProgramIs
      <4>4. PageUp(g[j].end) <= PageUp(c.sz) /\ PageUp(g[j].end) \in Nat
        BY <1>3, <4>1, <4>3, Rounded, Below
      <4> QED
        BY <1>3, <2>1, <2>2, <4>4
    <3>3. Loads(g, c.i, c.a)
      BY <2>1, <2>2, <3>2 DEF Loads
    <3>4. c.i \in 1..c.i
      BY <2>1
    <3> QED
      BY <1>8, <3>1, <3>3, <3>4 DEF Flagged
  <2>5. ASSUME NEW v \in DOMAIN s.pt.leaf
        PROVE  Flagged(s.pt.leaf, g, c.i, v)
    <3>1. v \in 0..c.a - 1 \/ v = c.a
      BY <1>3, <1>6, <1>8
    <3>2. CASE v \in 0..c.a - 1
      BY <1>8, <2>1, <3>2 DEF Flagged
    <3> QED
      BY <2>4, <3>1, <3>2
  <2>6. SegmentOK(t)
    BY <1>6, <1>8, <1>10, <2>1, <2>3, <2>5 DEF SegmentOK
  <2>7. ExecOK(t)
    BY <1>2, <1>6, <1>9, <1>11, <2>6 DEF ExecOK
  <2> QED
    BY <1>1, <1>6, <1>7, <2>7
<1>12. CASE c.at = "stack"
  <2>1. PICK x \in Nat : x = Guard(g)
    BY GuardIs
  <2>2. StackPages \in Nat
    BY Sizes
  <2>3. /\ c.sz = c.oldsz /\ PageUp(c.oldsz) = x
        /\ c.oldsz = x * PGSIZE /\ c.end = (x + StackPages) * PGSIZE
        /\ x <= c.a /\ c.a < x + StackPages
        /\ DOMAIN c.new.leaf = 0..c.a - 1
        /\ \A v \in DOMAIN c.new.leaf :
             IF v < x THEN Flagged(c.new.leaf, g, Len(g), v) ELSE c.new.leaf[v] = {"U", "W"}
    BY <1>2, <1>10, <1>12, <2>1 DEF StackOK
  <2>4. x <= t.a /\ t.a <= x + StackPages
    BY <1>3, <1>6, <2>1, <2>2, <2>3
  <2>5. s.pt.leaf[c.a] = {"U", "W"}
    BY <1>8, <1>12 DEF PageFlags
  <2>6. ASSUME NEW v \in DOMAIN s.pt.leaf
        PROVE  IF v < x THEN Flagged(s.pt.leaf, g, Len(g), v) ELSE s.pt.leaf[v] = {"U", "W"}
    <3>1. v \in 0..c.a - 1 \/ v = c.a
      BY <1>3, <1>6, <1>8
    <3>2. CASE v \in 0..c.a - 1
      BY <1>8, <2>3, <3>2 DEF Flagged
    <3>3. CASE v = c.a
      <4>1. ~ (v < x)
        BY <1>3, <2>1, <2>3, <3>3
      <4> QED
        BY <2>5, <3>3, <4>1
    <3> QED
      BY <3>1, <3>2, <3>3
  <2>7. StackOK(t)
    BY <1>6, <1>8, <1>10, <2>1, <2>3, <2>4, <2>6 DEF StackOK
  <2>8. ExecOK(t)
    BY <1>2, <1>6, <1>9, <1>12, <2>7 DEF ExecOK
  <2> QED
    BY <1>1, <1>6, <1>7, <2>8
<1> QED
  BY <1>2, <1>11, <1>12

(* uvmalloc cannot go on: nothing is left of the image.                    *)
LEMMA UndoneFrees ==
  ASSUME NEW r \in VmState, NEW a \in Nat, NEW oldsz \in Nat, NEW sz \in Nat,
         PageUp(oldsz) = PageUp(sz), \A v \in UserPages(r.pt) : v < a
  PROVE  LET b == ProcFreepagetable(UndoUvmalloc(r, a, oldsz), sz) IN
         b \in VmState /\ b.panic = r.panic /\ b.free = Balance(r)
<1>1. PICK n \in Nat : n = PageUp(oldsz)
  BY Below
<1>2. PICK x \in Nat : x = a * PGSIZE /\ PageUp(x) = a
  BY Rounded
<1>3. PICK y \in Nat : y = n * PGSIZE /\ PageUp(y) = n
  BY Rounded
<1>4. PICK c : c = Uvmdealloc(r, x, y)
  OBVIOUS
<1>5. UndoUvmalloc(r, a, oldsz) = c
  BY <1>1, <1>2, <1>3, <1>4 DEF UndoUvmalloc
<1>6. \A v \in UserPages(r.pt) : v < PageUp(x)
  BY <1>2
<1>7. /\ c \in VmState /\ c.panic = r.panic /\ Balance(c) = Balance(r)
      /\ \A v \in UserPages(c.pt) : v \in UserPages(r.pt) /\ v < PageUp(y)
  BY <1>4, <1>6, DeallocFrees
<1>8. UserPages(r.pt) \subseteq Nat
  BY StateFields, Counted DEF Page
<1>9. \A v \in UserPages(c.pt) : v \in 0..PageUp(sz) - 1
  BY <1>1, <1>3, <1>7, <1>8
<1>10. Frees(c, ProcFreepagetable(c, sz))
  BY <1>7, <1>9, FreepagetableFrees
<1> QED
  BY <1>5, <1>7, <1>10 DEF Frees

LEMMA ExecPageStep ==
  ASSUME IInv, NEW p \in Process, ExecPage(p)
  PROVE  IInv'
<1>1. PICK c : c = thread[p]
  OBVIOUS
<1>2. PICK x : x = PageFlags(c)
  OBVIOUS
<1>3. PICK r : r = State(c.new)
  OBVIOUS
<1>4. PICK s : s = NewPage(r, c.a, x)
  OBVIOUS
<1>5. PICK b : b = ProcFreepagetable(UndoUvmalloc(s, c.a, c.oldsz), c.sz)
  BY Zenon
<1>6. /\ c.at \in {"segment", "stack"} /\ c.a * PGSIZE < c.end
      /\ Takes(IF s.ok THEN s ELSE b)
      /\ thread' = IF s.ok THEN [thread EXCEPT ![p].new = s.pt, ![p].a = @ + 1] ELSE Fails(p)
      /\ UNCHANGED <<other, proc, image>>
  BY <1>1, <1>2, <1>3, <1>4, <1>5 DEF ExecPage, PageFlags
<1>7. /\ c \in Call /\ c.sz \in Nat /\ c.oldsz \in Nat /\ c.a \in Nat /\ free \in Nat
      /\ panicked = FALSE /\ c.new \in Table
  BY <1>1, Here
<1>8. c.at \in ExecAt
  BY <1>6 DEF ExecAt
<1>9. ExecOK(c)
  BY <1>1, <1>8, ExecHere
<1>10. /\ c.a \in Page /\ UserPages(c.new) = 0..c.a - 1 /\ x \in Flags
       /\ c.program \in Program
       /\ \A v \in UserPages(c.new) : Low(v) \in c.new.low
       /\ c.at = "segment" => SegmentOK(c) /\ c.a < PageUp(c.end)
       /\ c.at = "stack" => StackOK(c) /\ c.a < Guard(c.program) + StackPages
       /\ PageUp(c.oldsz) = PageUp(c.sz)
  BY <1>2, <1>6, <1>7, <1>9, BuildsPage
<1>11. /\ r \in VmState /\ r.pt = c.new /\ r.free = free /\ r.ok /\ r.panic = FALSE
       /\ Balance(r) = free + Pages(c.new)
  BY <1>3, <1>7, StateIs
<1>12. c.a \notin UserPages(r.pt)
  BY <1>7, <1>10, <1>11
<1>13. Adds(r, s, c.a, x)
  BY <1>4, <1>10, <1>11, <1>12, NewPageAdds
<1>14. /\ s \in VmState /\ s.panic = FALSE /\ Balance(s) = free + Pages(c.new)
       /\ ~ s.ok => s.pt.leaf = c.new.leaf
  BY <1>11, <1>13 DEF Adds
<1>15. s.pt \in Table /\ s.free \in Nat /\ s.ok \in BOOLEAN /\ Pages(s.pt) \in Nat
  BY <1>14, StateFields, Counted
<1>16. CASE s.ok
  <2>1. PICK t : t = [c EXCEPT !.new = s.pt, !.a = @ + 1]
    OBVIOUS
  <2>2. /\ t \in Call /\ ExecOK(t) /\ t.at = c.at /\ t.argv = c.argv /\ t.before = c.before
        /\ t.new = s.pt
    <3>1. Builds(c)
      BY <1>2, <1>6, <1>7, <1>10 DEF Builds
    <3>2. r \in VmState /\ r.pt = c.new
      BY <1>11
    <3>3. Adds(r, s, c.a, PageFlags(c)) /\ s.ok
      BY <1>2, <1>13, <1>16
    <3>4. LET u == [c EXCEPT !.new = s.pt, !.a = @ + 1] IN
          /\ u \in Call /\ ExecOK(u) /\ u.at = c.at /\ u.argv = c.argv /\ u.before = c.before
          /\ u.new = s.pt
      BY <3>1, <3>2, <3>3, BuiltPage, Zenon
    <3> QED
      BY <2>1, <3>4
  <2>3. Takes(s)
    BY <1>6, <1>16
  <2>4. free' = s.free /\ free' \in Nat /\ panicked' = FALSE
    BY <1>14, <2>3, TakesIs
  <2>5. free' + Pages(t.new) = free + Pages(thread[p].new)
    BY <1>1, <1>14, <2>2, <2>4 DEF Balance
  <2>6. thread' = [thread EXCEPT ![p] = t]
    BY <1>1, <1>6, <1>16, <2>1
  <2> QED
    BY <1>1, <1>6, <1>8, <2>2, <2>4, <2>5, <2>6, BuildStep
<1>17. CASE ~ s.ok
  <2>1. \A v \in UserPages(s.pt) : v < c.a
    <3>1. UserPages(s.pt) = 0..c.a - 1
      BY <1>10, <1>14, <1>17 DEF UserPages
    <3> QED
      BY <1>7, <3>1
  <2>2. b \in VmState /\ b.panic = s.panic /\ b.free = Balance(s)
    BY <1>5, <1>7, <1>10, <1>14, <2>1, UndoneFrees
  <2>3. Takes(b)
    BY <1>6, <1>17
  <2>4. free' = b.free /\ panicked' = FALSE
    BY <1>14, <2>2, <2>3, TakesIs
  <2>5. free' = free + Pages(thread[p].new) /\ thread' = Fails(p)
    BY <1>1, <1>6, <1>14, <1>17, <2>2, <2>4
  <2> QED
    BY <1>1, <1>6, <1>8, <2>4, <2>5, FailStep
<1> QED
  BY <1>15, <1>16, <1>17

(* The image is built, or the call gives it back.                          *)
LEMMA ExecBadStep ==
  ASSUME IInv, NEW p \in Process, ExecBad(p)
  PROVE  IInv'
<1>1. PICK c : c = thread[p]
  OBVIOUS
<1>2. PICK r : r = State(c.new)
  OBVIOUS
<1>3. PICK s : s = ProcFreepagetable(r, c.sz)
  OBVIOUS
<1>4. /\ c.at \in {"exec", "args"} /\ Takes(s) /\ thread' = Fails(p)
      /\ UNCHANGED <<other, proc, image>>
  BY <1>1, <1>2, <1>3 DEF ExecBad
<1>5. c \in Call /\ c.sz \in Nat /\ free \in Nat /\ panicked = FALSE /\ c.new \in Table
  BY <1>1, Here
<1>6. c.at \in ExecAt
  BY <1>4 DEF ExecAt
<1>7. ExecOK(c)
  BY <1>1, <1>6, ExecHere
<1>8. PICK g \in Program : g = c.program
  BY <1>6, <1>7 DEF ExecOK
<1>9. UserPages(c.new) = 0..PageUp(c.sz) - 1
  <2>1. CASE c.at = "exec"
    <3>1. SegmentsOK(c)
      BY <1>6, <1>7, <2>1 DEF ExecOK
    <3> QED
      BY <3>1 DEF SegmentsOK, UserPages
  <2>2. CASE c.at = "args"
    <3>1. BuiltOK(c)
      BY <1>6, <1>7, <2>2 DEF ExecOK
    <3>2. PICK n \in Nat : n = Guard(g) + StackPages /\ n = Guard(g) + USERSTACK + 1
      BY GuardIs, Sizes
    <3>3. c.sz = n * PGSIZE /\ c.new.leaf = Image(g)
      BY <1>8, <3>1, <3>2 DEF BuiltOK
    <3>4. PageUp(c.sz) = n
      BY <3>3, Rounded
    <3>5. DOMAIN c.new.leaf = 0..Guard(g) + USERSTACK
      BY <3>3, ImageIs
    <3>6. Guard(g) + USERSTACK = n - 1
      BY <3>2, GuardIs, Sizes
    <3> QED
      BY <3>4, <3>5, <3>6 DEF UserPages
  <2> QED
    BY <1>4, <2>1, <2>2
<1>10. /\ r \in VmState /\ r.pt = c.new /\ r.panic = FALSE /\ Balance(r) = free + Pages(c.new)
  BY <1>2, <1>5, StateIs
<1>11. Frees(r, s)
  BY <1>3, <1>9, <1>10, FreepagetableFrees
<1>12. s \in VmState /\ s.panic = FALSE /\ s.free = free + Pages(c.new)
  BY <1>10, <1>11 DEF Frees
<1>13. free' = s.free /\ panicked' = FALSE
  BY <1>4, <1>12, TakesIs
<1>14. free' = free + Pages(thread[p].new)
  BY <1>1, <1>12, <1>13
<1> QED
  BY <1>1, <1>4, <1>6, <1>13, <1>14, FailStep

(* No page of the segment is missing, so loadseg does not panic.           *)
LEMMA LoadsegStep ==
  ASSUME IInv, NEW p \in Process, Loadseg(p)
  PROVE  IInv'
<1>1. PICK c : c = thread[p]
  OBVIOUS
<1>2. PICK g : g = c.program
  OBVIOUS
<1>3. PICK z : z = IF c.end < c.oldsz THEN c.oldsz ELSE c.end
  OBVIOUS
<1>4. /\ c.at = "segment" /\ ~ (c.a * PGSIZE < c.end)
      /\ UNCHANGED <<free, other, proc, image>>
  <2>1. c.a * PGSIZE >= c.end /\ c.at = "segment" /\ UNCHANGED <<free, other, proc, image>>
    BY <1>1 DEF Loadseg, At
  <2>2. c.a \in Nat /\ c.end \in Nat /\ PGSIZE \in Nat
    BY <1>1, Here, Sizes
  <2>3. c.a * PGSIZE \in Nat
    BY <2>2
  <2> QED
    BY <2>1, <2>2, <2>3
<1>5. /\ c \in Call /\ c.a \in Nat /\ c.end \in Nat /\ c.oldsz \in Nat /\ c.sz \in Nat
      /\ c.i \in Nat /\ free \in Nat /\ panicked = FALSE /\ c.new \in Table
  BY <1>1, Here
<1>6. c.at \in ExecAt
  BY <1>4 DEF ExecAt
<1>7. ExecOK(c)
  BY <1>1, <1>6, ExecHere
<1>8. g \in Program /\ \A v \in UserPages(c.new) : Low(v) \in c.new.low
  BY <1>2, <1>6, <1>7 DEF ExecOK
<1>9. SegmentOK(c)
  BY <1>4, <1>6, <1>7 DEF ExecOK
<1>10. /\ c.i \in 1..Len(g) /\ Reaches(g, c.i - 1, c.sz)
       /\ c.oldsz = c.sz /\ c.end = g[c.i].end
       /\ PageUp(c.sz) <= c.a /\ (c.a <= PageUp(c.end) \/ c.a = PageUp(c.sz))
       /\ DOMAIN c.new.leaf = 0..c.a - 1
       /\ \A v \in DOMAIN c.new.leaf : Flagged(c.new.leaf, g, c.i, v)
  BY <1>2, <1>9 DEF SegmentOK
<1>11. /\ PageUp(c.sz) \in Nat /\ PageUp(c.end) \in Nat /\ PageUp(c.end) <= c.a
  <2>1. PageUp(c.sz) \in Nat /\ PageUp(c.end) \in Nat /\ ~ (c.a < PageUp(c.end))
    BY <1>4, <1>5, Below
  <2> QED
    BY <1>5, <2>1
<1>12. z \in Nat /\ PageUp(z) = c.a
  <2>1. CASE c.end < c.sz
    <3>1. PageUp(c.end) <= PageUp(c.sz)
      BY <1>5, <2>1, Rounded
    <3> QED
      BY <1>3, <1>5, <1>10, <1>11, <2>1, <3>1
  <2>2. CASE c.sz <= c.end
    <3>1. PageUp(c.sz) <= PageUp(c.end)
      BY <1>5, <2>2, Rounded
    <3> QED
      BY <1>3, <1>5, <1>10, <1>11, <2>2, <3>1
  <2> QED
    BY <1>5, <2>1, <2>2
<1>13. Len(g) \in Nat /\ \A j \in 1..Len(g) : g[j].end \in Nat
  BY <1>8, ProgramIs
<1>14. Reaches(g, c.i, z)
  <2>1. ASSUME NEW j \in 1..c.i
        PROVE  g[j].end <= z
    <3>1. j \in 1..Len(g)
      BY <1>10, <1>13
    <3>2. g[j].end \in Nat
      BY <1>13, <3>1
    <3>3. CASE j = c.i
      BY <1>3, <1>5, <1>10, <3>2, <3>3
    <3>4. CASE j # c.i
      <4>1. j \in 1..c.i - 1
        BY <1>10, <1>13, <3>4
      <4>2. g[j].end <= c.sz
        BY <1>10, <4>1 DEF Reaches
      <4> QED
        BY <1>3, <1>5, <1>10, <3>2, <4>2
    <3> QED
      BY <3>3, <3>4
  <2>2. \E j \in 1..c.i : z = g[j].end
    <3>1. CASE c.end < c.sz
      <4>1. c.sz # 0 /\ z = c.sz
        BY <1>3, <1>5, <1>10, <3>1
      <4>2. PICK j \in 1..c.i - 1 : c.sz = g[j].end
        BY <1>10, <4>1 DEF Reaches
      <4>3. j \in 1..c.i
        BY <1>10, <1>13
      <4> QED
        BY <4>1, <4>2, <4>3
    <3>2. CASE ~ (c.end < c.sz)
      <4>1. z = g[c.i].end /\ c.i \in 1..c.i
        BY <1>3, <1>10, <3>2
      <4> QED
        BY <4>1
    <3> QED
      BY <3>1, <3>2
  <2> QED
    BY <2>1, <2>2 DEF Reaches
<1>15. PICK t : t = [c EXCEPT !.at = "exec", !.i = @ + 1, !.sz = z]
  OBVIOUS
<1>16. /\ t.at = "exec" /\ t.i = c.i + 1 /\ t.sz = z /\ t.new = c.new /\ t.argv = c.argv
       /\ t.before = c.before /\ t.program = g
  BY <1>2, <1>15 DEF Call
<1>17. t \in Call
  <2>1. "exec" \in Place
    BY DEF Place, CallAt, ExecAt
  <2>2. c.i + 1 \in Nat \ {0}
    BY <1>5
  <2> QED
    BY <1>5, <1>12, <1>15, <2>1, <2>2 DEF Call
<1>18. SegmentsOK(t)
  <2>1. c.i + 1 \in 1..Len(g) + 1 /\ c.i + 1 - 1 = c.i
    BY <1>10, <1>13
  <2>2. t.i \in 1..Len(g) + 1 /\ t.i - 1 = c.i
    <3>1. t.i = c.i + 1
      BY <1>16
    <3>2. c.i \in 1..Len(g) /\ Len(g) \in Nat
      BY <1>10, <1>13
    <3> QED
      BY <3>1, <3>2
  <2>3. Reaches(g, t.i - 1, z)
    BY <1>14, <2>2
  <2>4. \A v \in DOMAIN c.new.leaf : Flagged(c.new.leaf, g, t.i - 1, v)
    BY <1>10, <2>2
  <2> QED
    BY <1>10, <1>12, <1>16, <2>2, <2>3, <2>4 DEF SegmentsOK
<1>19. ExecOK(t)
  BY <1>8, <1>16, <1>18 DEF ExecOK
<1>20. panicked' = FALSE
  <2>1. ASSUME NEW v \in PageOf(g[c.i].start)..PageUp(g[c.i].end) - 1
        PROVE  Walkaddr(c.new, v)
    <3>1. g[c.i].start \in Nat
      BY <1>8, <1>10, ProgramIs
    <3>2. PageOf(g[c.i].start) \in Nat
      BY <3>1, AddressPage
    <3>3. v \in 0..c.a - 1
      BY <1>5, <1>10, <1>11, <3>2
    <3>4. PICK i \in 1..c.i : c.new.leaf[v] = Flags2perm(g[i])
      BY <1>10, <3>3 DEF Flagged
    <3> QED
      BY <1>10, <3>3, <3>4, FlagsOf DEF Walkaddr, UserPages
  <2>2. panicked' = (panicked \/ \E v \in PageOf(g[c.i].start)..PageUp(g[c.i].end) - 1 :
                                    ~ Walkaddr(c.new, v))
    BY <1>1, <1>2 DEF Loadseg
  <2> QED
    BY <1>5, <2>1, <2>2
<1>21. thread' = [thread EXCEPT ![p] = t]
  BY <1>1, <1>3, <1>15 DEF Loadseg
<1>22. t.at \in ExecAt
  BY <1>16 DEF ExecAt
<1>23. free' \in Nat /\ free' + Pages(t.new) = free + Pages(thread[p].new)
  BY <1>1, <1>4, <1>5, <1>16
<1> QED
  BY <1>1, <1>4, <1>6, <1>16, <1>17, <1>19, <1>20, <1>21, <1>22, <1>23, BuildStep

(* No page belongs to two segments.                                        *)
LEMMA LoadsOnce ==
  ASSUME NEW g \in Program, NEW i \in 1..Len(g), NEW j \in 1..Len(g), NEW v \in Nat,
         Loads(g, i, v), Loads(g, j, v)
  PROVE  i = j
<1>1. /\ Len(g) \in Nat
      /\ v < PageUp(g[i].end) /\ v < PageUp(g[j].end)
      /\ PageUp(g[i].end) \in Nat /\ PageUp(g[j].end) \in Nat
  BY ProgramIs, Below DEF Loads
<1>2. ~ (i < j)
  <2>1. i < j => i \in 1..j - 1
    BY <1>1
  <2>2. i < j => PageUp(g[i].end) <= v
    BY <2>1 DEF Loads
  <2> QED
    BY <1>1, <2>2
<1>3. ~ (j < i)
  <2>1. j < i => j \in 1..i - 1
    BY <1>1
  <2>2. j < i => PageUp(g[j].end) <= v
    BY <2>1 DEF Loads
  <2> QED
    BY <1>1, <2>2
<1> QED
  BY <1>1, <1>2, <1>3

LEMMA ClearIs ==
  ASSUME NEW pt \in Table, NEW v \in UserPages(pt)
  PROVE  LET u == Uvmclear(pt, v) IN
         /\ u \in Table /\ u.low = pt.low /\ Pages(u) = Pages(pt)
         /\ u.leaf \in Leaves /\ DOMAIN u.leaf = DOMAIN pt.leaf /\ u.leaf[v] = pt.leaf[v] \ {"U"}
         /\ \A w \in DOMAIN pt.leaf : w # v => u.leaf[w] = pt.leaf[w]
<1>1. PICK f : f = [pt.leaf EXCEPT ![v] = @ \ {"U"}]
  OBVIOUS
<1>2. PICK u : u = [pt EXCEPT !.leaf = f]
  OBVIOUS
<1>3. Uvmclear(pt, v) = u
  BY <1>1, <1>2 DEF Uvmclear, Table
<1>4. pt.leaf \in Leaves /\ v \in DOMAIN pt.leaf
  BY Counted DEF UserPages
<1>5. /\ pt.leaf = [w \in DOMAIN pt.leaf |-> pt.leaf[w]]
      /\ DOMAIN pt.leaf \subseteq Page
      /\ \A w \in DOMAIN pt.leaf : pt.leaf[w] \in Flags
  BY <1>4, Leaf
<1>6. /\ DOMAIN f = DOMAIN pt.leaf /\ f[v] = pt.leaf[v] \ {"U"}
      /\ \A w \in DOMAIN pt.leaf : w # v => f[w] = pt.leaf[w]
      /\ f = [w \in DOMAIN f |-> f[w]]
  BY <1>1, <1>4, <1>5
<1>7. \A w \in DOMAIN f : f[w] \in Flags
  BY <1>4, <1>5, <1>6 DEF Flags
<1>8. f \in Leaves
  BY <1>5, <1>6, <1>7, Leaf
<1>9. /\ u \in Table /\ u.leaf = f /\ u.low = pt.low /\ u.mid = pt.mid /\ u.root = pt.root
  BY <1>2, <1>8 DEF Table
<1>10. Pages(u) = Pages(pt)
  BY <1>6, <1>9 DEF Pages, Tables, UserPages
<1> QED
  BY <1>3, <1>6, <1>8, <1>9, <1>10

LEMMA ExecGuardStep ==
  ASSUME IInv, NEW p \in Process, ExecGuard(p)
  PROVE  IInv'
<1>1. PICK c : c = thread[p]
  OBVIOUS
<1>2. PICK n : n = PageUp(c.oldsz)
  OBVIOUS
<1>3. /\ c.a \in Nat /\ c.end \in Nat /\ c.oldsz \in Nat /\ c.sz \in Nat
      /\ c \in Call /\ free \in Nat /\ panicked = FALSE /\ c.new \in Table /\ c.new.leaf \in Leaves
      /\ PGSIZE \in Nat
  BY <1>1, Here, Counted, Sizes
<1>4. /\ c.at = "stack" /\ ~ (c.a * PGSIZE < c.end)
      /\ UNCHANGED <<free, other, proc, image>>
  <2>1. c.a * PGSIZE >= c.end /\ c.at = "stack" /\ UNCHANGED <<free, other, proc, image>>
    BY <1>1 DEF ExecGuard, At
  <2>2. c.a * PGSIZE \in Nat
    BY <1>3
  <2> QED
    BY <1>3, <2>1, <2>2
<1>5. c.at \in ExecAt
  BY <1>4 DEF ExecAt
<1>6. ExecOK(c)
  BY <1>1, <1>5, ExecHere
<1>7. PICK g \in Program : g = c.program
  BY <1>5, <1>6 DEF ExecOK
<1>8. \A v \in UserPages(c.new) : Low(v) \in c.new.low
  BY <1>5, <1>6 DEF ExecOK
<1>9. StackOK(c)
  BY <1>4, <1>5, <1>6 DEF ExecOK
<1>10. PICK x \in Nat : x = Guard(g)
  BY GuardIs
<1>11. StackPages \in Nat /\ StackPages = USERSTACK + 1 /\ USERSTACK \in Nat
  BY Sizes
<1>12. /\ c.sz = c.oldsz /\ PageUp(c.oldsz) = x
       /\ c.oldsz = x * PGSIZE /\ c.end = (x + StackPages) * PGSIZE
       /\ x <= c.a /\ c.a <= x + StackPages
       /\ DOMAIN c.new.leaf = 0..c.a - 1
       /\ \A v \in DOMAIN c.new.leaf :
            IF v < x THEN Flagged(c.new.leaf, g, Len(g), v) ELSE c.new.leaf[v] = {"U", "W"}
  BY <1>7, <1>9, <1>10 DEF StackOK
<1>13. c.a = x + StackPages
  <2>1. PICK y \in Nat : y = x + StackPages
    BY <1>11
  <2>2. PageUp(y * PGSIZE) = y
    BY Rounded
  <2>3. PageUp(c.end) = y
    BY <1>12, <2>1, <2>2
  <2>4. ~ (c.a < PageUp(c.end))
    BY <1>3, <1>4, Below
  <2> QED
    BY <1>3, <1>12, <2>1, <2>3, <2>4
<1>14. n = x /\ n \in Nat /\ n \in UserPages(c.new)
  BY <1>2, <1>3, <1>11, <1>12, <1>13 DEF UserPages
<1>15. Low(n) \in c.new.low
  BY <1>8, <1>14
<1>16. PICK u : u = Uvmclear(c.new, n)
  OBVIOUS
<1>17. /\ u \in Table /\ u.low = c.new.low /\ Pages(u) = Pages(c.new)
       /\ u.leaf \in Leaves /\ DOMAIN u.leaf = DOMAIN c.new.leaf
       /\ u.leaf[n] = c.new.leaf[n] \ {"U"}
       /\ \A w \in DOMAIN c.new.leaf : w # n => u.leaf[w] = c.new.leaf[w]
  BY <1>3, <1>14, <1>16, ClearIs
<1>18. u.leaf = Image(g)
  <2>1. Image(g) \in Leaves /\ DOMAIN Image(g) = 0..x + USERSTACK
    BY <1>10, ImageIs
  <2>2. 0..x + USERSTACK = 0..c.a - 1
    BY <1>10, <1>11, <1>13
  <2>3. ASSUME NEW v \in 0..c.a - 1
        PROVE  u.leaf[v] = Image(g)[v]
    <3>1. v \in Nat /\ v \in DOMAIN c.new.leaf /\ v \in 0..x + USERSTACK
      <4>1. v \in Nat
        BY <1>3
      <4>2. v \in DOMAIN c.new.leaf
        BY <1>12
      <4> QED
        BY <2>2, <4>1, <4>2
    <3>2. CASE v < x
      <4>1. PICK i \in 1..Len(g) : Loads(g, i, v) /\ c.new.leaf[v] = Flags2perm(g[i])
        BY <1>12, <3>1, <3>2 DEF Flagged
      <4>2. DOMAIN g = 1..Len(g)
        BY ProgramIs
      <4>3. SegmentOf(g, v) \in 1..Len(g) /\ Loads(g, SegmentOf(g, v), v)
        BY <4>1, <4>2 DEF SegmentOf
      <4>4. SegmentOf(g, v) = i
        BY <3>1, <4>1, <4>3, LoadsOnce
      <4>5. Image(g)[v] = Flags2perm(g[i])
        BY <1>10, <3>1, <3>2, <4>4 DEF Image
      <4>6. v # n
        BY <1>14, <3>1, <3>2
      <4> QED
        BY <1>17, <3>1, <4>1, <4>5, <4>6
    <3>3. CASE v = x
      <4>1. Image(g)[v] = {"W"}
        BY <1>10, <3>1, <3>3 DEF Image
      <4>2. c.new.leaf[v] = {"U", "W"}
        BY <1>12, <3>1, <3>3
      <4> QED
        BY <1>14, <1>17, <3>3, <4>1, <4>2
    <3>4. CASE v > x
      <4>1. ~ (v < x) /\ v # x
        BY <1>10, <3>1, <3>4
      <4>2. Image(g)[v] = {"U", "W"}
        BY <1>10, <3>1, <4>1 DEF Image
      <4>3. c.new.leaf[v] = {"U", "W"}
        BY <1>12, <3>1, <4>1
      <4> QED
        BY <1>14, <1>17, <3>1, <4>1, <4>2, <4>3
    <3> QED
      BY <1>10, <3>1, <3>2, <3>3, <3>4
  <2> QED
    BY <1>12, <1>17, <2>1, <2>2, <2>3, SameLeaf
<1>19. PICK t : t = [c EXCEPT !.at = "args", !.sz = c.end, !.new = u]
  OBVIOUS
<1>20. /\ t.at = "args" /\ t.sz = c.end /\ t.new = u /\ t.argv = c.argv
       /\ t.before = c.before /\ t.program = g /\ t.oldsz = c.oldsz
  BY <1>7, <1>19 DEF Call
<1>21. t \in Call
  <2>1. "args" \in Place
    BY DEF Place, CallAt, ExecAt
  <2> QED
    BY <1>3, <1>17, <1>19, <2>1 DEF Call
<1>22. BuiltOK(t)
  BY <1>10, <1>12, <1>18, <1>20 DEF BuiltOK
<1>23. \A v \in UserPages(t.new) : Low(v) \in t.new.low
  BY <1>8, <1>17, <1>20 DEF UserPages
<1>24. ExecOK(t)
  BY <1>7, <1>20, <1>22, <1>23 DEF ExecOK
<1>25. thread' = [thread EXCEPT ![p] = t] /\ panicked' = FALSE
  BY <1>1, <1>2, <1>3, <1>15, <1>16, <1>19 DEF ExecGuard
<1>26. t.at \in ExecAt
  BY <1>20 DEF ExecAt
<1>27. free' \in Nat /\ free' + Pages(t.new) = free + Pages(thread[p].new)
  BY <1>1, <1>3, <1>4, <1>17, <1>20
<1> QED
  BY <1>1, <1>4, <1>5, <1>20, <1>21, <1>24, <1>25, <1>26, <1>27, BuildStep

LEMMA ExecArgumentsStep ==
  ASSUME IInv, NEW p \in Process, ExecArguments(p)
  PROVE  IInv'
<1>1. PICK c : c = thread[p]
  OBVIOUS
<1>2. PICK t : t = [c EXCEPT !.at = "commit"]
  OBVIOUS
<1>3. c.at = "args" /\ UNCHANGED <<free, other, proc, panicked, image>>
  BY <1>1 DEF ExecArguments, At
<1>4. c \in Call /\ free \in Nat /\ panicked = FALSE
  BY <1>1, Here
<1>5. c.at \in ExecAt
  BY <1>3 DEF ExecAt
<1>6. ExecOK(c)
  BY <1>1, <1>5, ExecHere
<1>7. /\ c.program \in Program /\ \A v \in UserPages(c.new) : Low(v) \in c.new.low
      /\ BuiltOK(c)
  BY <1>3, <1>5, <1>6 DEF ExecOK
<1>8. /\ t.at = "commit" /\ t.sz = c.sz /\ t.new = c.new /\ t.argv = c.argv
      /\ t.before = c.before /\ t.program = c.program /\ t.oldsz = c.oldsz
  BY <1>2, <1>4 DEF Call
<1>9. t \in Call
  <2>1. "commit" \in Place
    BY DEF Place, CallAt, ExecAt
  <2> QED
    BY <1>2, <1>4, <2>1 DEF Call
<1>10. BuiltOK(t)
  BY <1>7, <1>8 DEF BuiltOK
<1>11. ExecOK(t) /\ t.at \in ExecAt
  BY <1>7, <1>8, <1>10 DEF ExecOK, ExecAt
<1>12. thread' = [thread EXCEPT ![p] = t]
  BY <1>1, <1>2 DEF ExecArguments
<1>13. free' \in Nat /\ panicked' = FALSE /\ free' + Pages(t.new) = free + Pages(thread[p].new)
  BY <1>1, <1>3, <1>4, <1>8
<1> QED
  BY <1>1, <1>3, <1>5, <1>8, <1>9, <1>11, <1>12, <1>13, BuildStep

(* The old memory is given back, and the arguments.                        *)
LEMMA ExecCommitStep ==
  ASSUME IInv, NEW p \in Process, ExecCommit(p)
  PROVE  IInv'
<1>1. PICK c : c = thread[p]
  OBVIOUS
<1>2. PICK r : r = State(proc[p].pt)
  OBVIOUS
<1>3. PICK s : s = ProcFreepagetable(r, proc[p].sz)
  OBVIOUS
<1>4. PICK m : m = [proc[p] EXCEPT !.pt = c.new, !.sz = c.sz]
  OBVIOUS
<1>5. PICK f : f = Image(c.program)
  OBVIOUS
<1>6. /\ c.at = "commit" /\ free' = s.free + c.argv /\ panicked' = (panicked \/ s.panic)
      /\ proc' = [proc EXCEPT ![p] = m]
      /\ thread' = [thread EXCEPT ![p] = User]
      /\ image' = [image EXCEPT ![p] = f]
      /\ other' = other
  BY <1>1, <1>2, <1>3, <1>4, <1>5 DEF ExecCommit, At
<1>7. /\ c \in Call /\ c.sz \in Nat /\ free \in Nat /\ panicked = FALSE /\ c.new \in Table
      /\ proc[p] \in Memory /\ proc[p].pt \in Table /\ proc[p].sz \in Nat /\ c.argv \in Nat
  BY <1>1, Here
<1>8. c.at \in ExecAt
  BY <1>6 DEF ExecAt
<1>9. ExecOK(c) /\ proc[p].trapframe /\ Sized(proc[p])
  BY <1>1, <1>8, ExecHere
<1>10. PICK g \in Program : g = c.program
  BY <1>8, <1>9 DEF ExecOK
<1>11. BuiltOK(c)
  BY <1>6, <1>8, <1>9 DEF ExecOK
<1>12. PICK n \in Nat : n = Guard(g) + StackPages /\ n - 1 = Guard(g) + USERSTACK /\ n < TRAPFRAME
  BY GuardIs, Sizes
<1>13. /\ c.sz = n * PGSIZE /\ c.new.leaf = f /\ f \in Leaves /\ DOMAIN f = 0..n - 1
       /\ PageUp(c.sz) = n
  <2>1. c.sz = n * PGSIZE /\ c.new.leaf = f /\ f = Image(g)
    BY <1>5, <1>10, <1>11, <1>12 DEF BuiltOK
  <2>2. f \in Leaves /\ DOMAIN f = 0..n - 1
    BY <1>12, <2>1, ImageIs
  <2> QED
    BY <2>1, <2>2, Rounded
<1>14. c.sz \in 0..MemSize
  <2>1. TRAPFRAME \in Nat /\ MemSize \in Nat
    BY Sizes
  <2>2. n * PGSIZE <= TRAPFRAME * PGSIZE
    BY <1>12, <2>1, Grows
  <2> QED
    BY <1>7, <1>13, <2>1, <2>2 DEF MemSize
<1>15. m \in Memory /\ m.pt = c.new /\ m.sz = c.sz /\ m.trapframe = proc[p].trapframe
  BY <1>4, <1>7, <1>14 DEF Memory
<1>16. \A v \in 0..n - 1 : v < n
  BY <1>12
<1>17. Sized(m) /\ Imaged(m, f)
  BY <1>13, <1>15, <1>16 DEF Sized, Imaged, UserPages
<1>18. User \in Call /\ User.at = "user" /\ User.new = NoTable /\ User.argv = 0
  BY UserIs
<1>19. OwnOK(m, User, f)
  BY <1>9, <1>15, <1>17, <1>18, UserOwn
<1>20. /\ r \in VmState /\ r.pt = proc[p].pt /\ r.panic = FALSE
       /\ Balance(r) = free + Pages(proc[p].pt)
  BY <1>2, <1>7, StateIs
<1>21. \A v \in UserPages(proc[p].pt) : v \in 0..PageUp(proc[p].sz) - 1
  <2>1. PageUp(proc[p].sz) \in Nat /\ UserPages(proc[p].pt) \subseteq Nat
    BY <1>7, Below, Counted DEF Page
  <2> QED
    BY <1>9, <2>1 DEF Sized
<1>22. Frees(r, s)
  BY <1>3, <1>20, <1>21, FreepagetableFrees
<1>23. s.panic = FALSE /\ s.free = free + Pages(proc[p].pt)
  BY <1>20, <1>22 DEF Frees
<1>24. /\ Has(proc[p], c) = Pages(proc[p].pt) + Pages(c.new) + c.argv + 1
       /\ Pages(proc[p].pt) \in Nat /\ Pages(c.new) \in Nat /\ c.argv \in Nat
  BY <1>7, <1>9, HasOf
<1>25. Has(m, User) = Pages(c.new) + 0 + 1
  BY <1>9, <1>15, <1>18, HasIs
<1>26. free' \in Nat /\ panicked' = FALSE /\ free' + Has(m, User) = free + Has(proc[p], thread[p])
  <2>1. panicked' = FALSE /\ free' = free + Pages(proc[p].pt) + c.argv
    BY <1>6, <1>7, <1>23
  <2>2. free' \in Nat
    BY <1>7, <1>24, <2>1
  <2>3. free' + Has(m, User) = free + Has(proc[p], c)
    BY <1>7, <1>24, <1>25, <2>1
  <2> QED
    BY <1>1, <2>1, <2>2, <2>3
<1>27. thread[p].at # "embryo"
  BY <1>1, <1>6
<1> QED
  BY <1>6, <1>13, <1>15, <1>18, <1>19, <1>26, <1>27, Settles

-----------------------------------------------------------------------------
(* fork                                                                    *)

LEMMA NoProcIs ==
  /\ NoProc \in Memory /\ NoProc.pt = NoTable /\ NoProc.sz = 0 /\ NoProc.trapframe = FALSE
  /\ Has(NoProc, Absent) = 0
<1>1. NoProc \in Memory /\ NoProc.pt = NoTable /\ NoProc.sz = 0 /\ NoProc.trapframe = FALSE
  BY EmptyTable, Sizes DEF NoProc, Memory
<1> QED
  BY <1>1, EmptyTable, UserIs DEF Has

(* Nobody but p copies its memory to c.                                    *)
CopiedBy(p, c) == \A q \in Process \ {p} : At(q, "copy") => thread[q].child # c

(* A step of p that makes, or ends, the child c it is to have.             *)
LEMMA ForkStep ==
  ASSUME IInv, NEW p \in Process, NEW c \in Process, p # c,
         NEW t \in Call, NEW m \in Memory, NEW u \in Call, NEW f \in Leaves,
         free' \in Nat, other' = other, panicked' = FALSE,
         proc' = [proc EXCEPT ![c] = m],
         thread' \in [Process -> Call], thread'[p] = t, thread'[c] = u,
         \A q \in Process \ {p, c} : thread'[q] = thread[q],
         image' = [image EXCEPT ![c] = f],
         t.new = NoTable, t.argv = 0, thread[p].new = NoTable, thread[p].argv = 0,
         free' + Has(m, u) = free + Has(proc[c], thread[c]),
         thread[p].at # "embryo",
         CopiedBy(p, c),
         OwnOK(proc[p], t, image[p]), OwnOK(m, u, f), u.at # "copy",
         t.at # "copy" \/ ForkOK(p)'
  PROVE  IInv'
<1>1. Typed /\ Conserved
  BY DEF IInv
<1>2. /\ free \in Nat /\ other \in 0..MaxOther /\ MaxOther \in Nat
      /\ proc \in [Process -> Memory] /\ thread \in [Process -> Call]
      /\ image \in [Process -> Leaves]
  BY <1>1, Sizes DEF Typed
<1>3. Typed'
  <2>1. proc' \in [Process -> Memory] /\ image' \in [Process -> Leaves]
    BY <1>2
  <2>2. thread' \in [Process -> Call]
    BY <1>2
  <2> QED
    BY <1>2, <2>1, <2>2 DEF Typed
<1>4. /\ proc'[p] = proc[p] /\ thread'[p] = t /\ image'[p] = image[p]
      /\ proc'[c] = m /\ thread'[c] = u /\ image'[c] = f
  BY <1>2
<1>5. ASSUME NEW q \in Process \ {p, c}
      PROVE  proc'[q] = proc[q] /\ thread'[q] = thread[q] /\ image'[q] = image[q]
  BY <1>2
<1>6. Conserved'
  <2>1. ASSUME NEW q \in Process \ {c}
        PROVE  Has(proc'[q], thread'[q]) = Has(proc[q], thread[q])
    <3>1. CASE q = p
      BY <1>4, <3>1 DEF Has
    <3>2. CASE q # p
      BY <1>5, <3>2
    <3> QED
      BY <3>1, <3>2
  <2>2. /\ Has(m, u) \in Nat /\ Has(proc[c], thread[c]) \in Nat
    BY <1>2, HasNat
  <2>3. free' + other' + Has(proc'[c], thread'[c]) = free + other + Has(proc[c], thread[c])
    BY <1>2, <1>4, <2>2
  <2> QED
    BY <1>1, <1>3, <2>1, <2>3, StillConserved
<1>7. ASSUME NEW q \in Process \ {p, c}, At(q, "copy")
      PROVE  thread[q].child \notin {p, c}
  <2>1. ForkOK(q)
    BY DEF IInv
  <2>2. At(thread[q].child, "embryo")
    BY <1>7, <2>1 DEF ForkOK
  <2> QED
    BY <1>7, <2>2 DEF At, CopiedBy
<1>8. \A q \in Process \ {p, c} :
           /\ proc'[q] = proc[q] /\ thread'[q] = thread[q] /\ image'[q] = image[q]
           /\ At(q, "copy") => thread[q].child \notin {p, c}
  BY <1>5, <1>7
<1>9. ForkOK(p)'
  <2>1. t.at # "copy" => ~ At(p, "copy")'
    BY <1>4 DEF At
  <2> QED
    BY <2>1 DEF ForkOK
<1>10. ForkOK(c)'
  BY <1>4 DEF At, ForkOK
<1>11. \A q \in {p, c} : OwnOK(proc'[q], thread'[q], image'[q]) /\ ForkOK(q)'
  BY <1>4, <1>9, <1>10
<1> QED
  BY <1>3, <1>6, <1>8, <1>11, Frame

LEMMA UserHere ==
  ASSUME IInv, NEW p \in Process, thread[p].at = "user"
  PROVE  /\ proc[p].trapframe /\ thread[p].new = NoTable /\ thread[p].argv = 0
         /\ Sized(proc[p]) /\ Imaged(proc[p], image[p])
BY Here, UserOwn

(* allocproc finds no page.                                                *)
LEMMA NoChildStep ==
  ASSUME IInv, NEW p \in Process, thread[p].at = "user",
         thread' = [thread EXCEPT ![p] = [User EXCEPT !.at = "failed", !.before = Before(p)]],
         UNCHANGED <<free, other, proc, panicked, image>>
  PROVE  IInv'
<1>1. PICK t : t = [User EXCEPT !.at = "failed", !.before = Before(p)]
  OBVIOUS
<1>2. /\ t \in Call /\ t.at = "failed" /\ t.new = NoTable /\ t.argv = 0
      /\ t.before = <<proc[p].pt.leaf, proc[p].sz>>
  BY <1>1, BeginsIs
<1>3. /\ proc[p] \in Memory /\ thread[p] \in Call /\ image[p] \in Leaves /\ free \in Nat
      /\ panicked = FALSE
  BY Here
<1>4. /\ proc[p].trapframe /\ thread[p].new = NoTable /\ thread[p].argv = 0
      /\ Sized(proc[p]) /\ Imaged(proc[p], image[p])
  BY UserHere
<1>5. OwnOK(proc[p], t, image[p])
  BY <1>2, <1>4, FailedOwn
<1>6. free' + Has(proc[p], t) = free + Has(proc[p], thread[p])
  BY <1>2, <1>4 DEF Has
<1>7. /\ proc' = [proc EXCEPT ![p] = proc[p]] /\ image' = [image EXCEPT ![p] = image[p]]
      /\ thread' = [thread EXCEPT ![p] = t] /\ other' = other /\ free' \in Nat /\ panicked' = FALSE
  BY <1>1, <1>3, Idle
<1> QED
  BY <1>2, <1>3, <1>5, <1>6, <1>7, Settles

LEMMA ForkBeginStep ==
  ASSUME IInv, NEW p \in Process, NEW c \in Process, Fork(p, c)
  PROVE  IInv'
<1>1. PICK r : r = [State(NoTable) EXCEPT !.free = @ - 1]
  OBVIOUS
<1>2. PICK s : s = ProcPagetable(r)
  OBVIOUS
<1>3. /\ thread[p].at = "user" /\ thread[c].at = "absent" /\ UNCHANGED <<other, image>>
      /\ IF free > 0 /\ s.ok
         THEN /\ Takes(s)
              /\ proc' = [proc EXCEPT ![c] = [pt |-> s.pt, sz |-> 0, trapframe |-> TRUE]]
              /\ thread' = [thread EXCEPT ![p] = [User EXCEPT !.at = "copy", !.child = c,
                                                     !.before = Before(p)],
                                          ![c].at = "embryo"]
         ELSE /\ free' = (IF free > 0 THEN s.free + 1 ELSE free)
              /\ thread' = [thread EXCEPT ![p] = [User EXCEPT !.at = "failed", !.before = Before(p)]]
              /\ UNCHANGED <<proc, panicked>>
  BY <1>1, <1>2 DEF Fork, At
<1>4. /\ free \in Nat /\ panicked = FALSE /\ thread[c] \in Call /\ thread \in [Process -> Call]
      /\ proc[p].pt \in Table /\ proc[p].pt.leaf \in Leaves /\ proc[p].sz \in Nat
      /\ image[p] \in Leaves /\ image[c] \in Leaves
      /\ OwnOK(proc[c], thread[c], image[c])
  BY Here, Counted
<1>5. CASE free = 0
  <2>1. ~ (free > 0)
    BY <1>5
  <2>2. /\ thread' = [thread EXCEPT ![p] = [User EXCEPT !.at = "failed", !.before = Before(p)]]
        /\ UNCHANGED <<free, other, proc, panicked, image>>
    BY <1>3, <2>1
  <2> QED
    BY <1>3, <2>2, NoChildStep
<1>6. CASE free > 0
  <2>1. free - 1 \in Nat
    BY <1>4, <1>6
  <2>2. r \in VmState /\ r.pt = NoTable /\ r.free = free - 1 /\ r.ok /\ r.panic = FALSE
    <3>1. PICK z : z = State(NoTable)
      OBVIOUS
    <3>2. z \in VmState /\ z.pt = NoTable /\ z.free = free /\ z.ok /\ z.panic = FALSE
      BY <1>4, <3>1, EmptyTable, StateIs
    <3>3. r = [z EXCEPT !.free = free - 1]
      BY <1>1, <3>1, <3>2
    <3> QED
      BY <2>1, <3>2, <3>3 DEF VmState
  <2>3. Makes(r, s)
    BY <1>2, <2>2, PagetableMakes
  <2>4. s \in VmState /\ s.panic = FALSE /\ Balance(s) = free - 1
    BY <2>2, <2>3 DEF Makes
  <2>5. s.pt \in Table /\ s.free \in Nat /\ s.ok \in BOOLEAN /\ Pages(s.pt) \in Nat
    BY <2>4, StateFields, Counted
  <2>6. CASE ~ s.ok
    <3>1. s.free + 1 = free
      BY <1>4, <2>2, <2>3, <2>6 DEF Makes
    <3>2. /\ thread' = [thread EXCEPT ![p] = [User EXCEPT !.at = "failed", !.before = Before(p)]]
          /\ UNCHANGED <<free, other, proc, panicked, image>>
      BY <1>3, <1>6, <2>6, <3>1
    <3> QED
      BY <1>3, <3>2, NoChildStep
  <2>7. CASE s.ok
    <3>1. Takes(s)
      BY <1>3, <1>6, <2>7
    <3>2. free' = s.free /\ free' \in Nat /\ panicked' = FALSE
      BY <2>4, <3>1, TakesIs
    <3>3. s.pt.leaf = NoPages
      BY <2>3, <2>7 DEF Makes
    <3>4. PICK m : m = [pt |-> s.pt, sz |-> 0, trapframe |-> TRUE]
      OBVIOUS
    <3>5. m \in Memory /\ m.pt = s.pt /\ m.sz = 0 /\ m.trapframe = TRUE
      BY <2>5, <3>4, Sizes DEF Memory
    <3>6. PICK t : t = [User EXCEPT !.at = "copy", !.child = c, !.before = Before(p)]
      OBVIOUS
    <3>7. PICK u : u = [thread[c] EXCEPT !.at = "embryo"]
      OBVIOUS
    <3>8. Before(p) = <<proc[p].pt.leaf, proc[p].sz>> /\ Before(p) \in Leaves \X Nat
      BY <1>4 DEF Before
    <3>9. /\ t \in Call /\ t.at = "copy" /\ t.child = c /\ t.new = NoTable /\ t.argv = 0
          /\ t.before = <<proc[p].pt.leaf, proc[p].sz>> /\ t.a = 0
      <4>1. User \in Call /\ User.new = NoTable /\ User.argv = 0 /\ User.a = 0
        BY UserIs DEF User
      <4>2. "copy" \in Place
        BY DEF Place, CallAt
      <4>3. /\ t \in Call /\ t.at = "copy" /\ t.child = c /\ t.new = User.new /\ t.argv = User.argv
            /\ t.before = Before(p) /\ t.a = User.a
        BY <3>6, <3>8, <4>1, <4>2 DEF Call
      <4> QED
        BY <3>8, <4>1, <4>3
    <3>10. /\ thread[c].new = NoTable /\ thread[c].argv = 0 /\ proc[c] = NoProc
      BY <1>3, <1>4, OutsideOwn
    <3>11. u \in Call /\ u.at = "embryo" /\ u.new = NoTable /\ u.argv = 0
      <4>1. "embryo" \in Place
        BY DEF Place
      <4> QED
        BY <1>4, <3>7, <3>10, <4>1 DEF Call
    <3>12. p # c
      BY <1>3
    <3>13. /\ proc' = [proc EXCEPT ![c] = m]
           /\ thread' \in [Process -> Call] /\ thread'[p] = t /\ thread'[c] = u
           /\ \A q \in Process \ {p, c} : thread'[q] = thread[q]
      <4>1. thread' = [thread EXCEPT ![p] = t, ![c].at = "embryo"]
        BY <1>3, <1>6, <2>7, <3>6, Zenon
      <4>2. [thread EXCEPT ![p] = t][c] = thread[c]
        BY <1>4, <3>12
      <4>3. thread' = [thread EXCEPT ![p] = t, ![c] = u]
        BY <3>7, <4>1, <4>2
      <4>4. proc' = [proc EXCEPT ![c] = m]
        BY <1>3, <1>6, <2>7, <3>4
      <4>5. thread' \in [Process -> Call]
        BY <1>4, <3>9, <3>11, <4>3
      <4>6. thread'[p] = t /\ thread'[c] = u /\ \A q \in Process \ {p, c} : thread'[q] = thread[q]
        BY <1>4, <3>12, <4>3
      <4> QED
        BY <4>4, <4>5, <4>6
    <3>14. /\ proc[p].trapframe /\ thread[p].new = NoTable /\ thread[p].argv = 0
           /\ Sized(proc[p]) /\ Imaged(proc[p], image[p])
      BY <1>3, UserHere
    <3>15. OwnOK(proc[p], t, image[p])
      BY <3>9, <3>14, CopyOwn
    <3>16. OwnOK(m, u, image[c])
      BY <3>5, <3>11, OutsideOwn
    <3>17. free' + Has(m, u) = free + Has(proc[c], thread[c])
      <4>1. Has(m, u) = Pages(s.pt) + 0 + 1
        BY <3>5, <3>11, HasIs
      <4>2. Has(proc[c], thread[c]) = 0
        BY <3>10, NoProcIs, UserIs DEF Has
      <4>3. s.free + Pages(s.pt) = free - 1
        BY <2>4 DEF Balance
      <4> QED
        BY <1>4, <2>5, <3>2, <4>1, <4>2, <4>3
    <3>18. ASSUME NEW q \in Process \ {p}, At(q, "copy")
           PROVE  thread[q].child # c
      <4>1. ForkOK(q)
        BY DEF IInv
      <4>2. At(thread[q].child, "embryo")
        BY <3>18, <4>1 DEF ForkOK
      <4> QED
        BY <1>3, <4>2 DEF At
    <3>19. proc'[p] = proc[p] /\ thread'[p] = t /\ proc'[c] = m /\ thread'[c] = u
      BY <1>4, <3>12, <3>13, Here
    <3>20. ForkOK(p)'
      <4>1. PICK leaf : leaf = proc[p].pt.leaf
        OBVIOUS
      <4>2. {v \in DOMAIN leaf : v < 0} = {}
        BY <1>4, <4>1, Leaf DEF Page
      <4>3. Cut(leaf, 0) = NoPages
        BY <4>2 DEF Cut, Restrict, NoPages
      <4>4. 0 <= PageUp(proc[p].sz)
        <5>1. PageUp(proc[p].sz) \in Nat
          BY <1>4, Below
        <5> QED
          BY <5>1
      <4>5. ASSUME NEW q \in Process, At(q, "copy")', thread'[q].child = c
            PROVE  q = p
        <5>1. CASE q = c
          BY <3>11, <3>19, <4>5, <5>1 DEF At
        <5>2. CASE q # c /\ q # p
          <6>1. thread'[q] = thread[q]
            BY <1>4, <3>13, <5>2
          <6> QED
            BY <3>18, <4>5, <5>2, <6>1 DEF At
        <5> QED
          BY <5>1, <5>2
      <4>6. /\ At(c, "embryo")' /\ proc'[c].sz = 0 /\ thread'[p].child = c /\ thread'[p].a = 0
            /\ thread'[p].a <= PageUp(proc'[p].sz)
        BY <3>5, <3>9, <3>11, <3>19, <4>4 DEF At
      <4>7. proc'[c].pt.leaf = Cut(proc'[p].pt.leaf, thread'[p].a)
        BY <3>3, <3>5, <3>19, <4>1, <4>3, <4>6
      <4> QED
        BY <4>5, <4>6, <4>7 DEF ForkOK
    <3>21. image' = [image EXCEPT ![c] = image[c]] /\ other' = other
      BY <1>3, Idle
    <3>22. thread[p].at # "embryo" /\ u.at # "copy"
      BY <1>3, <3>11
    <3>23. CopiedBy(p, c)
      BY <3>18 DEF CopiedBy
    <3> QED
      BY <1>4, <3>2, <3>5, <3>9, <3>11, <3>12, <3>13, <3>14, <3>15, <3>16, <3>17,
         <3>20, <3>21, <3>22, <3>23, ForkStep
  <2> QED
    BY <2>5, <2>6, <2>7
<1> QED
  BY <1>4, <1>5, <1>6

(* The child that a process is copying its memory to.                      *)
LEMMA CopyHere ==
  ASSUME IInv, NEW p \in Process, thread[p].at = "copy"
  PROVE  LET c == thread[p].child
             leaf == proc[p].pt.leaf IN
         /\ c \in Process /\ p # c /\ thread[c].at = "embryo" /\ proc[c].sz = 0
         /\ proc[c].trapframe /\ thread[c].new = NoTable /\ thread[c].argv = 0
         /\ thread[p].a <= PageUp(proc[p].sz)
         /\ proc[c].pt.leaf = Cut(leaf, thread[p].a)
         /\ CopiedBy(p, c)
         /\ proc[p].trapframe /\ thread[p].new = NoTable /\ thread[p].argv = 0
         /\ thread[p].before = <<leaf, proc[p].sz>>
         /\ Sized(proc[p]) /\ Imaged(proc[p], image[p])
<1>1. PICK c : c = thread[p].child
  OBVIOUS
<1>2. PICK leaf : leaf = proc[p].pt.leaf
  OBVIOUS
<1>3. ForkOK(p) /\ OwnOK(proc[p], thread[p], image[p])
  BY Here
<1>4. /\ c \in Process /\ thread[c].at = "embryo" /\ proc[c].sz = 0
      /\ thread[p].a <= PageUp(proc[p].sz)
      /\ proc[c].pt.leaf = Cut(leaf, thread[p].a)
      /\ \A q \in Process : At(q, "copy") /\ thread[q].child = c => q = p
  BY <1>1, <1>2, <1>3 DEF ForkOK, At
<1>5. CopiedBy(p, c)
  BY <1>4 DEF CopiedBy
<1>6. OwnOK(proc[c], thread[c], image[c])
  BY <1>4, Here
<1>7. proc[c].trapframe /\ thread[c].new = NoTable /\ thread[c].argv = 0
  BY <1>4, <1>6, OutsideOwn
<1>8. /\ proc[p].trapframe /\ thread[p].new = NoTable /\ thread[p].argv = 0
      /\ thread[p].before = <<leaf, proc[p].sz>>
      /\ Sized(proc[p]) /\ Imaged(proc[p], image[p])
  BY <1>2, <1>3, CopyOwn
<1>9. p # c
  BY <1>4
<1> QED
  BY <1>1, <1>2, <1>4, <1>5, <1>7, <1>8, <1>9

(* p goes on with its next page.                                           *)
LEMMA StillCopies ==
  ASSUME IInv, NEW p \in Process, thread[p].at = "copy",
         NEW c, c = thread[p].child, NEW leaf, leaf = proc[p].pt.leaf,
         NEW t, t.at = "copy", t.child = c, t.a = thread[p].a + 1, t.a <= PageUp(proc[p].sz),
         thread'[p] = t, \A q \in Process \ {p} : thread'[q] = thread[q],
         proc'[p] = proc[p], proc'[c].sz = 0,
         proc'[c].pt.leaf = Cut(leaf, t.a)
  PROVE  ForkOK(p)'
<1>1. c \in Process /\ p # c /\ thread[c].at = "embryo" /\ CopiedBy(p, c)
  BY CopyHere
<1>2. ASSUME NEW q \in Process, At(q, "copy")', thread'[q].child = c
      PROVE  q = p
  <2>1. CASE q # p
    <3>1. thread'[q] = thread[q]
      BY <2>1
    <3> QED
      BY <1>1, <1>2, <2>1, <3>1 DEF At, CopiedBy
  <2> QED
    BY <2>1
<1>3. At(c, "embryo")' /\ thread'[p].child = c /\ thread'[p].a = t.a
  BY <1>1 DEF At
<1>4. thread'[p].a <= PageUp(proc'[p].sz)
  BY <1>3
<1>5. proc'[c].pt.leaf = Cut(proc'[p].pt.leaf, thread'[p].a)
  BY <1>3
<1> QED
  BY <1>1, <1>2, <1>3, <1>4, <1>5 DEF ForkOK

(* The pages below a, and page a.                                          *)
LEMMA CutNext ==
  ASSUME NEW f \in Leaves, NEW a \in Nat
  PROVE  Cut(f, a + 1) = IF a \in DOMAIN f THEN WithPage(Cut(f, a), a, f[a]) ELSE Cut(f, a)
<1>1. PICK S : S = {v \in DOMAIN f : v < a}
  OBVIOUS
<1>2. PICK T : T = {v \in DOMAIN f : v < a + 1}
  OBVIOUS
<1>3. DOMAIN f \subseteq Nat
  BY Leaf DEF Page
<1>4. CASE a \in DOMAIN f
  <2>1. T = S \union {a} /\ a \notin S
    BY <1>1, <1>2, <1>3, <1>4
  <2>2. PICK g : g = [v \in S |-> f[v]]
    OBVIOUS
  <2>3. PICK h : h = [v \in T |-> f[v]]
    OBVIOUS
  <2>4. h = [w \in DOMAIN g \union {a} |-> IF w = a THEN f[a] ELSE g[w]]
    BY <2>1, <2>2, <2>3
  <2>5. h = WithPage(g, a, f[a])
    BY <2>4 DEF WithPage
  <2> QED
    BY <1>1, <1>2, <1>4, <2>2, <2>3, <2>5 DEF Cut, Restrict
<1>5. CASE a \notin DOMAIN f
  <2>1. T = S
    BY <1>1, <1>2, <1>3, <1>5
  <2> QED
    BY <1>1, <1>2, <1>5, <2>1 DEF Cut
<1> QED
  BY <1>4, <1>5

LEMMA ForkHoleStep ==
  ASSUME IInv, NEW p \in Process, thread[p].at = "copy", thread[p].a < PageUp(proc[p].sz),
         thread[p].a \notin UserPages(proc[p].pt),
         thread' = [thread EXCEPT ![p].a = @ + 1],
         UNCHANGED <<free, other, proc, panicked, image>>
  PROVE  IInv'
<1>1. PICK c : c = thread[p].child
  OBVIOUS
<1>2. PICK leaf : leaf = proc[p].pt.leaf
  OBVIOUS
<1>3. PICK t : t = [thread[p] EXCEPT !.a = @ + 1]
  OBVIOUS
<1>4. /\ thread[p] \in Call /\ thread[p].a \in Nat /\ leaf \in Leaves /\ proc[p] \in Memory
      /\ image[p] \in Leaves /\ free \in Nat /\ panicked = FALSE /\ proc[p].sz \in Nat
      /\ thread \in [Process -> Call]
  BY <1>2, Here, Counted
<1>5. /\ t \in Call /\ t.a = thread[p].a + 1 /\ t.at = "copy" /\ t.new = thread[p].new
      /\ t.argv = thread[p].argv /\ t.before = thread[p].before /\ t.child = c
  BY <1>1, <1>3, <1>4, NextPage
<1>6. /\ proc[c].sz = 0 /\ proc[p].trapframe /\ thread[p].new = NoTable /\ thread[p].argv = 0
      /\ thread[p].before = <<leaf, proc[p].sz>>
      /\ Sized(proc[p]) /\ Imaged(proc[p], image[p])
      /\ proc[c].pt.leaf = Cut(leaf, thread[p].a)
  BY <1>1, <1>2, CopyHere
<1>7. OwnOK(proc[p], t, image[p])
  BY <1>2, <1>5, <1>6, CopyOwn
<1>8. free' + Has(proc[p], t) = free + Has(proc[p], thread[p])
  BY <1>5 DEF Has
<1>9. thread' = [thread EXCEPT ![p] = t]
  BY <1>3
<1>10. thread'[p] = t /\ \A q \in Process \ {p} : thread'[q] = thread[q]
  BY <1>4, <1>9
<1>11. t.a <= PageUp(proc[p].sz)
  <2>1. PageUp(proc[p].sz) \in Nat
    BY <1>4, Below
  <2> QED
    BY <1>4, <1>5, <2>1
<1>12. proc[c].pt.leaf = Cut(leaf, t.a)
  <2>1. thread[p].a \notin DOMAIN leaf
    BY <1>2 DEF UserPages
  <2> QED
    BY <1>4, <1>5, <1>6, <2>1, CutNext
<1>13. proc'[c].sz = 0 /\ proc'[p] = proc[p] /\ proc'[c] = proc[c]
  BY <1>6
<1>14. ForkOK(p)'
  BY <1>1, <1>2, <1>5, <1>10, <1>11, <1>12, <1>13, StillCopies
<1>15. /\ proc' = [proc EXCEPT ![p] = proc[p]] /\ image' = [image EXCEPT ![p] = image[p]]
       /\ other' = other /\ free' \in Nat /\ panicked' = FALSE
  BY <1>4, Idle
<1> QED
  BY <1>4, <1>5, <1>7, <1>8, <1>9, <1>14, <1>15, Settles

LEMMA AddsIs ==
  ASSUME NEW r, NEW s, NEW v, NEW x, Adds(r, s, v, x)
  PROVE  s \in VmState /\ s.panic = r.panic /\ Balance(s) = Balance(r)
BY DEF Adds

LEMMA CopyAt ==
  ASSUME NEW p \in Process, ForkCopy(p)
  PROVE  thread[p].at = "copy"
BY DEF ForkCopy, At

LEMMA GivenBack ==
  ASSUME NEW f \in Nat, NEW n \in Nat, NEW g, g = f + n + 1
  PROVE  g \in Nat /\ g + 0 = f + (n + 0 + 1)
OBVIOUS

(* What both ways of uvmcopy with a page begin with.                       *)
LEMMA ForkPageAdds ==
  ASSUME IInv, NEW p \in Process, thread[p].at = "copy",
         thread[p].a \in UserPages(proc[p].pt),
         NEW c, c = thread[p].child,
         NEW s, s = NewPage(State(proc[c].pt), thread[p].a, PteFlags(proc[p].pt, thread[p].a))
  PROVE  /\ Adds(State(proc[c].pt), s, thread[p].a, proc[p].pt.leaf[thread[p].a])
         /\ s \in VmState /\ s.panic = FALSE /\ Balance(s) = free + Pages(proc[c].pt)
         /\ State(proc[c].pt).pt = proc[c].pt
         /\ thread[p].a \in DOMAIN proc[p].pt.leaf
         /\ \A v \in UserPages(proc[c].pt) : v \in 0..thread[p].a - 1
<1>1. PICK a : a = thread[p].a
  OBVIOUS
<1>2. PICK leaf : leaf = proc[p].pt.leaf
  OBVIOUS
<1>3. c \in Process /\ proc[c].pt.leaf = Cut(leaf, a)
  BY <1>1, <1>2, CopyHere
<1>4. a \in Nat /\ leaf \in Leaves /\ proc[c].pt \in Table /\ free \in Nat
  BY <1>1, <1>2, <1>3, Here, Counted
<1>5. a \in DOMAIN leaf
  BY <1>1, <1>2 DEF UserPages
<1>6. DOMAIN leaf \subseteq Page /\ leaf[a] \in Flags
  BY <1>4, <1>5, Leaf
<1>7. UserPages(proc[c].pt) = {v \in DOMAIN leaf : v < a}
  BY <1>3 DEF UserPages, Cut, Restrict
<1>8. \A v \in UserPages(proc[c].pt) : v \in 0..a - 1
  BY <1>4, <1>6, <1>7 DEF Page
<1>9. a \notin UserPages(proc[c].pt)
  BY <1>4, <1>8
<1>10. PICK r : r = State(proc[c].pt)
  OBVIOUS
<1>11. /\ r \in VmState /\ r.pt = proc[c].pt /\ r.ok /\ r.panic = FALSE
       /\ Balance(r) = free + Pages(proc[c].pt)
  BY <1>4, <1>10, StateIs
<1>12. s = NewPage(r, a, leaf[a])
  BY <1>1, <1>2, <1>10 DEF PteFlags
<1>13. Adds(r, s, a, leaf[a])
  BY <1>5, <1>6, <1>9, <1>11, <1>12, NewPageAdds
<1>14. s \in VmState /\ s.panic = FALSE /\ Balance(s) = free + Pages(proc[c].pt)
  <2>1. s \in VmState /\ s.panic = r.panic /\ Balance(s) = Balance(r)
    BY <1>13, AddsIs, Zenon
  <2> QED
    BY <1>11, <2>1
<1> QED
  BY <1>1, <1>2, <1>5, <1>8, <1>10, <1>11, <1>13, <1>14

LEMMA ForkPageStep ==
  ASSUME IInv, NEW p \in Process, ForkCopy(p), thread[p].a \in UserPages(proc[p].pt),
         NEW c, c = thread[p].child,
         NEW s, s = NewPage(State(proc[c].pt), thread[p].a, PteFlags(proc[p].pt, thread[p].a)),
         s.ok
  PROVE  IInv'
<1>0. /\ thread[p].at = "copy" /\ thread[p].a * PGSIZE < proc[p].sz
      /\ Takes(s)
      /\ proc' = [proc EXCEPT ![c].pt = s.pt]
      /\ thread' = [thread EXCEPT ![p].a = @ + 1]
      /\ UNCHANGED <<other, image>>
  BY DEF ForkCopy, At
<1>1. PICK leaf : leaf = proc[p].pt.leaf
  OBVIOUS
<1>2. PICK t : t = [thread[p] EXCEPT !.a = @ + 1]
  OBVIOUS
<1>3. PICK m : m = [proc[c] EXCEPT !.pt = s.pt]
  OBVIOUS
<1>4. /\ c \in Process /\ p # c /\ thread[c].at = "embryo" /\ proc[c].sz = 0
      /\ proc[c].trapframe /\ thread[c].new = NoTable /\ thread[c].argv = 0
      /\ proc[c].pt.leaf = Cut(leaf, thread[p].a) /\ CopiedBy(p, c)
      /\ proc[p].trapframe /\ thread[p].new = NoTable /\ thread[p].argv = 0
      /\ thread[p].before = <<leaf, proc[p].sz>>
      /\ Sized(proc[p]) /\ Imaged(proc[p], image[p])
  BY <1>0, <1>1, CopyHere
<1>5. /\ thread[p] \in Call /\ thread[p].a \in Nat /\ leaf \in Leaves /\ free \in Nat
      /\ proc[p].sz \in Nat /\ thread \in [Process -> Call] /\ proc \in [Process -> Memory]
  BY <1>1, Here, Counted
<1>6. /\ thread[c] \in Call /\ image[c] \in Leaves /\ proc[c] \in Memory /\ proc[c].pt \in Table
  BY <1>4, Here
<1>7. /\ t \in Call /\ t.a = thread[p].a + 1 /\ t.at = "copy" /\ t.new = thread[p].new
      /\ t.argv = thread[p].argv /\ t.before = thread[p].before /\ t.child = c
  BY <1>0, <1>2, <1>5, NextPage
<1>8. OwnOK(proc[p], t, image[p])
  BY <1>1, <1>4, <1>7, CopyOwn
<1>9. /\ Adds(State(proc[c].pt), s, thread[p].a, leaf[thread[p].a])
      /\ s \in VmState /\ s.panic = FALSE /\ Balance(s) = free + Pages(proc[c].pt)
      /\ State(proc[c].pt).pt = proc[c].pt
      /\ thread[p].a \in DOMAIN leaf
  <2>1. thread[p].at = "copy"
    BY CopyAt, Zenon
  <2>2. /\ Adds(State(proc[c].pt), s, thread[p].a, proc[p].pt.leaf[thread[p].a])
        /\ s \in VmState /\ s.panic = FALSE /\ Balance(s) = free + Pages(proc[c].pt)
        /\ State(proc[c].pt).pt = proc[c].pt
        /\ thread[p].a \in DOMAIN proc[p].pt.leaf
    BY <2>1, ForkPageAdds, Zenon
  <2> QED
    BY <1>1, <2>2, Zenon
<1>10. s.pt.leaf = WithPage(Cut(leaf, thread[p].a), thread[p].a, leaf[thread[p].a])
  BY <1>4, <1>9 DEF Adds
<1>11. s.pt.leaf = Cut(leaf, t.a)
  BY <1>5, <1>7, <1>9, <1>10, CutNext
<1>12. s.pt \in Table /\ s.free \in Nat /\ Pages(s.pt) \in Nat
  BY <1>9, StateFields, Counted
<1>13. m \in Memory /\ m.pt = s.pt /\ m.sz = 0 /\ m.trapframe
  BY <1>3, <1>4, <1>6, <1>12 DEF Memory
<1>14. OwnOK(m, thread[c], image[c])
  BY <1>4, <1>13, OutsideOwn
<1>15. free' = s.free /\ free' \in Nat /\ panicked' = FALSE
  BY <1>0, <1>9, TakesIs
<1>16. free' + Has(m, thread[c]) = free + Has(proc[c], thread[c])
  <2>1. /\ Has(m, thread[c]) = Pages(s.pt) + 0 + 1
        /\ Has(proc[c], thread[c]) = Pages(proc[c].pt) + 0 + 1 /\ Pages(proc[c].pt) \in Nat
    BY <1>4, <1>6, <1>13, HasIs
  <2>2. s.free + Pages(s.pt) = free + Pages(proc[c].pt)
    BY <1>9 DEF Balance
  <2> QED
    BY <1>5, <1>12, <1>15, <2>1, <2>2
<1>17. proc' = [proc EXCEPT ![c] = m] /\ proc'[p] = proc[p] /\ proc'[c] = m
  BY <1>0, <1>3, <1>4, <1>5
<1>18. /\ thread' \in [Process -> Call] /\ thread'[p] = t
       /\ \A q \in Process \ {p} : thread'[q] = thread[q]
  <2>1. thread' = [thread EXCEPT ![p] = t]
    BY <1>0, <1>2
  <2> QED
    BY <1>5, <1>7, <2>1
<1>19. t.a <= PageUp(proc[p].sz)
  <2>1. PageUp(proc[p].sz) \in Nat /\ thread[p].a < PageUp(proc[p].sz)
    BY <1>0, <1>5, Below
  <2> QED
    BY <1>5, <1>7, <2>1
<1>20. proc'[c].sz = 0 /\ proc'[c].pt.leaf = Cut(leaf, t.a)
  <2>1. proc'[c] = m
    BY <1>17, Zenon
  <2> QED
    BY <1>11, <1>13, <2>1, Zenon
<1>21. ForkOK(p)'
  <2>1. thread[p].at = "copy" /\ c = thread[p].child /\ leaf = proc[p].pt.leaf
    BY <1>0, <1>1, Zenon
  <2>2. t.at = "copy" /\ t.child = c /\ t.a = thread[p].a + 1
    BY <1>7, Zenon
  <2>3. thread'[p] = t /\ \A q \in Process \ {p} : thread'[q] = thread[q]
    BY <1>18, Zenon
  <2>4. proc'[p] = proc[p]
    BY <1>17, Zenon
  <2> QED
    BY <1>19, <1>20, <2>1, <2>2, <2>3, <2>4, StillCopies, Zenon
<1>22. PICK u \in Call : u = thread[c]
  BY <1>6
<1>23. /\ thread' \in [Process -> Call] /\ thread'[p] = t /\ thread'[c] = u
       /\ \A q \in Process \ {p, c} : thread'[q] = thread[q]
  BY <1>4, <1>18, <1>22
<1>24. image' = [image EXCEPT ![c] = image[c]] /\ other' = other
  BY <1>0, <1>4, Idle
<1>25. /\ OwnOK(m, u, image[c]) /\ free' + Has(m, u) = free + Has(proc[c], thread[c])
       /\ u.at # "copy"
  BY <1>4, <1>14, <1>16, <1>22
<1>26. /\ t.new = NoTable /\ t.argv = 0 /\ thread[p].at # "embryo"
       /\ c \in Process /\ p # c /\ CopiedBy(p, c)
       /\ thread[p].new = NoTable /\ thread[p].argv = 0
  <2>1. thread[p].at = "copy"
    BY CopyAt, Zenon
  <2>2. "copy" # "embryo"
    BY Zenon
  <2> QED
    BY <1>4, <1>7, <2>1, <2>2, Zenon
<1> QED
  BY <1>6, <1>7, <1>8, <1>13, <1>15, <1>17, <1>21, <1>23, <1>24, <1>25, <1>26, ForkStep

(* uvmcopy cannot go on: the child ends.                                   *)
LEMMA ForkBackStep ==
  ASSUME IInv, NEW p \in Process, thread[p].at = "copy",
         thread[p].a \in UserPages(proc[p].pt),
         NEW c, c = thread[p].child,
         NEW s, s = NewPage(State(proc[c].pt), thread[p].a, PteFlags(proc[p].pt, thread[p].a)),
         ~ s.ok,
         NEW b, b = Freeproc(UndoUvmcopy(s, thread[p].a), proc[c].sz), Takes(b),
         proc' = [proc EXCEPT ![c] = NoProc],
         thread' = [Fails(p) EXCEPT ![c] = Absent],
         UNCHANGED <<other, image>>
  PROVE  IInv'
<1>1. PICK t \in Call : /\ t.at = "failed" /\ t.new = NoTable /\ t.before = thread[p].before
                        /\ t.argv = thread[p].argv /\ Fails(p) = [thread EXCEPT ![p] = t]
  BY FailsIs
<1>2. PICK leaf : leaf = proc[p].pt.leaf
  BY Zenon
<1>3. /\ c \in Process /\ p # c /\ thread[c].at = "embryo" /\ proc[c].sz = 0
      /\ proc[c].trapframe /\ thread[c].new = NoTable /\ thread[c].argv = 0
      /\ CopiedBy(p, c)
      /\ proc[p].trapframe /\ thread[p].new = NoTable /\ thread[p].argv = 0
      /\ thread[p].before = <<leaf, proc[p].sz>>
      /\ Sized(proc[p]) /\ Imaged(proc[p], image[p])
  BY <1>2, CopyHere
<1>4. free \in Nat /\ thread \in [Process -> Call]
  BY Here
<1>5. thread[c] \in Call /\ image[c] \in Leaves /\ proc[c] \in Memory
  BY <1>3, Here
<1>6. /\ Adds(State(proc[c].pt), s, thread[p].a, leaf[thread[p].a])
      /\ s \in VmState /\ s.panic = FALSE /\ Balance(s) = free + Pages(proc[c].pt)
      /\ State(proc[c].pt).pt = proc[c].pt
  BY <1>2, ForkPageAdds, Zenon
<1>20. UserPages(proc[c].pt) \ (0..thread[p].a - 1) = {}
  BY ForkPageAdds, Zenon
<1>7. UserPages(s.pt) = UserPages(proc[c].pt)
  BY <1>6, Zenon DEF Adds, UserPages
<1>8. PICK z : z = Uvmunmap(s, 0..thread[p].a - 1)
  BY Zenon
<1>9. z \in VmState /\ z.panic = FALSE /\ Balance(z) = Balance(s) /\ UserPages(z.pt) = {}
  <2>1. /\ z \in VmState /\ z.panic = s.panic /\ Balance(z) = Balance(s)
        /\ UserPages(z.pt) = UserPages(s.pt) \ (0..thread[p].a - 1)
    <3>1. s \in VmState
      BY <1>6, Zenon
    <3>2. \A S : \A y : y = Uvmunmap(s, S) =>
            /\ y \in VmState /\ y.panic = s.panic /\ Balance(y) = Balance(s)
            /\ UserPages(y.pt) = UserPages(s.pt) \ S
      BY <3>1, Unmapped, Zenon
    <3> QED
      BY <1>8, <3>2, Zenon
  <2>2. UserPages(z.pt) = {}
    BY <1>7, <1>20, <2>1, Zenon
  <2> QED
    <3>1. s.panic = FALSE
      BY <1>6, Zenon
    <3> QED
      BY <2>1, <2>2, <3>1, Zenon
<1>10. b.free = Balance(z) + 1 /\ b.panic = FALSE
  <2>1. b = Freeproc(z, proc[c].sz)
    BY <1>8, Zenon DEF UndoUvmcopy
  <2>2. z \in VmState /\ z.panic = FALSE /\ \A v \in UserPages(z.pt) : v \in 0..PageUp(proc[c].sz) - 1
    BY <1>9, Zenon
  <2>3. LET y == Freeproc(z, proc[c].sz) IN y.free = Balance(z) + 1 /\ y.panic = z.panic
    BY <2>2, FreeprocFrees, Zenon
  <2> QED
    BY <2>1, <2>2, <2>3
<1>11. free' = Balance(s) + 1 /\ panicked' = FALSE
  BY <1>9, <1>10, Here DEF Takes
<1>12. /\ Has(proc[c], thread[c]) = Pages(proc[c].pt) + 0 + 1 /\ Pages(proc[c].pt) \in Nat
       /\ Has(NoProc, Absent) = 0
  BY <1>3, <1>5, HasIs, NoProcIs
<1>13. free' \in Nat /\ free' + Has(NoProc, Absent) = free + Has(proc[c], thread[c])
  <2>1. Balance(s) = free + Pages(proc[c].pt)
    BY <1>6, Zenon
  <2>2. free \in Nat /\ Pages(proc[c].pt) \in Nat /\ free' = free + Pages(proc[c].pt) + 1
    BY <1>4, <1>11, <1>12, <2>1, Zenon
  <2>3. free' \in Nat /\ free' + 0 = free + (Pages(proc[c].pt) + 0 + 1)
    BY <2>2, GivenBack, Zenon
  <2> QED
    BY <1>12, <2>3, Zenon
<1>14. OwnOK(proc[p], t, image[p])
  BY <1>1, <1>2, <1>3, FailedOwn
<1>15. /\ Absent \in Call /\ Absent.at = "absent" /\ Absent.new = NoTable /\ Absent.argv = 0
       /\ NoProc \in Memory
  BY UserIs, NoProcIs
<1>16. OwnOK(NoProc, Absent, image[c])
  BY <1>15, OutsideOwn
<1>17. /\ thread' \in [Process -> Call] /\ thread'[p] = t /\ thread'[c] = Absent
       /\ \A q \in Process \ {p, c} : thread'[q] = thread[q]
  <2>1. PICK f : f = Fails(p)
    OBVIOUS
  <2>2. /\ f \in [Process -> Call] /\ f[p] = t
        /\ \A q \in Process \ {p} : f[q] = thread[q]
    BY <1>1, <1>4, <2>1
  <2>3. PICK u \in Call : u = Absent
    BY <1>15, Zenon
  <2>4. thread' = [f EXCEPT ![c] = u]
    BY <2>1, <2>3, Zenon
  <2>5. c \in Process /\ c # p
    BY <1>3, Zenon
  <2>6. /\ thread' \in [Process -> Call] /\ thread'[c] = u
        /\ \A q \in Process \ {c} : thread'[q] = f[q]
    BY <2>2, <2>4, <2>5
  <2> QED
    BY <2>2, <2>3, <2>5, <2>6, Zenon
<1>18. image' = [image EXCEPT ![c] = image[c]] /\ other' = other
  BY <1>3, Idle
<1>19. /\ t.new = NoTable /\ t.argv = 0 /\ thread[p].at # "embryo"
       /\ Absent.at # "copy" /\ t.at # "copy"
       /\ c \in Process /\ p # c /\ CopiedBy(p, c)
       /\ thread[p].new = NoTable /\ thread[p].argv = 0
  BY <1>1, <1>3, <1>15
<1> QED
  BY <1>5, <1>11, <1>13, <1>14, <1>15, <1>16, <1>17, <1>18, <1>19, ForkStep

LEMMA ForkCopyStep ==
  ASSUME IInv, NEW p \in Process, ForkCopy(p)
  PROVE  IInv'
<1>1. PICK a : a = thread[p].a
  OBVIOUS
<1>2. PICK c : c = thread[p].child
  OBVIOUS
<1>3. PICK s : s = NewPage(State(proc[c].pt), a, PteFlags(proc[p].pt, a))
  OBVIOUS
<1>4. PICK b : b = Freeproc(UndoUvmcopy(s, a), proc[c].sz)
  BY Zenon
<1>5. /\ thread[p].at = "copy" /\ a * PGSIZE < proc[p].sz /\ UNCHANGED <<other, image>>
      /\ \/ /\ a \notin UserPages(proc[p].pt)
            /\ thread' = [thread EXCEPT ![p].a = @ + 1]
            /\ UNCHANGED <<free, proc, panicked>>
         \/ /\ a \in UserPages(proc[p].pt) /\ s.ok
            /\ Takes(s)
            /\ proc' = [proc EXCEPT ![c].pt = s.pt]
            /\ thread' = [thread EXCEPT ![p].a = @ + 1]
         \/ /\ a \in UserPages(proc[p].pt) /\ ~ s.ok
            /\ Takes(b)
            /\ proc' = [proc EXCEPT ![c] = NoProc]
            /\ thread' = [Fails(p) EXCEPT ![c] = Absent]
  BY <1>1, <1>2, <1>3, <1>4 DEF ForkCopy, At
<1>6. a < PageUp(proc[p].sz)
  <2>1. a \in Nat /\ proc[p].sz \in Nat
    BY <1>1, Here
  <2> QED
    BY <1>5, <2>1, Below
<1>7. CASE a \notin UserPages(proc[p].pt)
  <2>1. /\ thread' = [thread EXCEPT ![p].a = @ + 1]
        /\ UNCHANGED <<free, other, proc, panicked, image>>
    BY <1>5, <1>7
  <2> QED
    BY <1>1, <1>5, <1>6, <1>7, <2>1, ForkHoleStep
<1>8. CASE a \in UserPages(proc[p].pt) /\ s.ok
  BY <1>1, <1>2, <1>3, <1>8, ForkPageStep
<1>9. CASE a \in UserPages(proc[p].pt) /\ ~ s.ok
  BY <1>1, <1>2, <1>3, <1>4, <1>5, <1>9, ForkBackStep
<1> QED
  BY <1>5, <1>7, <1>8, <1>9

(* The child has all of its parent's memory.                               *)
LEMMA ForkDoneStep ==
  ASSUME IInv, NEW p \in Process, ForkDone(p)
  PROVE  IInv'
<1>1. PICK c : c = thread[p].child
  OBVIOUS
<1>2. PICK leaf : leaf = proc[p].pt.leaf
  OBVIOUS
<1>3. PICK m : m = [proc[c] EXCEPT !.sz = proc[p].sz]
  OBVIOUS
<1>4. /\ thread[p].at = "copy" /\ thread[p].a * PGSIZE >= proc[p].sz
      /\ proc' = [proc EXCEPT ![c] = m]
      /\ thread' = [thread EXCEPT ![p] = User, ![c] = User]
      /\ image' = [image EXCEPT ![c] = image[p]]
      /\ UNCHANGED <<free, other, panicked>>
  BY <1>1, <1>3 DEF ForkDone, At
<1>5. /\ c \in Process /\ p # c /\ thread[c].at = "embryo" /\ CopiedBy(p, c)
      /\ proc[c].trapframe /\ thread[c].new = NoTable /\ thread[c].argv = 0
      /\ thread[p].a <= PageUp(proc[p].sz)
      /\ proc[c].pt.leaf = Cut(leaf, thread[p].a)
      /\ proc[p].trapframe /\ thread[p].new = NoTable /\ thread[p].argv = 0
      /\ Sized(proc[p]) /\ Imaged(proc[p], image[p])
  BY <1>1, <1>2, <1>4, CopyHere
<1>6. /\ thread[p].a \in Nat /\ leaf \in Leaves /\ free \in Nat /\ panicked = FALSE
      /\ proc[p].sz \in 0..MemSize /\ proc[p].sz \in Nat
      /\ thread \in [Process -> Call] /\ image[p] \in Leaves
  BY <1>2, Here, Counted
<1>7. proc[c] \in Memory
  BY <1>5, Here
<1>8. m \in Memory /\ m.pt = proc[c].pt /\ m.sz = proc[p].sz /\ m.trapframe
  BY <1>3, <1>5, <1>6, <1>7 DEF Memory
<1>9. thread[p].a = PageUp(proc[p].sz)
  <2>1. PGSIZE \in Nat /\ PageUp(proc[p].sz) \in Nat
    BY <1>6, Below, Sizes
  <2>2. thread[p].a * PGSIZE \in Nat
    BY <1>6, <2>1
  <2>3. ~ (thread[p].a * PGSIZE < proc[p].sz)
    BY <1>4, <1>6, <2>2
  <2>4. ~ (thread[p].a < PageUp(proc[p].sz))
    BY <1>6, <2>3, Below
  <2> QED
    BY <1>5, <1>6, <2>1, <2>4
<1>10. m.pt.leaf = leaf
  <2>1. \A v \in DOMAIN leaf : v < thread[p].a
    BY <1>2, <1>5, <1>9 DEF Sized, UserPages
  <2>2. {v \in DOMAIN leaf : v < thread[p].a} = DOMAIN leaf
    BY <2>1
  <2>3. leaf = [v \in DOMAIN leaf |-> leaf[v]]
    BY <1>6, Leaf
  <2>4. leaf = Restrict(leaf, DOMAIN leaf)
    BY <2>3, Zenon DEF Restrict
  <2> QED
    BY <1>5, <1>8, <2>2, <2>4 DEF Cut
<1>11. Sized(m) /\ Imaged(m, image[p])
  BY <1>2, <1>5, <1>8, <1>10 DEF Sized, Imaged, UserPages
<1>12. User \in Call /\ User.at = "user" /\ User.new = NoTable /\ User.argv = 0
  BY UserIs
<1>13. OwnOK(m, User, image[p]) /\ OwnOK(proc[p], User, image[p])
  BY <1>5, <1>8, <1>11, <1>12, UserOwn
<1>14. free' + Has(m, User) = free + Has(proc[c], thread[c])
  BY <1>4, <1>5, <1>8, <1>12 DEF Has
<1>15. /\ thread' \in [Process -> Call] /\ thread'[p] = User /\ thread'[c] = User
       /\ \A q \in Process \ {p, c} : thread'[q] = thread[q]
  BY <1>4, <1>5, <1>6, <1>12
<1>16. /\ thread[p].at # "embryo" /\ User.at # "copy" /\ free' \in Nat /\ other' = other
       /\ panicked' = FALSE /\ c \in Process /\ p # c /\ CopiedBy(p, c)
       /\ thread[p].new = NoTable /\ thread[p].argv = 0
  BY <1>4, <1>5, <1>6, <1>12
<1> QED
  BY <1>4, <1>6, <1>8, <1>12, <1>13, <1>14, <1>15, <1>16, ForkStep

-----------------------------------------------------------------------------
(* The rest of the kernel                                                  *)

LEMMA OtherStep ==
  ASSUME IInv, OtherTakes \/ OtherGives
  PROVE  IInv'
<1>1. UNCHANGED <<proc, thread, panicked, image>>
  BY DEF OtherTakes, OtherGives
<1>2. /\ Typed /\ free + other + Cardinality(Owned) = NPAGES
      /\ \A p \in Process : OwnOK(proc[p], thread[p], image[p])
      /\ \A p \in Process : ForkOK(p)
  BY DEF IInv, Conserved
<1>3. free \in Nat /\ other \in 0..MaxOther /\ MaxOther \in Nat
  BY <1>2, Sizes DEF Typed
<1>4. free' \in Nat /\ other' \in 0..MaxOther /\ free' + other' = free + other
  BY <1>3 DEF OtherTakes, OtherGives
<1>5. Typed'
  BY <1>1, <1>2, <1>4 DEF Typed
<1>6. Owned' = Owned
  BY <1>1 DEF Owned, InUse
<1>7. Conserved'
  BY <1>2, <1>4, <1>6 DEF Conserved
<1>8. \A p \in Process : ForkOK(p)'
  BY <1>1, <1>2 DEF ForkOK, At
<1> QED
  BY <1>1, <1>2, <1>5, <1>7, <1>8 DEF IInv

-----------------------------------------------------------------------------
(* The first process                                                       *)

LEMMA FirstIs ==
  /\ FirstTable \in Table /\ FirstTable.leaf = FirstLeaf /\ FirstLeaf \in Leaves
  /\ FirstEnd \in 0..MemSize /\ \A v \in DOMAIN FirstLeaf : v < PageUp(FirstEnd)
<1>1. First \in Program
  BY VmAssumption
<1>2. PICK n \in Nat : n = Guard(First) + StackPages /\ n - 1 = Guard(First) + USERSTACK /\ n < TRAPFRAME
  BY <1>1, GuardIs, Sizes
<1>3. FirstLeaf \in Leaves /\ DOMAIN FirstLeaf = 0..n - 1
  BY <1>1, <1>2, ImageIs DEF FirstLeaf
<1>4. TRAPFRAME \in Nat /\ TRAMPOLINE \in Nat /\ TRAPFRAME + 1 = TRAMPOLINE /\ MemSize \in Nat
  BY Sizes
<1>5. PICK mid : mid = {Mid(v) : v \in DOMAIN FirstLeaf \union {TRAPFRAME}}
  OBVIOUS
<1>6. PICK low : low = {Low(v) : v \in DOMAIN FirstLeaf \union {TRAPFRAME, TRAMPOLINE}}
  OBVIOUS
<1>7. \A v \in DOMAIN FirstLeaf \union {TRAPFRAME, TRAMPOLINE} : v \in 0..TRAMPOLINE
  BY <1>2, <1>3, <1>4
<1>8. mid \in SUBSET (0..FANOUT - 1)
  <2>1. \A v \in DOMAIN FirstLeaf \union {TRAPFRAME} : Mid(v) \in 0..FANOUT - 1
    BY <1>7, PageIndex
  <2> QED
    BY <1>5, <2>1
<1>9. low \in SUBSET (0..FANOUT * FANOUT - 1)
  <2>1. \A v \in DOMAIN FirstLeaf \union {TRAPFRAME, TRAMPOLINE} : Low(v) \in 0..FANOUT * FANOUT - 1
    BY <1>7, PageIndex
  <2> QED
    BY <1>6, <2>1
<1>10. FirstTable = [root |-> TRUE, mid |-> mid, low |-> low, leaf |-> FirstLeaf,
                     kern |-> {TRAMPOLINE, TRAPFRAME}]
  BY <1>5, <1>6 DEF FirstTable
<1>11. FirstTable \in Table /\ FirstTable.leaf = FirstLeaf
  BY <1>3, <1>8, <1>9, <1>10 DEF Table
<1>12. Cardinality(DOMAIN FirstLeaf) = n
  <2>1. 0 \in Int /\ n - 1 \in Int
    OBVIOUS
  <2>2. Cardinality(0..n - 1) = IF 0 > n - 1 THEN 0 ELSE (n - 1) - 0 + 1
    BY <2>1, FS_Interval
  <2> QED
    BY <1>3, <2>2
<1>13. FirstEnd = n * PGSIZE /\ PageUp(FirstEnd) = n /\ FirstEnd \in Nat
  BY <1>12, Rounded DEF FirstEnd
<1>14. FirstEnd \in 0..MemSize
  <2>1. n * PGSIZE <= TRAPFRAME * PGSIZE
    BY <1>2, <1>4, Grows
  <2> QED
    BY <1>4, <1>13, <2>1 DEF MemSize
<1>15. \A v \in DOMAIN FirstLeaf : v < PageUp(FirstEnd)
  BY <1>2, <1>3, <1>13
<1> QED
  BY <1>3, <1>11, <1>14, <1>15

LEMMA InitIInv ==
  ASSUME Init
  PROVE  IInv
<1>1. PICK first : first = [pt |-> FirstTable, sz |-> FirstEnd, trapframe |-> TRUE]
  OBVIOUS
<1>2. /\ FirstTable \in Table /\ FirstTable.leaf = FirstLeaf /\ FirstLeaf \in Leaves
      /\ FirstEnd \in 0..MemSize /\ \A v \in DOMAIN FirstLeaf : v < PageUp(FirstEnd)
  BY FirstIs
<1>3. first \in Memory /\ first.pt = FirstTable /\ first.sz = FirstEnd /\ first.trapframe
  BY <1>1, <1>2 DEF Memory
<1>4. /\ User \in Call /\ User.at = "user" /\ User.new = NoTable /\ User.argv = 0
      /\ Absent \in Call /\ Absent.at = "absent" /\ Absent.new = NoTable /\ Absent.argv = 0
  BY UserIs
<1>5. NoProc \in Memory /\ Has(NoProc, Absent) = 0 /\ NoPages \in Leaves
  BY NoProcIs, EmptyLeaf
<1>6. /\ free = NPAGES - Pages(FirstTable) - 1 /\ other = 0 /\ panicked = FALSE
      /\ proc = [p \in Process |-> IF p = InitProcess THEN first ELSE NoProc]
      /\ thread = [p \in Process |-> IF p = InitProcess THEN User ELSE Absent]
      /\ image = [p \in Process |-> IF p = InitProcess THEN FirstLeaf ELSE NoPages]
  BY <1>1 DEF Init
<1>7. Pages(FirstTable) \in Nat /\ NPAGES \in Nat /\ MaxOther \in Nat /\ InitProcess \in Process
  BY <1>2, Counted, Sizes
<1>8. free \in Nat
  BY <1>6, <1>7, BootAssumption
<1>9. Typed
  BY <1>2, <1>3, <1>4, <1>5, <1>6, <1>7, <1>8 DEF Typed
<1>10. Has(first, User) = Pages(FirstTable) + 0 + 1
  BY <1>3, <1>4, HasIs
<1>11. Conserved
  <2>1. PICK f : f = [q \in Process |-> Has(proc[q], thread[q])]
    OBVIOUS
  <2>2. PICK g : g = [q \in Process |-> 0]
    OBVIOUS
  <2>3. /\ \A q \in Process : Has(proc[q], thread[q]) \in Nat
        /\ Has(proc[InitProcess], thread[InitProcess]) = Pages(FirstTable) + 1
        /\ \A q \in Process \ {InitProcess} : Has(proc[q], thread[q]) = 0
    <3>1. Has(proc[InitProcess], thread[InitProcess]) = Pages(FirstTable) + 1
      BY <1>6, <1>7, <1>10
    <3>2. \A q \in Process \ {InitProcess} : Has(proc[q], thread[q]) = 0
      BY <1>5, <1>6
    <3> QED
      BY <1>7, <3>1, <3>2
  <2>4. f \in [Process -> Nat] /\ g \in [Process -> Nat]
    BY <2>1, <2>2, <2>3
  <2>5. \A q \in Process \ {InitProcess} : g[q] = f[q]
    BY <2>1, <2>2, <2>3
  <2>6. /\ Cardinality(Owns(f)) \in Nat
        /\ Cardinality(Owns(f)) + g[InitProcess] = Cardinality(Owns(g)) + f[InitProcess]
    BY <1>7, <2>4, <2>5, Recount
  <2>7. Owns(g) = {}
    BY <2>2 DEF Owns
  <2>8. Cardinality(Owns(f)) = Pages(FirstTable) + 1
    <3>1. g[InitProcess] = 0 /\ f[InitProcess] = Pages(FirstTable) + 1
      BY <1>7, <2>1, <2>2, <2>3
    <3> QED
      BY <1>7, <2>6, <2>7, <3>1, FS_EmptySet
  <2>9. Owned = Owns(f)
    BY <1>9, <2>1, OwnedIs DEF Typed
  <2> QED
    BY <1>6, <1>7, <2>8, <2>9 DEF Conserved
<1>12. ASSUME NEW p \in Process
       PROVE  OwnOK(proc[p], thread[p], image[p]) /\ ForkOK(p)
  <2>1. CASE p = InitProcess
    <3>1. proc[p] = first /\ thread[p] = User /\ image[p] = FirstLeaf
      BY <1>6, <2>1
    <3>2. Sized(first) /\ Imaged(first, FirstLeaf)
      BY <1>2, <1>3 DEF Sized, Imaged, UserPages
    <3>3. OwnOK(first, User, FirstLeaf)
      BY <1>3, <1>4, <3>2, UserOwn
    <3>4. ~ At(p, "copy")
      BY <1>4, <3>1 DEF At
    <3> QED
      BY <3>1, <3>3, <3>4 DEF ForkOK
  <2>2. CASE p # InitProcess
    <3>1. proc[p] = NoProc /\ thread[p] = Absent /\ image[p] = NoPages
      BY <1>6, <2>2
    <3>2. OwnOK(NoProc, Absent, NoPages)
      BY <1>4, OutsideOwn
    <3>3. ~ At(p, "copy")
      BY <1>4, <3>1 DEF At
    <3> QED
      BY <3>1, <3>2, <3>3 DEF ForkOK
  <2> QED
    BY <2>1, <2>2
<1> QED
  BY <1>9, <1>11, <1>12 DEF IInv

-----------------------------------------------------------------------------
(* The theorems                                                            *)

LEMMA NextIInv ==
  ASSUME IInv, [Next]_vars
  PROVE  IInv'
<1>1. ASSUME NEW p \in Process, Step(p)
      PROVE  IInv'
  <2>1. CASE SysSbrk(p)
    <3>1. PICK n \in Amounts : SbrkLazy(p, n) \/ SbrkShrink(p, n) \/ SbrkGrow(p, n)
      BY <2>1 DEF SysSbrk
    <3>2. n \in Nat
      BY Sizes
    <3> QED
      BY <3>1, <3>2, SbrkLazyStep, SbrkShrinkStep, SbrkGrowStep
  <2>2. CASE GrowPage(p)
    BY <2>2, GrowPageStep
  <2>3. ASSUME NEW a \in Address, PageFault(p, a) \/ EitherCopy(p, a)
        PROVE  IInv'
    BY <2>3, PageFaultStep, EitherCopyStep
  <2>4. ASSUME NEW c \in Process, Fork(p, c)
        PROVE  IInv'
    BY <2>4, ForkBeginStep
  <2>5. CASE Uvmcopy(p)
    BY <2>5, ForkCopyStep, ForkDoneStep DEF Uvmcopy
  <2>6. CASE Exit(p)
    BY <2>6, ExitStep
  <2>7. CASE SysExec(p)
    BY <2>7, ExecBeginStep, ExecArgumentStep, ExecBadArgumentStep DEF SysExec
  <2>8. CASE Kexec(p)
    <3>1. ASSUME NEW g \in Program, ExecTable(p, g)
          PROVE  IInv'
      BY <3>1, ExecTableStep
    <3>2. CASE ExecSegment(p) \/ ExecPage(p) \/ Loadseg(p) \/ ExecStack(p)
      BY <3>2, ExecSegmentStep, ExecPageStep, LoadsegStep, ExecStackStep
    <3>3. CASE ExecGuard(p) \/ ExecArguments(p) \/ ExecBad(p) \/ ExecCommit(p)
      BY <3>3, ExecGuardStep, ExecArgumentsStep, ExecBadStep, ExecCommitStep
    <3> QED
      BY <2>8, <3>1, <3>2, <3>3 DEF Kexec
  <2>9. CASE FailedReturn(p)
    BY <2>9, FailedReturnStep
  <2> QED
    BY <1>1, <2>1, <2>2, <2>3, <2>4, <2>5, <2>6, <2>7, <2>8, <2>9 DEF Step
<1>2. CASE UNCHANGED vars
  <2>1. UNCHANGED <<free, other, proc, thread, panicked, image>>
    BY <1>2 DEF vars
  <2>2. /\ Typed /\ Conserved
        /\ \A p \in Process : OwnOK(proc[p], thread[p], image[p])
        /\ \A p \in Process : ForkOK(p)
    BY DEF IInv
  <2>3. Typed'
    BY <2>1, <2>2 DEF Typed
  <2>4. Conserved'
    BY <2>1, <2>2 DEF Conserved, Owned, InUse
  <2>5. \A p \in Process : ForkOK(p)'
    BY <2>1, <2>2 DEF ForkOK, At
  <2> QED
    BY <2>1, <2>2, <2>3, <2>4, <2>5 DEF IInv
<1> QED
  BY <1>1, <1>2, OtherStep DEF Next

(* Every reachable state satisfies the invariant: sz covers what is mapped, *)
(* a call knows the memory it began with, and exec's new image is as far   *)
(* as its loops are.                                                       *)
THEOREM SpecIInv == Spec => []IInv
<1>1. Init => IInv
  BY InitIInv
<1>2. IInv /\ [Next]_vars => IInv'
  BY NextIInv
<1> QED
  BY <1>1, <1>2, PTL DEF Spec

LEMMA Conserves ==
  ASSUME IInv
  PROVE  PagesConserved
<1>1. /\ free \in Nat /\ other \in 0..MaxOther /\ panicked = FALSE
      /\ proc \in [Process -> Memory] /\ thread \in [Process -> Call]
      /\ free + other + Cardinality(Owned) = NPAGES
  BY DEF IInv, Typed, Conserved
<1>2. NPAGES \in Nat /\ MaxOther \in Nat
  BY Sizes
<1>3. Cardinality(Owned) \in Nat
  <2>1. PICK f : f = [q \in Process |-> Has(proc[q], thread[q])]
    OBVIOUS
  <2>2. \A q \in Process : Has(proc[q], thread[q]) \in Nat
    BY <1>1, HasNat
  <2>3. f \in [Process -> Nat]
    BY <2>1, <2>2
  <2>4. Cardinality(Owns(f)) \in Nat
    <3>1. InitProcess \in Process
      BY Sizes
    <3> QED
      BY <2>3, <3>1, Recount
  <2> QED
    BY <1>1, <2>1, <2>4, OwnedIs
<1>4. free \in 0..NPAGES
  BY <1>1, <1>2, <1>3
<1>5. ASSUME NEW pt \in Table
      PROVE  IsTable(pt)
  <2>1. /\ pt.root \in BOOLEAN /\ pt.mid \subseteq 0..FANOUT - 1
        /\ pt.low \subseteq 0..FANOUT * FANOUT - 1 /\ pt.kern \subseteq {TRAMPOLINE, TRAPFRAME}
        /\ pt.leaf \in Leaves
    BY DEF Table
  <2>2. PICK f : f = pt.leaf
    OBVIOUS
  <2>3. /\ f = [v \in DOMAIN f |-> f[v]] /\ DOMAIN f \subseteq Page
        /\ \A v \in DOMAIN f : f[v] \in Flags
    BY <2>1, <2>2, Leaf
  <2>4. f \in [DOMAIN f -> SUBSET {"U", "W"}]
    BY <2>3 DEF Flags
  <2> QED
    BY <2>1, <2>2, <2>3, <2>4 DEF IsTable, UserPages
<1>6. ASSUME NEW p \in Process
      PROVE  /\ IsTable(proc[p].pt) /\ IsTable(thread[p].new)
             /\ proc[p].sz \in 0..TRAPFRAME * PGSIZE /\ thread[p].argv \in 0..MAXARG
  <2>1. /\ proc[p].pt \in Table /\ thread[p].new \in Table /\ proc[p].sz \in 0..MemSize
        /\ thread[p].argv \in 0..MAXARG
    BY <1>1 DEF Memory, Call
  <2> QED
    BY <1>5, <2>1 DEF MemSize
<1>7. TypeOK
  BY <1>1, <1>4, <1>6 DEF TypeOK
<1>8. FailsCleanly
  <2>1. ASSUME NEW p \in Process, At(p, "failed")
        PROVE  thread[p].before = Before(p)
    <3>1. thread[p].at = "failed" /\ OwnOK(proc[p], thread[p], image[p])
      BY <2>1, Here DEF At
    <3>2. thread[p].before = <<proc[p].pt.leaf, proc[p].sz>>
      BY <3>1, FailedOwn
    <3> QED
      BY <3>2 DEF Before
  <2> QED
    BY <2>1 DEF FailsCleanly
<1> QED
  BY <1>1, <1>7, <1>8 DEF PagesConserved

(* For any processes, sizes and programs: every page is free, in use       *)
(* elsewhere or of one process, whichever of uvmalloc, uvmcopy, vmfault,   *)
(* kfork and kexec fails, and wherever; a call that fails leaves the memory*)
(* as it was; and freewalk, mappages, loadseg and uvmclear never panic.    *)
THEOREM NoPageLost == Spec => []PagesConserved
<1>1. IInv => PagesConserved
  BY Conserves
<1> QED
  BY <1>1, SpecIInv, PTL

-----------------------------------------------------------------------------
(* Protection                                                              *)

(* The system calls reach what the program reaches, and no more.           *)
LEMMA CopyReaches ==
  ASSUME IInv, NEW p \in Process, thread[p].at = "user", NEW a \in Address
  PROVE  LET in == Copyin(State(proc[p].pt), proc[p].sz, a).ok
             out == Copyout(State(proc[p].pt), proc[p].sz, a).ok
             v == PageOf(a) IN
         /\ (Reads(p, a) => in) /\ (Writes(p, a) => out)
         /\ in => v < PageUp(proc[p].sz) /\ (v \in DOMAIN image[p] => "U" \in image[p][v])
         /\ out => in /\ (v \in DOMAIN image[p] => "W" \in image[p][v])
<1>1. PICK sz \in 0..MemSize : sz = proc[p].sz
  BY Here
<1>2. PICK pt \in Table : pt = proc[p].pt
  BY Here
<1>3. PICK s : s = State(pt)
  OBVIOUS
<1>4. s \in VmState /\ s.pt = pt /\ s.ok
  BY <1>2, <1>3, Here, StateIs
<1>5. a \in Nat /\ sz \in Nat /\ PGSIZE \in Nat \ {0}
  BY <1>1, Sizes DEF Address
<1>6. PICK v \in Nat : v = PageOf(a) /\ v * PGSIZE <= a
  BY <1>5, AddressPage
<1>7. PICK b \in Nat : b = v * PGSIZE /\ PageOf(b) = v /\ b <= a
  <2>1. PICK b \in Nat : b = v * PGSIZE /\ PageUp(b) = v
    BY <1>6, Rounded
  <2>2. PageOf(b) = v
    <3>1. /\ PageOf(b) \in Nat /\ PageOf(b) * PGSIZE <= b /\ b < (PageOf(b) + 1) * PGSIZE
      BY AddressPage
    <3>2. ~ (v < PageOf(b))
      <4>1. v + 1 <= PageOf(b) => (v + 1) * PGSIZE <= PageOf(b) * PGSIZE
        BY <1>6, <3>1, Grows
      <4>2. (v + 1) * PGSIZE = b + PGSIZE
        BY <1>5, <2>1
      <4>3. PageOf(b) * PGSIZE \in Nat
        BY <1>5, <3>1
      <4> QED
        BY <1>5, <3>1, <4>1, <4>2, <4>3
    <3>3. ~ (PageOf(b) < v)
      <4>1. PageOf(b) + 1 <= v => (PageOf(b) + 1) * PGSIZE <= v * PGSIZE
        BY <1>6, <3>1, Grows
      <4>2. (PageOf(b) + 1) * PGSIZE \in Nat
        BY <1>5, <3>1
      <4> QED
        BY <2>1, <3>1, <4>1, <4>2
    <3> QED
      BY <3>1, <3>2, <3>3
  <2> QED
    BY <1>6, <2>1, <2>2
<1>8. PICK e : e = Vmfault(s, sz, b)
  OBVIOUS
<1>9. PICK c : c = Copyin(s, sz, a)
  OBVIOUS
<1>10. PICK d : d = Copyout(s, sz, a)
  OBVIOUS
<1>11. c = IF Walkaddr(pt, v) THEN s ELSE e
  BY <1>4, <1>6, <1>7, <1>8, <1>9 DEF Copyin
<1>12. d = IF c.ok /\ "W" \notin c.pt.leaf[v] THEN Fail(c) ELSE c
  BY <1>6, <1>9, <1>10 DEF Copyout
<1>13. e \in VmState /\ (e.ok => e.pt.leaf = WithPage(pt.leaf, v, {"U", "W"}))
  <2>1. Adds(s, e, v, {"U", "W"})
    BY <1>4, <1>7, <1>8, VmfaultIs
  <2> QED
    BY <1>4, <2>1 DEF Adds
<1>14. e.ok => v \notin UserPages(pt) /\ v < PageUp(sz) /\ "W" \in e.pt.leaf[v]
  <2>1. e.ok => v \in Page \ UserPages(pt) /\ v < PageUp(sz)
    BY <1>4, <1>7, <1>8, VmfaultIs
  <2> QED
    BY <1>13, <2>1 DEF WithPage
<1>15. Vmfault(s, sz, a).ok => e.ok /\ v \notin UserPages(pt)
  <2>1. ASSUME Vmfault(s, sz, a).ok
        PROVE  e.ok /\ v \notin UserPages(pt)
    <3>1. /\ a < sz /\ v \in Page \ UserPages(pt)
          /\ Vmfault(s, sz, a) = NewPage(s, v, {"U", "W"})
      BY <1>4, <1>5, <1>6, <2>1, VmfaultIs
    <3>2. ~ (b >= sz) /\ v \notin UserPages(s.pt)
      BY <1>4, <1>5, <1>7, <3>1
    <3>3. e = NewPage(s, v, {"U", "W"})
      BY <1>7, <1>8, <3>2 DEF Vmfault
    <3> QED
      BY <2>1, <3>1, <3>3
  <2> QED
    BY <2>1
<1>16. Walkaddr(pt, v) <=> v \in UserPages(pt) /\ "U" \in pt.leaf[v]
  BY DEF Walkaddr
<1>17. /\ Sized(proc[p]) /\ Imaged(proc[p], image[p])
  BY UserHere
<1>18. /\ v \in UserPages(pt) => v < PageUp(sz)
       /\ v \in DOMAIN image[p] => v \in UserPages(pt) /\ pt.leaf[v] = image[p][v]
  BY <1>1, <1>2, <1>17 DEF Sized, Imaged
<1>19. ~ Fail(c).ok
  <2>1. c \in VmState
    BY <1>4, <1>11, <1>13
  <2> QED
    BY <2>1, FailIs
<1>20. Reads(p, a) => c.ok
  BY <1>1, <1>2, <1>3, <1>4, <1>6, <1>11, <1>15 DEF Reads
<1>21. Writes(p, a) => d.ok
  <2>1. CASE Walkaddr(pt, v) /\ "W" \in pt.leaf[v]
    BY <1>4, <1>11, <1>12, <2>1
  <2>2. CASE Vmfault(s, sz, a).ok
    BY <1>11, <1>12, <1>14, <1>15, <1>16, <2>2
  <2> QED
    BY <1>1, <1>2, <1>3, <1>6, <2>1, <2>2 DEF Writes
<1>22. c.ok => v < PageUp(sz) /\ (v \in DOMAIN image[p] => "U" \in image[p][v])
  BY <1>11, <1>14, <1>16, <1>18
<1>23. d.ok => c.ok /\ (v \in DOMAIN image[p] => "W" \in image[p][v])
  <2>1. d.ok => c.ok /\ "W" \in c.pt.leaf[v]
    BY <1>12, <1>19
  <2> QED
    BY <1>4, <1>11, <1>14, <1>18, <2>1
<1> QED
  BY <1>1, <1>2, <1>3, <1>6, <1>9, <1>10, <1>20, <1>21, <1>22, <1>23

(* copyout finds the stack of the new image as it is.                      *)
LEMMA StackFound ==
  ASSUME IInv, NEW p \in Process, thread[p].at = "args", NEW a \in StackOf(thread[p])
  PROVE  Copyout(State(thread[p].new), proc[p].sz, a) = State(thread[p].new)
<1>1. PICK c : c = thread[p]
  OBVIOUS
<1>2. c.at \in ExecAt /\ c.at = "args"
  BY <1>1 DEF ExecAt
<1>3. ExecOK(c)
  BY <1>1, <1>2, ExecHere
<1>4. PICK g \in Program : g = c.program
  BY <1>2, <1>3 DEF ExecOK
<1>5. BuiltOK(c)
  BY <1>2, <1>3 DEF ExecOK
<1>6. PICK x \in Nat : x = Guard(g)
  BY GuardIs
<1>7. PGSIZE \in Nat \ {0} /\ StackPages \in Nat /\ StackPages = USERSTACK + 1 /\ USERSTACK \in Nat
  BY Sizes
<1>8. c.oldsz = x * PGSIZE /\ c.sz = (x + StackPages) * PGSIZE /\ c.new.leaf = Image(g)
  BY <1>4, <1>5, <1>6 DEF BuiltOK
<1>9. PICK l \in Nat : l = (x + 1) * PGSIZE /\ l = c.oldsz + PGSIZE
  BY <1>6, <1>7, <1>8
<1>10. PICK z \in Nat : z = c.sz /\ PageUp(z) = x + StackPages
  <2>1. PICK y \in Nat : y = x + StackPages
    BY <1>7
  <2>2. PageUp(y * PGSIZE) = y /\ y * PGSIZE \in Nat
    BY Rounded
  <2> QED
    BY <1>8, <2>1, <2>2
<1>11. a \in l..z - 1
  BY <1>1, <1>9, <1>10 DEF StackOf
<1>12. a \in Nat /\ l <= a /\ a < z
  BY <1>11
<1>13. PICK v \in Nat : v = PageOf(a) /\ a < (v + 1) * PGSIZE /\ v < PageUp(z)
  BY <1>12, AddressPage
<1>14. x < v
  <2>1. v + 1 <= x + 1 => (v + 1) * PGSIZE <= (x + 1) * PGSIZE
    BY Grows
  <2>2. (v + 1) * PGSIZE \in Nat
    BY <1>7
  <2>3. ~ (v + 1 <= x + 1)
    BY <1>9, <1>12, <1>13, <2>1, <2>2
  <2> QED
    BY <2>3
<1>15. v \in 0..x + USERSTACK /\ ~ (v < x) /\ v # x
  BY <1>7, <1>10, <1>13, <1>14
<1>16. DOMAIN c.new.leaf = 0..x + USERSTACK /\ c.new.leaf[v] = {"U", "W"}
  BY <1>6, <1>8, <1>15, ImageIs DEF Image
<1>17. PICK s : s = State(c.new)
  OBVIOUS
<1>18. s.pt = c.new
  BY <1>1, <1>17, Here, StateIs
<1>19. Walkaddr(s.pt, v)
  BY <1>15, <1>16, <1>18 DEF Walkaddr, UserPages
<1>20. Copyin(s, proc[p].sz, a) = s
  BY <1>13, <1>19 DEF Copyin
<1>21. Copyout(s, proc[p].sz, a) = s
  BY <1>13, <1>16, <1>18, <1>20 DEF Copyout
<1> QED
  BY <1>1, <1>17, <1>21

LEMMA Protects ==
  ASSUME IInv
  PROVE  Protected
<1>1. ASSUME NEW p \in Process, thread[p].at \notin {"absent", "embryo"},
             NEW v \in DOMAIN image[p] \union UserPages(proc[p].pt)
      PROVE  /\ v \in UserPages(proc[p].pt)
             /\ proc[p].pt.leaf[v] = IF v \in DOMAIN image[p] THEN image[p][v] ELSE {"U", "W"}
  <2>1. OwnOK(proc[p], thread[p], image[p])
    BY Here
  <2>2. Imaged(proc[p], image[p])
    BY <1>1, <2>1 DEF OwnOK, ImageOK
  <2> QED
    BY <1>1, <2>2 DEF Imaged
<1>2. ASSUME NEW p \in Process, At(p, "user"), NEW a \in Address
      PROVE  LET in == Copyin(State(proc[p].pt), proc[p].sz, a).ok
                 out == Copyout(State(proc[p].pt), proc[p].sz, a).ok
                 v == PageOf(a) IN
             /\ (Reads(p, a) => in) /\ (Writes(p, a) => out)
             /\ in => v < PageUp(proc[p].sz) /\ (v \in DOMAIN image[p] => "U" \in image[p][v])
             /\ out => in /\ (v \in DOMAIN image[p] => "W" \in image[p][v])
  <2>1. thread[p].at = "user"
    BY <1>2 DEF At
  <2> QED
    BY <2>1, CopyReaches
<1>3. ASSUME NEW p \in Process, At(p, "args")
      PROVE  /\ thread[p].new.leaf = Image(thread[p].program)
             /\ \A a \in StackOf(thread[p]) :
                  Copyout(State(thread[p].new), proc[p].sz, a) = State(thread[p].new)
  <2>1. thread[p].at = "args"
    BY <1>3 DEF At
  <2>2. thread[p].new.leaf = Image(thread[p].program)
    <3>1. thread[p].at \in ExecAt
      BY <2>1 DEF ExecAt
    <3>2. ExecOK(thread[p])
      BY <3>1, ExecHere
    <3>3. BuiltOK(thread[p])
      BY <2>1, <3>1, <3>2 DEF ExecOK
    <3> QED
      BY <3>3 DEF BuiltOK
  <2> QED
    BY <2>1, <2>2, StackFound
<1> QED
  BY <1>1, <1>2, <1>3 DEF Protected

(* For any programs, sizes and histories of sbrk, fork, exec and faults:   *)
(* every process keeps the protection exec gave it, a system call copies   *)
(* from and to what the program itself can use and nothing beyond, and exec*)
(* finds the stack of the image it has built.                              *)
THEOREM ProtectionKept == Spec => []Protected
<1>1. IInv => Protected
  BY Protects
<1> QED
  BY <1>1, SpecIInv, PTL

=============================================================================
