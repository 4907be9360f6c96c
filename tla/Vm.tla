----------------------------------- MODULE Vm ----------------------------------
(***************************************************************************)
(* User memory: page tables (kernel/vm.c), and the calls that build, grow, *)
(* copy, replace and free them: sbrk, fork, exec, exit (kernel/proc.c,     *)
(* kernel/exec.c, sys_exec) and page faults, while other parts of the      *)
(* kernel take pages from the same allocator.                              *)
(*                                                                         *)
(* Abstractions.  Pages are counted, not named: which page kalloc returns  *)
(* is the business of module Kalloc.  A step allocates and maps one page,  *)
(* or frees many; it fails where kalloc does.  A page table has three      *)
(* levels of FANOUT entries; of the flags of a leaf, "U" (PTE_U) and "W"   *)
(* (PTE_W) are kept, every page can be read.  What a page holds is not     *)
(* kept.  The file that exec reads is good, or bad at any place.  A page   *)
(* fault in sbrk, fork or exec is one before it.  Zombies are reaped at    *)
(* once.                                                                   *)
(***************************************************************************)
EXTENDS Integers, Sequences, FiniteSets, FiniteSetsExt, Functions

CONSTANTS Process, InitProcess,
          NPAGES,      \* pages the allocator has
          PGSIZE,      \* bytes in a page
          FANOUT,      \* entries in a page of a page table
          USERSTACK,   \* pages of user stack
          MAXARG,      \* arguments of exec
          Program,     \* programs: their segments
          First,       \* the program of the first process
          Amounts,     \* bound: bytes by which a call of sbrk moves the size
          MaxOther     \* bound: pages in use elsewhere

TRAMPOLINE == FANOUT * FANOUT * FANOUT - 1      \* the pages at the end of the address space
TRAPFRAME == TRAMPOLINE - 1
StackPages == USERSTACK + 1                     \* with the guard page below it

(* A program fits below the trapframe: kexec does not look, for on the real*)
(* machine the memory is used up long before (128 MB in 256 GB).           *)
ASSUME VmAssumption ==
  /\ IsFiniteSet(Process) /\ InitProcess \in Process
  /\ NPAGES \in Nat /\ PGSIZE \in Nat \ {0} /\ FANOUT \in Nat /\ FANOUT >= 2
  /\ USERSTACK \in Nat /\ MAXARG \in Nat /\ Amounts \subseteq Nat /\ MaxOther \in Nat
  /\ First \in Program
  /\ Program \subseteq Seq([start : Nat, end : Nat \ {0}, write : BOOLEAN]) \ {<< >>}
  /\ \A g \in Program : \A i \in DOMAIN g :
       /\ g[i].start % PGSIZE = 0 /\ g[i].start < g[i].end
       /\ g[i].end + (StackPages + 1) * PGSIZE <= TRAPFRAME * PGSIZE

NoProcess == "none"

VARIABLES
  free,      \* pages on the free list
  other,     \* pages in use elsewhere in the kernel
  proc,      \* pagetable, sz and trapframe of each process
  thread,    \* the call each process is in, and its locals
  panicked,  \* freewalk met a leaf, mappages a mapping, loadseg or uvmclear none
  image      \* history: the pages exec gave each process, with their flags

vars == <<free, other, proc, thread, panicked, image>>

Page == 0..TRAPFRAME - 1
Address == 0..TRAPFRAME * PGSIZE - 1
PageOf(a) == a \div PGSIZE                      \* PGROUNDDOWN(a) / PGSIZE
PageUp(n) == (n + PGSIZE - 1) \div PGSIZE       \* PGROUNDUP(n) / PGSIZE

(* The pages of a page table: the root, those of the next two levels, and  *)
(* the leaves: user pages with their flags, and kern for trampoline and    *)
(* trapframe, which have no PTE_U.                                         *)
NoPages == [v \in {} |-> {}]
NoTable == [root |-> FALSE, mid |-> {}, low |-> {}, leaf |-> NoPages, kern |-> {}]
NoProc == [pt |-> NoTable, sz |-> 0, trapframe |-> FALSE]

Tables(pt) == (IF pt.root THEN 1 ELSE 0) + Cardinality(pt.mid) + Cardinality(pt.low)
UserPages(pt) == DOMAIN pt.leaf
Pages(pt) == Tables(pt) + Cardinality(UserPages(pt))

-----------------------------------------------------------------------------
(* vm.c: operators on s = [pt, free, ok, panic]                            *)

State(pt) == [pt |-> pt, free |-> free, ok |-> TRUE, panic |-> FALSE]
Fail(s) == [s EXCEPT !.ok = FALSE]

Mid(v) == v \div (FANOUT * FANOUT)
Low(v) == v \div FANOUT

(* walk with alloc: the pages of the two lower levels, where missing.      *)
WalkMid(s, v) ==
  IF Mid(v) \in s.pt.mid THEN s
  ELSE IF s.free = 0 THEN Fail(s)
  ELSE [s EXCEPT !.pt.mid = @ \union {Mid(v)}, !.free = @ - 1]
WalkLow(s, v) ==
  IF Low(v) \in s.pt.low \/ ~ s.ok THEN s
  ELSE IF s.free = 0 THEN Fail(s)
  ELSE [s EXCEPT !.pt.low = @ \union {Low(v)}, !.free = @ - 1]
Walk(s, v) == WalkLow(WalkMid(s, v), v)

WithPage(leaf, v, flags) ==
  [w \in DOMAIN leaf \union {v} |-> IF w = v THEN flags ELSE leaf[w]]

(* mappages of one page.                                                   *)
Mappages(s, v, flags) ==
  LET w == Walk(s, v) IN
  IF ~ w.ok THEN w
  ELSE IF v \in UserPages(w.pt) THEN [w EXCEPT !.panic = TRUE]
  ELSE [w EXCEPT !.pt.leaf = WithPage(@, v, flags)]

(* Fault: the caller of mappages forgets the page when it fails.           *)
KeepsPage(s) == s
GivesPageBack(s) == [s EXCEPT !.free = @ + 1]

(* kalloc, mappages, and kfree when that fails: the body of the loops of   *)
(* uvmalloc and uvmcopy, and of vmfault.                                   *)
NewPage(s, v, flags) ==
  LET m == Mappages([s EXCEPT !.free = @ - 1], v, flags) IN
  IF s.free = 0 THEN Fail(s) ELSE IF m.ok THEN m ELSE GivesPageBack(m)

Uvmunmap(s, pages) ==
  [s EXCEPT !.pt.leaf = Restrict(@, UserPages(s.pt) \ pages),
            !.free = @ + Cardinality(UserPages(s.pt) \intersect pages)]

(* uvmdealloc: rounded up, and nothing when the size does not shrink.      *)
Uvmdealloc(s, oldsz, newsz) ==
  IF newsz >= oldsz THEN s ELSE Uvmunmap(s, PageUp(newsz)..PageUp(oldsz) - 1)

Freewalk(s) ==
  [s EXCEPT !.pt = NoTable, !.free = @ + Tables(s.pt),
            !.panic = @ \/ UserPages(s.pt) \union s.pt.kern # {}]

Uvmfree(s, sz) == Freewalk(Uvmunmap(s, 0..PageUp(sz) - 1))

ProcFreepagetable(s, sz) == Uvmfree([s EXCEPT !.pt.kern = {}], sz)

(* uvmcreate, and the two mappings at the top, undone when one fails.      *)
ProcPagetable(s) ==
  LET r == [s EXCEPT !.pt.root = TRUE, !.free = @ - 1]
      tramp == Walk(r, TRAMPOLINE)
      tf == Walk(tramp, TRAPFRAME) IN
  IF s.free = 0 THEN Fail(s)
  ELSE IF ~ tramp.ok THEN Uvmfree(tramp, 0)
  ELSE IF ~ tf.ok THEN Uvmfree(tf, 0)
  ELSE [tf EXCEPT !.pt.kern = {TRAMPOLINE, TRAPFRAME}]

(* walkaddr: whether it finds a page.                                      *)
Walkaddr(pt, v) == v \in UserPages(pt) /\ "U" \in pt.leaf[v]

Uvmclear(pt, v) == [pt EXCEPT !.leaf[v] = @ \ {"U"}]

(* vmfault of address a in a process of size sz: a page that sbrk promised.*)
Vmfault(s, sz, a) ==
  IF a >= sz \/ PageOf(a) \in UserPages(s.pt) THEN Fail(s) ELSE NewPage(s, PageOf(a), {"U", "W"})

(* copyin and copyout of a byte, and copyinstr, which makes no page.       *)
Copyin(s, sz, a) ==
  IF Walkaddr(s.pt, PageOf(a)) THEN s ELSE Vmfault(s, sz, PageOf(a) * PGSIZE)
Copyout(s, sz, a) ==
  LET c == Copyin(s, sz, a) IN
  IF c.ok /\ "W" \notin c.pt.leaf[PageOf(a)] THEN Fail(c) ELSE c
Copyinstr(pt, a) == Walkaddr(pt, PageOf(a))

-----------------------------------------------------------------------------

(* a and end are the loop of uvmalloc or uvmcopy, oldsz the size it began  *)
(* with; new and sz the image exec builds of program, i the segment it is  *)
(* at; argv the pages of its arguments; child the process fork makes;      *)
(* before the memory of the process when the call began.                   *)
User == [at |-> "user", a |-> 0, end |-> 0, oldsz |-> 0, new |-> NoTable, sz |-> 0,
         program |-> << >>, i |-> 1, argv |-> 0, child |-> NoProcess,
         before |-> <<NoPages, 0>>]
Absent == [User EXCEPT !.at = "absent"]

(* The flags of the pages of a segment, besides PTE_R and PTE_X.           *)
Flags2perm(seg) == {"U"} \union (IF seg.write THEN {"W"} ELSE {})

(* What a program looks like in memory: a segment gets the pages that the  *)
(* ones before it left, up to its end; then come the guard page and the    *)
(* stack.                                                                  *)
Loads(g, i, v) == v < PageUp(g[i].end) /\ \A j \in 1..i - 1 : PageUp(g[j].end) <= v
SegmentOf(g, v) == CHOOSE i \in DOMAIN g : Loads(g, i, v)
Guard(g) == PageUp(Max({g[i].end : i \in DOMAIN g}))
Image(g) ==
  [v \in 0..Guard(g) + USERSTACK |->
     IF v < Guard(g) THEN Flags2perm(g[SegmentOf(g, v)])
     ELSE IF v = Guard(g) THEN {"W"} ELSE {"U", "W"}]

(* The first process, when it has run exec (forkret).                      *)
FirstLeaf == Image(First)
FirstEnd == Cardinality(DOMAIN FirstLeaf) * PGSIZE
FirstTable == [root |-> TRUE, mid |-> {Mid(v) : v \in DOMAIN FirstLeaf \union {TRAPFRAME}},
               low |-> {Low(v) : v \in DOMAIN FirstLeaf \union {TRAPFRAME, TRAMPOLINE}},
               leaf |-> FirstLeaf, kern |-> {TRAMPOLINE, TRAPFRAME}]

(* There is memory for it.                                                 *)
ASSUME BootAssumption == Pages(FirstTable) + 1 <= NPAGES

Init ==
  /\ free = NPAGES - Pages(FirstTable) - 1
  /\ other = 0
  /\ proc = [p \in Process |->
               IF p = InitProcess THEN [pt |-> FirstTable, sz |-> FirstEnd, trapframe |-> TRUE]
               ELSE NoProc]
  /\ thread = [p \in Process |-> IF p = InitProcess THEN User ELSE Absent]
  /\ panicked = FALSE
  /\ image = [p \in Process |-> IF p = InitProcess THEN FirstLeaf ELSE NoPages]

At(p, l) == thread[p].at = l

(* The state s of the current table is what is left.                       *)
Takes(s) == free' = s.free /\ panicked' = (panicked \/ s.panic)

Before(p) == <<proc[p].pt.leaf, proc[p].sz>>
Fails(p) == [thread EXCEPT ![p] = [User EXCEPT !.at = "failed", !.before = thread[p].before,
                                               !.argv = thread[p].argv]]

(* A call that failed: sys_exec frees the arguments.                       *)
FailedReturn(p) ==
  /\ At(p, "failed")
  /\ free' = free + thread[p].argv
  /\ thread' = [thread EXCEPT ![p] = User]
  /\ UNCHANGED <<other, proc, panicked, image>>

-----------------------------------------------------------------------------
(* sbrk and page faults                                                    *)

SbrkLazy(p, n) ==
  /\ At(p, "user") /\ proc[p].sz + n <= TRAPFRAME * PGSIZE
  /\ proc' = [proc EXCEPT ![p].sz = @ + n]
  /\ UNCHANGED <<free, other, thread, panicked, image>>

(* growproc with n < 0: a size below zero is a huge one.                   *)
SbrkShrink(p, n) ==
  LET s == Uvmdealloc(State(proc[p].pt), proc[p].sz, proc[p].sz - n) IN
  /\ At(p, "user") /\ n <= proc[p].sz
  /\ Takes(s)
  /\ proc' = [proc EXCEPT ![p].pt = s.pt, ![p].sz = @ - n]
  /\ image' = [image EXCEPT ![p] = Restrict(@, DOMAIN @ \ {v \in Page : v >= PageUp(proc'[p].sz)})]
  /\ UNCHANGED <<other, thread>>

SbrkGrow(p, n) ==
  LET sz == proc[p].sz IN
  /\ At(p, "user") /\ sz + n <= TRAPFRAME * PGSIZE
  /\ thread' = [thread EXCEPT ![p] = [User EXCEPT !.at = "grow", !.a = PageUp(sz),
                                        !.end = sz + n, !.oldsz = sz, !.before = Before(p)]]
  /\ UNCHANGED <<free, other, proc, panicked, image>>

(* uvmalloc gives back what it made when it cannot go on.                 *)
UndoUvmalloc(s, a, oldsz) == Uvmdealloc(s, a * PGSIZE, PageUp(oldsz) * PGSIZE)

(* uvmalloc: a page more, the way back, or the end of the loop.            *)
GrowPage(p) ==
  LET t == thread[p]
      s == NewPage(State(proc[p].pt), t.a, {"U", "W"})
      back == UndoUvmalloc(s, t.a, t.oldsz) IN
  /\ At(p, "grow")
  /\ \/ /\ t.a * PGSIZE < t.end /\ s.ok
        /\ Takes(s)
        /\ proc' = [proc EXCEPT ![p].pt = s.pt]
        /\ thread' = [thread EXCEPT ![p].a = @ + 1]
     \/ /\ t.a * PGSIZE < t.end /\ ~ s.ok
        /\ Takes(back)
        /\ proc' = [proc EXCEPT ![p].pt = back.pt]
        /\ thread' = Fails(p)
     \/ /\ t.a * PGSIZE >= t.end
        /\ proc' = [proc EXCEPT ![p].sz = t.end]
        /\ thread' = [thread EXCEPT ![p] = User]
        /\ UNCHANGED <<free, panicked>>
  /\ UNCHANGED <<other, image>>

(* freeproc. The pages of the process and its slot.                        *)
Freeproc(s, sz) == LET f == ProcFreepagetable(s, sz) IN [f EXCEPT !.free = @ + 1]

(* A process ends with its memory as in s: kexit, and freeproc by the      *)
(* parent that waits.                                                      *)
Ends(p, s) ==
  /\ p # InitProcess
  /\ Takes(Freeproc(s, proc[p].sz))
  /\ proc' = [proc EXCEPT ![p] = NoProc]
  /\ thread' = [thread EXCEPT ![p] = Absent]
  /\ image' = [image EXCEPT ![p] = NoPages]
  /\ UNCHANGED other

Exit(p) == At(p, "user") /\ Ends(p, State(proc[p].pt))

(* A load or store of the program that no page allows: it goes on with a   *)
(* new one, or the process is killed (usertrap).                           *)
PageFault(p, a) ==
  LET s == Vmfault(State(proc[p].pt), proc[p].sz, a) IN
  /\ At(p, "user") /\ ~ (Walkaddr(proc[p].pt, PageOf(a)) /\ "W" \in proc[p].pt.leaf[PageOf(a)])
  /\ \/ /\ s.ok
        /\ Takes(s)
        /\ proc' = [proc EXCEPT ![p].pt = s.pt]
        /\ UNCHANGED <<other, thread, image>>
     \/ ~ s.ok /\ Ends(p, s)

(* A system call copies to or from address a, and returns -1 if it cannot. *)
EitherCopy(p, a) ==
  \E s \in {Copyin(State(proc[p].pt), proc[p].sz, a), Copyout(State(proc[p].pt), proc[p].sz, a)} :
    /\ At(p, "user")
    /\ Takes(s)
    /\ proc' = [proc EXCEPT ![p].pt = s.pt]
    /\ UNCHANGED <<other, thread, image>>

-----------------------------------------------------------------------------
(* fork                                                                    *)

(* allocproc: a trapframe and a page table, or nothing.                    *)
Fork(p, c) ==
  LET s == ProcPagetable([State(NoTable) EXCEPT !.free = @ - 1]) IN
  /\ At(p, "user") /\ At(c, "absent")
  /\ IF free > 0 /\ s.ok
     THEN /\ Takes(s)
          /\ proc' = [proc EXCEPT ![c] = [pt |-> s.pt, sz |-> 0, trapframe |-> TRUE]]
          /\ thread' = [thread EXCEPT ![p] = [User EXCEPT !.at = "copy", !.child = c,
                                                 !.before = Before(p)],
                                      ![c].at = "embryo"]
     ELSE /\ free' = (IF free > 0 THEN s.free + 1 ELSE free)
          /\ thread' = [thread EXCEPT ![p] = [User EXCEPT !.at = "failed", !.before = Before(p)]]
          /\ UNCHANGED <<proc, panicked>>
  /\ UNCHANGED <<other, image>>

(* uvmcopy gives back what it copied when it cannot go on.                 *)
UndoUvmcopy(s, a) == Uvmunmap(s, 0..a - 1)

(* A faulty uvmcopy that maps every page for reading and writing.          *)
FreshFlags(pt, v) == {"U", "W"}
PteFlags(pt, v) == pt.leaf[v]

(* uvmcopy: pages that are not mapped are passed over.                     *)
ForkCopy(p) ==
  LET a == thread[p].a
      c == thread[p].child
      s == NewPage(State(proc[c].pt), a, PteFlags(proc[p].pt, a))
      back == Freeproc(UndoUvmcopy(s, a), proc[c].sz) IN
  /\ At(p, "copy") /\ a * PGSIZE < proc[p].sz
  /\ \/ /\ a \notin UserPages(proc[p].pt)
        /\ thread' = [thread EXCEPT ![p].a = @ + 1]
        /\ UNCHANGED <<free, proc, panicked>>
     \/ /\ a \in UserPages(proc[p].pt) /\ s.ok
        /\ Takes(s)
        /\ proc' = [proc EXCEPT ![c].pt = s.pt]
        /\ thread' = [thread EXCEPT ![p].a = @ + 1]
     \/ /\ a \in UserPages(proc[p].pt) /\ ~ s.ok
        /\ Takes(back)
        /\ proc' = [proc EXCEPT ![c] = NoProc]
        /\ thread' = [Fails(p) EXCEPT ![c] = Absent]
  /\ UNCHANGED <<other, image>>

ForkDone(p) ==
  LET c == thread[p].child IN
  /\ At(p, "copy") /\ thread[p].a * PGSIZE >= proc[p].sz
  /\ proc' = [proc EXCEPT ![c].sz = proc[p].sz]
  /\ thread' = [thread EXCEPT ![p] = User, ![c] = User]
  /\ image' = [image EXCEPT ![c] = image[p]]
  /\ UNCHANGED <<free, other, panicked>>

-----------------------------------------------------------------------------
(* exec: sys_exec copies the arguments, kexec builds a second image        *)

(* The path and the arguments are strings in pages the process has.        *)
ExecBegin(p) ==
  /\ At(p, "user") /\ \E a \in Address : Copyinstr(proc[p].pt, a)
  /\ thread' = [thread EXCEPT ![p] = [User EXCEPT !.at = "argv", !.before = Before(p)]]
  /\ UNCHANGED <<free, other, proc, panicked, image>>

(* A page for an argument; too many, no page or a bad address is a failure.*)
ExecArgument(p) ==
  /\ At(p, "argv")
  /\ IF free > 0 /\ thread[p].argv < MAXARG
     THEN /\ free' = free - 1
          /\ thread' = [thread EXCEPT ![p].argv = @ + 1]
     ELSE /\ thread' = Fails(p)
          /\ UNCHANGED free
  /\ UNCHANGED <<other, proc, panicked, image>>

ExecBadArgument(p) ==
  /\ At(p, "argv")
  /\ thread' = Fails(p)
  /\ UNCHANGED <<free, other, proc, panicked, image>>

(* kexec: proc_pagetable. The list of arguments ended before MAXARG.       *)
ExecTable(p, g) ==
  LET s == ProcPagetable(State(NoTable)) IN
  /\ At(p, "argv") /\ thread[p].argv < MAXARG
  /\ Takes(s)
  /\ thread' = IF s.ok THEN [thread EXCEPT ![p].at = "exec", ![p].new = s.pt,
                                              ![p].program = g]
               ELSE Fails(p)
  /\ UNCHANGED <<other, proc, image>>

(* The next segment of the program, and after the last one the stack.      *)
ExecSegment(p) ==
  LET t == thread[p] IN
  /\ At(p, "exec") /\ t.i <= Len(t.program)
  /\ thread' = [thread EXCEPT ![p].at = "segment", ![p].a = PageUp(t.sz), ![p].oldsz = t.sz,
                              ![p].end = t.program[t.i].end]
  /\ UNCHANGED <<free, other, proc, panicked, image>>

ExecStack(p) ==
  LET t == thread[p]
      sz == PageUp(t.sz) * PGSIZE IN
  /\ At(p, "exec") /\ t.i > Len(t.program)
  /\ thread' = [thread EXCEPT ![p].at = "stack", ![p].a = PageUp(t.sz), ![p].sz = sz,
                              ![p].oldsz = sz, ![p].end = sz + StackPages * PGSIZE]
  /\ UNCHANGED <<free, other, proc, panicked, image>>

(* uvmalloc into the new image, freed where that fails.                    *)
ExecPage(p) ==
  LET t == thread[p]
      flags == IF t.at = "segment" THEN Flags2perm(t.program[t.i]) ELSE {"U", "W"}
      s == NewPage(State(t.new), t.a, flags)
      back == ProcFreepagetable(UndoUvmalloc(s, t.a, t.oldsz), t.sz) IN
  /\ t.at \in {"segment", "stack"} /\ t.a * PGSIZE < t.end
  /\ Takes(IF s.ok THEN s ELSE back)
  /\ thread' = IF s.ok THEN [thread EXCEPT ![p].new = s.pt, ![p].a = @ + 1] ELSE Fails(p)
  /\ UNCHANGED <<other, proc, image>>

(* The end of uvmalloc: loadseg wants every page of the segment, uvmclear  *)
(* the guard page, the lowest one of the stack.                            *)
Loadseg(p) ==
  LET t == thread[p]
      seg == t.program[t.i] IN
  /\ At(p, "segment") /\ t.a * PGSIZE >= t.end
  /\ thread' = [thread EXCEPT ![p].at = "exec", ![p].i = @ + 1,
                              ![p].sz = IF t.end < t.oldsz THEN t.oldsz ELSE t.end]
  /\ panicked' = (panicked \/ \E v \in PageOf(seg.start)..PageUp(seg.end) - 1 :
                                 ~ Walkaddr(t.new, v))
  /\ UNCHANGED <<free, other, proc, image>>

ExecGuard(p) ==
  LET t == thread[p]
      guard == PageUp(t.oldsz) IN
  /\ At(p, "stack") /\ t.a * PGSIZE >= t.end
  /\ IF Low(guard) \in t.new.low
     THEN /\ thread' = [thread EXCEPT ![p].at = "args", ![p].sz = t.end,
                                      ![p].new = Uvmclear(t.new, guard)]
          /\ UNCHANGED panicked
     ELSE /\ panicked' = TRUE
          /\ UNCHANGED thread
  /\ UNCHANGED <<free, other, proc, image>>

(* The arguments are copied to the stack.  A page that copyout did not find*)
(* there would be made in the old image.                                   *)
StackOf(t) == t.oldsz + PGSIZE..t.sz - 1
ExecArguments(p) ==
  LET t == thread[p] IN
  /\ At(p, "args")
  /\ \A a \in StackOf(t) : Copyout(State(t.new), proc[p].sz, a) = State(t.new)
  /\ thread' = [thread EXCEPT ![p].at = "commit"]
  /\ UNCHANGED <<free, other, proc, panicked, image>>

(* The file is bad, or the arguments do not fit on the stack.              *)
ExecBad(p) ==
  LET s == ProcFreepagetable(State(thread[p].new), thread[p].sz) IN
  /\ thread[p].at \in {"exec", "args"}
  /\ Takes(s)
  /\ thread' = Fails(p)
  /\ UNCHANGED <<other, proc, image>>

(* The new image replaces the old one; sys_exec frees the arguments.       *)
ExecCommit(p) ==
  LET s == ProcFreepagetable(State(proc[p].pt), proc[p].sz) IN
  /\ At(p, "commit")
  /\ free' = s.free + thread[p].argv
  /\ panicked' = (panicked \/ s.panic)
  /\ proc' = [proc EXCEPT ![p].pt = thread[p].new, ![p].sz = thread[p].sz]
  /\ thread' = [thread EXCEPT ![p] = User]
  /\ image' = [image EXCEPT ![p] = Image(thread[p].program)]
  /\ UNCHANGED other

-----------------------------------------------------------------------------

(* The rest of the kernel: pipes, the pages of other arguments.            *)
OtherTakes ==
  /\ free > 0 /\ other < MaxOther
  /\ free' = free - 1 /\ other' = other + 1
  /\ UNCHANGED <<proc, thread, panicked, image>>

OtherGives ==
  /\ other > 0
  /\ free' = free + 1 /\ other' = other - 1
  /\ UNCHANGED <<proc, thread, panicked, image>>

SysSbrk(p) == \E n \in Amounts : SbrkLazy(p, n) \/ SbrkShrink(p, n) \/ SbrkGrow(p, n)
Uvmcopy(p) == ForkCopy(p) \/ ForkDone(p)
SysExec(p) == ExecBegin(p) \/ ExecArgument(p) \/ ExecBadArgument(p)
Kexec(p) ==
  \/ \E g \in Program : ExecTable(p, g)
  \/ ExecSegment(p) \/ ExecPage(p) \/ Loadseg(p) \/ ExecStack(p) \/ ExecGuard(p)
  \/ ExecArguments(p) \/ ExecBad(p) \/ ExecCommit(p)

Step(p) ==
  \/ SysSbrk(p) \/ GrowPage(p)
  \/ \E a \in Address : PageFault(p, a) \/ EitherCopy(p, a)
  \/ \E c \in Process : Fork(p, c)
  \/ Uvmcopy(p) \/ Exit(p)
  \/ SysExec(p) \/ Kexec(p) \/ FailedReturn(p)

Next == OtherTakes \/ OtherGives \/ \E p \in Process : Step(p)

Spec == Init /\ [][Next]_vars

-----------------------------------------------------------------------------

IsTable(pt) ==
  /\ pt.root \in BOOLEAN /\ pt.kern \subseteq {TRAMPOLINE, TRAPFRAME}
  /\ pt.mid \subseteq 0..FANOUT - 1 /\ pt.low \subseteq 0..FANOUT * FANOUT - 1
  /\ UserPages(pt) \subseteq Page /\ pt.leaf \in [UserPages(pt) -> SUBSET {"U", "W"}]

TypeOK ==
  /\ free \in 0..NPAGES /\ other \in 0..MaxOther
  /\ panicked \in BOOLEAN
  /\ \A p \in Process :
       /\ IsTable(proc[p].pt) /\ IsTable(thread[p].new)
       /\ proc[p].sz \in 0..TRAPFRAME * PGSIZE /\ thread[p].argv \in 0..MAXARG

InUse(p) ==
  Pages(proc[p].pt) + Pages(thread[p].new) + thread[p].argv + (IF proc[p].trapframe THEN 1 ELSE 0)

(* A call that fails leaves the process the memory it had (sbrk, fork and  *)
(* exec return -1 and the process goes on).                                *)
FailsCleanly == \A p \in Process : At(p, "failed") => thread[p].before = Before(p)

(* Every page is on the free list or has an owner: whatever call fails, and*)
(* after however many of its pages, nothing leaks and nothing is freed     *)
(* twice (the paths back in uvmalloc, uvmcopy, vmfault, kfork, kexec).  And*)
(* freewalk never meets a page still mapped, mappages never a page mapped  *)
(* already, loadseg and uvmclear never a hole: sz covers what is mapped,   *)
(* though a page below it may be missing and the size need not be whole    *)
(* pages.                                                                  *)
Owned == UNION {{p} \X (1..InUse(p)) : p \in Process}
PagesConserved ==
  /\ TypeOK /\ ~ panicked /\ FailsCleanly
  /\ free + other + Cardinality(Owned) = NPAGES

(* What the program itself can read and write.                             *)
Reads(p, a) ==
  Walkaddr(proc[p].pt, PageOf(a)) \/ Vmfault(State(proc[p].pt), proc[p].sz, a).ok
Writes(p, a) ==
  \/ Walkaddr(proc[p].pt, PageOf(a)) /\ "W" \in proc[p].pt.leaf[PageOf(a)]
  \/ Vmfault(State(proc[p].pt), proc[p].sz, a).ok

(* A process keeps the protection exec gave it, and so do its children,    *)
(* until sbrk takes the pages back: text is not written, the guard page    *)
(* below the stack is not touched, by the program or by a system call for  *)
(* it; all other pages may be read and written.  A system call copies from *)
(* and to every place the program itself can use, and none beyond the last *)
(* page of the process.  And exec finds the stack of the new image: vmfault*)
(* would put a page into the old one, whatever table it is given.          *)
Protected ==
  \A p \in Process : thread[p].at \notin {"absent", "embryo"} =>
    /\ \A v \in DOMAIN image[p] \union UserPages(proc[p].pt) :
         /\ v \in UserPages(proc[p].pt)
         /\ proc[p].pt.leaf[v] = IF v \in DOMAIN image[p] THEN image[p][v] ELSE {"U", "W"}
    /\ At(p, "user") => \A a \in Address :
         LET in == Copyin(State(proc[p].pt), proc[p].sz, a).ok
             out == Copyout(State(proc[p].pt), proc[p].sz, a).ok
             v == PageOf(a) IN
         /\ (Reads(p, a) => in) /\ (Writes(p, a) => out)
         /\ in => v < PageUp(proc[p].sz) /\ (v \in DOMAIN image[p] => "U" \in image[p][v])
         /\ out => in /\ (v \in DOMAIN image[p] => "W" \in image[p][v])
    /\ At(p, "args") =>
         /\ thread[p].new.leaf = Image(thread[p].program)
         /\ \A a \in StackOf(thread[p]) :
              Copyout(State(thread[p].new), proc[p].sz, a) = State(thread[p].new)

=============================================================================
