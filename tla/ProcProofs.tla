------------------------------ MODULE ProcProofs ------------------------------
(***************************************************************************)
(* The inductive invariant of processes, locks and the clock, what a step  *)
(* must do to keep it, and that every step does: those the two schedulers  *)
(* share (user programs, kfork, kexit, kwait, kkill, sys_pause and the     *)
(* clock interrupt), then the schedulers' own, for any number of CPUs,     *)
(* slots, pids and ticks. The conclusions are for every run of ProcFCFS    *)
(* (xv6-riscv-modificado) and of ProcRR (the original xv6-riscv, with its  *)
(* yields).                                                                *)
(***************************************************************************)
EXTENDS ProcFCFS, ProcRR, TLAPS

-----------------------------------------------------------------------------
(* Places of a thread, by the locks its CPU holds there                    *)

(* None; a timer interrupt comes only here, and may end in a yield.        *)
Preemptible == {"user", "ret", "fork_scan", "fork_link", "fork_ready", "exit",
                "panic", "wait_lock", "kill_scan", "pause_lock", "pause_relock"}

(* The thread's own lock: here it leaves and enters the scheduler.         *)
HoldsOwn == {"forkret", "wait_woken", "pause_woken", "yielded"}

Exiting == {"exit_reparent", "reparent_wake", "exit_wake", "exit_zombie"}
HoldsWait == Exiting \union {"wait_scan", "wait_sleep"}
HoldsTicks == {"pause_check", "pause_sleep"}
Active == Preemptible \union HoldsOwn \union HoldsWait \union HoldsTicks \union {"fork_build"}

Alive == {"SLEEPING", "RUNNABLE", "RUNNING"}

(* Thread p with locals t, executed by a CPU, holds l.                     *)
ThreadHolds(p, t, l) ==
  \/ t.at \in HoldsOwn /\ l = p
  \/ t.at = "fork_build" /\ l = t.np
  \/ t.at \in HoldsWait /\ l = WaitLock
  \/ t.at \in HoldsTicks /\ l = TicksLock

(* CPU c holds l: for its scheduler, its clock interrupt or its thread.    *)
Holds(c, l) ==
  \/ cpu[c].at \in {"scan", "back"} /\ cpu[c].selected = l
  \/ cpu[c].irq \in 1..End /\ l = TicksLock
  \/ cpu[c].at = "switched" /\ ThreadHolds(cpu[c].proc, thread[cpu[c].proc], l)

(* Where a thread is, or was when it yielded.                              *)
Place(p) == IF thread[p].at = "yielded" THEN thread[p].resume ELSE thread[p].at
Forking(p) == Place(p) \in {"fork_build", "fork_link", "fork_ready"}

SleepsInWait(p) == proc[p].state = "SLEEPING" /\ proc[p].chan = p

-----------------------------------------------------------------------------
(* The inductive invariant                                                 *)

(* The locals of a CPU.  An interrupt finds no lock held.                  *)
CpuInv ==
  \A c \in CPU :
    /\ cpu[c].at \in {"loop", "scan"} => cpu[c].proc = None
    /\ cpu[c].at \in {"switched", "back"} =>
         cpu[c].proc # None /\ cpu[c].selected = cpu[c].proc
    /\ cpu[c].at = "loop" => cpu[c].selected = None
    /\ cpu[c].at = "scan" /\ cpu[c].selected # None =>
         /\ cpu[c].selected < cpu[c].i
         /\ proc[cpu[c].selected].state = "RUNNABLE"
    /\ cpu[c].at = "back" =>
         proc[cpu[c].proc].state \notin {"UNUSED", "USED", "RUNNING"}
    /\ cpu[c].irq # 0 =>
         /\ cpu[c].at \in {"loop", "switched"}
         /\ cpu[c].at = "switched" => thread[cpu[c].proc].at \in Preemptible

(* Where the thread of a process in each state is.                         *)
StateInv ==
  \A p \in Proc :
    /\ proc[p].state = "UNUSED" => thread[p].at = "none"
    /\ proc[p].state = "USED" => thread[p].at \in {"none", "forkret"}
    /\ proc[p].state = "SLEEPING" =>
         \/ thread[p].at = "wait_woken" /\ proc[p].chan = p
         \/ thread[p].at = "pause_woken" /\ proc[p].chan = TicksLock
    /\ proc[p].state = "RUNNABLE" => thread[p].at \in HoldsOwn
    /\ proc[p].state = "RUNNING" => thread[p].at \in Active
    /\ proc[p].state = "ZOMBIE" => thread[p].at = "dead"
    /\ thread[p].at = "yielded" => thread[p].resume \in Preemptible

LocksInv == \A c \in CPU, l \in Lock : lock[l] = c <=> Holds(c, l)

(* Until kfork lets it run, a child is known to one parent only.           *)
ForkInv ==
  /\ \A p \in Proc : Forking(p) =>
       /\ thread[p].np \in Proc
       /\ proc[thread[p].np].state = "USED"
       /\ thread[thread[p].np].at = IF Place(p) = "fork_build" THEN "none" ELSE "forkret"
       /\ Place(p) = "fork_ready" => proc[thread[p].np].parent = p
  /\ \A p, q \in Proc : Forking(p) /\ Forking(q) /\ thread[p].np = thread[q].np => p = q

(* Init lives for ever, a parent has not exited, and one that is exiting   *)
(* has given away the children it has looked at.                           *)
ParentInv ==
  /\ proc[Initproc].parent = None /\ proc[Initproc].state \in Alive
  /\ \A p \in Proc :
       proc[p].state \in Alive \union {"ZOMBIE"} /\ p # Initproc => proc[p].parent # None
  /\ \A p, s \in Proc : proc[s].parent = p =>
       /\ proc[p].state \in Alive
       /\ thread[p].at = "exit_reparent" => s >= thread[p].i
       /\ thread[p].at = "reparent_wake" => s > thread[p].i
       /\ thread[p].at \notin {"exit_wake", "exit_zombie"}
  /\ \A p \in Proc : thread[p].at \in Exiting => p # Initproc
  /\ \A p \in Proc : thread[p].at = "reparent_wake" => thread[p].i # End

(* A parent sleeps beside a zombie only if it is init and reparent is about*)
(* to wake it; who exits has woken its parent up; who waits has seen no    *)
(* zombie among the slots it has looked at.                                *)
WaitInv ==
  /\ \A p, s \in Proc :
       SleepsInWait(p) /\ proc[s].parent = p /\ proc[s].state = "ZOMBIE" =>
         /\ p = Initproc
         /\ \E q \in Proc : thread[q].at = "reparent_wake" /\ thread[q].w = Initproc
  /\ \A p, s \in Proc : proc[s].parent = p =>
       /\ thread[s].at = "exit_wake" /\ thread[s].w > p => ~ SleepsInWait(p)
       /\ thread[s].at = "exit_zombie" => ~ SleepsInWait(p)
       /\ thread[p].at = "wait_scan" /\ s < thread[p].i => proc[s].state # "ZOMBIE"
       /\ thread[p].at = "wait_sleep" => proc[s].state # "ZOMBIE"

(* Who goes to sleep in sys_pause has time left, unless the clock's wakeup *)
(* is still on its way.                                                    *)
TickInv ==
  \A p \in Proc :
    /\ thread[p].at = "pause_sleep" => Elapsed(p) < PauseTicks
    /\ proc[p].state = "SLEEPING" /\ proc[p].chan = TicksLock =>
         Elapsed(p) < PauseTicks \/ \E c \in CPU : cpu[c].irq \in 1..p

IInv ==
  /\ TypeOK
  /\ CpuInv
  /\ RunsOnce
  /\ StateInv
  /\ LocksInv
  /\ ForkInv
  /\ ParentInv
  /\ WaitInv
  /\ TickInv

USE CPUAssumption, SizeAssumption
    DEF Proc, None, Initproc, End, WaitLock, TicksLock, Lock, Free

-----------------------------------------------------------------------------
(* Who is where                                                            *)

Slot == [state : State, pid : Nat, parent : Proc \union {None},
         chan : Proc \union {None, TicksLock}, killed : BOOLEAN, arrival_time : Nat]
Thread == [at : Location, i : 1..End, w : 1..End, np : Proc \union {None}, arg : Nat,
           havekids : BOOLEAN, resume : Location]
Core == [at : {"loop", "scan", "switched", "back"}, i : 1..End,
         selected : Proc \union {None}, proc : Proc \union {None}, irq : 0..NPROC + 2]

LEMMA Typed ==
  ASSUME TypeOK
  PROVE  /\ proc \in [Proc -> Slot]
         /\ thread \in [Proc -> Thread]
         /\ cpu \in [CPU -> Core]
         /\ lock \in [Lock -> CPU \union {NoCPU}]
         /\ ticks \in Nat /\ nextpid \in Nat /\ shell \in Nat
BY Zenon DEF TypeOK, Slot, Thread, Core

LEMMA Retyped ==
  ASSUME proc' \in [Proc -> Slot], thread' \in [Proc -> Thread], cpu' \in [CPU -> Core],
         lock' \in [Lock -> CPU \union {NoCPU}],
         ticks' \in Nat, nextpid' \in Nat, shell' \in Nat
  PROVE  TypeOK'
BY Zenon DEF TypeOK, Slot, Thread, Core

(* A thread at one of these places is executed by a CPU.                   *)
LEMMA WhoRuns ==
  ASSUME IInv, NEW p \in Proc, thread[p].at \in Active \ HoldsOwn
  PROVE  /\ proc[p].state = "RUNNING"
         /\ \E d \in CPU : cpu[d].at = "switched" /\ cpu[d].proc = p
<1>1. proc[p].state \in State
  BY Typed DEF IInv, Slot
<1>2. proc[p].state = "RUNNING"
  BY <1>1 DEF IInv, StateInv, State, Active, Preemptible, HoldsOwn, HoldsWait, HoldsTicks, Exiting
<1> QED
  BY <1>2 DEF IInv, RunsOnce

LEMMA WaitLockHolder ==
  ASSUME IInv
  PROVE  /\ \A p \in Proc : thread[p].at \in HoldsWait => lock[WaitLock] # NoCPU
         /\ \A p, q \in Proc :
              thread[p].at \in HoldsWait /\ thread[q].at \in HoldsWait => p = q
<1>1. ASSUME NEW p \in Proc, thread[p].at \in HoldsWait
      PROVE  \E d \in CPU : cpu[d].proc = p /\ lock[WaitLock] = d
  <2>1. PICK d \in CPU : cpu[d].at = "switched" /\ cpu[d].proc = p
    BY <1>1, WhoRuns DEF Active, HoldsOwn, HoldsWait, Exiting
  <2>2. Holds(d, WaitLock)
    BY <1>1, <2>1 DEF Holds, ThreadHolds
  <2> QED
    BY <2>1, <2>2 DEF IInv, LocksInv
<1> QED
  BY <1>1

LEMMA TicksLockHolder ==
  ASSUME IInv
  PROVE  /\ \A p \in Proc : thread[p].at \in HoldsTicks => lock[TicksLock] # NoCPU
         /\ \A p, q \in Proc :
              thread[p].at \in HoldsTicks /\ thread[q].at \in HoldsTicks => p = q
         /\ \A p \in Proc, c \in CPU :
              thread[p].at \in HoldsTicks /\ cpu[c].irq \in 1..End => FALSE
<1>1. ASSUME NEW p \in Proc, thread[p].at \in HoldsTicks
      PROVE  \E d \in CPU : cpu[d].proc = p /\ lock[TicksLock] = d /\ cpu[d].irq = 0
  <2>1. PICK d \in CPU : cpu[d].at = "switched" /\ cpu[d].proc = p
    BY <1>1, WhoRuns DEF Active, HoldsOwn, HoldsTicks
  <2>2. Holds(d, TicksLock)
    BY <1>1, <2>1 DEF Holds, ThreadHolds
  <2>3. cpu[d].irq = 0
    BY <1>1, <2>1 DEF IInv, CpuInv, Preemptible, HoldsTicks
  <2> QED
    BY <2>1, <2>2, <2>3 DEF IInv, LocksInv
<1>2. \A c \in CPU : cpu[c].irq \in 1..End => lock[TicksLock] = c
  BY DEF IInv, LocksInv, Holds
<1> QED
  BY <1>1, <1>2

(* What a CPU that executes p knows.                                       *)
LEMMA OnFacts ==
  ASSUME IInv, NEW c \in CPU, NEW p \in Proc, On(c, p)
  PROVE  /\ cpu[c].at = "switched" /\ cpu[c].irq = 0 /\ cpu[c].proc = p
         /\ cpu[c].selected = p
         /\ proc[p].state = "RUNNING" /\ thread[p].at \in Active
         /\ \A d \in CPU \ {c} : cpu[d].proc # p
         /\ \A l \in Lock : lock[l] = c <=> ThreadHolds(p, thread[p], l)
<1>1. cpu[c].at = "switched" /\ cpu[c].irq = 0 /\ cpu[c].proc = p
  BY DEF On
<1>2. cpu[c].selected = p /\ \A d \in CPU \ {c} : cpu[d].proc # p
  BY <1>1 DEF IInv, CpuInv, RunsOnce
<1>3. proc[p].state = "RUNNING" /\ thread[p].at \in Active
  BY <1>1 DEF IInv, RunsOnce, StateInv
<1>4. \A l \in Lock : lock[l] = c <=> ThreadHolds(p, thread[p], l)
  BY <1>1 DEF IInv, LocksInv, Holds
<1> QED
  BY <1>1, <1>2, <1>3, <1>4

(* CPU c executes p, takes or gives back locks, and goes on with p's locals*)
(* t; the other CPUs keep what they hold.                                  *)
LockStep(c, p, t) ==
  /\ lock' \in [Lock -> CPU \union {NoCPU}]
  /\ \A l \in Lock :
       /\ lock'[l] = c <=> ThreadHolds(p, t, l)
       /\ \A d \in CPU \ {c} : lock'[l] = d <=> lock[l] = d

LEMMA LocksKept ==
  ASSUME IInv, NEW c \in CPU, NEW p \in Proc, On(c, p), cpu' = cpu,
         LockStep(c, p, thread'[p]),
         \A q \in Proc \ {p} : proc[q].state = "RUNNING" => thread'[q] = thread[q]
  PROVE  LocksInv'
<1> SUFFICES ASSUME NEW d \in CPU, NEW l \in Lock
             PROVE  lock'[l] = d <=> Holds(d, l)'
  BY DEF LocksInv
<1>1. CASE d = c
  BY <1>1, OnFacts DEF LockStep, Holds
<1>2. CASE d # c
  <2>1. cpu[d].at = "switched" =>
          thread'[cpu[d].proc] = thread[cpu[d].proc]
    <3> SUFFICES ASSUME cpu[d].at = "switched"
                 PROVE  thread'[cpu[d].proc] = thread[cpu[d].proc]
      OBVIOUS
    <3>1. cpu[d].proc \in Proc
      BY Typed DEF IInv, CpuInv, Core
    <3>2. cpu[d].proc # p /\ proc[cpu[d].proc].state = "RUNNING"
      BY <3>1, <1>2, OnFacts DEF IInv, RunsOnce
    <3> QED
      BY <3>1, <3>2
  <2>2. Holds(d, l)' <=> Holds(d, l)
    BY <2>1 DEF Holds, ThreadHolds
  <2>3. lock'[l] = d <=> lock[l] = d
    BY <1>2 DEF LockStep
  <2> QED
    BY <2>2, <2>3 DEF IInv, LocksInv
<1> QED
  BY <1>1, <1>2

(* A CPU that holds no lock at the places p leaves and reaches, takes one  *)
(* on the way, keeps what it holds, or gives its only lock back.           *)
LEMMA LockSteps ==
  ASSUME IInv, NEW c \in CPU, NEW p \in Proc, On(c, p), NEW t
  PROVE  /\ /\ \A l \in Lock : ThreadHolds(p, t, l) <=> ThreadHolds(p, thread[p], l)
            /\ lock' = lock
            => LockStep(c, p, t)
         /\ \A m \in Lock :
              /\ \A l \in Lock : ~ ThreadHolds(p, thread[p], l)
              /\ \A l \in Lock : ThreadHolds(p, t, l) <=> l = m
              /\ Acquire(c, m)
              => LockStep(c, p, t)
         /\ \A m \in Lock :
              /\ \A l \in Lock : ThreadHolds(p, thread[p], l) <=> l = m
              /\ \A l \in Lock : ~ ThreadHolds(p, t, l)
              /\ Release(m)
              => LockStep(c, p, t)
<1>1. /\ lock \in [Lock -> CPU \union {NoCPU}]
      /\ \A l \in Lock : lock[l] = c <=> ThreadHolds(p, thread[p], l)
  BY Typed, OnFacts DEF IInv
<1> QED
  BY <1>1 DEF LockStep, Acquire, Release

(* Nothing that the invariant tells of a process changes.                  *)
SameLives ==
  /\ proc' \in [Proc -> Slot]
  /\ \A q \in Proc : /\ proc'[q].state = proc[q].state
                     /\ proc'[q].parent = proc[q].parent
                     /\ proc[q].state = "SLEEPING" => proc'[q].chan = proc[q].chan

(* What the invariant asks of thread p with locals t.                      *)
MayGoTo(p, t) ==
  /\ t.at \in Active \ {"yielded", "fork_build", "fork_link", "fork_ready"}
  /\ t.at \in Exiting => p # Initproc
  /\ t.at = "reparent_wake" => t.i # End
  /\ thread[p].at = "reparent_wake" /\ thread[p].w = Initproc =>
       t.at = "reparent_wake" /\ t.w = Initproc
  /\ \A q \in Proc : proc[p].parent = q =>
       /\ t.at = "exit_wake" /\ t.w > q => ~ SleepsInWait(q)
       /\ t.at = "exit_zombie" => ~ SleepsInWait(q)
  /\ \A s \in Proc : proc[s].parent = p =>
       /\ t.at = "exit_reparent" => s >= t.i
       /\ t.at = "reparent_wake" => s > t.i
       /\ t.at \notin {"exit_wake", "exit_zombie"}
       /\ t.at = "wait_scan" /\ s < t.i => proc[s].state # "ZOMBIE"
       /\ t.at = "wait_sleep" => proc[s].state # "ZOMBIE"
  /\ t.at = "pause_sleep" => (ticks - t.arg + TickWidth) % TickWidth < PauseTicks

(* CPU c executes p, which goes on with locals t and may take or give back *)
(* locks; nothing else changes.                                            *)
LEMMA ThreadStep ==
  ASSUME IInv, NEW c \in CPU, NEW p \in Proc, On(c, p), NEW t \in Thread,
         thread' = [thread EXCEPT ![p] = t], UNCHANGED <<cpu, ticks>>,
         SameLives, nextpid' \in Nat, shell' \in Nat,
         LockStep(c, p, t),
         MayGoTo(p, t)
  PROVE  IInv'
<1>1. /\ thread \in [Proc -> Thread] /\ thread' \in [Proc -> Thread]
      /\ thread'[p] = t /\ \A q \in Proc \ {p} : thread'[q] = thread[q]
  BY Typed DEF IInv
<1>0. /\ \A q \in Proc : /\ proc'[q].state = proc[q].state
                         /\ proc'[q].parent = proc[q].parent
                         /\ proc[q].state = "SLEEPING" => proc'[q].chan = proc[q].chan
      /\ \A q \in Proc : SleepsInWait(q)' <=> SleepsInWait(q)
  BY DEF SameLives, SleepsInWait
<1>m. /\ t.at \in Active \ {"yielded", "fork_build", "fork_link", "fork_ready"}
      /\ t.at \in Exiting => p # Initproc
      /\ t.at = "reparent_wake" => t.i # End
      /\ thread[p].at = "reparent_wake" /\ thread[p].w = Initproc =>
           t.at = "reparent_wake" /\ t.w = Initproc
      /\ t.at = "pause_sleep" => (ticks - t.arg + TickWidth) % TickWidth < PauseTicks
  BY DEF MayGoTo
<1>2. TypeOK'
  BY <1>1, Typed, Retyped DEF IInv, LockStep, SameLives
<1>3. CpuInv'
  <2>1. /\ cpu' = cpu
        /\ \A d \in CPU : /\ cpu[d].proc \in Proc \union {None}
                          /\ cpu[d].selected \in Proc \union {None}
    BY Typed, Zenon DEF IInv, Core
  <2>2. \A d \in CPU : cpu[d].irq # 0 => cpu[d].proc # p
    BY OnFacts DEF IInv
  <2> QED
    BY <1>0, <1>1, <2>1, <2>2 DEF IInv, CpuInv
<1>4. RunsOnce'
  BY <1>0 DEF IInv, RunsOnce
<1>5. StateInv'
  BY <1>0, <1>1, <1>m, OnFacts DEF IInv, StateInv
<1>6. LocksInv'
  BY <1>1, LocksKept
<1>7. ForkInv'
  <2>1. \A q \in Proc : Forking(q)' => Forking(q) /\ q # p /\ Place(q)' = Place(q)
    BY <1>1, <1>m DEF Forking, Place
  <2>2. \A q \in Proc : Forking(q) => thread[q].np \in Proc \ {p}
    BY OnFacts DEF IInv, ForkInv
  <2> QED
    BY <1>0, <1>1, <2>1, <2>2 DEF IInv, ForkInv
<1>8. ParentInv'
  <2>1. \A q, s \in Proc : proc[s].parent = q =>
          /\ proc[q].state \in Alive
          /\ thread'[q].at = "exit_reparent" => s >= thread'[q].i
          /\ thread'[q].at = "reparent_wake" => s > thread'[q].i
          /\ thread'[q].at \notin {"exit_wake", "exit_zombie"}
    BY <1>1 DEF IInv, ParentInv, MayGoTo
  <2> QED
    BY <1>0, <1>1, <1>m, <2>1 DEF IInv, ParentInv
<1>9. WaitInv'
  <2>1. ASSUME NEW q \in Proc, NEW s \in Proc,
               SleepsInWait(q), proc[s].parent = q, proc[s].state = "ZOMBIE"
        PROVE  /\ q = Initproc
               /\ \E r \in Proc : thread'[r].at = "reparent_wake" /\ thread'[r].w = Initproc
    BY <1>1, <1>m, <2>1 DEF IInv, WaitInv
  <2>2. ASSUME NEW q \in Proc, NEW s \in Proc, proc[s].parent = q,
               \/ thread'[s].at = "exit_zombie"
               \/ thread'[s].at = "exit_wake" /\ thread'[s].w > q
        PROVE  ~ SleepsInWait(q)
    BY <1>1, <2>2 DEF IInv, WaitInv, MayGoTo
  <2>3. \A q, s \in Proc : proc[s].parent = q =>
          /\ thread'[q].at = "wait_scan" /\ s < thread'[q].i => proc[s].state # "ZOMBIE"
          /\ thread'[q].at = "wait_sleep" => proc[s].state # "ZOMBIE"
    BY <1>1 DEF IInv, WaitInv, MayGoTo
  <2> QED
    BY <1>0, <2>1, <2>2, <2>3 DEF WaitInv
<1>10. TickInv'
  BY <1>0, <1>1, <1>m, OnFacts DEF IInv, TickInv, Elapsed
<1> QED
  BY <1>2, <1>3, <1>4, <1>5, <1>6, <1>7, <1>8, <1>9, <1>10 DEF IInv

LEMMA SameStaysSame ==
  ASSUME IInv, proc' = proc
  PROVE  SameLives
BY Typed DEF IInv, SameLives

(* The locals of a thread at a new place.                                  *)
LEMMA LocalsType ==
  ASSUME NEW l \in Location, NEW n \in Proc, NEW k \in Nat
  PROVE  /\ At(l) \in Thread
         /\ [At(l) EXCEPT !.np = n] \in Thread
         /\ [At(l) EXCEPT !.arg = k] \in Thread
<1>1. 1 \in 1..End /\ 0 \in Nat /\ None \in Proc \union {None} /\ n \in Proc \union {None}
  OBVIOUS
<1>2. "none" \in Location
  BY DEF Location
<1> SUFFICES ASSUME NEW Ends, NEW Procs, 1 \in Ends, None \in Procs, n \in Procs
             PROVE  LET T == [at : Location, i : Ends, w : Ends, np : Procs, arg : Nat,
                              havekids : BOOLEAN, resume : Location]
                    IN  /\ At(l) \in T
                        /\ [At(l) EXCEPT !.np = n] \in T
                        /\ [At(l) EXCEPT !.arg = k] \in T
  BY <1>1, Zenon DEF Thread
<1> QED
  BY <1>1, <1>2, Zenon DEF At

LEMMA LocalsMove ==
  ASSUME NEW t \in Thread, NEW l \in Location, NEW n \in 1..End, NEW k \in Nat
  PROVE  /\ [t EXCEPT !.at = l] \in Thread
         /\ [t EXCEPT !.at = l, !.w = 1] \in Thread
         /\ [t EXCEPT !.at = l, !.w = 1, !.i = n] \in Thread
         /\ [t EXCEPT !.at = l, !.arg = k] \in Thread
         /\ [t EXCEPT !.i = n] \in Thread
         /\ [t EXCEPT !.w = n] \in Thread
         /\ [t EXCEPT !.i = n, !.havekids = TRUE] \in Thread
<1>1. 1 \in 1..End /\ n \in 1..End
  OBVIOUS
<1> SUFFICES ASSUME NEW Ends, NEW Procs, 1 \in Ends, n \in Ends,
                    NEW u \in [at : Location, i : Ends, w : Ends, np : Procs, arg : Nat,
                              havekids : BOOLEAN, resume : Location]
             PROVE  LET T == [at : Location, i : Ends, w : Ends, np : Procs, arg : Nat,
                              havekids : BOOLEAN, resume : Location]
                    IN  /\ [u EXCEPT !.at = l] \in T
                        /\ [u EXCEPT !.at = l, !.w = 1] \in T
                        /\ [u EXCEPT !.at = l, !.w = 1, !.i = n] \in T
                        /\ [u EXCEPT !.at = l, !.arg = k] \in T
                        /\ [u EXCEPT !.i = n] \in T
                        /\ [u EXCEPT !.w = n] \in T
                        /\ [u EXCEPT !.i = n, !.havekids = TRUE] \in T
  BY <1>1, Zenon DEF Thread
<1> QED
  BY Zenon

LEMMA LocalsAt ==
  ASSUME NEW t \in Thread, NEW l \in Location
  PROVE  /\ [t EXCEPT !.at = l] \in Thread /\ [t EXCEPT !.at = l].at = l
         /\ [t EXCEPT !.at = l].np = t.np
<1>1. 1 \in 1..End /\ 0 \in Nat
  OBVIOUS
<1>2. [t EXCEPT !.at = l] \in Thread
  BY <1>1, LocalsMove, Zenon
<1> QED
  BY <1>2 DEF Thread

LEMMA SlotMoves ==
  ASSUME NEW x \in Slot, NEW st \in State, NEW n \in Nat, NEW k \in Proc
  PROVE  /\ [x EXCEPT !.state = st] \in Slot
         /\ [x EXCEPT !.state = st, !.pid = n] \in Slot
         /\ [x EXCEPT !.killed = TRUE] \in Slot
         /\ [x EXCEPT !.killed = TRUE, !.state = st] \in Slot
         /\ [x EXCEPT !.arrival_time = n] \in Slot
         /\ [x EXCEPT !.parent = k] \in Slot
         /\ [x EXCEPT !.chan = k, !.state = st] \in Slot
         /\ [x EXCEPT !.chan = TicksLock, !.state = st] \in Slot
         /\ [x EXCEPT !.chan = None] \in Slot
         /\ UnusedProc \in Slot
<1>1. /\ k \in Proc \union {None} /\ None \in Proc \union {None} /\ 0 \in Nat
      /\ {k, None, TicksLock} \subseteq Proc \union {None, TicksLock}
      /\ "UNUSED" \in State
  BY DEF State
<1> SUFFICES ASSUME NEW Parents, NEW Chans, NEW Nats, NEW tl, NEW States,
                    0 \in Nats, n \in Nats, st \in States, "UNUSED" \in States,
                    k \in Parents, None \in Parents, k \in Chans, tl \in Chans, None \in Chans,
                    NEW y \in [state : States, pid : Nats, parent : Parents, chan : Chans,
                               killed : BOOLEAN, arrival_time : Nats]
             PROVE  LET T == [state : States, pid : Nats, parent : Parents, chan : Chans,
                              killed : BOOLEAN, arrival_time : Nats]
                    IN  /\ [y EXCEPT !.state = st] \in T
                        /\ [y EXCEPT !.state = st, !.pid = n] \in T
                        /\ [y EXCEPT !.killed = TRUE] \in T
                        /\ [y EXCEPT !.killed = TRUE, !.state = st] \in T
                        /\ [y EXCEPT !.arrival_time = n] \in T
                        /\ [y EXCEPT !.parent = k] \in T
                        /\ [y EXCEPT !.chan = k, !.state = st] \in T
                        /\ [y EXCEPT !.chan = tl, !.state = st] \in T
                        /\ [y EXCEPT !.chan = None] \in T
                        /\ [state |-> "UNUSED", pid |-> 0, parent |-> None, chan |-> None,
                            killed |-> FALSE, arrival_time |-> 0] \in T
  <2>1. UnusedProc = [state |-> "UNUSED", pid |-> 0, parent |-> None, chan |-> None,
                      killed |-> FALSE, arrival_time |-> 0]
    BY Zenon DEF UnusedProc
  <2>2. n \in Nat /\ st \in State
    BY Zenon
  <2> HIDE DEF TicksLock, None, Proc
  <2> QED
    BY <1>1, <2>1, <2>2, Zenon DEF Slot
<1> QED
  BY Zenon

(* A CPU whose thread leaves it, or that serves an interrupt.              *)
LEMMA CoreMoves ==
  ASSUME NEW k \in Core, NEW n \in 0..NPROC + 2
  PROVE  /\ [k EXCEPT !.at = "back"] \in Core
         /\ [k EXCEPT !.irq = n] \in Core
         /\ [k EXCEPT !.irq = n, !.at = "back"] \in Core
<1> SUFFICES ASSUME NEW Irqs, n \in Irqs, NEW Ends, NEW Procs,
                    NEW y \in [at : {"loop", "scan", "switched", "back"}, i : Ends,
                               selected : Procs, proc : Procs, irq : Irqs]
             PROVE  LET T == [at : {"loop", "scan", "switched", "back"}, i : Ends,
                              selected : Procs, proc : Procs, irq : Irqs]
                    IN  /\ [y EXCEPT !.at = "back"] \in T
                        /\ [y EXCEPT !.irq = n] \in T
                        /\ [y EXCEPT !.irq = n, !.at = "back"] \in T
  BY Zenon DEF Core
<1> QED
  BY Zenon

(* From one place without locks to another.                                *)
LEMMA FreeStep ==
  ASSUME IInv, NEW c \in CPU, NEW p \in Proc, On(c, p), NEW t \in Thread,
         thread[p].at \in Preemptible,
         t.at \in Preemptible \ {"fork_link", "fork_ready"},
         thread' = [thread EXCEPT ![p] = t],
         UNCHANGED <<proc, cpu, lock, ticks, nextpid, shell>>
  PROVE  IInv'
<1>1. LockStep(c, p, t)
  BY LockSteps DEF ThreadHolds, Preemptible, HoldsOwn, HoldsWait, HoldsTicks, Exiting
<1>2. nextpid' \in Nat /\ shell' \in Nat
  BY Typed DEF IInv
<1> QED
  BY <1>1, <1>2, SameStaysSame, ThreadStep, Zenon DEF MayGoTo, Preemptible, Active, Exiting

(* At(l) is the place l.                                                   *)
LEMMA AtPlace == \A l : At(l).at = l /\ At(l).i = 1 /\ At(l).w = 1
BY DEF At

LEMMA FinishStep ==
  ASSUME IInv, NEW c \in CPU, NEW p \in Proc, On(c, p), NEW l,
         thread[p].at \in Preemptible, l \in Preemptible \ {"fork_link", "fork_ready"},
         Finish(p, l), UNCHANGED <<proc, cpu, lock, ticks, nextpid, shell>>
  PROVE  IInv'
<1>1. At(l) \in Thread
  BY LocalsType, Zenon DEF Preemptible, Location
<1> QED
  BY <1>1, AtPlace, FreeStep, Zenon DEF Finish

(* A step of thread p on CPU c that changes the state of other processes   *)
(* only under their locks, and runs nobody.                                *)
LEMMA CpusKept ==
  ASSUME IInv, NEW c \in CPU, NEW p \in Proc, On(c, p), cpu' = cpu,
         LockStep(c, p, thread'[p]),
         \A q \in Proc \ {p} : proc[q].state = "RUNNING" => thread'[q] = thread[q],
         \A q \in Proc :
           \/ proc'[q].state = proc[q].state
           \/ /\ lock[q] \in {NoCPU, c}
              /\ proc[q].state # "RUNNING" /\ proc'[q].state # "RUNNING"
  PROVE  CpuInv' /\ RunsOnce' /\ LocksInv'
<1>1. /\ \A d \in CPU : /\ cpu[d].proc \in Proc \union {None}
                        /\ cpu[d].selected \in Proc \union {None}
      /\ \A d \in CPU : cpu[d].proc = p <=> d = c
      /\ cpu[c].at = "switched" /\ cpu[c].irq = 0
  BY Typed, OnFacts DEF IInv, Core
<1>2. \A q \in Proc : proc'[q].state = "RUNNING" <=> proc[q].state = "RUNNING"
  OBVIOUS
<1>3. RunsOnce'
  BY <1>2 DEF IInv, RunsOnce
<1>4. CpuInv'
  <2> SUFFICES ASSUME NEW d \in CPU, d # c
               PROVE  /\ cpu[d].at = "scan" /\ cpu[d].selected # None =>
                           proc'[cpu[d].selected].state = "RUNNABLE"
                      /\ cpu[d].at = "back" =>
                           proc'[cpu[d].proc].state \notin {"UNUSED", "USED", "RUNNING"}
                      /\ cpu[d].irq # 0 /\ cpu[d].at = "switched" =>
                           thread'[cpu[d].proc].at \in Preemptible
    BY <1>1 DEF IInv, CpuInv
  <2>1. cpu[d].at \in {"scan", "back"} /\ cpu[d].selected # None =>
          proc'[cpu[d].selected].state = proc[cpu[d].selected].state
    <3> SUFFICES ASSUME cpu[d].at \in {"scan", "back"}, cpu[d].selected # None
                 PROVE  proc'[cpu[d].selected].state = proc[cpu[d].selected].state
      OBVIOUS
    <3>1. cpu[d].selected \in Proc
      BY <1>1
    <3>2. lock[cpu[d].selected] = d
      BY <3>1 DEF IInv, LocksInv, Holds
    <3> QED
      BY <3>1, <3>2
  <2>2. cpu[d].at = "switched" => thread'[cpu[d].proc] = thread[cpu[d].proc]
    <3> SUFFICES ASSUME cpu[d].at = "switched"
                 PROVE  thread'[cpu[d].proc] = thread[cpu[d].proc]
      OBVIOUS
    <3>1. cpu[d].proc \in Proc \ {p}
      BY <1>1 DEF IInv, CpuInv
    <3>2. proc[cpu[d].proc].state = "RUNNING"
      BY <3>1 DEF IInv, RunsOnce
    <3> QED
      BY <3>1, <3>2
  <2> QED
    BY <1>1, <2>1, <2>2 DEF IInv, CpuInv
<1> QED
  BY <1>3, <1>4, LocksKept

(* Thread p leaves CPU c for its scheduler, with its own lock and no other.*)
LEMMA SwitchOff ==
  ASSUME IInv, NEW c \in CPU, NEW p \in Proc, cpu[c].at = "switched", cpu[c].proc = p,
         cpu'[c].at = "back", cpu'[c].irq = 0, cpu'[c].proc = p, cpu'[c].selected = p,
         \A d \in CPU \ {c} : cpu'[d] = cpu[d],
         \A l \in Lock : /\ lock'[l] = c <=> l = p
                         /\ \A d \in CPU \ {c} : lock'[l] = d <=> lock[l] = d,
         \A q \in Proc \ {p} : proc'[q].state = proc[q].state /\ thread'[q] = thread[q],
         proc'[p].state \notin {"UNUSED", "USED", "RUNNING"}
  PROVE  CpuInv' /\ RunsOnce' /\ LocksInv'
<1>1. /\ \A d \in CPU : /\ cpu[d].proc \in Proc \union {None}
                        /\ cpu[d].selected \in Proc \union {None}
      /\ \A d \in CPU \ {c} : cpu[d].proc # p
  <2>1. \A d \in CPU : cpu[d] \in Core
    BY Typed DEF IInv
  <2>2. \A d \in CPU \ {c} : cpu[d].proc # p
    BY DEF IInv, RunsOnce
  <2> QED
    BY <2>1, <2>2 DEF Core
<1>2. \A d \in CPU \ {c} : cpu[d].at \in {"scan", "back"} => cpu[d].selected # p
  <2> SUFFICES ASSUME NEW d \in CPU \ {c}, cpu[d].at \in {"scan", "back"}, cpu[d].selected = p
               PROVE  FALSE
    OBVIOUS
  <2>1. p \in Lock /\ lock[p] = d
    BY DEF IInv, LocksInv, Holds
  <2>2. lock'[p] = d /\ lock'[p] = c
    BY <2>1
  <2> QED
    BY <2>2
<1>3. RunsOnce'
  <2>1. \A d, e \in CPU : cpu'[d].proc # None /\ cpu'[d].proc = cpu'[e].proc => d = e
    BY <1>1 DEF IInv, RunsOnce
  <2>2. ASSUME NEW q \in Proc
        PROVE  proc'[q].state = "RUNNING" <=>
                 \E d \in CPU : cpu'[d].proc = q /\ cpu'[d].at = "switched"
    <3>1. CASE q = p
      BY <1>1, <3>1
    <3>2. CASE q # p
      BY <1>1, <3>2 DEF IInv, RunsOnce
    <3> QED
      BY <3>1, <3>2
  <2> QED
    BY <2>1, <2>2 DEF RunsOnce
<1>4. CpuInv'
  <2> SUFFICES ASSUME NEW d \in CPU \ {c}
               PROVE  /\ cpu[d].at = "scan" /\ cpu[d].selected # None =>
                           proc'[cpu[d].selected].state = "RUNNABLE"
                      /\ cpu[d].at = "back" =>
                           proc'[cpu[d].proc].state \notin {"UNUSED", "USED", "RUNNING"}
                      /\ cpu[d].irq # 0 /\ cpu[d].at = "switched" =>
                           thread'[cpu[d].proc].at \in Preemptible
    BY <1>1 DEF IInv, CpuInv
  <2> QED
    BY <1>1, <1>2 DEF IInv, CpuInv
<1>5. LocksInv'
  <2> SUFFICES ASSUME NEW d \in CPU, NEW l \in Lock
               PROVE  lock'[l] = d <=> Holds(d, l)'
    BY DEF LocksInv
  <2>1. CASE d = c
    BY <1>1, <2>1 DEF Holds
  <2>2. CASE d # c
    <3>1. cpu[d].at = "switched" => thread'[cpu[d].proc] = thread[cpu[d].proc]
      BY <1>1, <2>2 DEF IInv, CpuInv
    <3>2. Holds(d, l)' <=> Holds(d, l)
      BY <1>1, <2>2, <3>1 DEF Holds, ThreadHolds
    <3> QED
      BY <2>2, <3>2 DEF IInv, LocksInv
  <2> QED
    BY <2>1, <2>2
<1> QED
  BY <1>3, <1>4, <1>5

(* A step that moves nobody into a place with wait_lock or tickslock, puts *)
(* nobody to sleep, and leaves the exits in progress and the families.     *)
Quiet(q) ==
  /\ \/ thread'[q] = thread[q]
     \/ /\ thread[q].at # "reparent_wake"
        /\ thread'[q].at \notin HoldsWait \union HoldsTicks
  /\ \/ proc'[q].parent = proc[q].parent
     \/ proc'[q].parent = None /\ proc'[q].state = "UNUSED"
  /\ proc[q].state \in Alive => proc'[q].state \in Alive
  /\ proc'[q].state \in Alive =>
       proc[q].state \in Alive \/ proc'[q].parent # None
  /\ proc'[q].state = "ZOMBIE" => proc[q].state = "ZOMBIE"
  /\ proc'[q].state = "SLEEPING" =>
       /\ proc[q].state = "SLEEPING" /\ proc'[q].chan = proc[q].chan
       /\ thread'[q] = thread[q]

LEMMA QuietStep ==
  ASSUME IInv, \A q \in Proc : Quiet(q)
  PROVE  ParentInv' /\ WaitInv' /\ (UNCHANGED <<cpu, ticks>> => TickInv')
<1>1. /\ \A q \in Proc : SleepsInWait(q)' => SleepsInWait(q)
      /\ \A q, s \in Proc : proc'[s].parent = q => proc[s].parent = q
      /\ \A s \in Proc : proc'[s].state = "ZOMBIE" => proc[s].state = "ZOMBIE"
  BY DEF Quiet, SleepsInWait
<1>2. \A q \in Proc : thread'[q].at \in HoldsWait \union HoldsTicks => thread'[q] = thread[q]
  BY DEF Quiet
<1>3. \A q \in Proc : thread[q].at = "reparent_wake" => thread'[q] = thread[q]
  BY DEF Quiet
<1>4. ParentInv'
  <2>1. proc'[Initproc].parent = None /\ proc'[Initproc].state \in Alive
    BY DEF Quiet, IInv, ParentInv
  <2>2. \A q \in Proc :
          proc'[q].state \in Alive \union {"ZOMBIE"} /\ q # Initproc => proc'[q].parent # None
    BY DEF Quiet, IInv, ParentInv, Alive
  <2>3. \A q, s \in Proc : proc'[s].parent = q =>
          /\ proc'[q].state \in Alive
          /\ thread'[q].at = "exit_reparent" => s >= thread'[q].i
          /\ thread'[q].at = "reparent_wake" => s > thread'[q].i
          /\ thread'[q].at \notin {"exit_wake", "exit_zombie"}
    <3> SUFFICES ASSUME NEW q \in Proc, NEW s \in Proc, proc'[s].parent = q
                 PROVE  /\ proc'[q].state \in Alive
                        /\ thread'[q].at = "exit_reparent" => s >= thread'[q].i
                        /\ thread'[q].at = "reparent_wake" => s > thread'[q].i
                        /\ thread'[q].at \notin {"exit_wake", "exit_zombie"}
      OBVIOUS
    <3>1. proc[s].parent = q /\ proc'[q].state \in Alive
      BY <1>1 DEF Quiet, IInv, ParentInv
    <3> QED
      BY <1>2, <3>1 DEF IInv, ParentInv, HoldsWait, Exiting
  <2>4. \A q \in Proc : /\ thread'[q].at \in Exiting => q # Initproc
                        /\ thread'[q].at = "reparent_wake" => thread'[q].i # End
    BY <1>2 DEF IInv, ParentInv, HoldsWait, Exiting
  <2> QED
    BY <2>1, <2>2, <2>3, <2>4 DEF ParentInv
<1>5. WaitInv'
  <2>1. \A q, s \in Proc :
          SleepsInWait(q)' /\ proc'[s].parent = q /\ proc'[s].state = "ZOMBIE" =>
            /\ q = Initproc
            /\ \E r \in Proc : thread'[r].at = "reparent_wake" /\ thread'[r].w = Initproc
    BY <1>1, <1>3 DEF IInv, WaitInv, HoldsWait, Exiting
  <2>2. \A q, s \in Proc : proc'[s].parent = q =>
          /\ thread'[s].at = "exit_wake" /\ thread'[s].w > q => ~ SleepsInWait(q)'
          /\ thread'[s].at = "exit_zombie" => ~ SleepsInWait(q)'
    BY <1>1, <1>2 DEF IInv, WaitInv, HoldsWait, Exiting
  <2>3. \A q, s \in Proc : proc'[s].parent = q =>
          /\ thread'[q].at = "wait_scan" /\ s < thread'[q].i => proc'[s].state # "ZOMBIE"
          /\ thread'[q].at = "wait_sleep" => proc'[s].state # "ZOMBIE"
    BY <1>1, <1>2 DEF IInv, WaitInv, HoldsWait
  <2> QED
    BY <2>1, <2>2, <2>3 DEF WaitInv
<1>6. ASSUME UNCHANGED <<cpu, ticks>>
      PROVE  TickInv'
  <2> SUFFICES ASSUME NEW q \in Proc
               PROVE  /\ thread'[q].at = "pause_sleep" => Elapsed(q)' < PauseTicks
                      /\ proc'[q].state = "SLEEPING" /\ proc'[q].chan = TicksLock =>
                           Elapsed(q)' < PauseTicks \/ \E c \in CPU : cpu[c].irq \in 1..q
    BY <1>6 DEF TickInv
  <2>1. thread'[q].at = "pause_sleep" \/ proc'[q].state = "SLEEPING" =>
          thread'[q] = thread[q] /\ Elapsed(q)' = Elapsed(q)
    BY <1>2, <1>6 DEF Quiet, HoldsTicks, Elapsed
  <2> QED
    BY <1>6, <2>1 DEF Quiet, IInv, TickInv
<1> QED
  BY <1>4, <1>5, <1>6

LEMMA ForkKept ==
  ASSUME IInv,
         \A q \in Proc : Forking(q)' =>
           /\ Forking(q) /\ thread'[q].np = thread[q].np
           /\ proc'[thread[q].np].state = "USED"
           /\ thread'[thread[q].np].at = IF Place(q)' = "fork_build" THEN "none" ELSE "forkret"
           /\ Place(q)' = "fork_ready" => proc'[thread[q].np].parent = q
  PROVE  ForkInv'
<1>1. \A q \in Proc : Forking(q)' =>
        /\ thread'[q].np \in Proc
        /\ proc'[thread'[q].np].state = "USED"
        /\ thread'[thread'[q].np].at = IF Place(q)' = "fork_build" THEN "none" ELSE "forkret"
        /\ Place(q)' = "fork_ready" => proc'[thread'[q].np].parent = q
  BY DEF IInv, ForkInv
<1>2. \A q, r \in Proc :
        Forking(q)' /\ Forking(r)' /\ thread'[q].np = thread'[r].np => q = r
  BY DEF IInv, ForkInv
<1> QED
  BY <1>1, <1>2 DEF ForkInv

-----------------------------------------------------------------------------
(* User programs                                                           *)

LEMMA UserTrapIInv ==
  ASSUME IInv, NEW c \in CPU, NEW p \in Proc, UserTrap(c, p)
  PROVE  IInv'
<1>1. /\ On(c, p) /\ thread[p].at \in Preemptible
      /\ UNCHANGED <<proc, cpu, lock, ticks, nextpid, shell>>
  BY DEF UserTrap, Preemptible
<1>2. CASE \E l \in {"exit", "fork_scan", "wait_lock", "pause_lock"} : Finish(p, l)
  BY <1>1, <1>2, FinishStep DEF Preemptible
<1>3. CASE \E k \in KillTargets :
             thread' = [thread EXCEPT ![p] = [At("kill_scan") EXCEPT !.arg = k]]
  <2>1. PICK k \in KillTargets :
             thread' = [thread EXCEPT ![p] = [At("kill_scan") EXCEPT !.arg = k]]
    BY <1>3, Zenon
  <2> DEFINE t == [At("kill_scan") EXCEPT !.arg = k]
  <2>2. t \in Thread /\ t.at = "kill_scan"
    BY LocalsType, Zenon DEF Location, At
  <2> QED
    BY <1>1, <2>1, <2>2, FreeStep, Zenon DEF Preemptible
<1> QED
  BY <1>2, <1>3 DEF UserTrap, Call

LEMMA UserFaultIInv ==
  ASSUME IInv, NEW c \in CPU, NEW p \in Proc, UserFault(c, p)
  PROVE  IInv'
<1>1. /\ On(c, p) /\ thread[p].at = "user"
      /\ proc' = [proc EXCEPT ![p].killed = TRUE]
      /\ Finish(p, "ret")
      /\ UNCHANGED <<cpu, lock, ticks, nextpid, shell>>
  BY DEF UserFault
<1>2. /\ proc' \in [Proc -> Slot]
      /\ \A q \in Proc : /\ proc'[q].state = proc[q].state /\ proc'[q].parent = proc[q].parent
                         /\ proc'[q].chan = proc[q].chan
  <2>1. proc \in [Proc -> Slot] /\ [proc[p] EXCEPT !.killed = TRUE] \in Slot
    BY Typed, SlotMoves, Zenon DEF IInv, State
  <2> QED
    BY <1>1, <2>1, Zenon DEF Slot
<1>3. At("ret") \in Thread
  BY LocalsType, Zenon DEF Location
<1>4. LockStep(c, p, At("ret"))
  BY <1>1, AtPlace, LockSteps DEF ThreadHolds, HoldsOwn, HoldsWait, HoldsTicks, Exiting
<1>5. nextpid' \in Nat /\ shell' \in Nat
  BY <1>1, Typed DEF IInv
<1> QED
  BY <1>1, <1>2, <1>3, <1>4, <1>5, AtPlace, ThreadStep, Zenon
     DEF SameLives, Finish, MayGoTo, Active, Preemptible, Exiting

LEMMA UserInterruptIInv ==
  ASSUME IInv, NEW c \in CPU, NEW p \in Proc, UserInterrupt(c, p)
  PROVE  IInv'
BY FinishStep DEF UserInterrupt, Preemptible

LEMMA UserReturnIInv ==
  ASSUME IInv, NEW c \in CPU, NEW p \in Proc, UserReturn(c, p)
  PROVE  IInv'
BY FinishStep DEF UserReturn, Preemptible

-----------------------------------------------------------------------------
(* kfork                                                                   *)

(* Init's failed calls end in exit, which is a place without locks too.    *)
LEMMA FailedPlace == \A p : Failed(p) \in Preemptible \ {"fork_link", "fork_ready"}
BY DEF Failed, Preemptible

LEMMA ForkScanIInv ==
  ASSUME IInv, NEW c \in CPU, NEW p \in Proc, ForkScan(c, p)
  PROVE  IInv'
<1>0. PICK s : s = thread[p].i
  OBVIOUS
<1>1. /\ On(c, p) /\ thread[p].at = "fork_scan" /\ UNCHANGED <<cpu, ticks, shell>>
      /\ s \in 1..End /\ thread[p] \in Thread
  BY <1>0, Typed DEF ForkScan, IInv, Thread
<1>2. CASE s # End /\ thread' = [thread EXCEPT ![p].i = s + 1] /\ UNCHANGED <<proc, lock, nextpid>>
  <2> DEFINE t == [thread[p] EXCEPT !.i = s + 1]
  <2>1. t \in Thread /\ t.at = "fork_scan"
    <3>1. s + 1 \in 1..End
      BY <1>1, <1>2
    <3>2. t \in Thread
      BY <3>1, <1>1, LocalsMove, Zenon DEF Location
    <3> QED
      BY <3>2, <1>1 DEF Thread
  <2>2. thread' = [thread EXCEPT ![p] = t]
    BY <1>0, <1>2
  <2> QED
    BY <1>1, <1>2, <2>1, <2>2, FreeStep, Zenon DEF Preemptible
<1>3. CASE s = End /\ Finish(p, Failed(p)) /\ UNCHANGED <<proc, lock, nextpid>>
  BY <1>1, <1>3, FinishStep, FailedPlace DEF Preemptible
<1>4. CASE /\ s # End /\ proc[s].state = "UNUSED"
           /\ Acquire(c, s)
           /\ proc' = [proc EXCEPT ![s].state = "USED", ![s].pid = nextpid]
           /\ nextpid' = nextpid + 1
           /\ thread' = [thread EXCEPT ![p] = [At("fork_build") EXCEPT !.np = s]]
  <2>0. s \in Proc
    BY <1>1, <1>4
  <2>t. PICK t : t = [At("fork_build") EXCEPT !.np = s]
    BY Zenon
  <2>1. t \in Thread /\ t.at = "fork_build" /\ t.np = s
    BY <2>0, <2>t, LocalsType, Zenon DEF Location, At
  <2>2. /\ proc' \in [Proc -> Slot] /\ nextpid' \in Nat
        /\ proc'[s] = [proc[s] EXCEPT !.state = "USED", !.pid = nextpid]
        /\ \A q \in Proc \ {s} : proc'[q] = proc[q]
    <3>1. proc \in [Proc -> Slot] /\ nextpid \in Nat /\ proc[s] \in Slot
      BY <2>0, Typed DEF IInv
    <3>2. [proc[s] EXCEPT !.state = "USED", !.pid = nextpid] \in Slot
      BY <2>0, <3>1, SlotMoves, Zenon DEF State
    <3>3. proc' = [proc EXCEPT ![s] = [proc[s] EXCEPT !.state = "USED", !.pid = nextpid]]
      BY <1>4, <2>0, <3>1, Zenon
    <3> QED
      BY <1>4, <2>0, <3>1, <3>2, <3>3
  <2>3. /\ thread' = [thread EXCEPT ![p] = t] /\ thread' \in [Proc -> Thread]
        /\ thread'[p] = t /\ \A q \in Proc \ {p} : thread'[q] = thread[q]
    BY <1>4, <2>1, <2>t, Typed DEF IInv
  <2>4. /\ proc'[s].state = "USED" /\ proc'[s].parent = proc[s].parent
        /\ proc'[s].chan = proc[s].chan
    BY <2>0, <2>2, Typed DEF IInv, Slot
  <2>5. /\ s # p /\ thread[s].at = "none" /\ proc[p].state = "RUNNING"
        /\ lock[s] = NoCPU
    BY <1>1, <1>4, <2>0, OnFacts DEF IInv, StateInv, Acquire
  <2>a. \A q \in Proc \ {p, s} : proc'[q] = proc[q] /\ thread'[q] = thread[q]
    BY <2>2, <2>3
  <2>b. proc'[p] = proc[p] /\ thread'[p].at = "fork_build" /\ thread'[p].np = s
    BY <2>1, <2>2, <2>3, <2>5
  <2>c. proc'[s].state = "USED" /\ thread'[s] = thread[s]
    BY <2>0, <2>3, <2>4, <2>5
  <2>6. LockStep(c, p, t)
    BY <1>1, <1>4, <2>0, <2>1, LockSteps DEF ThreadHolds, HoldsOwn, HoldsWait, HoldsTicks, Exiting
  <2>7. TypeOK'
    BY <1>1, <2>2, <2>3, <2>6, Typed, Retyped, Zenon DEF IInv, LockStep
  <2>8. CpuInv' /\ RunsOnce' /\ LocksInv'
    BY <1>1, <1>4, <2>2, <2>3, <2>4, <2>5, <2>6, CpusKept, Zenon
  <2>9. StateInv'
    BY <2>5, <2>a, <2>b, <2>c DEF IInv, StateInv, Active
  <2>10. ForkInv'
    <3>1. /\ \A q \in Proc \ {p} : (Forking(q)' <=> Forking(q)) /\ Place(q)' = Place(q)
          /\ Place(p)' = "fork_build"
      BY <2>a, <2>b, <2>c DEF Forking, Place
    <3>2. \A q \in Proc : Forking(q) => thread[q].np \in Proc \ {p, s}
      BY <1>4, <2>5 DEF IInv, ForkInv
    <3>3. ~ Forking(s)' /\ thread'[p].np = s
      BY <2>5, <2>b, <2>c DEF Forking, Place
    <3>4. \A q \in Proc \ {p, s} : Forking(q)' =>
            /\ thread'[q].np = thread[q].np /\ thread[q].np \in Proc \ {p, s}
            /\ proc'[thread[q].np] = proc[thread[q].np]
            /\ thread'[thread[q].np] = thread[thread[q].np]
      BY <2>a, <3>1, <3>2
    <3>5. \A q \in Proc : Forking(q)' =>
            /\ thread'[q].np \in Proc
            /\ proc'[thread'[q].np].state = "USED"
            /\ thread'[thread'[q].np].at = IF Place(q)' = "fork_build" THEN "none" ELSE "forkret"
            /\ Place(q)' = "fork_ready" => proc'[thread'[q].np].parent = q
      <4> SUFFICES ASSUME NEW q \in Proc, Forking(q)'
                   PROVE  /\ thread'[q].np \in Proc
                          /\ proc'[thread'[q].np].state = "USED"
                          /\ thread'[thread'[q].np].at =
                               IF Place(q)' = "fork_build" THEN "none" ELSE "forkret"
                          /\ Place(q)' = "fork_ready" => proc'[thread'[q].np].parent = q
        OBVIOUS
      <4>1. CASE q = p
        BY <2>0, <2>5, <2>b, <2>c, <3>1, <4>1
      <4>2. CASE q # p
        BY <3>1, <3>3, <3>4, <4>2 DEF IInv, ForkInv
      <4> QED
        BY <4>1, <4>2
    <3>6. \A q, r \in Proc :
            Forking(q)' /\ Forking(r)' /\ thread'[q].np = thread'[r].np => q = r
      BY <3>1, <3>3, <3>4 DEF IInv, ForkInv
    <3> QED
      BY <3>5, <3>6 DEF ForkInv
  <2>11. ParentInv' /\ WaitInv' /\ TickInv'
    <3>1. \A q \in Proc \ {p, s} : Quiet(q)
      BY <2>a, <1>1 DEF Quiet, IInv, ParentInv
    <3>2. Quiet(p)
      BY <1>1, <2>5, <2>b DEF Quiet, HoldsWait, HoldsTicks, Exiting
    <3>3. Quiet(s)
      BY <1>1, <1>4, <2>4, <2>c DEF Quiet, Alive
    <3> QED
      BY <1>1, <3>1, <3>2, <3>3, QuietStep
  <2> QED
    BY <2>7, <2>8, <2>9, <2>10, <2>11 DEF IInv
<1> QED
  BY <1>0, <1>2, <1>3, <1>4 DEF ForkScan

(* kfork's child, seen by its parent: nobody else knows it.                *)
LEMMA ChildFacts ==
  ASSUME IInv, NEW c \in CPU, NEW p \in Proc, On(c, p), Forking(p)
  PROVE  \E n \in Proc \ {p} :
           /\ thread[p].np = n /\ proc[n].state = "USED"
           /\ \A q \in Proc \ {p} : Forking(q) => thread[q].np \in Proc \ {p, n}
           /\ thread[n].at = IF Place(p) = "fork_build" THEN "none" ELSE "forkret"
           /\ Place(p) = "fork_ready" => proc[n].parent = p
           /\ thread[p].at = "fork_build" => lock[n] = c
<1>1. /\ thread[p].np \in Proc /\ proc[thread[p].np].state = "USED"
      /\ thread[thread[p].np].at = IF Place(p) = "fork_build" THEN "none" ELSE "forkret"
      /\ Place(p) = "fork_ready" => proc[thread[p].np].parent = p
  BY DEF IInv, ForkInv
<1>2. \A q \in Proc \ {p} : Forking(q) => thread[q].np \in Proc \ {p, thread[p].np}
  BY OnFacts DEF IInv, ForkInv
<1>3. thread[p].at = "fork_build" => lock[thread[p].np] = c
  BY <1>1, OnFacts DEF ThreadHolds
<1> QED
  BY <1>1, <1>2, <1>3, OnFacts

LEMMA ForkBuildIInv ==
  ASSUME IInv, NEW c \in CPU, NEW p \in Proc, ForkBuild(c, p)
  PROVE  IInv'
<1>1. /\ On(c, p) /\ thread[p].at = "fork_build" /\ UNCHANGED <<cpu, ticks, nextpid, shell>>
      /\ Release(thread[p].np) /\ Place(p) = "fork_build" /\ Forking(p)
      /\ proc[p].state = "RUNNING"
  BY OnFacts DEF ForkBuild, Place, Forking
<1>2. PICK n \in Proc \ {p} :
        /\ thread[p].np = n /\ proc[n].state = "USED" /\ thread[n].at = "none"
        /\ \A q \in Proc \ {p} : Forking(q) => thread[q].np \in Proc \ {p, n}
        /\ lock[n] = c
  BY <1>1, ChildFacts
<1>3. ASSUME NEW x \in Slot, NEW t \in Thread, NEW u \in Thread,
             proc' = [proc EXCEPT ![n] = x],
             thread' = [thread EXCEPT ![p] = t, ![n] = u],
             t.at \in Preemptible \ {"fork_ready"}, t.at = "fork_link" => t.np = n,
             \/ x.state = "USED" /\ x.parent = proc[n].parent /\ u.at = "forkret"
             \/ x.state = "UNUSED" /\ x.parent = None /\ u.at = "none" /\ t.at # "fork_link"
      PROVE  IInv'
  <2>1. /\ proc'[n] = x /\ proc'[p] = proc[p] /\ thread'[p] = t /\ thread'[n] = u
        /\ \A q \in Proc \ {p, n} : proc'[q] = proc[q] /\ thread'[q] = thread[q]
        /\ proc' \in [Proc -> Slot] /\ thread' \in [Proc -> Thread]
    BY <1>3, <1>2, Typed, Zenon DEF IInv
  <2>2. LockStep(c, p, t)
    <3>1. \A l \in Lock : ThreadHolds(p, thread[p], l) <=> l = n
      BY <1>1, <1>2 DEF ThreadHolds, HoldsOwn, HoldsWait, HoldsTicks, Exiting
    <3>2. \A l \in Lock : ~ ThreadHolds(p, t, l)
      BY <1>3 DEF ThreadHolds, Preemptible, HoldsOwn, HoldsWait, HoldsTicks, Exiting
    <3> QED
      BY <1>1, <1>2, <3>1, <3>2, LockSteps
  <2>3. TypeOK'
    BY <1>1, <2>1, <2>2, Typed, Retyped DEF IInv, LockStep
  <2>4. CpuInv' /\ RunsOnce' /\ LocksInv'
    <3>1. \A q \in Proc \ {p} : proc[q].state = "RUNNING" => thread'[q] = thread[q]
      BY <1>2, <2>1
    <3>2. \A q \in Proc :
            \/ proc'[q].state = proc[q].state
            \/ /\ lock[q] \in {NoCPU, c}
               /\ proc[q].state # "RUNNING" /\ proc'[q].state # "RUNNING"
      BY <1>2, <1>3, <2>1
    <3> QED
      BY <1>1, <2>1, <2>2, <3>1, <3>2, CpusKept
  <2>5. StateInv'
    BY <1>1, <1>2, <1>3, <2>1 DEF IInv, StateInv, Active, Preemptible
  <2>6. ForkInv'
    <3> SUFFICES ASSUME NEW q \in Proc, Forking(q)'
                 PROVE  /\ Forking(q) /\ thread'[q].np = thread[q].np
                        /\ proc'[thread[q].np].state = "USED"
                        /\ thread'[thread[q].np].at =
                             IF Place(q)' = "fork_build" THEN "none" ELSE "forkret"
                        /\ Place(q)' = "fork_ready" => proc'[thread[q].np].parent = q
      BY ForkKept
    <3>1. CASE q = p
      <4>1. Place(p)' = "fork_link" /\ t.at = "fork_link"
        BY <1>3, <2>1, <3>1 DEF Forking, Place, Preemptible
      <4> QED
        BY <1>1, <1>2, <1>3, <2>1, <3>1, <4>1
    <3>2. CASE q # p
      <4>1. q # n
        BY <1>3, <2>1 DEF Forking, Place
      <4>2. Forking(q) /\ Place(q)' = Place(q) /\ thread'[q] = thread[q]
        BY <2>1, <3>2, <4>1 DEF Forking, Place
      <4>3. thread[q].np \in Proc \ {p, n}
        BY <1>2, <3>2, <4>2
      <4> QED
        BY <2>1, <4>2, <4>3 DEF IInv, ForkInv
    <3> QED
      BY <3>1, <3>2
  <2>7. ParentInv' /\ WaitInv' /\ TickInv'
    <3>1. \A q \in Proc \ {p, n} : Quiet(q)
      BY <2>1 DEF Quiet, IInv, ParentInv
    <3>2. Quiet(p)
      BY <1>1, <1>3, <2>1 DEF Quiet, Preemptible, HoldsWait, HoldsTicks, Exiting
    <3>3. Quiet(n)
      BY <1>2, <1>3, <2>1 DEF Quiet, Alive, HoldsWait, HoldsTicks, Exiting
    <3> QED
      BY <1>1, <3>1, <3>2, <3>3, QuietStep
  <2> QED
    BY <2>3, <2>4, <2>5, <2>6, <2>7 DEF IInv
<1>4. CASE /\ proc' = [proc EXCEPT ![n].arrival_time = ticks]
           /\ thread' = [thread EXCEPT ![p].at = "fork_link", ![n] = At("forkret")]
  <2>1. /\ proc \in [Proc -> Slot] /\ thread \in [Proc -> Thread] /\ ticks \in Nat
        /\ proc[n] \in Slot /\ thread[p] \in Thread
    BY Typed DEF IInv
  <2>2. PICK x \in Slot : x = [proc[n] EXCEPT !.arrival_time = ticks]
    BY <2>1, SlotMoves, Zenon DEF State
  <2>3. PICK t \in Thread : t = [thread[p] EXCEPT !.at = "fork_link"]
    BY <2>1, LocalsAt, Zenon DEF Location
  <2>4. PICK u \in Thread : u = At("forkret")
    BY LocalsType, Zenon DEF Location
  <2>5. /\ x.state = "USED" /\ x.parent = proc[n].parent
        /\ t.at = "fork_link" /\ t.np = n /\ u.at = "forkret"
    BY <1>2, <2>1, <2>2, <2>3, <2>4, AtPlace DEF Slot, Thread
  <2>6. proc' = [proc EXCEPT ![n] = x] /\ thread' = [thread EXCEPT ![p] = t, ![n] = u]
    BY <1>4, <2>1, <2>2, <2>3, <2>4
  <2> QED
    BY <1>3, <2>5, <2>6, Zenon DEF Preemptible
<1>5. CASE proc' = FreeProc(n) /\ Finish(p, Failed(p))
  <2>1. /\ proc \in [Proc -> Slot] /\ thread \in [Proc -> Thread] /\ ticks \in Nat
        /\ proc[n] \in Slot
    BY Typed DEF IInv
  <2>2. PICK x \in Slot : x = UnusedProc
    BY <2>1, SlotMoves, Zenon DEF State
  <2>3. PICK t \in Thread : t = At(Failed(p))
    <3>1. Failed(p) \in Location /\ p \in Proc /\ 0 \in Nat
      BY FailedPlace DEF Location, Preemptible
    <3> QED
      BY <3>1, LocalsType, Zenon
  <2>4. PICK u \in Thread : u = thread[n]
    BY <2>1
  <2>5. x.state = "UNUSED" /\ x.parent = None /\ t.at \in Preemptible \ {"fork_link", "fork_ready"}
        /\ u.at = "none"
    BY <1>2, <2>1, <2>2, <2>3, <2>4, AtPlace, FailedPlace DEF UnusedProc
  <2>6. proc' = [proc EXCEPT ![n] = x] /\ thread' = [thread EXCEPT ![p] = t, ![n] = u]
    BY <1>5, <2>1, <2>2, <2>3, <2>4, Zenon DEF FreeProc, Finish
  <2> QED
    BY <1>3, <2>5, <2>6, Zenon
<1> QED
  BY <1>2, <1>4, <1>5 DEF ForkBuild

LEMMA ForkLinkIInv ==
  ASSUME IInv, NEW c \in CPU, NEW p \in Proc, ForkLink(c, p)
  PROVE  IInv'
<1>1. /\ On(c, p) /\ thread[p].at = "fork_link"
      /\ UNCHANGED <<cpu, lock, ticks, nextpid, shell>>
      /\ Place(p) = "fork_link" /\ Forking(p)
      /\ proc[p].state = "RUNNING"
  BY OnFacts DEF ForkLink, Place, Forking
<1>2. PICK n \in Proc \ {p} :
        /\ thread[p].np = n /\ proc[n].state = "USED" /\ thread[n].at = "forkret"
        /\ \A q \in Proc \ {p} : Forking(q) => thread[q].np \in Proc \ {p, n}
  BY <1>1, ChildFacts
<1>3. PICK x \in Slot : x = [proc[n] EXCEPT !.parent = p]
  BY Typed, SlotMoves, Zenon DEF IInv, State
<1>4. PICK t \in Thread : t = [thread[p] EXCEPT !.at = "fork_ready"]
  <2>1. thread[p] \in Thread /\ "fork_ready" \in Location
    BY Typed DEF IInv, Location
  <2> QED
    BY <2>1, LocalsAt, Zenon
<1>5. /\ x.state = "USED" /\ x.parent = p /\ x.chan = proc[n].chan
      /\ t.at = "fork_ready" /\ t.np = n
  BY <1>2, <1>3, <1>4, Typed, LocalsAt DEF IInv, Slot, Thread
<1>6. thread' = [thread EXCEPT ![p] = t]
  BY <1>4 DEF ForkLink, Goto
<1>7. /\ proc'[n] = x /\ proc'[p] = proc[p] /\ thread'[p] = t /\ thread'[n] = thread[n]
      /\ \A q \in Proc \ {p, n} : proc'[q] = proc[q] /\ thread'[q] = thread[q]
      /\ proc' \in [Proc -> Slot] /\ thread' \in [Proc -> Thread]
  BY <1>2, <1>3, <1>6, Typed DEF IInv, ForkLink
<1>8. LockStep(c, p, t)
  BY <1>1, <1>5, LockSteps DEF ThreadHolds, HoldsOwn, HoldsWait, HoldsTicks, Exiting
<1>9. TypeOK'
  BY <1>1, <1>7, <1>8, Typed, Retyped DEF IInv, LockStep
<1>10. CpuInv' /\ RunsOnce' /\ LocksInv'
  <2>1. /\ \A q \in Proc \ {p} : proc[q].state = "RUNNING" => thread'[q] = thread[q]
        /\ \A q \in Proc : proc'[q].state = proc[q].state
    BY <1>2, <1>5, <1>7
  <2> QED
    BY <1>1, <1>7, <1>8, <2>1, CpusKept
<1>11. StateInv'
  BY <1>1, <1>2, <1>5, <1>7 DEF IInv, StateInv, Active, Preemptible
<1>12. ForkInv'
  <2> SUFFICES ASSUME NEW q \in Proc, Forking(q)'
               PROVE  /\ Forking(q) /\ thread'[q].np = thread[q].np
                      /\ proc'[thread[q].np].state = "USED"
                      /\ thread'[thread[q].np].at =
                           IF Place(q)' = "fork_build" THEN "none" ELSE "forkret"
                      /\ Place(q)' = "fork_ready" => proc'[thread[q].np].parent = q
    BY ForkKept
  <2>1. CASE q = p
    <3>1. Place(p)' = "fork_ready"
      BY <1>5, <1>7 DEF Place
    <3> QED
      BY <1>1, <1>2, <1>5, <1>7, <2>1, <3>1
  <2>2. CASE q # p
    <3>1. Forking(q) /\ Place(q)' = Place(q) /\ thread'[q] = thread[q]
      BY <1>7, <2>2 DEF Forking, Place
    <3>2. thread[q].np \in Proc \ {p, n}
      BY <1>2, <2>2, <3>1
    <3> QED
      BY <1>7, <3>1, <3>2 DEF IInv, ForkInv
  <2> QED
    BY <2>1, <2>2
<1>13. \A q, s \in Proc : proc'[s].parent = q =>
         \/ proc[s].parent = q /\ proc'[s] = proc[s]
         \/ q = p /\ s = n
  BY <1>5, <1>7
<1>14. /\ \A q \in Proc : proc'[q].state = proc[q].state
       /\ \A q \in Proc : SleepsInWait(q)' <=> SleepsInWait(q)
       /\ \A q \in Proc : \A l \in HoldsWait \union HoldsTicks :
            thread'[q].at = l <=> thread[q].at = l
       /\ \A q \in Proc : thread'[q].at \in HoldsWait \union HoldsTicks => thread'[q] = thread[q]
       /\ \A q \in Proc : thread[q].at \in HoldsWait \union HoldsTicks => thread'[q] = thread[q]
  BY <1>1, <1>2, <1>5, <1>7 DEF HoldsWait, HoldsTicks, Exiting, SleepsInWait
<1>15. ParentInv'
  <2>1. \A q, s \in Proc : proc'[s].parent = q =>
          /\ proc'[q].state \in Alive
          /\ thread'[q].at = "exit_reparent" => s >= thread'[q].i
          /\ thread'[q].at = "reparent_wake" => s > thread'[q].i
          /\ thread'[q].at \notin {"exit_wake", "exit_zombie"}
    BY <1>1, <1>5, <1>7, <1>13, <1>14 DEF IInv, ParentInv, Alive, HoldsWait, Exiting
  <2>2. proc'[Initproc].parent = None /\ proc'[Initproc].state \in Alive
    BY <1>2, <1>7 DEF IInv, ParentInv, Alive
  <2>3. \A q \in Proc :
          proc'[q].state \in Alive \union {"ZOMBIE"} /\ q # Initproc => proc'[q].parent # None
    BY <1>5, <1>7 DEF IInv, ParentInv
  <2> QED
    BY <1>14, <2>1, <2>2, <2>3 DEF IInv, ParentInv, HoldsWait, Exiting
<1>16. WaitInv'
  <2>1. \A q, s \in Proc :
          SleepsInWait(q)' /\ proc'[s].parent = q /\ proc'[s].state = "ZOMBIE" =>
            /\ q = Initproc
            /\ \E r \in Proc : thread'[r].at = "reparent_wake" /\ thread'[r].w = Initproc
    BY <1>2, <1>13, <1>14 DEF IInv, WaitInv, HoldsWait, Exiting
  <2>2. \A q, s \in Proc : proc'[s].parent = q =>
          /\ thread'[s].at = "exit_wake" /\ thread'[s].w > q => ~ SleepsInWait(q)'
          /\ thread'[s].at = "exit_zombie" => ~ SleepsInWait(q)'
    BY <1>2, <1>7, <1>13, <1>14 DEF IInv, WaitInv, HoldsWait, Exiting
  <2>3. \A q, s \in Proc : proc'[s].parent = q =>
          /\ thread'[q].at = "wait_scan" /\ s < thread'[q].i => proc'[s].state # "ZOMBIE"
          /\ thread'[q].at = "wait_sleep" => proc'[s].state # "ZOMBIE"
    BY <1>2, <1>13, <1>14 DEF IInv, WaitInv, HoldsWait
  <2> QED
    BY <2>1, <2>2, <2>3 DEF WaitInv
<1>17. TickInv'
  <2>1. \A q \in Proc : thread'[q].at = "pause_sleep" \/ proc'[q].state = "SLEEPING" =>
          thread'[q] = thread[q] /\ proc'[q] = proc[q] /\ Elapsed(q)' = Elapsed(q)
    BY <1>1, <1>2, <1>5, <1>7 DEF Elapsed
  <2> QED
    BY <1>1, <2>1 DEF IInv, TickInv
<1> QED
  BY <1>9, <1>10, <1>11, <1>12, <1>15, <1>16, <1>17 DEF IInv

LEMMA ForkReadyIInv ==
  ASSUME IInv, NEW c \in CPU, NEW p \in Proc, ForkReady(c, p)
  PROVE  IInv'
<1>1. /\ On(c, p) /\ thread[p].at = "fork_ready"
      /\ UNCHANGED <<cpu, lock, ticks, nextpid>>
      /\ Place(p) = "fork_ready" /\ Forking(p)
      /\ proc[p].state = "RUNNING"
  BY OnFacts DEF ForkReady, Place, Forking
<1>2. PICK n \in Proc \ {p} :
        /\ thread[p].np = n /\ proc[n].state = "USED" /\ thread[n].at = "forkret"
        /\ \A q \in Proc \ {p} : Forking(q) => thread[q].np \in Proc \ {p, n}
        /\ proc[n].parent = p
  BY <1>1, ChildFacts
<1>3. PICK x \in Slot : x = [proc[n] EXCEPT !.state = "RUNNABLE"]
  <2>1. proc[n] \in Slot /\ "RUNNABLE" \in State /\ 0 \in Nat
    BY Typed DEF IInv, State
  <2> QED
    BY <2>1, SlotMoves, Zenon
<1>4. PICK t \in Thread : t = At("ret")
  BY LocalsType, Zenon DEF Location
<1>5. x.state = "RUNNABLE" /\ x.parent = p /\ t.at = "ret"
  BY <1>2, <1>3, <1>4, Typed, AtPlace, Zenon DEF IInv, Slot
<1>6. thread' = [thread EXCEPT ![p] = t] /\ lock[n] = NoCPU /\ shell' \in Nat
  BY <1>2, <1>4, Typed DEF ForkReady, Finish, IInv, Slot
<1>7. /\ proc'[n] = x /\ proc'[p] = proc[p] /\ thread'[p] = t /\ thread'[n] = thread[n]
      /\ \A q \in Proc \ {p, n} : proc'[q] = proc[q] /\ thread'[q] = thread[q]
      /\ proc' \in [Proc -> Slot] /\ thread' \in [Proc -> Thread]
  BY <1>2, <1>3, <1>6, Typed DEF IInv, ForkReady
<1>8. LockStep(c, p, t)
  BY <1>1, <1>5, LockSteps DEF ThreadHolds, HoldsOwn, HoldsWait, HoldsTicks, Exiting
<1>9. TypeOK'
  BY <1>1, <1>6, <1>7, <1>8, Typed, Retyped DEF IInv, LockStep
<1>10. CpuInv' /\ RunsOnce' /\ LocksInv'
  <2>1. /\ \A q \in Proc \ {p} : proc[q].state = "RUNNING" => thread'[q] = thread[q]
        /\ \A q \in Proc \ {n} : proc'[q].state = proc[q].state
        /\ proc[n].state # "RUNNING" /\ proc'[n].state # "RUNNING"
    BY <1>2, <1>5, <1>7
  <2> QED
    BY <1>1, <1>6, <1>7, <1>8, <2>1, CpusKept
<1>11. StateInv'
  BY <1>1, <1>2, <1>5, <1>7 DEF IInv, StateInv, Active, Preemptible, HoldsOwn
<1>12. ForkInv'
  <2> SUFFICES ASSUME NEW q \in Proc, Forking(q)'
               PROVE  /\ Forking(q) /\ thread'[q].np = thread[q].np
                      /\ proc'[thread[q].np].state = "USED"
                      /\ thread'[thread[q].np].at =
                           IF Place(q)' = "fork_build" THEN "none" ELSE "forkret"
                      /\ Place(q)' = "fork_ready" => proc'[thread[q].np].parent = q
    BY ForkKept
  <2>1. q # p
    BY <1>5, <1>7 DEF Forking, Place
  <2>2. Forking(q) /\ Place(q)' = Place(q) /\ thread'[q] = thread[q]
    BY <1>7, <2>1 DEF Forking, Place
  <2>3. thread[q].np \in Proc \ {p, n}
    BY <1>2, <2>1, <2>2
  <2> QED
    BY <1>7, <2>2, <2>3 DEF IInv, ForkInv
<1>13. ParentInv' /\ WaitInv' /\ TickInv'
  <2>1. \A q \in Proc \ {p, n} : Quiet(q)
    BY <1>7 DEF Quiet, IInv, ParentInv
  <2>2. Quiet(p)
    BY <1>1, <1>5, <1>7 DEF Quiet, HoldsWait, HoldsTicks, Exiting
  <2>3. Quiet(n)
    BY <1>2, <1>5, <1>7 DEF Quiet, Alive
  <2> QED
    BY <1>1, <2>1, <2>2, <2>3, QuietStep
<1> QED
  BY <1>9, <1>10, <1>11, <1>12, <1>13 DEF IInv

(* A step that gives back the thread's own lock and changes nothing but its*)
(* place.                                                                  *)
LEMMA ForkretIInv ==
  ASSUME IInv, NEW c \in CPU, NEW p \in Proc, Forkret(c, p)
  PROVE  IInv'
<1>1. /\ On(c, p) /\ thread[p].at = "forkret" /\ Release(p)
      /\ UNCHANGED <<proc, cpu, ticks, nextpid, shell>>
  BY DEF Forkret
<1>2. PICK t \in Thread : t = [thread[p] EXCEPT !.at = "user"]
  <2>1. thread[p] \in Thread /\ "user" \in Location
    BY Typed DEF IInv, Location
  <2> QED
    BY <2>1, LocalsAt, Zenon
<1>3. t.at = "user" /\ thread' = [thread EXCEPT ![p] = t]
  BY <1>2, Typed, LocalsAt DEF IInv, Location, Forkret, Goto
<1>4. LockStep(c, p, t)
  <2>1. \A l \in Lock : ThreadHolds(p, thread[p], l) <=> l = p
    BY <1>1 DEF ThreadHolds, HoldsOwn, HoldsWait, HoldsTicks, Exiting
  <2>2. \A l \in Lock : ~ ThreadHolds(p, t, l)
    BY <1>3 DEF ThreadHolds, HoldsOwn, HoldsWait, HoldsTicks, Exiting
  <2> QED
    BY <1>1, <2>1, <2>2, LockSteps
<1>5. nextpid' \in Nat /\ shell' \in Nat
  BY <1>1, Typed DEF IInv
<1> QED
  BY <1>1, <1>3, <1>4, <1>5, SameStaysSame, ThreadStep, Zenon DEF MayGoTo, Active, Preemptible, Exiting

-----------------------------------------------------------------------------
(* kexit                                                                   *)

LEMMA ExitBeginIInv ==
  ASSUME IInv, NEW c \in CPU, NEW p \in Proc, ExitBegin(c, p)
  PROVE  IInv'
<1>1. /\ On(c, p) /\ thread[p].at = "exit"
      /\ UNCHANGED <<proc, cpu, ticks, nextpid, shell>>
  BY DEF ExitBegin
<1>2. CASE Goto(p, "panic") /\ UNCHANGED lock
  <2>1. PICK t \in Thread : t = [thread[p] EXCEPT !.at = "panic"]
    <3>1. thread[p] \in Thread /\ "panic" \in Location
      BY Typed DEF IInv, Location
    <3> QED
      BY <3>1, LocalsAt, Zenon
  <2>2. t.at = "panic" /\ thread' = [thread EXCEPT ![p] = t]
    BY <1>2, <2>1, Typed, LocalsAt DEF IInv, Location, Goto
  <2> QED
    BY <1>1, <1>2, <2>2, FreeStep, Zenon DEF Preemptible
<1>3. CASE p # Initproc /\ Acquire(c, WaitLock) /\ Finish(p, "exit_reparent")
  <2>1. PICK t \in Thread : t = At("exit_reparent")
    BY LocalsType, Zenon DEF Location
  <2>2. t.at = "exit_reparent" /\ t.i = 1 /\ thread' = [thread EXCEPT ![p] = t]
    BY <1>3, <2>1, AtPlace DEF Finish
  <2>3. LockStep(c, p, t)
    <3>1. \A l \in Lock : ~ ThreadHolds(p, thread[p], l)
      BY <1>1 DEF ThreadHolds, HoldsOwn, HoldsWait, HoldsTicks, Exiting
    <3>2. \A l \in Lock : ThreadHolds(p, t, l) <=> l = WaitLock
      BY <2>2 DEF ThreadHolds, HoldsOwn, HoldsWait, HoldsTicks, Exiting
    <3> QED
      BY <1>1, <1>3, <3>1, <3>2, LockSteps
  <2>4. nextpid' \in Nat /\ shell' \in Nat
    BY <1>1, Typed DEF IInv
  <2> QED
    <3>1. MayGoTo(p, t)
      BY <1>1, <1>3, <2>2 DEF MayGoTo, Active, HoldsWait, Exiting
    <3> QED
      BY <1>1, <1>3, <2>2, <2>3, <2>4, <3>1, SameStaysSame, ThreadStep, Zenon
<1> QED
  BY <1>2, <1>3 DEF ExitBegin

(* The places where a thread holds wait_lock and keeps it.                 *)
LEMMA KeepsWaitLock ==
  ASSUME IInv, NEW c \in CPU, NEW p \in Proc, On(c, p), NEW t,
         thread[p].at \in HoldsWait, t.at \in HoldsWait, UNCHANGED lock
  PROVE  LockStep(c, p, t)
<1>1. \A l \in Lock : ThreadHolds(p, t, l) <=> ThreadHolds(p, thread[p], l)
  BY DEF ThreadHolds, HoldsOwn, HoldsWait, HoldsTicks, Exiting
<1> QED
  BY <1>1, LockSteps

LEMMA ExitReparentIInv ==
  ASSUME IInv, NEW c \in CPU, NEW p \in Proc, ExitReparent(c, p)
  PROVE  IInv'
<1>0. PICK s : s = thread[p].i
  OBVIOUS
<1>1. /\ On(c, p) /\ thread[p].at = "exit_reparent"
      /\ UNCHANGED <<cpu, lock, ticks, nextpid, shell>>
      /\ s \in 1..End /\ thread[p] \in Thread /\ nextpid' \in Nat /\ shell' \in Nat
      /\ p # Initproc /\ proc[p].state = "RUNNING"
      /\ \A q \in Proc : proc[q].parent = p => q >= s
  <2>1. /\ On(c, p) /\ thread[p].at = "exit_reparent"
        /\ UNCHANGED <<cpu, lock, ticks, nextpid, shell>>
    BY DEF ExitReparent
  <2>2. thread[p] \in Thread /\ nextpid' \in Nat /\ shell' \in Nat
    BY <2>1, Typed DEF IInv
  <2>3. s \in 1..End
    BY <1>0, <2>2 DEF Thread
  <2>4. p # Initproc /\ \A q \in Proc : proc[q].parent = p => q >= s
    BY <1>0, <2>1 DEF IInv, ParentInv, Exiting
  <2> QED
    BY <2>1, <2>2, <2>3, <2>4, OnFacts
<1>2. CASE s # End /\ proc[s].parent # p /\ proc' = proc /\ thread' = [thread EXCEPT ![p].i = s + 1]
  <2>1. PICK t : t = [thread[p] EXCEPT !.i = s + 1]
    BY Zenon
  <2>2. t \in Thread /\ t.at = "exit_reparent" /\ t.i = s + 1
    <3>1. s + 1 \in 1..End
      BY <1>1, <1>2
    <3>2. t \in Thread
      BY <3>1, <1>1, <2>1, LocalsMove, Zenon DEF Location
    <3> QED
      BY <3>2, <1>1, <2>1 DEF Thread
  <2>3. thread' = [thread EXCEPT ![p] = t]
    BY <1>2, <2>1
  <2>4. \A q \in Proc : proc[q].parent = p => q >= t.i
    BY <1>1, <1>2, <2>2
  <2>5. LockStep(c, p, t)
    BY <1>1, <2>2, KeepsWaitLock DEF HoldsWait, Exiting
  <2> QED
    <3>1. MayGoTo(p, t)
      BY <1>1, <2>2, <2>4 DEF MayGoTo, Active, HoldsWait, Exiting
    <3> QED
      BY <1>1, <1>2, <2>2, <2>3, <2>5, <3>1, SameStaysSame, ThreadStep, Zenon
<1>3. CASE s = End /\ proc' = proc
           /\ thread' = [thread EXCEPT ![p].at = "exit_wake", ![p].w = 1]
  <2>1. PICK t : t = [thread[p] EXCEPT !.at = "exit_wake", !.w = 1]
    OBVIOUS
  <2>2. t \in Thread /\ t.at = "exit_wake" /\ t.w = 1
    <3>1. t \in Thread
      BY <1>1, <2>1, LocalsMove, Zenon DEF Location
    <3> QED
      BY <3>1, <1>1, <2>1 DEF Thread
  <2>3. thread' = [thread EXCEPT ![p] = t]
    BY <1>3, <2>1, Zenon
  <2>4. \A q \in Proc : proc[q].parent # p
    BY <1>1, <1>3
  <2>5. LockStep(c, p, t)
    BY <1>1, <2>2, KeepsWaitLock DEF HoldsWait, Exiting
  <2> QED
    <3>1. MayGoTo(p, t)
      BY <1>1, <2>2, <2>4 DEF MayGoTo, Active, HoldsWait, Exiting
    <3> QED
      BY <1>1, <1>3, <2>2, <2>3, <2>5, <3>1, SameStaysSame, ThreadStep, Zenon
<1>4. CASE /\ s # End /\ proc[s].parent = p
           /\ proc' = [proc EXCEPT ![s].parent = Initproc]
           /\ thread' = [thread EXCEPT ![p].at = "reparent_wake", ![p].w = 1]
  <2>0. s \in Proc
    BY <1>1, <1>4
  <2>1. PICK t : t = [thread[p] EXCEPT !.at = "reparent_wake", !.w = 1]
    OBVIOUS
  <2>2. t \in Thread /\ t.at = "reparent_wake" /\ t.w = 1 /\ t.i = s
    <3>1. t \in Thread
      BY <1>1, <2>1, LocalsMove, Zenon DEF Location
    <3> QED
      BY <3>1, <1>0, <1>1, <2>1 DEF Thread
  <2>3. PICK x \in Slot : x = [proc[s] EXCEPT !.parent = Initproc]
    <3>1. proc[s] \in Slot /\ Initproc \in Proc
      BY <2>0, Typed DEF IInv
    <3> QED
      BY <3>1, SlotMoves, Zenon DEF State
  <2>4. x.parent = Initproc /\ x.state = proc[s].state /\ x.chan = proc[s].chan
    BY <2>0, <2>3, Typed DEF IInv, Slot
  <2>5. /\ thread'[p] = t /\ \A q \in Proc \ {p} : thread'[q] = thread[q]
        /\ proc'[s] = x /\ \A q \in Proc \ {s} : proc'[q] = proc[q]
        /\ proc' \in [Proc -> Slot] /\ thread' \in [Proc -> Thread]
    BY <1>4, <2>0, <2>1, <2>2, <2>3, Typed DEF IInv
  <2>6. /\ \A q \in Proc : proc'[q].state = proc[q].state /\ proc'[q].chan = proc[q].chan
        /\ \A q \in Proc : SleepsInWait(q)' <=> SleepsInWait(q)
    BY <2>4, <2>5 DEF SleepsInWait
  <2>7. /\ \A q \in Proc \ {p} : thread[q].at \notin HoldsWait
        /\ \A q \in Proc \ {p} : thread'[q].at \notin HoldsWait
    BY <1>1, <2>5, WaitLockHolder, Zenon DEF HoldsWait, Exiting
  <2>8. LockStep(c, p, t)
    BY <1>1, <2>2, KeepsWaitLock DEF HoldsWait, Exiting
  <2>9. TypeOK'
    BY <1>1, <2>5, <2>8, Typed, Retyped DEF IInv, LockStep
  <2>10. CpuInv' /\ RunsOnce' /\ LocksInv'
    BY <1>1, <2>5, <2>6, <2>8, CpusKept
  <2>11. StateInv'
    BY <1>1, <2>2, <2>5, <2>6 DEF IInv, StateInv, Active, HoldsWait, Exiting
  <2>12. ForkInv'
    <3> SUFFICES ASSUME NEW q \in Proc, Forking(q)'
                 PROVE  /\ Forking(q) /\ thread'[q].np = thread[q].np
                        /\ proc'[thread[q].np].state = "USED"
                        /\ thread'[thread[q].np].at =
                             IF Place(q)' = "fork_build" THEN "none" ELSE "forkret"
                        /\ Place(q)' = "fork_ready" => proc'[thread[q].np].parent = q
      BY ForkKept
    <3>1. q # p
      BY <2>2, <2>5 DEF Forking, Place
    <3>2. Forking(q) /\ Place(q)' = Place(q) /\ thread'[q] = thread[q]
      BY <2>5, <3>1 DEF Forking, Place
    <3>3. /\ thread[q].np \in Proc \ {p} /\ proc[thread[q].np].state = "USED"
          /\ Place(q) = "fork_ready" => thread[q].np # s
      BY <1>1, <1>4, <3>1, <3>2 DEF IInv, ForkInv
    <3> QED
      BY <2>5, <2>6, <3>2, <3>3 DEF IInv, ForkInv
  <2>13. ParentInv'
    <3>1. proc'[Initproc].parent = None /\ proc'[Initproc].state \in Alive
      BY <1>1, <1>4, <2>0, <2>5, <2>6 DEF IInv, ParentInv
    <3>2. \A q \in Proc :
            proc'[q].state \in Alive \union {"ZOMBIE"} /\ q # Initproc => proc'[q].parent # None
      BY <2>4, <2>5, <2>6 DEF IInv, ParentInv
    <3>3. \A q, r \in Proc : proc'[r].parent = q =>
            /\ proc'[q].state \in Alive
            /\ thread'[q].at = "exit_reparent" => r >= thread'[q].i
            /\ thread'[q].at = "reparent_wake" => r > thread'[q].i
            /\ thread'[q].at \notin {"exit_wake", "exit_zombie"}
      <4> SUFFICES ASSUME NEW q \in Proc, NEW r \in Proc, proc'[r].parent = q
                   PROVE  /\ proc'[q].state \in Alive
                          /\ q = p => r > s
        BY <2>2, <2>5, <2>7 DEF HoldsWait, Exiting
      <4>1. CASE r = s
        BY <1>1, <2>4, <2>5, <2>6, <3>1, <4>1
      <4>2. CASE r # s
        BY <1>1, <2>5, <2>6, <4>2 DEF IInv, ParentInv
      <4> QED
        BY <4>1, <4>2
    <3>4. \A q \in Proc : /\ thread'[q].at \in Exiting => q # Initproc
                          /\ thread'[q].at = "reparent_wake" => thread'[q].i # End
      <4>1. \A q \in Proc \ {p} : thread'[q].at \notin Exiting
        BY <2>7 DEF HoldsWait
      <4>2. thread'[p].at = "reparent_wake" /\ thread'[p].i # End /\ p # Initproc
        BY <1>1, <1>4, <2>2, <2>5
      <4> QED
        BY <4>1, <4>2, Zenon DEF Exiting
    <3> QED
      BY <3>1, <3>2, <3>3, <3>4 DEF ParentInv
  <2>14. WaitInv'
    <3>1. \A q, r \in Proc :
            SleepsInWait(q)' /\ proc'[r].parent = q /\ proc'[r].state = "ZOMBIE" =>
              /\ q = Initproc
              /\ \E u \in Proc : thread'[u].at = "reparent_wake" /\ thread'[u].w = Initproc
      <4> SUFFICES ASSUME NEW q \in Proc, NEW r \in Proc, SleepsInWait(q)',
                          proc'[r].parent = q, proc'[r].state = "ZOMBIE"
                   PROVE  q = Initproc
        BY <2>2, <2>5
      <4>1. CASE r = s
        BY <2>4, <2>5, <4>1
      <4>2. CASE r # s
        BY <2>5, <2>6, <4>2 DEF IInv, WaitInv
      <4> QED
        BY <4>1, <4>2
    <3>2. \A q \in Proc : thread'[q].at \in HoldsWait => thread'[q].at = "reparent_wake"
      BY <2>2, <2>5, <2>7
    <3> QED
      BY <3>1, <3>2 DEF WaitInv, HoldsWait, Exiting
  <2>15. TickInv'
    <3>1. \A q \in Proc : thread'[q].at = "pause_sleep" \/ proc'[q].state = "SLEEPING" =>
            thread'[q] = thread[q] /\ Elapsed(q)' = Elapsed(q)
      BY <1>1, <2>2, <2>5, <2>6 DEF Elapsed
    <3> QED
      BY <1>1, <2>6, <3>1 DEF IInv, TickInv
  <2> QED
    BY <2>9, <2>10, <2>11, <2>12, <2>13, <2>14, <2>15 DEF IInv
<1> QED
  BY <1>0, <1>2, <1>3, <1>4 DEF ExitReparent

LEMMA ExitWakeIInv ==
  ASSUME IInv, NEW c \in CPU, NEW p \in Proc, ExitWake(c, p)
  PROVE  IInv'
<1>0. PICK s : s = thread[p].w
  OBVIOUS
<1>1. /\ On(c, p) /\ thread[p].at \in {"reparent_wake", "exit_wake"}
      /\ UNCHANGED <<cpu, lock, ticks, nextpid, shell>>
      /\ s \in 1..End /\ thread[p] \in Thread /\ nextpid' \in Nat /\ shell' \in Nat
      /\ p # Initproc /\ proc[p].state = "RUNNING"
  <2>1. /\ On(c, p) /\ thread[p].at \in {"reparent_wake", "exit_wake"}
        /\ UNCHANGED <<cpu, lock, ticks, nextpid, shell>>
    BY DEF ExitWake
  <2>2. thread[p] \in Thread /\ s \in 1..End /\ nextpid' \in Nat /\ shell' \in Nat
    BY <1>0, <2>1, Typed, Zenon DEF IInv, Thread
  <2>3. p # Initproc
    BY <2>1 DEF IInv, ParentInv, Exiting
  <2> QED
    BY <2>1, <2>2, <2>3, OnFacts
<1>2. /\ \A q \in Proc : proc[q].parent = p =>
           thread[p].at = "reparent_wake" /\ q > thread[p].i
      /\ thread[p].at = "reparent_wake" => thread[p].i \in Proc
  <2>1. thread[p].i \in 1..End
    BY <1>1 DEF Thread
  <2>2. \A q \in Proc : proc[q].parent = p =>
          thread[p].at = "reparent_wake" /\ q > thread[p].i
    BY <1>1 DEF IInv, ParentInv
  <2>3. thread[p].at = "reparent_wake" => thread[p].i # End
    BY DEF IInv, ParentInv
  <2> QED
    BY <2>1, <2>2, <2>3
<1>a. s # End => s \in Proc
  BY <1>1
<1>b. s = End => \A q \in Proc : s > q
  OBVIOUS
<1>3. \A q \in Proc \ {p} : thread[q].at \notin HoldsWait
  BY <1>1, WaitLockHolder DEF HoldsWait, Exiting
<1>4. ASSUME s # End, NEW x \in [Proc -> Slot], proc' = x,
             \A q \in Proc \ {s} : x[q] = proc[q],
             \/ x = proc /\ (s = p \/ proc[s].state # "SLEEPING" \/ proc[s].chan # WakeChan(p))
             \/ /\ Free(s) /\ proc[s].state = "SLEEPING" /\ x[s].state = "RUNNABLE"
                /\ x[s].parent = proc[s].parent,
             thread' = [thread EXCEPT ![p].w = s + 1]
      PROVE  IInv'
  <2>1. PICK t : t = [thread[p] EXCEPT !.w = s + 1]
    BY Zenon
  <2>2. t \in Thread /\ t.at = thread[p].at /\ t.w = s + 1 /\ t.i = thread[p].i
    <3>1. s + 1 \in 1..End
      BY <1>a, <1>4
    <3>2. t \in Thread
      BY <3>1, <1>1, <2>1, LocalsMove, Zenon DEF Location
    <3> QED
      BY <3>2, <1>1, <2>1, Zenon DEF Thread
  <2>3. /\ thread'[p] = t /\ \A q \in Proc \ {p} : thread'[q] = thread[q]
        /\ thread' \in [Proc -> Thread] /\ s \in Proc
    <3>1. thread \in [Proc -> Thread] /\ thread' = [thread EXCEPT ![p] = t]
      BY <1>4, <2>1, Typed DEF IInv
    <3> QED
      BY <1>4, <1>a, <2>2, <3>1
  <2>4. LockStep(c, p, t)
    BY <1>1, <2>2, KeepsWaitLock DEF HoldsWait, Exiting
  <2>5. TypeOK'
    BY <1>1, <1>4, <2>3, <2>4, Typed, Retyped, Zenon DEF IInv, LockStep
  <2>6. /\ \A q \in Proc : proc'[q].parent = proc[q].parent
        /\ \A q \in Proc : \/ proc'[q] = proc[q]
                           \/ /\ q = s /\ lock[q] = NoCPU
                              /\ proc[q].state = "SLEEPING" /\ proc'[q].state = "RUNNABLE"
    BY <1>4, <2>3, Zenon
  <2>7. CpuInv' /\ RunsOnce' /\ LocksInv'
    <3>1. \A q \in Proc :
            \/ proc'[q].state = proc[q].state
            \/ /\ lock[q] \in {NoCPU, c}
               /\ proc[q].state # "RUNNING" /\ proc'[q].state # "RUNNING"
      BY <2>6
    <3> QED
      BY <1>1, <2>3, <2>4, <3>1, CpusKept
  <2>8. StateInv'
    BY <1>1, <2>2, <2>3, <2>6 DEF IInv, StateInv, HoldsOwn
  <2>9. ForkInv'
    <3> SUFFICES ASSUME NEW q \in Proc, Forking(q)'
                 PROVE  /\ Forking(q) /\ thread'[q].np = thread[q].np
                        /\ proc'[thread[q].np].state = "USED"
                        /\ thread'[thread[q].np].at =
                             IF Place(q)' = "fork_build" THEN "none" ELSE "forkret"
                        /\ Place(q)' = "fork_ready" => proc'[thread[q].np].parent = q
      BY ForkKept
    <3>1. q # p
      BY <1>1, <2>2, <2>3 DEF Forking, Place
    <3>2. Forking(q) /\ Place(q)' = Place(q) /\ thread'[q] = thread[q]
      BY <2>3, <3>1 DEF Forking, Place
    <3>3. thread[q].np \in Proc \ {p} /\ proc[thread[q].np].state = "USED"
      BY <1>1, <3>1, <3>2 DEF IInv, ForkInv
    <3> QED
      BY <2>3, <2>6, <3>2, <3>3 DEF IInv, ForkInv
  <2>10. ParentInv'
    <3>1. proc'[Initproc].parent = None /\ proc'[Initproc].state \in Alive
      BY <2>6 DEF IInv, ParentInv, Alive
    <3>2. \A q \in Proc :
            proc'[q].state \in Alive \union {"ZOMBIE"} /\ q # Initproc => proc'[q].parent # None
      BY <2>6 DEF IInv, ParentInv, Alive
    <3>3. \A q, r \in Proc : proc'[r].parent = q =>
            /\ proc'[q].state \in Alive
            /\ thread'[q].at = "exit_reparent" => r >= thread'[q].i
            /\ thread'[q].at = "reparent_wake" => r > thread'[q].i
            /\ thread'[q].at \notin {"exit_wake", "exit_zombie"}
      <4> SUFFICES ASSUME NEW q \in Proc, NEW r \in Proc, proc'[r].parent = q
                   PROVE  /\ proc'[q].state \in Alive
                          /\ thread'[q].at = "exit_reparent" => r >= thread'[q].i
                          /\ thread'[q].at = "reparent_wake" => r > thread'[q].i
                          /\ thread'[q].at \notin {"exit_wake", "exit_zombie"}
        OBVIOUS
      <4>1. proc[r].parent = q /\ proc'[q].state \in Alive
        BY <2>6 DEF IInv, ParentInv, Alive
      <4>2. thread'[q].at = thread[q].at /\ thread'[q].i = thread[q].i
        BY <2>2, <2>3
      <4> QED
        BY <4>1, <4>2 DEF IInv, ParentInv
    <3>4. \A q \in Proc : /\ thread'[q].at \in Exiting => q # Initproc
                          /\ thread'[q].at = "reparent_wake" => thread'[q].i # End
      BY <2>2, <2>3 DEF IInv, ParentInv
    <3> QED
      BY <3>1, <3>2, <3>3, <3>4 DEF ParentInv
  <2>11. \A q \in Proc : SleepsInWait(q)' => SleepsInWait(q) /\ (q = s => q # WakeChan(p))
    <3> SUFFICES ASSUME NEW q \in Proc, SleepsInWait(q)'
                 PROVE  SleepsInWait(q) /\ (q = s => q # WakeChan(p))
      OBVIOUS
    <3>1. proc'[q] = proc[q] /\ SleepsInWait(q)
      BY <2>6 DEF SleepsInWait
    <3>2. CASE q = s
      BY <1>1, <1>4, <3>1, <3>2, Zenon DEF SleepsInWait
    <3> QED
      BY <3>1, <3>2
  <2>12. WaitInv'
    <3>1. ASSUME NEW q \in Proc, NEW r \in Proc,
                 SleepsInWait(q)', proc'[r].parent = q, proc'[r].state = "ZOMBIE"
          PROVE  /\ q = Initproc
                 /\ \E u \in Proc : thread'[u].at = "reparent_wake" /\ thread'[u].w = Initproc
      <4>1. SleepsInWait(q) /\ proc[r].parent = q /\ proc[r].state = "ZOMBIE"
        BY <2>6, <2>11, <3>1
      <4>2. q = Initproc /\ thread[p].at = "reparent_wake" /\ s = Initproc
        BY <1>0, <1>3, <4>1 DEF IInv, WaitInv, HoldsWait, Exiting
      <4>3. WakeChan(p) = Initproc
        BY <4>2 DEF WakeChan
      <4> QED
        BY <2>11, <3>1, <4>2, <4>3
    <3>2. ASSUME NEW q \in Proc, NEW r \in Proc, proc'[r].parent = q
          PROVE  /\ thread'[r].at = "exit_wake" /\ thread'[r].w > q => ~ SleepsInWait(q)'
                 /\ thread'[r].at = "exit_zombie" => ~ SleepsInWait(q)'
      <4>1. CASE r = p
        <5>1. thread'[p].at # "exit_zombie" /\ proc[p].parent = q
          BY <1>1, <2>2, <2>3, <2>6, <3>2, <4>1
        <5>2. CASE thread[p].at = "exit_wake" /\ s > q
          BY <1>0, <2>11, <5>1, <5>2, <4>1 DEF IInv, WaitInv
        <5>3. CASE thread[p].at = "exit_wake" /\ s = q
          <6>1. WakeChan(p) = s
            BY <5>1, <5>3 DEF WakeChan
          <6> QED
            BY <2>11, <5>1, <5>3, <6>1, <4>1
        <5> QED
          BY <1>1, <2>2, <2>3, <4>1, <5>1, <5>2, <5>3
      <4>2. CASE r # p
        BY <1>3, <2>3, <4>2 DEF HoldsWait, Exiting
      <4> QED
        BY <4>1, <4>2
    <3>3. \A q \in Proc : thread'[q].at \notin {"wait_scan", "wait_sleep"}
      BY <1>1, <1>3, <2>2, <2>3 DEF HoldsWait
    <3> QED
      BY <3>1, <3>2, <3>3 DEF WaitInv
  <2>13. TickInv'
    <3>1. \A q \in Proc : thread'[q].at = "pause_sleep" \/ proc'[q].state = "SLEEPING" =>
            thread'[q] = thread[q] /\ Elapsed(q)' = Elapsed(q)
      BY <1>1, <2>2, <2>3, <2>6 DEF Elapsed
    <3> QED
      BY <1>1, <2>6, <3>1 DEF IInv, TickInv
  <2> QED
    BY <2>5, <2>7, <2>8, <2>9, <2>10, <2>12, <2>13 DEF IInv
<1>5. CASE /\ s # End /\ s # p /\ Free(s) /\ proc' = Wake(s, WakeChan(p))
           /\ thread' = [thread EXCEPT ![p].w = s + 1]
  <2>1. proc \in [Proc -> Slot] /\ s \in Proc /\ proc[s] \in Slot
    BY <1>5, <1>a, Typed DEF IInv
  <2>2. CASE proc[s].state = "SLEEPING" /\ proc[s].chan = WakeChan(p)
    <3>1. PICK y \in Slot : y = [proc[s] EXCEPT !.state = "RUNNABLE"]
      BY <2>1, SlotMoves, Zenon DEF State
    <3>2. y.state = "RUNNABLE" /\ y.parent = proc[s].parent
      BY <2>1, <3>1 DEF Slot
    <3>3. PICK x \in [Proc -> Slot] : x = [proc EXCEPT ![s] = y]
      BY <2>1, Zenon
    <3>4. proc' = x /\ x[s] = y /\ \A q \in Proc \ {s} : x[q] = proc[q]
      BY <1>5, <2>1, <2>2, <3>1, <3>3 DEF Wake
    <3> QED
      BY <1>4, <1>5, <2>2, <3>2, <3>4
  <2>3. CASE ~ (proc[s].state = "SLEEPING" /\ proc[s].chan = WakeChan(p))
    BY <1>4, <1>5, <2>1, <2>3 DEF Wake
  <2> QED
    BY <2>2, <2>3
<1>6. CASE s = p /\ proc' = proc /\ thread' = [thread EXCEPT ![p].w = s + 1]
  <2>1. s # End /\ proc \in [Proc -> Slot]
    BY <1>1, <1>6, Typed DEF IInv
  <2> QED
    BY <1>4, <1>6, <2>1
<1>7. CASE /\ s = End /\ thread[p].at = "reparent_wake" /\ proc' = proc
           /\ thread' = [thread EXCEPT ![p].at = "exit_reparent", ![p].w = 1,
                                       ![p].i = thread[p].i + 1]
  <2>1. PICK t : t = [thread[p] EXCEPT !.at = "exit_reparent", !.w = 1, !.i = thread[p].i + 1]
    OBVIOUS
  <2>2. t \in Thread /\ t.at = "exit_reparent" /\ t.i = thread[p].i + 1
    <3>1. thread[p].i + 1 \in 1..End
      BY <1>2, <1>7
    <3>2. t \in Thread
      BY <3>1, <1>1, <2>1, LocalsMove, Zenon DEF Location
    <3> QED
      BY <3>2, <1>1, <2>1 DEF Thread
  <2>3. thread' = [thread EXCEPT ![p] = t]
    BY <1>7, <2>1, Zenon
  <2>4. LockStep(c, p, t)
    BY <1>1, <2>2, KeepsWaitLock DEF HoldsWait, Exiting
  <2>5. MayGoTo(p, t)
    BY <1>0, <1>1, <1>2, <1>7, <2>2 DEF MayGoTo, Active, HoldsWait, Exiting
  <2> QED
    BY <1>1, <1>7, <2>2, <2>3, <2>4, <2>5, SameStaysSame, ThreadStep, Zenon
<1>8. CASE s = End /\ thread[p].at = "exit_wake" /\ proc' = proc /\ Finish(p, "exit_zombie")
  <2>1. PICK t \in Thread : t = At("exit_zombie")
    BY LocalsType, Zenon DEF Location
  <2>2. t.at = "exit_zombie" /\ thread' = [thread EXCEPT ![p] = t]
    BY <1>8, <2>1, AtPlace DEF Finish
  <2>3. LockStep(c, p, t)
    BY <1>1, <2>2, KeepsWaitLock DEF HoldsWait, Exiting
  <2>4. \A q \in Proc : proc[p].parent = q => ~ SleepsInWait(q)
    BY <1>0, <1>8, <1>b, Zenon DEF IInv, WaitInv
  <2>5. MayGoTo(p, t)
    BY <1>1, <1>2, <1>8, <2>2, <2>4 DEF MayGoTo, Active, HoldsWait, Exiting
  <2> QED
    BY <1>1, <1>8, <2>2, <2>3, <2>5, SameStaysSame, ThreadStep, Zenon
<1>9. ExitWake(c, p) => \/ /\ s # End /\ s # p /\ Free(s) /\ proc' = Wake(s, WakeChan(p))
                           /\ thread' = [thread EXCEPT ![p].w = s + 1]
                        \/ s = p /\ proc' = proc /\ thread' = [thread EXCEPT ![p].w = s + 1]
                        \/ s = End /\ proc' = proc /\
                             IF thread[p].at = "reparent_wake"
                               THEN thread' = [thread EXCEPT ![p].at = "exit_reparent", ![p].w = 1,
                                                             ![p].i = thread[p].i + 1]
                               ELSE Finish(p, "exit_zombie")
  BY <1>0 DEF ExitWake
<1> QED
  BY <1>1, <1>5, <1>6, <1>7, <1>8, <1>9

LEMMA ExitZombieIInv ==
  ASSUME IInv, NEW c \in CPU, NEW p \in Proc, ExitZombie(c, p)
  PROVE  IInv'
<1>1. /\ On(c, p) /\ thread[p].at = "exit_zombie" /\ lock[p] = NoCPU
      /\ UNCHANGED <<ticks, nextpid, shell>>
      /\ lock' = [lock EXCEPT ![p] = c, ![WaitLock] = NoCPU]
  BY DEF ExitZombie
<1>2. /\ cpu[c].at = "switched" /\ cpu[c].irq = 0 /\ cpu[c].proc = p /\ cpu[c].selected = p
      /\ proc[p].state = "RUNNING" /\ p # Initproc
      /\ \A q \in Proc : proc[q].parent # p
  BY <1>1, OnFacts DEF IInv, ParentInv, Exiting
<1>3. PICK x \in Slot : x = [proc[p] EXCEPT !.state = "ZOMBIE"]
  <2>1. proc[p] \in Slot /\ "ZOMBIE" \in State /\ 0 \in Nat
    BY Typed DEF IInv, State
  <2> QED
    BY <2>1, SlotMoves, Zenon
<1>4. PICK t \in Thread : t = At("dead")
  BY LocalsType, Zenon DEF Location
<1>5. PICK k \in Core : k = [cpu[c] EXCEPT !.at = "back"]
  <2>1. cpu[c] \in Core /\ 0 \in 0..NPROC + 2
    BY Typed DEF IInv
  <2> QED
    BY <2>1, CoreMoves, Zenon
<1>6. x.state = "ZOMBIE" /\ x.parent = proc[p].parent /\ t.at = "dead"
  BY <1>3, <1>4, Typed, AtPlace, Zenon DEF IInv, Slot
<1>7. k.at = "back" /\ k.irq = 0 /\ k.proc = p /\ k.selected = p
  BY <1>2, <1>5, Typed DEF IInv, Core
<1>8. /\ proc'[p] = x /\ \A q \in Proc \ {p} : proc'[q] = proc[q]
      /\ thread'[p] = t /\ \A q \in Proc \ {p} : thread'[q] = thread[q]
      /\ cpu' = [cpu EXCEPT ![c] = k]
      /\ proc' \in [Proc -> Slot] /\ thread' \in [Proc -> Thread] /\ cpu' \in [CPU -> Core]
  BY <1>3, <1>4, <1>5, Typed DEF IInv, ExitZombie, Finish, Sched
<1>9. /\ lock' \in [Lock -> CPU \union {NoCPU}]
      /\ \A l \in Lock : /\ lock'[l] = c <=> l = p
                         /\ \A d \in CPU \ {c} : lock'[l] = d <=> lock[l] = d
  <2>1. /\ lock \in [Lock -> CPU \union {NoCPU}] /\ WaitLock \in Lock /\ p \in Lock /\ p # WaitLock
        /\ \A l \in Lock : lock[l] = c <=> l = WaitLock
    BY <1>1, Typed, OnFacts DEF IInv, ThreadHolds, HoldsOwn, HoldsWait, HoldsTicks, Exiting
  <2> QED
    BY <1>1, <2>1
<1>10. TypeOK'
  BY <1>1, <1>8, <1>9, Typed, Retyped, Zenon DEF IInv
<1>11. CpuInv' /\ RunsOnce' /\ LocksInv'
  <2>1. /\ \A q \in Proc \ {p} : proc'[q].state = proc[q].state /\ thread'[q] = thread[q]
        /\ proc'[p].state \notin {"UNUSED", "USED", "RUNNING"}
    BY <1>6, <1>8
  <2>2. cpu'[c] = k /\ \A d \in CPU \ {c} : cpu'[d] = cpu[d]
    BY <1>8, Typed DEF IInv
  <2> QED
    BY <1>2, <1>7, <1>9, <2>1, <2>2, SwitchOff
<1>12. StateInv'
  BY <1>6, <1>8 DEF IInv, StateInv
<1>13. ForkInv'
  <2> SUFFICES ASSUME NEW q \in Proc, Forking(q)'
               PROVE  /\ Forking(q) /\ thread'[q].np = thread[q].np
                      /\ proc'[thread[q].np].state = "USED"
                      /\ thread'[thread[q].np].at =
                           IF Place(q)' = "fork_build" THEN "none" ELSE "forkret"
                      /\ Place(q)' = "fork_ready" => proc'[thread[q].np].parent = q
    BY ForkKept
  <2>1. q # p
    BY <1>6, <1>8 DEF Forking, Place
  <2>2. Forking(q) /\ Place(q)' = Place(q) /\ thread'[q] = thread[q]
    BY <1>8, <2>1 DEF Forking, Place
  <2>3. thread[q].np \in Proc \ {p}
    BY <1>2, <2>2 DEF IInv, ForkInv
  <2> QED
    BY <1>8, <2>2, <2>3, Zenon DEF IInv, ForkInv
<1>14. \A q \in Proc : proc'[q].parent = proc[q].parent
  BY <1>6, <1>8
<1>15. \A q \in Proc : thread'[q].at \notin HoldsWait
  BY <1>1, <1>6, <1>8, WaitLockHolder, Zenon DEF HoldsWait, Exiting
<1>16. ParentInv'
  <2>1. proc'[Initproc].parent = None /\ proc'[Initproc].state \in Alive
    BY <1>2, <1>8 DEF IInv, ParentInv
  <2>2. \A q \in Proc :
          proc'[q].state \in Alive \union {"ZOMBIE"} /\ q # Initproc => proc'[q].parent # None
    BY <1>2, <1>8, <1>14 DEF IInv, ParentInv, Alive
  <2>3. \A q, s \in Proc : proc'[s].parent = q => proc'[q].state \in Alive
    BY <1>2, <1>8, <1>14 DEF IInv, ParentInv
  <2> QED
    BY <1>15, <2>1, <2>2, <2>3 DEF ParentInv, HoldsWait, Exiting
<1>17. WaitInv'
  <2> SUFFICES ASSUME NEW q \in Proc, NEW s \in Proc, SleepsInWait(q)',
                      proc'[s].parent = q, proc'[s].state = "ZOMBIE"
               PROVE  FALSE
    BY <1>15 DEF WaitInv, HoldsWait, Exiting
  <2>1. q # p /\ SleepsInWait(q) /\ proc[s].parent = q
    BY <1>6, <1>8, <1>14 DEF SleepsInWait
  <2>2. CASE s = p
    BY <1>1, <2>1, <2>2 DEF IInv, WaitInv
  <2>3. CASE s # p
    <3>1. PICK r \in Proc : thread[r].at = "reparent_wake"
      BY <1>8, <2>1, <2>3 DEF IInv, WaitInv
    <3> QED
      BY <1>1, <3>1, WaitLockHolder DEF HoldsWait, Exiting
  <2> QED
    BY <2>2, <2>3
<1>18. TickInv'
  <2> SUFFICES ASSUME NEW q \in Proc
               PROVE  /\ thread'[q].at = "pause_sleep" => Elapsed(q)' < PauseTicks
                      /\ proc'[q].state = "SLEEPING" /\ proc'[q].chan = TicksLock =>
                           Elapsed(q)' < PauseTicks \/ \E d \in CPU : cpu'[d].irq \in 1..q
    BY DEF TickInv
  <2>1. CASE q = p
    BY <1>6, <1>8, <2>1
  <2>2. CASE q # p
    <3>1. proc'[q] = proc[q] /\ thread'[q] = thread[q] /\ Elapsed(q)' = Elapsed(q)
      BY <1>1, <1>8, <2>2 DEF Elapsed
    <3>2. \A d \in CPU : cpu'[d].irq = cpu[d].irq
      BY <1>2, <1>7, <1>8, Typed DEF IInv
    <3> QED
      BY <3>1, <3>2 DEF IInv, TickInv
  <2> QED
    BY <2>1, <2>2
<1> QED
  BY <1>10, <1>11, <1>12, <1>13, <1>16, <1>17, <1>18 DEF IInv

-----------------------------------------------------------------------------
(* kwait                                                                   *)

(* From a place with wait_lock to one without any lock.                    *)
LEMMA LeavesWait ==
  ASSUME IInv, NEW c \in CPU, NEW p \in Proc, On(c, p), NEW l,
         thread[p].at \in {"wait_scan", "wait_sleep"},
         l \in Preemptible \ {"fork_link", "fork_ready"},
         Finish(p, l), Release(WaitLock), UNCHANGED <<proc, cpu, ticks, nextpid, shell>>
  PROVE  IInv'
<1>1. PICK t \in Thread : t = At(l)
  BY LocalsType, Zenon DEF Preemptible, Location
<1>2. t.at = l /\ thread' = [thread EXCEPT ![p] = t]
  BY <1>1, AtPlace DEF Finish
<1>3. LockStep(c, p, t)
  <2>1. \A m \in Lock : ThreadHolds(p, thread[p], m) <=> m = WaitLock
    BY DEF ThreadHolds, HoldsOwn, HoldsWait, HoldsTicks, Exiting
  <2>2. \A m \in Lock : ~ ThreadHolds(p, t, m)
    BY <1>2 DEF ThreadHolds, Preemptible, HoldsOwn, HoldsWait, HoldsTicks, Exiting
  <2> QED
    BY <2>1, <2>2, LockSteps
<1>4. MayGoTo(p, t)
  BY <1>2 DEF MayGoTo, Preemptible, Active, Exiting
<1>5. nextpid' \in Nat /\ shell' \in Nat
  BY Typed DEF IInv
<1> QED
  BY <1>2, <1>3, <1>4, <1>5, SameStaysSame, ThreadStep, Zenon

LEMMA WaitLockedIInv ==
  ASSUME IInv, NEW c \in CPU, NEW p \in Proc, WaitLocked(c, p)
  PROVE  IInv'
<1>1. /\ On(c, p) /\ thread[p].at = "wait_lock" /\ Acquire(c, WaitLock)
      /\ UNCHANGED <<proc, cpu, ticks, nextpid, shell>>
  BY DEF WaitLocked
<1>2. PICK t \in Thread : t = At("wait_scan")
  BY LocalsType, Zenon DEF Location
<1>3. t.at = "wait_scan" /\ t.i = 1 /\ thread' = [thread EXCEPT ![p] = t]
  BY <1>2, AtPlace DEF WaitLocked, Finish
<1>4. LockStep(c, p, t)
  <2>1. \A m \in Lock : ~ ThreadHolds(p, thread[p], m)
    BY <1>1 DEF ThreadHolds, HoldsOwn, HoldsWait, HoldsTicks, Exiting
  <2>2. \A m \in Lock : ThreadHolds(p, t, m) <=> m = WaitLock
    BY <1>3 DEF ThreadHolds, HoldsOwn, HoldsWait, HoldsTicks, Exiting
  <2> QED
    BY <1>1, <2>1, <2>2, LockSteps
<1>5. MayGoTo(p, t)
  BY <1>1, <1>3 DEF MayGoTo, Active, HoldsWait, Exiting
<1>6. nextpid' \in Nat /\ shell' \in Nat
  BY <1>1, Typed DEF IInv
<1> QED
  BY <1>1, <1>3, <1>4, <1>5, <1>6, SameStaysSame, ThreadStep, Zenon

LEMMA WaitScanIInv ==
  ASSUME IInv, NEW c \in CPU, NEW p \in Proc, WaitScan(c, p)
  PROVE  IInv'
<1>0. PICK s : s = thread[p].i
  OBVIOUS
<1>1. /\ On(c, p) /\ thread[p].at = "wait_scan" /\ UNCHANGED <<cpu, ticks, nextpid>>
      /\ s \in Proc /\ thread[p] \in Thread /\ nextpid' \in Nat /\ shell \in Nat
      /\ proc[p].state = "RUNNING"
      /\ \A q \in Proc : proc[q].parent = p /\ q < s => proc[q].state # "ZOMBIE"
  <2>1. /\ On(c, p) /\ thread[p].at = "wait_scan" /\ s # End
        /\ UNCHANGED <<cpu, ticks, nextpid>>
    BY <1>0 DEF WaitScan
  <2>2. thread[p] \in Thread /\ nextpid' \in Nat /\ shell \in Nat
    BY <2>1, Typed DEF IInv
  <2>3. s \in 1..End
    BY <1>0, <2>2 DEF Thread
  <2>4. \A q \in Proc : proc[q].parent = p /\ q < s => proc[q].state # "ZOMBIE"
    BY <1>0, <2>1 DEF IInv, WaitInv
  <2> QED
    BY <2>1, <2>2, <2>3, <2>4, OnFacts
<1>2. ASSUME NEW t \in Thread, t.at = "wait_scan", t.i = s + 1,
             thread' = [thread EXCEPT ![p] = t], UNCHANGED <<proc, lock, shell>>,
             proc[s].parent = p => proc[s].state # "ZOMBIE"
      PROVE  IInv'
  <2>1. LockStep(c, p, t)
    BY <1>1, <1>2, KeepsWaitLock DEF HoldsWait
  <2>2. \A q \in Proc : proc[q].parent = p /\ q < t.i => proc[q].state # "ZOMBIE"
    BY <1>1, <1>2
  <2>3. MayGoTo(p, t)
    BY <1>1, <1>2, <2>2 DEF MayGoTo, Active, HoldsWait, Exiting
  <2> QED
    BY <1>1, <1>2, <2>1, <2>3, SameStaysSame, ThreadStep, Zenon
<1>3. s + 1 \in 1..End
  BY <1>1
<1>4. CASE /\ proc[s].parent # p
           /\ thread' = [thread EXCEPT ![p].i = s + 1]
           /\ UNCHANGED <<proc, lock, shell>>
  <2>1. PICK t \in Thread : t = [thread[p] EXCEPT !.i = s + 1]
    <3>1. "wait_scan" \in Location /\ 0 \in Nat /\ s + 1 \in 1..End /\ thread[p] \in Thread
      BY <1>1, <1>3 DEF Location
    <3> QED
      BY <3>1, LocalsMove, Zenon
  <2>2. t.at = "wait_scan" /\ t.i = s + 1 /\ thread' = [thread EXCEPT ![p] = t]
    BY <1>1, <1>4, <2>1 DEF Thread
  <2> QED
    BY <1>2, <1>4, <2>2, Zenon
<1>5. CASE /\ proc[s].parent = p /\ Free(s) /\ proc[s].state # "ZOMBIE"
           /\ thread' = [thread EXCEPT ![p].i = s + 1, ![p].havekids = TRUE]
           /\ UNCHANGED <<proc, lock, shell>>
  <2>1. PICK t \in Thread : t = [thread[p] EXCEPT !.i = s + 1, !.havekids = TRUE]
    <3>1. "wait_scan" \in Location /\ 0 \in Nat /\ s + 1 \in 1..End /\ thread[p] \in Thread
      BY <1>1, <1>3 DEF Location
    <3> QED
      BY <3>1, LocalsMove, Zenon
  <2>2. t.at = "wait_scan" /\ t.i = s + 1 /\ thread' = [thread EXCEPT ![p] = t]
    <3>1. thread[p] \in Thread /\ thread[p].at = "wait_scan"
      BY <1>1
    <3>2. t.at = "wait_scan" /\ t.i = s + 1
      BY <2>1, <3>1 DEF Thread
    <3> QED
      BY <1>5, <2>1, <3>2
  <2> QED
    BY <1>2, <1>5, <2>2, Zenon
<1>6. CASE Finish(p, "ret") /\ Release(WaitLock) /\ UNCHANGED <<proc, shell>>
  BY <1>1, <1>6, LeavesWait DEF Preemptible
<1>7. CASE /\ proc[s].parent = p /\ Free(s) /\ proc[s].state = "ZOMBIE"
           /\ proc' = FreeProc(s)
           /\ thread' = [thread EXCEPT ![p] = At("ret"), ![s] = At("none")]
           /\ Release(WaitLock)
           /\ shell' = IF p = Initproc /\ proc[s].pid = shell THEN None ELSE shell
  <2>1. s # p
    BY <1>1, <1>7
  <2>2. PICK x \in Slot : x = UnusedProc
    BY <1>1, Typed, SlotMoves, Zenon DEF IInv, State
  <2>3. PICK t \in Thread : t = At("ret")
    BY LocalsType, Zenon DEF Location
  <2>4. PICK u \in Thread : u = At("none")
    BY LocalsType, Zenon DEF Location
  <2>5. x.state = "UNUSED" /\ x.parent = None /\ t.at = "ret" /\ u.at = "none"
    BY <2>2, <2>3, <2>4, AtPlace DEF UnusedProc
  <2>6. /\ proc'[s] = x /\ proc'[p] = proc[p] /\ thread'[p] = t /\ thread'[s] = u
        /\ \A q \in Proc \ {p, s} : proc'[q] = proc[q] /\ thread'[q] = thread[q]
        /\ proc' \in [Proc -> Slot] /\ thread' \in [Proc -> Thread]
    BY <1>1, <1>7, <2>1, <2>2, <2>3, <2>4, Typed, Zenon DEF IInv, FreeProc
  <2>7. LockStep(c, p, t)
    <3>1. \A m \in Lock : ThreadHolds(p, thread[p], m) <=> m = WaitLock
      BY <1>1 DEF ThreadHolds, HoldsOwn, HoldsWait, HoldsTicks, Exiting
    <3>2. \A m \in Lock : ~ ThreadHolds(p, t, m)
      BY <2>5 DEF ThreadHolds, HoldsOwn, HoldsWait, HoldsTicks, Exiting
    <3> QED
      BY <1>1, <1>7, <3>1, <3>2, LockSteps
  <2>8. TypeOK'
    <3>1. shell' \in Nat
      BY <1>1, <1>7
    <3> QED
      BY <1>1, <2>6, <2>7, <3>1, Typed, Retyped DEF IInv, LockStep
  <2>9. CpuInv' /\ RunsOnce' /\ LocksInv'
    <3>1. \A q \in Proc \ {p} : proc[q].state = "RUNNING" => thread'[q] = thread[q]
      BY <1>7, <2>6
    <3>2. \A q \in Proc :
            \/ proc'[q].state = proc[q].state
            \/ /\ lock[q] \in {NoCPU, c}
               /\ proc[q].state # "RUNNING" /\ proc'[q].state # "RUNNING"
      BY <1>7, <2>5, <2>6
    <3> QED
      BY <1>1, <2>6, <2>7, <3>1, <3>2, CpusKept
  <2>10. StateInv'
    BY <1>1, <2>5, <2>6 DEF IInv, StateInv, Active, Preemptible
  <2>11. ForkInv'
    <3> SUFFICES ASSUME NEW q \in Proc, Forking(q)'
                 PROVE  /\ Forking(q) /\ thread'[q].np = thread[q].np
                        /\ proc'[thread[q].np].state = "USED"
                        /\ thread'[thread[q].np].at =
                             IF Place(q)' = "fork_build" THEN "none" ELSE "forkret"
                        /\ Place(q)' = "fork_ready" => proc'[thread[q].np].parent = q
      BY ForkKept
    <3>1. q # p /\ q # s
      BY <2>5, <2>6 DEF Forking, Place
    <3>2. Forking(q) /\ Place(q)' = Place(q) /\ thread'[q] = thread[q]
      BY <2>6, <3>1 DEF Forking, Place
    <3>3. thread[q].np \in Proc \ {p, s}
      BY <1>1, <1>7, <3>2 DEF IInv, ForkInv
    <3> QED
      BY <2>6, <3>2, <3>3 DEF IInv, ForkInv
  <2>12. ParentInv' /\ WaitInv' /\ TickInv'
    <3>1. \A q \in Proc \ {p, s} : Quiet(q)
      BY <2>6 DEF Quiet, IInv, ParentInv
    <3>2. Quiet(p)
      BY <1>1, <2>5, <2>6 DEF Quiet, HoldsWait, HoldsTicks, Exiting
    <3>3. Quiet(s)
      <4>1. thread[s].at # "reparent_wake"
        BY <1>1, <1>7 DEF IInv, StateInv
      <4> QED
        BY <1>7, <2>5, <2>6, <4>1 DEF Quiet, Alive, HoldsWait, HoldsTicks, Exiting
    <3> QED
      BY <1>1, <3>1, <3>2, <3>3, QuietStep
  <2> QED
    BY <2>8, <2>9, <2>10, <2>11, <2>12 DEF IInv
<1> QED
  BY <1>0, <1>4, <1>5, <1>6, <1>7 DEF WaitScan

LEMMA WaitCheckIInv ==
  ASSUME IInv, NEW c \in CPU, NEW p \in Proc, WaitCheck(c, p)
  PROVE  IInv'
<1>1. /\ On(c, p) /\ thread[p].at = "wait_scan" /\ thread[p].i = End
      /\ UNCHANGED <<proc, cpu, ticks, nextpid, shell>>
  BY DEF WaitCheck
<1>2. CASE Finish(p, Failed(p)) /\ Release(WaitLock)
  BY <1>1, <1>2, LeavesWait, FailedPlace
<1>3. CASE Finish(p, "wait_sleep") /\ UNCHANGED lock
  <2>1. PICK t \in Thread : t = At("wait_sleep")
    BY LocalsType, Zenon DEF Location
  <2>2. t.at = "wait_sleep" /\ thread' = [thread EXCEPT ![p] = t]
    BY <1>3, <2>1, AtPlace DEF Finish
  <2>3. LockStep(c, p, t)
    BY <1>1, <1>3, <2>2, KeepsWaitLock DEF HoldsWait
  <2>4. \A s \in Proc : proc[s].parent = p => proc[s].state # "ZOMBIE"
    <3>1. \A s \in Proc : s < End
      OBVIOUS
    <3> QED
      BY <1>1, <3>1 DEF IInv, WaitInv
  <2>5. MayGoTo(p, t)
    BY <1>1, <2>2, <2>4 DEF MayGoTo, Active, HoldsWait, Exiting
  <2>6. nextpid' \in Nat /\ shell' \in Nat
    BY <1>1, Typed DEF IInv
  <2> QED
    BY <1>1, <2>2, <2>3, <2>5, <2>6, SameStaysSame, ThreadStep, Zenon
<1> QED
  BY <1>2, <1>3 DEF WaitCheck

-----------------------------------------------------------------------------
(* sleep                                                                   *)

LEMMA SleepIInv ==
  ASSUME IInv, NEW c \in CPU, NEW p \in Proc, On(c, p), NEW chan, NEW lk, NEW woken,
         \/ /\ thread[p].at = "wait_sleep" /\ woken = "wait_woken"
            /\ chan = p /\ lk = WaitLock
         \/ /\ thread[p].at = "pause_sleep" /\ woken = "pause_woken"
            /\ chan = TicksLock /\ lk = TicksLock,
         Sleep(c, p, chan, lk, woken)
  PROVE  IInv'
<1>1. /\ lock[p] = NoCPU /\ UNCHANGED <<ticks, nextpid, shell>>
      /\ lock' = [lock EXCEPT ![p] = c, ![lk] = NoCPU]
  BY DEF Sleep
<1>2. /\ cpu[c].at = "switched" /\ cpu[c].irq = 0 /\ cpu[c].proc = p /\ cpu[c].selected = p
      /\ proc[p].state = "RUNNING"
  BY OnFacts
<1>3. PICK x \in Slot : x = [proc[p] EXCEPT !.chan = chan, !.state = "SLEEPING"]
  <2>1. proc[p] \in Slot /\ "SLEEPING" \in State /\ 0 \in Nat
    BY Typed DEF IInv, State
  <2> QED
    BY <2>1, SlotMoves, Zenon
<1>4. PICK t \in Thread : t = [thread[p] EXCEPT !.at = woken]
  <2>1. thread[p] \in Thread /\ woken \in Location
    BY Typed DEF IInv, Location
  <2> QED
    BY <2>1, LocalsAt, Zenon
<1>5. PICK k \in Core : k = [cpu[c] EXCEPT !.at = "back"]
  <2>1. cpu[c] \in Core /\ 0 \in 0..NPROC + 2
    BY Typed DEF IInv
  <2> QED
    BY <2>1, CoreMoves, Zenon
<1>6. x.state = "SLEEPING" /\ x.parent = proc[p].parent /\ x.chan = chan
  BY <1>3, Typed DEF IInv, Slot
<1>7. t.at = woken /\ t.arg = thread[p].arg
  <2>1. thread[p] \in Thread
    BY Typed DEF IInv
  <2> QED
    BY <1>4, <2>1 DEF Thread
<1>8. k.at = "back" /\ k.irq = 0 /\ k.proc = p /\ k.selected = p
  BY <1>2, <1>5, Typed DEF IInv, Core
<1>9. /\ proc'[p] = x /\ \A q \in Proc \ {p} : proc'[q] = proc[q]
      /\ proc' \in [Proc -> Slot]
  <2>1. proc \in [Proc -> Slot] /\ proc' = [proc EXCEPT ![p] = x]
    BY <1>3, Typed, Zenon DEF IInv, Sleep
  <2> QED
    BY <2>1
<1>10. /\ thread'[p] = t /\ \A q \in Proc \ {p} : thread'[q] = thread[q]
       /\ thread' \in [Proc -> Thread]
  BY <1>4, Typed DEF IInv, Sleep, Goto
<1>11. /\ cpu'[c] = k /\ \A d \in CPU \ {c} : cpu'[d] = cpu[d]
       /\ cpu' \in [CPU -> Core] /\ \A d \in CPU : cpu'[d].irq = cpu[d].irq
  BY <1>2, <1>5, <1>8, Typed DEF IInv, Sleep, Sched
<1>12. /\ lock' \in [Lock -> CPU \union {NoCPU}]
       /\ \A l \in Lock : /\ lock'[l] = c <=> l = p
                          /\ \A d \in CPU \ {c} : lock'[l] = d <=> lock[l] = d
  <2>1. /\ lock \in [Lock -> CPU \union {NoCPU}] /\ lk \in Lock /\ p \in Lock /\ p # lk
    BY Typed DEF IInv
  <2>2. \A l \in Lock : lock[l] = c <=> l = lk
    BY OnFacts DEF ThreadHolds, HoldsOwn, HoldsWait, HoldsTicks, Exiting
  <2> QED
    BY <1>1, <2>1, <2>2
<1>13. TypeOK'
  BY <1>1, <1>9, <1>10, <1>11, <1>12, Typed, Retyped, Zenon DEF IInv
<1>14. CpuInv' /\ RunsOnce' /\ LocksInv'
  <2>1. /\ \A q \in Proc \ {p} : proc'[q].state = proc[q].state /\ thread'[q] = thread[q]
        /\ proc'[p].state \notin {"UNUSED", "USED", "RUNNING"}
    BY <1>6, <1>9, <1>10
  <2> QED
    BY <1>2, <1>8, <1>11, <1>12, <2>1, SwitchOff
<1>15. StateInv'
  BY <1>6, <1>7, <1>9, <1>10 DEF IInv, StateInv
<1>16. ForkInv'
  <2> SUFFICES ASSUME NEW q \in Proc, Forking(q)'
               PROVE  /\ Forking(q) /\ thread'[q].np = thread[q].np
                      /\ proc'[thread[q].np].state = "USED"
                      /\ thread'[thread[q].np].at =
                           IF Place(q)' = "fork_build" THEN "none" ELSE "forkret"
                      /\ Place(q)' = "fork_ready" => proc'[thread[q].np].parent = q
    BY ForkKept
  <2>1. q # p
    BY <1>7, <1>10 DEF Forking, Place
  <2>2. Forking(q) /\ Place(q)' = Place(q) /\ thread'[q] = thread[q]
    BY <1>10, <2>1 DEF Forking, Place
  <2>3. thread[q].np \in Proc \ {p}
    BY <1>2, <2>2 DEF IInv, ForkInv
  <2> QED
    BY <1>9, <1>10, <2>2, <2>3 DEF IInv, ForkInv
<1>17. /\ \A q \in Proc : proc'[q].parent = proc[q].parent
       /\ \A q \in Proc : proc'[q].state \in Alive <=> proc[q].state \in Alive
       /\ \A q \in Proc : proc'[q].state = "ZOMBIE" => q # p /\ proc[q].state = "ZOMBIE"
  BY <1>2, <1>6, <1>9 DEF Alive
<1>18. \A q \in Proc : thread'[q].at \in HoldsWait \union HoldsTicks => q # p
  BY <1>7, <1>10 DEF HoldsWait, HoldsTicks, Exiting
<1>19. ParentInv'
  <2>1. proc'[Initproc].parent = None /\ proc'[Initproc].state \in Alive
    BY <1>17 DEF IInv, ParentInv
  <2>2. \A q \in Proc :
          proc'[q].state \in Alive \union {"ZOMBIE"} /\ q # Initproc => proc'[q].parent # None
    BY <1>17 DEF IInv, ParentInv
  <2>3. ASSUME NEW q \in Proc
        PROVE  /\ \A s \in Proc : proc'[s].parent = q =>
                    /\ proc'[q].state \in Alive
                    /\ thread'[q].at = "exit_reparent" => s >= thread'[q].i
                    /\ thread'[q].at = "reparent_wake" => s > thread'[q].i
                    /\ thread'[q].at \notin {"exit_wake", "exit_zombie"}
               /\ thread'[q].at \in Exiting => q # Initproc
               /\ thread'[q].at = "reparent_wake" => thread'[q].i # End
    <3>1. CASE thread'[q].at \in Exiting
      <4>1. thread'[q] = thread[q]
        BY <1>10, <1>18, <3>1 DEF HoldsWait
      <4> QED
        BY <1>17, <4>1 DEF IInv, ParentInv
    <3>2. CASE thread'[q].at \notin Exiting
      BY <1>17, <3>2 DEF IInv, ParentInv, Exiting
    <3> QED
      BY <3>1, <3>2
  <2> QED
    BY <2>1, <2>2, <2>3 DEF ParentInv
<1>20. WaitInv'
  <2>1. ASSUME NEW q \in Proc, NEW s \in Proc,
               SleepsInWait(q)', proc'[s].parent = q, proc'[s].state = "ZOMBIE"
        PROVE  /\ q = Initproc
               /\ \E r \in Proc : thread'[r].at = "reparent_wake" /\ thread'[r].w = Initproc
    <3>1. proc[s].parent = q /\ proc[s].state = "ZOMBIE"
      BY <1>17, <2>1
    <3>2. q # p
      <4>1. q = p => thread[p].at = "wait_sleep"
        BY <1>6, <1>9, <2>1 DEF SleepsInWait
      <4> QED
        BY <3>1, <4>1 DEF IInv, WaitInv
    <3>3. SleepsInWait(q)
      BY <1>9, <2>1, <3>2 DEF SleepsInWait
    <3>4. thread[p].at # "reparent_wake"
      OBVIOUS
    <3> QED
      BY <1>10, <3>1, <3>3, <3>4 DEF IInv, WaitInv
  <2>2. ASSUME NEW q \in Proc, NEW s \in Proc, proc'[s].parent = q,
               \/ thread'[s].at = "exit_wake" /\ thread'[s].w > q
               \/ thread'[s].at = "exit_zombie"
        PROVE  ~ SleepsInWait(q)'
    <3>1. s # p /\ thread'[s] = thread[s] /\ thread[s].at \in HoldsWait
      BY <1>10, <1>18, <2>2 DEF HoldsWait, Exiting
    <3>2. ~ SleepsInWait(q)
      BY <1>17, <2>2, <3>1 DEF IInv, WaitInv
    <3>3. CASE q = p
      <4>1. thread[p].at # "wait_sleep"
        BY <3>1, WaitLockHolder DEF HoldsWait
      <4> QED
        BY <1>6, <1>9, <3>3, <4>1 DEF SleepsInWait
    <3>4. CASE q # p
      BY <1>9, <3>2, <3>4 DEF SleepsInWait
    <3> QED
      BY <3>3, <3>4
  <2>3. \A q, s \in Proc : proc'[s].parent = q =>
          /\ thread'[q].at = "wait_scan" /\ s < thread'[q].i => proc'[s].state # "ZOMBIE"
          /\ thread'[q].at = "wait_sleep" => proc'[s].state # "ZOMBIE"
    BY <1>10, <1>17, <1>18 DEF IInv, WaitInv, HoldsWait
  <2> QED
    BY <2>1, <2>2, <2>3 DEF WaitInv
<1>21. TickInv'
  <2> SUFFICES ASSUME NEW q \in Proc
               PROVE  /\ thread'[q].at = "pause_sleep" => Elapsed(q)' < PauseTicks
                      /\ proc'[q].state = "SLEEPING" /\ proc'[q].chan = TicksLock =>
                           Elapsed(q)' < PauseTicks \/ \E d \in CPU : cpu'[d].irq \in 1..q
    BY DEF TickInv
  <2>1. Elapsed(q)' = Elapsed(q)
    BY <1>1, <1>7, <1>10 DEF Elapsed
  <2>2. CASE q = p
    <3>1. thread'[q].at # "pause_sleep"
      BY <1>18, <2>2 DEF HoldsTicks
    <3>2. proc'[q].chan = TicksLock => thread[p].at = "pause_sleep"
      BY <1>6, <1>9, <2>2
    <3> QED
      BY <2>1, <2>2, <3>1, <3>2 DEF IInv, TickInv
  <2>3. CASE q # p
    BY <1>9, <1>10, <1>11, <2>1, <2>3 DEF IInv, TickInv
  <2> QED
    BY <2>2, <2>3
<1> QED
  BY <1>13, <1>14, <1>15, <1>16, <1>19, <1>20, <1>21 DEF IInv

LEMMA WaitSleepIInv ==
  ASSUME IInv, NEW c \in CPU, NEW p \in Proc, WaitSleep(c, p)
  PROVE  IInv'
BY SleepIInv DEF WaitSleep

LEMMA PauseSleepIInv ==
  ASSUME IInv, NEW c \in CPU, NEW p \in Proc, PauseSleep(c, p)
  PROVE  IInv'
BY SleepIInv DEF PauseSleep

LEMMA WokenIInv ==
  ASSUME IInv, NEW c \in CPU, NEW p \in Proc, Woken(c, p)
  PROVE  IInv'
<1>0. PICK l \in {"wait_lock", "pause_relock"} :
        l = IF thread[p].at = "wait_woken" THEN "wait_lock" ELSE "pause_relock"
  OBVIOUS
<1>1. /\ On(c, p) /\ thread[p].at \in {"wait_woken", "pause_woken"} /\ Release(p)
      /\ proc' = [proc EXCEPT ![p].chan = None] /\ Goto(p, l)
      /\ UNCHANGED <<cpu, ticks, nextpid, shell>>
  BY <1>0 DEF Woken
<1>2. PICK t \in Thread : t = [thread[p] EXCEPT !.at = l]
  <2>1. thread[p] \in Thread /\ l \in Location
    BY Typed DEF IInv, Location
  <2> QED
    BY <2>1, LocalsAt, Zenon
<1>3. t.at = l /\ thread' = [thread EXCEPT ![p] = t]
  BY <1>1, <1>2, Typed, LocalsAt DEF IInv, Location, Goto
<1>4. PICK x \in Slot : x = [proc[p] EXCEPT !.chan = None]
  <2>1. proc[p] \in Slot /\ "UNUSED" \in State
    BY Typed DEF IInv, State
  <2> QED
    BY <2>1, SlotMoves, Zenon
<1>5. SameLives
  <2>1. x.state = proc[p].state /\ x.parent = proc[p].parent /\ proc[p].state = "RUNNING"
    BY <1>1, <1>4, OnFacts, Typed DEF IInv, Slot
  <2>2. /\ proc'[p] = x /\ \A q \in Proc \ {p} : proc'[q] = proc[q]
        /\ proc' \in [Proc -> Slot]
    BY <1>1, <1>4, Typed DEF IInv
  <2> QED
    BY <2>1, <2>2 DEF SameLives
<1>6. LockStep(c, p, t)
  <2>1. \A m \in Lock : ThreadHolds(p, thread[p], m) <=> m = p
    BY <1>1 DEF ThreadHolds, HoldsOwn, HoldsWait, HoldsTicks, Exiting
  <2>2. \A m \in Lock : ~ ThreadHolds(p, t, m)
    BY <1>3 DEF ThreadHolds, HoldsOwn, HoldsWait, HoldsTicks, Exiting
  <2> QED
    BY <1>1, <2>1, <2>2, LockSteps
<1>7. MayGoTo(p, t)
  BY <1>1, <1>3 DEF MayGoTo, Preemptible, Active, Exiting
<1>8. nextpid' \in Nat /\ shell' \in Nat
  BY <1>1, Typed DEF IInv
<1> QED
  BY <1>1, <1>3, <1>5, <1>6, <1>7, <1>8, ThreadStep, Zenon

-----------------------------------------------------------------------------
(* kkill                                                                   *)

LEMMA KillIInv ==
  ASSUME IInv, NEW c \in CPU, NEW p \in Proc, Kill(c, p)
  PROVE  IInv'
<1>0. PICK s : s = thread[p].i
  OBVIOUS
<1>1. /\ On(c, p) /\ thread[p].at = "kill_scan" /\ UNCHANGED <<cpu, lock, ticks, nextpid, shell>>
      /\ s \in 1..End /\ thread[p] \in Thread /\ proc[p].state = "RUNNING"
  <2>1. /\ On(c, p) /\ thread[p].at = "kill_scan"
        /\ UNCHANGED <<cpu, lock, ticks, nextpid, shell>>
    BY DEF Kill
  <2>2. thread[p] \in Thread
    BY Typed DEF IInv
  <2> QED
    BY <1>0, <2>1, <2>2, OnFacts DEF Thread
<1>2. CASE proc' = proc /\ Finish(p, "ret")
  BY <1>1, <1>2, FinishStep DEF Preemptible
<1>3. CASE s # End /\ proc' = proc /\ thread' = [thread EXCEPT ![p].i = s + 1]
  <2>1. s + 1 \in 1..End
    BY <1>1, <1>3
  <2>2. PICK t \in Thread : t = [thread[p] EXCEPT !.i = s + 1]
    BY <1>1, <2>1, LocalsMove, Zenon DEF Location
  <2>3. t.at = "kill_scan" /\ thread' = [thread EXCEPT ![p] = t]
    BY <1>1, <1>3, <2>2 DEF Thread
  <2> QED
    BY <1>1, <1>3, <2>3, FreeStep, Zenon DEF Preemptible
<1>4. CASE s # End /\ Free(s) /\ proc' = Killed(s) /\ Finish(p, "ret")
  <2>0. s \in Proc
    BY <1>1, <1>4
  <2>1. PICK st \in State :
          st = IF proc[s].state = "SLEEPING" THEN "RUNNABLE" ELSE proc[s].state
    BY <2>0, Typed, Zenon DEF IInv, Slot, State
  <2>2. PICK x \in Slot : x = [proc[s] EXCEPT !.killed = TRUE, !.state = st]
    BY <2>0, Typed, SlotMoves, Zenon DEF IInv
  <2>3. x.state = st /\ x.parent = proc[s].parent /\ x.chan = proc[s].chan
    BY <2>0, <2>2, Typed DEF IInv, Slot
  <2>4. proc' = [proc EXCEPT ![s] = x]
    BY <1>4, <2>0, <2>1, <2>2, Typed, Zenon DEF IInv, Killed, Slot
  <2>5. PICK t \in Thread : t = At("ret")
    BY LocalsType, Zenon DEF Location
  <2>6. t.at = "ret" /\ thread' = [thread EXCEPT ![p] = t]
    BY <1>4, <2>5, AtPlace DEF Finish
  <2>7. /\ thread'[p] = t /\ \A q \in Proc \ {p} : thread'[q] = thread[q]
        /\ thread' \in [Proc -> Thread]
    BY <2>6, Typed DEF IInv
  <2>8. /\ \A q \in Proc : proc'[q].parent = proc[q].parent
        /\ \A q \in Proc :
             \/ proc'[q].state = proc[q].state /\ proc'[q].chan = proc[q].chan
             \/ lock[q] = NoCPU /\ proc[q].state = "SLEEPING" /\ proc'[q].state = "RUNNABLE"
        /\ proc' \in [Proc -> Slot]
    BY <1>4, <2>0, <2>1, <2>3, <2>4, Typed DEF IInv
  <2>9. LockStep(c, p, t)
    BY <1>1, <2>6, LockSteps DEF ThreadHolds, HoldsOwn, HoldsWait, HoldsTicks, Exiting
  <2>10. TypeOK'
    BY <1>1, <2>7, <2>8, <2>9, Typed, Retyped DEF IInv, LockStep
  <2>11. CpuInv' /\ RunsOnce' /\ LocksInv'
    <3>1. \A q \in Proc :
            \/ proc'[q].state = proc[q].state
            \/ /\ lock[q] \in {NoCPU, c}
               /\ proc[q].state # "RUNNING" /\ proc'[q].state # "RUNNING"
      BY <2>8
    <3> QED
      BY <1>1, <2>7, <2>9, <3>1, CpusKept, Zenon
  <2>12. StateInv'
    BY <1>1, <2>6, <2>7, <2>8 DEF IInv, StateInv, Active, Preemptible, HoldsOwn
  <2>13. ForkInv'
    <3> SUFFICES ASSUME NEW q \in Proc, Forking(q)'
                 PROVE  /\ Forking(q) /\ thread'[q].np = thread[q].np
                        /\ proc'[thread[q].np].state = "USED"
                        /\ thread'[thread[q].np].at =
                             IF Place(q)' = "fork_build" THEN "none" ELSE "forkret"
                        /\ Place(q)' = "fork_ready" => proc'[thread[q].np].parent = q
      BY ForkKept
    <3>1. q # p
      BY <2>6, <2>7 DEF Forking, Place
    <3>2. Forking(q) /\ Place(q)' = Place(q) /\ thread'[q] = thread[q]
      BY <2>7, <3>1 DEF Forking, Place
    <3>3. thread[q].np \in Proc \ {p} /\ proc[thread[q].np].state = "USED"
      BY <1>1, <3>2 DEF IInv, ForkInv
    <3> QED
      BY <2>7, <2>8, <3>2, <3>3 DEF IInv, ForkInv
  <2>14. ParentInv' /\ WaitInv' /\ TickInv'
    <3>1. \A q \in Proc \ {p} : Quiet(q)
      BY <2>7, <2>8 DEF Quiet, IInv, ParentInv, Alive
    <3>2. Quiet(p)
      BY <1>1, <2>6, <2>7, <2>8 DEF Quiet, HoldsWait, HoldsTicks, Exiting, Alive
    <3> QED
      BY <1>1, <3>1, <3>2, QuietStep
  <2> QED
    BY <2>10, <2>11, <2>12, <2>13, <2>14 DEF IInv
<1> QED
  BY <1>0, <1>2, <1>3, <1>4 DEF Kill

-----------------------------------------------------------------------------
(* sys_pause                                                               *)

LEMMA PauseLockedIInv ==
  ASSUME IInv, NEW c \in CPU, NEW p \in Proc, PauseLocked(c, p)
  PROVE  IInv'
<1>1. /\ On(c, p) /\ thread[p].at \in {"pause_lock", "pause_relock"} /\ Acquire(c, TicksLock)
      /\ UNCHANGED <<proc, cpu, ticks, nextpid, shell>>
  BY DEF PauseLocked
<1>2. PICK k \in Nat : k = IF thread[p].at = "pause_lock" THEN ticks ELSE thread[p].arg
  BY Typed, Zenon DEF IInv, Thread
<1>3. PICK t \in Thread : t = [thread[p] EXCEPT !.at = "pause_check", !.arg = k]
  <2>1. thread[p] \in Thread /\ 1 \in 1..End
    BY Typed DEF IInv
  <2> QED
    BY <2>1, LocalsMove, Zenon DEF Location
<1>4. t.at = "pause_check" /\ thread' = [thread EXCEPT ![p] = t]
  <2>1. thread[p] \in Thread /\ thread \in [Proc -> Thread]
    BY Typed DEF IInv
  <2> QED
    BY <1>2, <1>3, <2>1, Zenon DEF Thread, PauseLocked
<1>5. LockStep(c, p, t)
  <2>1. \A m \in Lock : ~ ThreadHolds(p, thread[p], m)
    BY <1>1 DEF ThreadHolds, HoldsOwn, HoldsWait, HoldsTicks, Exiting
  <2>2. \A m \in Lock : ThreadHolds(p, t, m) <=> m = TicksLock
    BY <1>4 DEF ThreadHolds, HoldsOwn, HoldsWait, HoldsTicks, Exiting
  <2> QED
    BY <1>1, <2>1, <2>2, LockSteps
<1>6. MayGoTo(p, t)
  BY <1>1, <1>4 DEF MayGoTo, Active, HoldsTicks, Exiting
<1>7. nextpid' \in Nat /\ shell' \in Nat
  BY <1>1, Typed DEF IInv
<1> QED
  BY <1>1, <1>4, <1>5, <1>6, <1>7, SameStaysSame, ThreadStep, Zenon

LEMMA PauseCheckIInv ==
  ASSUME IInv, NEW c \in CPU, NEW p \in Proc, PauseCheck(c, p)
  PROVE  IInv'
<1>1. /\ On(c, p) /\ thread[p].at = "pause_check"
      /\ UNCHANGED <<proc, cpu, ticks, nextpid, shell>>
      /\ nextpid' \in Nat /\ shell' \in Nat
  BY Typed DEF PauseCheck, IInv
<1>2. \A m \in Lock : ThreadHolds(p, thread[p], m) <=> m = TicksLock
  BY <1>1 DEF ThreadHolds, HoldsOwn, HoldsWait, HoldsTicks, Exiting
<1>3. CASE Finish(p, "ret") /\ Release(TicksLock)
  <2>1. PICK t \in Thread : t = At("ret")
    BY LocalsType, Zenon DEF Location
  <2>2. t.at = "ret" /\ thread' = [thread EXCEPT ![p] = t]
    BY <1>3, <2>1, AtPlace DEF Finish
  <2>3. LockStep(c, p, t)
    <3>1. \A m \in Lock : ~ ThreadHolds(p, t, m)
      BY <2>2 DEF ThreadHolds, HoldsOwn, HoldsWait, HoldsTicks, Exiting
    <3> QED
      BY <1>1, <1>2, <1>3, <3>1, LockSteps
  <2>4. MayGoTo(p, t)
    BY <1>1, <2>2 DEF MayGoTo, Preemptible, Active, Exiting
  <2> QED
    BY <1>1, <2>2, <2>3, <2>4, SameStaysSame, ThreadStep, Zenon
<1>4. CASE Elapsed(p) < PauseTicks /\ Goto(p, "pause_sleep") /\ UNCHANGED lock
  <2>1. PICK t \in Thread : t = [thread[p] EXCEPT !.at = "pause_sleep"]
    <3>1. thread[p] \in Thread /\ "pause_sleep" \in Location
      BY Typed DEF IInv, Location
    <3> QED
      BY <3>1, LocalsAt, Zenon
  <2>2. t.at = "pause_sleep" /\ t.arg = thread[p].arg /\ thread' = [thread EXCEPT ![p] = t]
    <3>1. thread[p] \in Thread /\ thread \in [Proc -> Thread]
      BY Typed DEF IInv
    <3> QED
      BY <1>4, <2>1, <3>1 DEF Thread, Goto
  <2>3. LockStep(c, p, t)
    <3>1. \A m \in Lock : ThreadHolds(p, t, m) <=> m = TicksLock
      BY <2>2 DEF ThreadHolds, HoldsOwn, HoldsWait, HoldsTicks, Exiting
    <3> QED
      BY <1>1, <1>2, <1>4, <3>1, LockSteps
  <2>4. MayGoTo(p, t)
    BY <1>1, <1>4, <2>2 DEF MayGoTo, Active, HoldsTicks, Exiting, Elapsed
  <2> QED
    BY <1>1, <1>4, <2>2, <2>3, <2>4, SameStaysSame, ThreadStep, Zenon
<1> QED
  BY <1>3, <1>4 DEF PauseCheck

-----------------------------------------------------------------------------
(* clockintr                                                               *)

(* A CPU that holds no lock and runs a process runs it where it may yield. *)
LEMMA HoldsNothing ==
  ASSUME IInv, NEW c \in CPU, Interruptible(c)
  PROVE  /\ \A l \in Lock : ~ Holds(c, l)
         /\ cpu[c].at = "switched" => thread[cpu[c].proc].at \in Preemptible
<1>1. \A l \in Lock : ~ Holds(c, l)
  BY DEF IInv, LocksInv, Interruptible, Held
<1>2. ASSUME cpu[c].at = "switched"
      PROVE  thread[cpu[c].proc].at \in Preemptible
  <2>1. PICK p \in Proc : p = cpu[c].proc
    BY <1>2, Typed DEF IInv, CpuInv, Core
  <2>2. thread[p].at \in Active
    BY <1>2, <2>1 DEF IInv, RunsOnce, StateInv
  <2>3. \A l \in Lock : ~ ThreadHolds(p, thread[p], l)
    BY <1>1, <1>2, <2>1 DEF Holds
  <2>4. thread[p].at # "fork_build"
    <3>1. thread[p].at = "fork_build" => thread[p].np \in Proc
      BY DEF IInv, ForkInv, Forking, Place
    <3> QED
      BY <2>3, <3>1 DEF ThreadHolds
  <2>5. thread[p].at \notin HoldsOwn \union HoldsWait \union HoldsTicks
    BY <2>3 DEF ThreadHolds
  <2> QED
    BY <2>1, <2>2, <2>4, <2>5 DEF Active
<1> QED
  BY <1>1, <1>2

(* A step that leaves every process and thread alone.                      *)
LEMMA LivesKept ==
  ASSUME IInv, UNCHANGED <<proc, thread>>
  PROVE  StateInv' /\ ForkInv' /\ ParentInv' /\ WaitInv'
<1>1. StateInv'
  BY DEF IInv, StateInv
<1>2. ForkInv'
  BY DEF IInv, ForkInv, Forking, Place
<1>3. ParentInv' /\ WaitInv'
  BY DEF IInv, ParentInv, WaitInv, SleepsInWait
<1> QED
  BY <1>1, <1>2, <1>3

LEMMA ClockBeginIInv ==
  ASSUME IInv, NEW c \in CPU, ClockBegin(c)
  PROVE  IInv'
<1>1. /\ Interruptible(c) /\ lock[TicksLock] = NoCPU
      /\ lock' = [lock EXCEPT ![TicksLock] = c]
      /\ ticks' = (ticks + 1) % TickWidth
      /\ UNCHANGED <<proc, thread, nextpid, shell>>
  BY DEF ClockBegin, Acquire
<1>2. PICK k \in Core : k = [cpu[c] EXCEPT !.irq = 1]
  <2>1. cpu[c] \in Core /\ 1 \in 0..NPROC + 2
    BY Typed DEF IInv
  <2> QED
    BY <2>1, CoreMoves, Zenon
<1>3. /\ k.irq = 1 /\ k.at = cpu[c].at /\ k.i = cpu[c].i /\ k.proc = cpu[c].proc
      /\ k.selected = cpu[c].selected
  BY <1>2, Typed DEF IInv, Core
<1>4. /\ cpu'[c] = k /\ \A d \in CPU \ {c} : cpu'[d] = cpu[d]
      /\ cpu' \in [CPU -> Core]
  BY <1>2, Typed DEF IInv, ClockBegin
<1>5. /\ lock' \in [Lock -> CPU \union {NoCPU}]
      /\ \A l \in Lock, d \in CPU : lock'[l] = d <=> lock[l] = d \/ (l = TicksLock /\ d = c)
  <2>1. lock \in [Lock -> CPU \union {NoCPU}] /\ TicksLock \in Lock
    BY Typed DEF IInv
  <2> QED
    BY <1>1, <2>1
<1>6. TypeOK'
  <2>1. ticks' \in Nat
    <3>1. ticks \in Nat
      BY Typed DEF IInv
    <3> QED
      BY <1>1, <3>1
  <2> QED
    BY <1>1, <1>4, <1>5, <2>1, Typed, Retyped DEF IInv
<1>7. CpuInv'
  <2> SUFFICES ASSUME NEW d \in CPU
               PROVE  /\ cpu'[d].at = cpu[d].at /\ cpu'[d].i = cpu[d].i
                      /\ cpu'[d].proc = cpu[d].proc /\ cpu'[d].selected = cpu[d].selected
                      /\ cpu'[d].irq # 0 =>
                           /\ cpu[d].at \in {"loop", "switched"}
                           /\ cpu[d].at = "switched" => thread[cpu[d].proc].at \in Preemptible
    BY <1>1 DEF IInv, CpuInv
  <2>1. CASE d = c
    BY <1>1, <1>3, <1>4, <2>1, HoldsNothing DEF Interruptible
  <2>2. CASE d # c
    BY <1>4, <2>2 DEF IInv, CpuInv
  <2> QED
    BY <2>1, <2>2
<1>8. \A d \in CPU : cpu'[d].at = cpu[d].at /\ cpu'[d].proc = cpu[d].proc
                     /\ cpu'[d].selected = cpu[d].selected
  BY <1>3, <1>4
<1>9. RunsOnce'
  BY <1>1, <1>8 DEF IInv, RunsOnce
<1>10. LocksInv'
  <2> SUFFICES ASSUME NEW d \in CPU, NEW l \in Lock
               PROVE  lock'[l] = d <=> Holds(d, l)'
    BY DEF LocksInv
  <2>1. CASE d = c
    <3>1. lock[l] # c /\ ~ Holds(c, l) /\ 1 \in 1..End
      BY <1>1, HoldsNothing DEF Interruptible, Held
    <3>2. Holds(c, l)' <=> l = TicksLock
      BY <1>1, <1>3, <1>4, <1>8, <3>1 DEF Holds, ThreadHolds
    <3> QED
      BY <1>5, <2>1, <3>1, <3>2
  <2>2. CASE d # c
    <3>1. Holds(d, l)' <=> Holds(d, l)
      BY <1>1, <1>4, <2>2 DEF Holds, ThreadHolds
    <3> QED
      BY <1>5, <2>2, <3>1 DEF IInv, LocksInv
  <2> QED
    BY <2>1, <2>2
<1>11. TickInv'
  <2>1. \A q \in Proc : thread[q].at \notin HoldsTicks
    BY <1>1, TicksLockHolder
  <2>2. \A q \in Proc : cpu'[c].irq \in 1..q
    BY <1>3, <1>4
  <2> QED
    BY <1>1, <2>1, <2>2 DEF TickInv, HoldsTicks
<1> QED
  BY <1>1, <1>6, <1>7, <1>9, <1>10, <1>11, LivesKept DEF IInv

LEMMA ClockWakeIInv ==
  ASSUME IInv, NEW c \in CPU, ClockWake(c)
  PROVE  IInv'
<1>0. PICK s : s = cpu[c].irq
  OBVIOUS
<1>1. /\ s \in Proc /\ UNCHANGED <<thread, lock, ticks, nextpid, shell>>
      /\ \/ s # cpu[c].proc /\ Free(s) /\ proc' = Wake(s, TicksLock)
         \/ s = cpu[c].proc /\ proc' = proc
  BY <1>0 DEF ClockWake
<1>2. PICK k \in Core : k = [cpu[c] EXCEPT !.irq = s + 1]
  <2>1. cpu[c] \in Core
    BY Typed DEF IInv
  <2>2. s + 1 \in 0..NPROC + 2
    BY <1>1
  <2> QED
    BY <2>1, <2>2, CoreMoves, Zenon
<1>3. /\ k.irq = s + 1 /\ k.at = cpu[c].at /\ k.i = cpu[c].i /\ k.proc = cpu[c].proc
      /\ k.selected = cpu[c].selected
  BY <1>2, Typed DEF IInv, Core
<1>4. /\ cpu'[c] = k /\ \A d \in CPU \ {c} : cpu'[d] = cpu[d]
      /\ cpu' \in [CPU -> Core]
  BY <1>0, <1>2, Typed DEF IInv, ClockWake
<1>5. \A d \in CPU : /\ cpu'[d].at = cpu[d].at /\ cpu'[d].i = cpu[d].i
                     /\ cpu'[d].proc = cpu[d].proc /\ cpu'[d].selected = cpu[d].selected
                     /\ cpu'[d].irq # 0 => cpu[d].irq # 0
                     /\ cpu'[d].irq \in 1..End <=> cpu[d].irq \in 1..End
  <2>1. s # 0 /\ s + 1 \in 1..End /\ s \in 1..End
    BY <1>1
  <2> QED
    BY <1>0, <1>3, <1>4, <2>1
<1>6. /\ proc' \in [Proc -> Slot]
      /\ \A q \in Proc : proc'[q].parent = proc[q].parent /\ proc'[q].chan = proc[q].chan
      /\ \A q \in Proc :
           \/ proc'[q].state = proc[q].state
           \/ lock[q] = NoCPU /\ proc[q].state = "SLEEPING" /\ proc'[q].state = "RUNNABLE"
      /\ \/ s = cpu[c].proc
         \/ ~ (proc'[s].state = "SLEEPING" /\ proc'[s].chan = TicksLock)
  <2>1. proc \in [Proc -> Slot] /\ proc[s] \in Slot
    BY <1>1, Typed DEF IInv
  <2>2. CASE s # cpu[c].proc /\ proc[s].state = "SLEEPING" /\ proc[s].chan = TicksLock
    <3>1. PICK x \in Slot : x = [proc[s] EXCEPT !.state = "RUNNABLE"]
      BY <1>1, <2>1, SlotMoves, Zenon DEF State
    <3>2. x.state = "RUNNABLE" /\ x.parent = proc[s].parent /\ x.chan = proc[s].chan
      BY <2>1, <3>1 DEF Slot
    <3>3. proc' = [proc EXCEPT ![s] = x]
      BY <1>1, <2>1, <2>2, <3>1 DEF Wake
    <3> QED
      BY <1>1, <2>1, <2>2, <3>2, <3>3
  <2>3. CASE ~ (s # cpu[c].proc /\ proc[s].state = "SLEEPING" /\ proc[s].chan = TicksLock)
    <3>1. proc' = proc
      BY <1>1, <2>3 DEF Wake
    <3> QED
      BY <2>1, <2>3, <3>1
  <2> QED
    BY <2>2, <2>3
<1>7. TypeOK'
  BY <1>1, <1>4, <1>6, Typed, Retyped DEF IInv
<1>8. RunsOnce'
  <2>1. \A q \in Proc : proc'[q].state = "RUNNING" <=> proc[q].state = "RUNNING"
    BY <1>6
  <2> QED
    BY <1>5, <2>1 DEF IInv, RunsOnce
<1>9. CpuInv'
  <2> SUFFICES ASSUME NEW d \in CPU
               PROVE  /\ cpu[d].at = "scan" /\ cpu[d].selected # None =>
                           proc'[cpu[d].selected].state = "RUNNABLE"
                      /\ cpu[d].at = "back" =>
                           proc'[cpu[d].proc].state \notin {"UNUSED", "USED", "RUNNING"}
    BY <1>1, <1>5 DEF IInv, CpuInv
  <2>1. cpu[d].selected \in Proc \union {None} /\ cpu[d].proc \in Proc \union {None}
    BY Typed, Zenon DEF IInv, Core
  <2> QED
    BY <1>6, <2>1 DEF IInv, CpuInv
<1>10. StateInv'
  BY <1>1, <1>6 DEF IInv, StateInv, HoldsOwn
<1>11. LocksInv'
  <2>1. \A d \in CPU, l \in Lock : Holds(d, l)' <=> Holds(d, l)
    BY <1>1, <1>5 DEF Holds, ThreadHolds
  <2> QED
    BY <1>1, <2>1 DEF IInv, LocksInv
<1>12. ForkInv'
  <2> SUFFICES ASSUME NEW q \in Proc, Forking(q)'
               PROVE  /\ Forking(q) /\ thread'[q].np = thread[q].np
                      /\ proc'[thread[q].np].state = "USED"
                      /\ thread'[thread[q].np].at =
                           IF Place(q)' = "fork_build" THEN "none" ELSE "forkret"
                      /\ Place(q)' = "fork_ready" => proc'[thread[q].np].parent = q
    BY ForkKept
  <2>1. Forking(q) /\ Place(q)' = Place(q)
    BY <1>1 DEF Forking, Place
  <2> QED
    BY <1>1, <1>6, <2>1 DEF IInv, ForkInv
<1>13. ParentInv' /\ WaitInv'
  <2>1. \A q \in Proc : Quiet(q)
    BY <1>1, <1>6 DEF Quiet, Alive, IInv, ParentInv
  <2> QED
    BY <2>1, QuietStep
<1>14. TickInv'
  <2> SUFFICES ASSUME NEW q \in Proc
               PROVE  /\ thread'[q].at = "pause_sleep" => Elapsed(q)' < PauseTicks
                      /\ proc'[q].state = "SLEEPING" /\ proc'[q].chan = TicksLock =>
                           Elapsed(q)' < PauseTicks \/ \E d \in CPU : cpu'[d].irq \in 1..q
    BY DEF TickInv
  <2>1. Elapsed(q)' = Elapsed(q)
    BY <1>1 DEF Elapsed
  <2>2. ASSUME proc'[q].state = "SLEEPING", proc'[q].chan = TicksLock, ~ Elapsed(q) < PauseTicks
        PROVE  \E d \in CPU : cpu'[d].irq \in 1..q
    <3>1. proc[q].state = "SLEEPING"
      BY <1>6, <2>2
    <3>2. PICK d \in CPU : cpu[d].irq \in 1..q
      BY <1>6, <2>2, <3>1 DEF IInv, TickInv
    <3>3. s # q
      <4>1. s = q => s = cpu[c].proc
        BY <1>6, <2>2
      <4>2. s # 0 => cpu[c].at \in {"loop", "switched"}
        BY <1>0 DEF IInv, CpuInv
      <4>3. s = cpu[c].proc => cpu[c].at = "switched"
        BY <1>1, <4>2 DEF IInv, CpuInv
      <4>4. s = cpu[c].proc => proc[s].state = "RUNNING"
        BY <1>1, <4>3 DEF IInv, RunsOnce
      <4> QED
        BY <3>1, <4>1, <4>4
    <3>4. CASE d = c
      <4>1. s + 1 \in 1..q
        BY <1>0, <1>1, <3>2, <3>3, <3>4
      <4> QED
        BY <1>3, <1>4, <4>1
    <3>5. CASE d # c
      BY <1>4, <3>2, <3>5
    <3> QED
      BY <3>4, <3>5
  <2> QED
    BY <1>1, <2>1, <2>2 DEF IInv, TickInv
<1> QED
  BY <1>7, <1>8, <1>9, <1>10, <1>11, <1>12, <1>13, <1>14 DEF IInv

-----------------------------------------------------------------------------
(* Steps of any scheduler                                                  *)

(* CPU c moves in its scheduler or ends an interrupt; a user program it    *)
(* interrupted may go on in the kernel.                                    *)
LEMMA CoreStep ==
  ASSUME IInv, NEW c \in CPU, UNCHANGED <<proc, ticks, nextpid, shell>>,
         cpu'[c] \in Core, cpu' = [cpu EXCEPT ![c] = cpu'[c]],
         thread' \in [Proc -> Thread],
         \A q \in Proc : \/ thread'[q] = thread[q]
                         \/ thread[q].at = "user" /\ thread'[q].at \in {"ret", "exit"},
         lock' \in [Lock -> CPU \union {NoCPU}],
         \A l \in Lock : /\ lock'[l] = c <=> Holds(c, l)'
                         /\ \A d \in CPU \ {c} : lock'[l] = d <=> lock[l] = d,
         cpu'[c].at = "switched" <=> cpu[c].at = "switched",
         cpu[c].irq \notin Proc, cpu'[c].irq \notin Proc,
         cpu'[c].irq # 0 => cpu'[c].at \in {"loop", "switched"},
         cpu'[c].irq # 0 /\ cpu'[c].at = "switched" =>
           thread[cpu[c].proc].at \in Preemptible,
         cpu'[c].at # "back",
         cpu'[c].at \in {"loop", "scan"} => cpu'[c].proc = None,
         cpu'[c].at = "switched" =>
           cpu'[c].proc = cpu[c].proc /\ cpu'[c].selected = cpu[c].selected,
         cpu'[c].at = "loop" => cpu'[c].selected = None,
         cpu'[c].at = "scan" /\ cpu'[c].selected # None =>
           /\ cpu'[c].selected < cpu'[c].i
           /\ proc[cpu'[c].selected].state = "RUNNABLE"
  PROVE  IInv'
<1>1. /\ \A d \in CPU \ {c} : cpu'[d] = cpu[d]
      /\ cpu' \in [CPU -> Core]
  BY Typed, Zenon DEF IInv
<1>2. TypeOK'
  BY <1>1, Typed, Retyped DEF IInv
<1>3. /\ \A d \in CPU : cpu'[d].at = "switched" <=> cpu[d].at = "switched"
      /\ \A d \in CPU : cpu[d].at = "switched" => cpu'[d].proc = cpu[d].proc
      /\ \A d \in CPU : cpu'[d].proc = cpu[d].proc \/ cpu'[d].proc = None
  <2>1. cpu'[c].proc = cpu[c].proc \/ cpu'[c].proc = None
    <3>1. cpu'[c].at \in {"loop", "scan", "switched", "back"}
      BY DEF Core
    <3> QED
      BY <3>1
  <2> QED
    BY <1>1, <2>1
<1>4. RunsOnce'
  <2>1. \A d, e \in CPU : cpu'[d].proc # None /\ cpu'[d].proc = cpu'[e].proc => d = e
    BY <1>3 DEF IInv, RunsOnce
  <2>2. \A q \in Proc : (\E d \in CPU : cpu'[d].proc = q /\ cpu'[d].at = "switched") <=>
                        (\E d \in CPU : cpu[d].proc = q /\ cpu[d].at = "switched")
    BY <1>3
  <2> QED
    BY <2>1, <2>2 DEF IInv, RunsOnce
<1>5. CpuInv'
  <2>1. \A q \in Proc : thread[q].at \in Preemptible => thread'[q].at \in Preemptible
    BY DEF Preemptible
  <2>2. \A d \in CPU : cpu[d].at = "switched" => cpu[d].proc \in Proc /\ cpu[d].selected = cpu[d].proc
    BY Typed DEF IInv, CpuInv, Core
  <2>3. ASSUME NEW d \in CPU, d # c
        PROVE  cpu[d].irq # 0 /\ cpu[d].at = "switched" => thread'[cpu[d].proc].at \in Preemptible
    BY <2>1, <2>2 DEF IInv, CpuInv
  <2>4. cpu'[c].irq # 0 /\ cpu'[c].at = "switched" => thread'[cpu'[c].proc].at \in Preemptible
    BY <2>1, <2>2
  <2>5. cpu'[c].at = "switched" => cpu'[c].proc # None /\ cpu'[c].selected = cpu'[c].proc
    BY <2>2
  <2> SUFFICES ASSUME NEW d \in CPU
               PROVE  /\ cpu'[d].at \in {"loop", "scan"} => cpu'[d].proc = None
                      /\ cpu'[d].at \in {"switched", "back"} =>
                           cpu'[d].proc # None /\ cpu'[d].selected = cpu'[d].proc
                      /\ cpu'[d].at = "loop" => cpu'[d].selected = None
                      /\ cpu'[d].at = "scan" /\ cpu'[d].selected # None =>
                           /\ cpu'[d].selected < cpu'[d].i
                           /\ proc[cpu'[d].selected].state = "RUNNABLE"
                      /\ cpu'[d].at = "back" =>
                           proc[cpu'[d].proc].state \notin {"UNUSED", "USED", "RUNNING"}
                      /\ cpu'[d].irq # 0 =>
                           /\ cpu'[d].at \in {"loop", "switched"}
                           /\ cpu'[d].at = "switched" => thread'[cpu'[d].proc].at \in Preemptible
    BY DEF CpuInv
  <2>6. CASE d = c
    BY <2>4, <2>5, <2>6
  <2>7. CASE d # c
    BY <1>1, <2>3, <2>7 DEF IInv, CpuInv
  <2> QED
    BY <2>6, <2>7
<1>6. LocksInv'
  <2> SUFFICES ASSUME NEW d \in CPU, NEW l \in Lock, d # c
               PROVE  lock'[l] = d <=> Holds(d, l)'
    BY DEF LocksInv
  <2>1. cpu[d].at = "switched" => cpu[d].proc \in Proc
    BY Typed DEF IInv, CpuInv, Core
  <2>2. \A q \in Proc : ThreadHolds(q, thread'[q], l) <=> ThreadHolds(q, thread[q], l)
    BY Zenon DEF ThreadHolds, HoldsOwn, HoldsWait, HoldsTicks, Exiting
  <2>3. Holds(d, l)' <=> Holds(d, l)
    <3>1. cpu'[d] = cpu[d]
      BY <1>1
    <3>2. cpu[d].at = "switched" =>
            (ThreadHolds(cpu[d].proc, thread'[cpu[d].proc], l) <=>
             ThreadHolds(cpu[d].proc, thread[cpu[d].proc], l))
      BY <2>1, <2>2
    <3> QED
      BY <3>1, <3>2 DEF Holds
  <2> QED
    BY <2>3 DEF IInv, LocksInv
<1>7. StateInv'
  BY DEF IInv, StateInv, HoldsOwn, Active, Preemptible
<1>8. ForkInv'
  <2> SUFFICES ASSUME NEW q \in Proc, Forking(q)'
               PROVE  /\ Forking(q) /\ thread'[q].np = thread[q].np
                      /\ proc'[thread[q].np].state = "USED"
                      /\ thread'[thread[q].np].at =
                           IF Place(q)' = "fork_build" THEN "none" ELSE "forkret"
                      /\ Place(q)' = "fork_ready" => proc'[thread[q].np].parent = q
    BY ForkKept
  <2>1. Forking(q) /\ Place(q)' = Place(q) /\ thread'[q] = thread[q]
    BY DEF Forking, Place
  <2>2. thread[q].np \in Proc /\ thread[thread[q].np].at # "user"
    BY <2>1 DEF IInv, ForkInv
  <2>3. thread'[thread[q].np] = thread[thread[q].np]
    BY <2>2
  <2> QED
    BY <2>1, <2>2, <2>3 DEF IInv, ForkInv
<1>9. ParentInv' /\ WaitInv'
  <2>1. \A q \in Proc : thread[q].at = "user" => proc[q].state # "SLEEPING"
    BY DEF IInv, StateInv
  <2>2. \A q \in Proc : Quiet(q)
    BY <2>1 DEF Quiet, IInv, ParentInv, HoldsWait, HoldsTicks, Exiting
  <2> QED
    BY <2>2, QuietStep
<1>10. TickInv'
  <2> SUFFICES ASSUME NEW q \in Proc
               PROVE  /\ thread'[q].at = "pause_sleep" => Elapsed(q)' < PauseTicks
                      /\ proc'[q].state = "SLEEPING" /\ proc'[q].chan = TicksLock =>
                           Elapsed(q)' < PauseTicks \/ \E d \in CPU : cpu'[d].irq \in 1..q
    BY DEF TickInv
  <2>1. \A d \in CPU : cpu[d].irq \in 1..q => cpu'[d].irq = cpu[d].irq
    <3>1. 1..q \subseteq Proc
      OBVIOUS
    <3> QED
      BY <1>1, <3>1
  <2>2. thread'[q].at = "pause_sleep" \/ proc[q].state = "SLEEPING" => thread'[q] = thread[q]
    BY Zenon DEF IInv, StateInv
  <2>3. thread'[q] = thread[q] => Elapsed(q)' = Elapsed(q)
    BY DEF Elapsed
  <2> QED
    BY <2>1, <2>2, <2>3 DEF IInv, TickInv
<1> QED
  BY <1>2, <1>4, <1>5, <1>6, <1>7, <1>8, <1>9, <1>10 DEF IInv

(* The scheduler of c switches to p.                                       *)
LEMMA SwitchOn ==
  ASSUME IInv, NEW c \in CPU, NEW p \in Proc, UNCHANGED <<thread, ticks, nextpid, shell>>,
         cpu[c].at = "scan", proc[p].state = "RUNNABLE",
         cpu'[c] \in Core, cpu' = [cpu EXCEPT ![c] = cpu'[c]],
         cpu'[c].at = "switched", cpu'[c].irq = cpu[c].irq,
         cpu'[c].proc = p, cpu'[c].selected = p,
         proc' = [proc EXCEPT ![p].state = "RUNNING"],
         lock' \in [Lock -> CPU \union {NoCPU}],
         \A l \in Lock : /\ lock'[l] = c <=> l = p
                         /\ \A d \in CPU \ {c} : lock'[l] = d <=> lock[l] = d
  PROVE  IInv'
<1>1. /\ \A d \in CPU \ {c} : cpu'[d] = cpu[d]
      /\ cpu' \in [CPU -> Core] /\ cpu[c].irq = 0
      /\ \A d \in CPU : cpu'[d].irq = cpu[d].irq
  <2>1. cpu \in [CPU -> Core]
    BY Typed DEF IInv
  <2>2. cpu' \in [CPU -> Core] /\ \A d \in CPU \ {c} : cpu'[d] = cpu[d]
    BY <2>1
  <2>3. cpu[c].irq = 0
    BY DEF IInv, CpuInv
  <2> QED
    BY <2>2, <2>3
<1>2. PICK x \in Slot : x = [proc[p] EXCEPT !.state = "RUNNING"]
  <2>1. proc[p] \in Slot /\ "RUNNING" \in State /\ 0 \in Nat
    BY Typed DEF IInv, State
  <2> QED
    BY <2>1, SlotMoves, Zenon
<1>3. x.state = "RUNNING" /\ x.parent = proc[p].parent /\ x.chan = proc[p].chan
  BY <1>2, Typed DEF IInv, Slot
<1>4. /\ proc'[p] = x /\ \A q \in Proc \ {p} : proc'[q] = proc[q]
      /\ proc' \in [Proc -> Slot]
  BY <1>2, Typed DEF IInv
<1>5. TypeOK'
  BY <1>1, <1>4, Typed, Retyped, Zenon DEF IInv
<1>6. \A d \in CPU \ {c} : cpu[d].proc # p /\ (cpu[d].at \in {"scan", "back"} => cpu[d].selected # p)
  <2> SUFFICES ASSUME NEW d \in CPU \ {c}
               PROVE  cpu[d].proc # p /\ (cpu[d].at \in {"scan", "back"} => cpu[d].selected # p)
    OBVIOUS
  <2>1. lock[p] # d
    OBVIOUS
  <2>2. cpu[d].at \in {"scan", "back"} => cpu[d].selected # p
    BY <2>1 DEF IInv, LocksInv, Holds
  <2>3. cpu[d].at \in {"loop", "scan", "switched", "back"}
    BY Typed DEF IInv, Core
  <2>4. cpu[d].proc # p
    BY <2>2, <2>3 DEF IInv, CpuInv, RunsOnce
  <2> QED
    BY <2>2, <2>4
<1>7. RunsOnce'
  <2>1. \A d, e \in CPU : cpu'[d].proc # None /\ cpu'[d].proc = cpu'[e].proc => d = e
    BY <1>1, <1>6 DEF IInv, RunsOnce
  <2>2. ASSUME NEW q \in Proc
        PROVE  proc'[q].state = "RUNNING" <=>
                 \E d \in CPU : cpu'[d].proc = q /\ cpu'[d].at = "switched"
    <3>1. CASE q = p
      BY <1>3, <1>4, <3>1
    <3>2. CASE q # p
      <4>1. \A d \in CPU : cpu'[d].proc = q /\ cpu'[d].at = "switched" <=>
                             cpu[d].proc = q /\ cpu[d].at = "switched"
        BY <1>1, <3>2
      <4> QED
        BY <1>4, <3>2, <4>1 DEF IInv, RunsOnce
    <3> QED
      BY <3>1, <3>2
  <2> QED
    BY <2>1, <2>2 DEF RunsOnce
<1>8. CpuInv'
  <2>0. \A d \in CPU : cpu[d] \in Core
    BY Typed DEF IInv
  <2>1. \A d \in CPU : cpu[d].proc \in Proc \union {None} /\ cpu[d].selected \in Proc \union {None}
    BY <2>0 DEF Core
  <2> SUFFICES ASSUME NEW d \in CPU \ {c}
               PROVE  /\ cpu[d].at = "scan" /\ cpu[d].selected # None =>
                           proc'[cpu[d].selected].state = "RUNNABLE"
                      /\ cpu[d].at = "back" =>
                           proc'[cpu[d].proc].state \notin {"UNUSED", "USED", "RUNNING"}
    BY <1>1 DEF IInv, CpuInv
  <2> QED
    BY <1>4, <1>6, <2>1 DEF IInv, CpuInv
<1>9. thread[p].at \in HoldsOwn
  BY DEF IInv, StateInv
<1>10. StateInv'
  BY <1>3, <1>4, <1>9 DEF IInv, StateInv, Active
<1>11. LocksInv'
  <2> SUFFICES ASSUME NEW d \in CPU, NEW l \in Lock
               PROVE  lock'[l] = d <=> Holds(d, l)'
    BY DEF LocksInv
  <2>1. CASE d = c
    <3>1. ThreadHolds(p, thread[p], l) <=> l = p
      BY <1>9 DEF ThreadHolds, HoldsOwn, HoldsWait, HoldsTicks, Exiting
    <3> QED
      BY <1>1, <2>1, <3>1 DEF Holds
  <2>2. CASE d # c
    <3>1. Holds(d, l)' <=> Holds(d, l)
      BY <1>1, <2>2 DEF Holds, ThreadHolds
    <3> QED
      BY <2>2, <3>1 DEF IInv, LocksInv
  <2> QED
    BY <2>1, <2>2
<1>12. ForkInv'
  <2> SUFFICES ASSUME NEW q \in Proc, Forking(q)'
               PROVE  /\ Forking(q) /\ thread'[q].np = thread[q].np
                      /\ proc'[thread[q].np].state = "USED"
                      /\ thread'[thread[q].np].at =
                           IF Place(q)' = "fork_build" THEN "none" ELSE "forkret"
                      /\ Place(q)' = "fork_ready" => proc'[thread[q].np].parent = q
    BY ForkKept
  <2>1. Forking(q) /\ Place(q)' = Place(q)
    BY DEF Forking, Place
  <2>2. thread[q].np \in Proc \ {p}
    BY <2>1 DEF IInv, ForkInv
  <2> QED
    BY <1>4, <2>1, <2>2 DEF IInv, ForkInv
<1>13. ParentInv' /\ WaitInv'
  <2>1. \A q \in Proc : Quiet(q)
    BY <1>3, <1>4 DEF Quiet, Alive, IInv, ParentInv
  <2> QED
    BY <2>1, QuietStep
<1>14. TickInv'
  <2>1. \A q \in Proc : proc'[q].state = "SLEEPING" => proc'[q] = proc[q]
    BY <1>3, <1>4
  <2>2. \A q \in Proc : Elapsed(q)' = Elapsed(q)
    BY DEF Elapsed
  <2> QED
    BY <1>1, <2>1, <2>2 DEF IInv, TickInv
<1> QED
  BY <1>5, <1>7, <1>8, <1>10, <1>11, <1>12, <1>13, <1>14 DEF IInv

-----------------------------------------------------------------------------
(* Together                                                                *)

LEMMA ProcStepIInv ==
  ASSUME IInv, NEW c \in CPU, NEW p \in Proc, ProcStep(c, p)
  PROVE  IInv'
<1>1. CASE Usertrap(c, p)
  BY <1>1, UserTrapIInv, UserFaultIInv, UserInterruptIInv DEF Usertrap
<1>2. CASE Kfork(c, p)
  BY <1>2, ForkScanIInv, ForkBuildIInv, ForkLinkIInv, ForkReadyIInv DEF Kfork
<1>3. CASE Kexit(c, p)
  BY <1>3, ExitBeginIInv, ExitReparentIInv, ExitWakeIInv, ExitZombieIInv DEF Kexit
<1>4. CASE Kwait(c, p)
  BY <1>4, WaitLockedIInv, WaitScanIInv, WaitCheckIInv, WaitSleepIInv DEF Kwait
<1>5. CASE SysPause(c, p)
  BY <1>5, PauseLockedIInv, PauseCheckIInv, PauseSleepIInv DEF SysPause
<1>6. CASE Kill(c, p) \/ Woken(c, p) \/ Forkret(c, p) \/ UserReturn(c, p)
  BY <1>6, KillIInv, WokenIInv, ForkretIInv, UserReturnIInv
<1> QED
  BY <1>1, <1>2, <1>3, <1>4, <1>5, <1>6 DEF ProcStep, KernelStep

(* A step of p: its CPU goes on with it, or turns to the scheduler.        *)
LEMMA ProcStepCpu ==
  ASSUME NEW c \in CPU, NEW p \in Proc, ProcStep(c, p)
  PROVE  On(c, p) /\ (UNCHANGED cpu \/ Sched(c))
<1>1. CASE Usertrap(c, p)
  BY <1>1 DEF Usertrap, UserTrap, UserFault, UserInterrupt
<1>2. CASE Kfork(c, p)
  BY <1>2 DEF Kfork, ForkScan, ForkBuild, ForkLink, ForkReady
<1>3. CASE Kexit(c, p)
  BY <1>3 DEF Kexit, ExitBegin, ExitReparent, ExitWake, ExitZombie
<1>4. CASE Kwait(c, p)
  BY <1>4 DEF Kwait, WaitLocked, WaitScan, WaitCheck, WaitSleep, Sleep
<1>5. CASE SysPause(c, p)
  BY <1>5 DEF SysPause, PauseLocked, PauseCheck, PauseSleep, Sleep
<1>6. CASE Kill(c, p) \/ Woken(c, p) \/ Forkret(c, p) \/ UserReturn(c, p)
  BY <1>6 DEF Kill, Woken, Forkret, UserReturn
<1> QED
  BY <1>1, <1>2, <1>3, <1>4, <1>5, <1>6 DEF ProcStep, KernelStep

LEMMA StutterIInv ==
  ASSUME IInv, UNCHANGED vars
  PROVE  IInv'
<1>1. UNCHANGED <<proc, thread, cpu, lock, ticks, nextpid, shell>>
  BY DEF vars
<1>2. TypeOK' /\ CpuInv' /\ RunsOnce'
  BY <1>1 DEF IInv, TypeOK, CpuInv, RunsOnce
<1>3. LocksInv'
  BY <1>1 DEF IInv, LocksInv, Holds, ThreadHolds
<1>4. TickInv'
  BY <1>1 DEF IInv, TickInv, Elapsed
<1> QED
  BY <1>1, <1>2, <1>3, <1>4, LivesKept DEF IInv

LEMMA InitIInv ==
  ASSUME Init
  PROVE  IInv
<1>1. \A p \in Proc :
        /\ proc[p].state = IF p = Initproc THEN "RUNNABLE" ELSE "UNUSED"
        /\ proc[p].parent = None
        /\ proc[p] \in Slot
  <2>1. Initproc \in Proc /\ UnusedProc \in Slot
    BY DEF UnusedProc, Slot, State
  <2>2. [UnusedProc EXCEPT !.state = "RUNNABLE", !.pid = 1] \in Slot
    BY <2>1, SlotMoves, Zenon DEF State
  <2> QED
    BY <2>1, <2>2 DEF Init, UnusedProc
<1>2. \A p \in Proc : /\ thread[p].at = IF p = Initproc THEN "forkret" ELSE "none"
                      /\ thread[p] \in Thread
  <2>1. Initproc \in Proc /\ Initproc \in Nat
    OBVIOUS
  <2>2. "forkret" \in Location /\ "none" \in Location
    BY DEF Location
  <2>3. At("forkret") \in Thread /\ At("none") \in Thread
    BY <2>1, <2>2, LocalsType, Zenon
  <2> QED
    BY <2>1, <2>3, AtPlace DEF Init
<1>3. \A c \in CPU : /\ cpu[c].at = "loop" /\ cpu[c].selected = None /\ cpu[c].proc = None
                     /\ cpu[c].irq = 0 /\ cpu[c] \in Core
  <2>1. 1 \in 1..End /\ 0 \in 0..NPROC + 2
    OBVIOUS
  <2> QED
    BY <2>1 DEF Init, Looping, Core
<1>4. TypeOK
  <2>1. /\ proc \in [Proc -> Slot] /\ thread \in [Proc -> Thread]
        /\ cpu \in [CPU -> Core]
    BY <1>1, <1>2, <1>3 DEF Init
  <2>2. lock \in [Lock -> CPU \union {NoCPU}]
    BY DEF Init
  <2> QED
    BY <2>1, <2>2, Zenon DEF TypeOK, Slot, Thread, Core, Init
<1>5. CpuInv /\ RunsOnce
  BY <1>1, <1>3 DEF CpuInv, RunsOnce
<1>6. StateInv
  BY <1>1, <1>2 DEF StateInv, HoldsOwn
<1>7. LocksInv
  BY <1>3 DEF LocksInv, Holds, Init
<1>8. ForkInv
  BY <1>2 DEF ForkInv, Forking, Place
<1>9. ParentInv /\ WaitInv /\ TickInv
  BY <1>1, <1>2 DEF ParentInv, WaitInv, TickInv, SleepsInWait, Alive, Exiting
<1> QED
  BY <1>4, <1>5, <1>6, <1>7, <1>8, <1>9 DEF IInv

-----------------------------------------------------------------------------
(* What the invariant says                                                 *)

(* Locks are taken in their order and given back by their holders.         *)
LEMMA Ordered == IInv => LockDiscipline
<1> SUFFICES ASSUME IInv
             PROVE  LockDiscipline
  OBVIOUS
<1>1. \A c \in CPU, l \in Lock : lock[l] = c <=> Holds(c, l)
  BY DEF IInv, LocksInv
<1>2. SchedAsserts
  <2> SUFFICES ASSUME NEW c \in CPU, cpu[c].at = "back"
               PROVE  /\ Held(c) = {cpu[c].proc}
                      /\ cpu[c].selected = cpu[c].proc
                      /\ proc[cpu[c].proc].state # "RUNNING"
    BY DEF SchedAsserts
  <2>1. /\ cpu[c].selected = cpu[c].proc /\ proc[cpu[c].proc].state # "RUNNING"
        /\ cpu[c].irq = 0 /\ cpu[c].proc \in Proc
    BY Typed DEF IInv, CpuInv, Core
  <2>2. \A l \in Lock : Holds(c, l) <=> l = cpu[c].proc
    BY <2>1 DEF Holds
  <2> QED
    BY <1>1, <2>1, <2>2 DEF Held
<1>3. LockOrder
  <2> SUFFICES ASSUME NEW c \in CPU, NEW held \in Held(c), NEW l \in Wanted(c)
               PROVE  Rank(held) < Rank(l)
    BY DEF LockOrder
  <2>0. held \in Lock /\ Holds(c, held)
    BY <1>1 DEF Held
  <2>t. /\ cpu[c].proc \in Proc \union {None} /\ cpu[c].i \in 1..End
        /\ cpu[c].selected \in Proc \union {None}
    BY Typed DEF IInv, Core
  <2>w. /\ held = WaitLock \/ held = TicksLock => Rank(held) = 0
        /\ \A r \in Proc : Rank(r) = r /\ 0 < Rank(r)
    BY DEF Rank
  <2>1. CASE cpu[c].irq # 0
    <3>1. l \in Proc
      BY <2>1 DEF Wanted
    <3>2. held = TicksLock
      <4>1. /\ cpu[c].at \in {"loop", "switched"}
            /\ cpu[c].at = "switched" => thread[cpu[c].proc].at \in Preemptible
        BY <2>1 DEF IInv, CpuInv
      <4> QED
        BY <2>0, <4>1
           DEF Holds, ThreadHolds, Preemptible, HoldsOwn, HoldsWait, HoldsTicks, Exiting
    <3> QED
      BY <2>w, <3>1, <3>2
  <2>2. CASE cpu[c].irq = 0 /\ cpu[c].at = "scan"
    <3>1. l = cpu[c].i /\ l \in Proc
      BY <2>2 DEF Wanted, Yielding
    <3>2. held = cpu[c].selected
      BY <2>0, <2>2 DEF Holds
    <3>3. held \in Proc /\ held < l
      BY <2>0, <2>2, <2>t, <3>1, <3>2 DEF IInv, CpuInv
    <3> QED
      BY <2>w, <3>1, <3>3
  <2>3. CASE cpu[c].irq = 0 /\ cpu[c].at = "switched"
    <3>1. PICK p \in Proc : p = cpu[c].proc
      BY <2>3, <2>t DEF IInv, CpuInv
    <3>2. ThreadHolds(p, thread[p], held) /\ thread[p].at \in Active /\ p = cpu[c].proc
      <4>1. On(c, p)
        BY <2>3, <3>1 DEF On
      <4> QED
        BY <2>0, <1>1, <3>1, <4>1, OnFacts
    <3>3. thread[p].at \notin HoldsOwn \union {"fork_build"}
      BY <2>3, <3>2 DEF Wanted, Yielding, HoldsOwn
    <3>4. thread[p].i \in 1..End /\ thread[p].w \in 1..End
      BY <3>1, Typed, Zenon DEF IInv, Thread
    <3>5. thread[p].at \in HoldsWait \union HoldsTicks => l \in Proc
      BY <2>3, <3>2, <3>4 DEF Wanted, Yielding, HoldsWait, HoldsTicks, Exiting
    <3> QED
      BY <2>w, <3>2, <3>3, <3>5 DEF ThreadHolds
  <2>4. cpu[c].irq # 0 \/ cpu[c].at \in {"scan", "switched"}
    BY DEF Wanted, Yielding
  <2> QED
    BY <2>1, <2>2, <2>3, <2>4
<1>4. ReleaseAsserts
  <2> SUFFICES ASSUME NEW c \in CPU, NEW l \in Returned(c)
               PROVE  l \in Held(c)
    BY DEF ReleaseAsserts
  <2>t. cpu[c].selected \in Proc \union {None}
    BY Typed DEF IInv, Core
  <2>1. CASE cpu[c].irq # 0
    <3>1. cpu[c].irq = End /\ l = TicksLock
      BY <2>1 DEF Returned
    <3>2. Holds(c, l) /\ l \in Lock
      BY <3>1 DEF Holds
    <3> QED
      BY <1>1, <3>2 DEF Held
  <2>2. CASE cpu[c].irq = 0 /\ cpu[c].at \in {"scan", "back"}
    <3>1. l = cpu[c].selected /\ l \in Lock
      BY <2>2, <2>t DEF Returned
    <3>2. Holds(c, l)
      BY <2>2, <3>1 DEF Holds
    <3> QED
      BY <1>1, <3>1, <3>2 DEF Held
  <2>3. CASE cpu[c].irq = 0 /\ cpu[c].at = "switched"
    <3>1. l \in Lock /\ ThreadHolds(cpu[c].proc, thread[cpu[c].proc], l)
      BY <2>3 DEF Returned, ThreadHolds, HoldsOwn, HoldsWait, HoldsTicks, Exiting
    <3>2. Holds(c, l)
      BY <2>3, <3>1 DEF Holds
    <3> QED
      BY <1>1, <3>1, <3>2 DEF Held
  <2>4. cpu[c].irq # 0 \/ cpu[c].at \in {"scan", "back", "switched"}
    BY DEF Returned
  <2> QED
    BY <2>1, <2>2, <2>3, <2>4
<1>5. InterruptAsserts
  <2> SUFFICES ASSUME NEW c \in CPU, cpu[c].irq = 0, NEW l \in Lock, lock[l] = c,
                      \/ cpu[c].at = "loop"
                      \/ \E p \in Proc : On(c, p) /\ thread[p].at = "user"
               PROVE  FALSE
    BY DEF InterruptAsserts, Held
  <2>1. Holds(c, l)
    BY <1>1
  <2>2. cpu[c].at = "loop" \/ (cpu[c].at = "switched" /\ thread[cpu[c].proc].at = "user")
    BY DEF On
  <2>3. cpu[c].irq \notin 1..End
    OBVIOUS
  <2> QED
    BY <2>1, <2>2, <2>3
       DEF Holds, ThreadHolds, HoldsOwn, HoldsWait, HoldsTicks, Exiting
<1> QED
  BY <1>2, <1>3, <1>4, <1>5 DEF LockDiscipline, IInv

LEMMA WakeupsArrive == IInv => NoLostWakeup
<1> SUFFICES ASSUME IInv
             PROVE  NoLostWakeup
  OBVIOUS
<1>1. NoLostExit
  <2> SUFFICES ASSUME Free(WaitLock), NEW p \in Proc, NEW s \in Proc, SleepsInWait(p),
                      proc[s].parent = p, proc[s].state = "ZOMBIE"
               PROVE  FALSE
    BY DEF NoLostExit, SleepsInWait
  <2>1. PICK q \in Proc : thread[q].at = "reparent_wake"
    BY DEF IInv, WaitInv
  <2> QED
    BY <2>1, WaitLockHolder DEF HoldsWait, Exiting
<1>2. NoLostTick
  <2> SUFFICES ASSUME Free(TicksLock), NEW p \in Proc,
                      proc[p].state = "SLEEPING", proc[p].chan = TicksLock
               PROVE  Elapsed(p) < PauseTicks
    BY DEF NoLostTick
  <2>1. \A c \in CPU : cpu[c].irq \in 1..End => lock[TicksLock] = c
    BY DEF IInv, LocksInv, Holds
  <2>2. \A c \in CPU : cpu[c].irq \notin 1..p
    <3>1. 1..p \subseteq 1..End
      OBVIOUS
    <3> QED
      BY <2>1, <3>1
  <2> QED
    BY <2>2 DEF IInv, TickInv
<1> QED
  BY <1>1, <1>2 DEF NoLostWakeup

LEMMA SomeoneReaps == IInv => ParentLives
<1> SUFFICES ASSUME IInv, NEW p \in Proc \ {Initproc}, proc[p].state \notin {"UNUSED", "USED"}
             PROVE  /\ proc[p].parent # None
                    /\ proc[proc[p].parent].state \in {"SLEEPING", "RUNNABLE", "RUNNING"}
  BY DEF ParentLives
<1>1. /\ proc[p].state \in Alive \union {"ZOMBIE"}
      /\ proc[p].parent \in Proc \union {None}
  BY Typed DEF IInv, Slot, State, Alive
<1> QED
  BY <1>1 DEF IInv, ParentInv, Alive

-----------------------------------------------------------------------------
(* Who is killed.  That kill marks the process it names needs two facts of *)
(* the programs: none faults, and none kills pid 0, that of a free slot.   *)

KillSafe(p) ==
  /\ proc[p].state = "UNUSED" => proc[p].pid = 0 /\ ~ proc[p].killed
  /\ proc[p].killed => proc[p].pid \in KillTargets
  /\ Place(p) = "kill_scan" => thread[p].arg \in KillTargets

KillInv == \A p \in Proc : KillSafe(p)

(* Nobody takes a pid, is marked, or begins to kill.                       *)
KillSame(p) ==
  /\ \/ proc'[p] = UnusedProc
     \/ /\ proc'[p].state = "UNUSED" => proc[p].state = "UNUSED"
        /\ proc'[p].pid = proc[p].pid
        /\ proc'[p].killed => proc[p].killed
  /\ Place(p)' = "kill_scan" => Place(p) = "kill_scan" /\ thread'[p].arg = thread[p].arg

LEMMA KillKept ==
  ASSUME KillInv, NEW p \in Proc, KillSame(p)
  PROVE  KillSafe(p)'
<1>1. UnusedProc.state = "UNUSED" /\ UnusedProc.pid = 0 /\ ~ UnusedProc.killed
  BY DEF UnusedProc
<1> QED
  BY <1>1 DEF KillInv, KillSafe, KillSame

(* Thread p moves, and nothing else of interest changes.                   *)
LEMMA KillKeptAt ==
  ASSUME KillInv, NEW p \in Proc, thread'[p].at \notin {"kill_scan", "yielded"},
         \A q \in Proc \ {p} : thread'[q] = thread[q],
         \A q \in Proc : /\ proc'[q].state = "UNUSED" => proc[q].state = "UNUSED"
                         /\ proc'[q].pid = proc[q].pid
                         /\ proc'[q].killed => proc[q].killed
  PROVE  KillInv'
<1>1. \A q \in Proc : KillSame(q)
  BY DEF KillSame, Place
<1> QED
  BY <1>1, KillKept DEF KillInv

(* Where a thread's move leaves it.                                        *)
LEMMA Moves ==
  ASSUME IInv, NEW p \in Proc, NEW l
  PROVE  /\ Finish(p, l) =>
              thread'[p].at = l /\ \A q \in Proc \ {p} : thread'[q] = thread[q]
         /\ Goto(p, l) =>
              thread'[p].at = l /\ \A q \in Proc \ {p} : thread'[q] = thread[q]
<1>1. thread \in [Proc -> Thread] /\ thread[p] \in Thread
  BY Typed DEF IInv
<1>2. Finish(p, l) =>
        thread'[p].at = l /\ \A q \in Proc \ {p} : thread'[q] = thread[q]
  BY <1>1, AtPlace DEF Finish
<1>3. Goto(p, l) =>
        thread'[p].at = l /\ \A q \in Proc \ {p} : thread'[q] = thread[q]
  BY <1>1 DEF Goto, Thread
<1> QED
  BY <1>2, <1>3

LEMMA UserKillInv ==
  ASSUME IInv, KillInv, "fault" \notin Syscalls,
         NEW c \in CPU, NEW p \in Proc, Usertrap(c, p)
  PROVE  KillInv'
<1>1. ~ UserFault(c, p)
  BY DEF UserFault
<1>2. CASE \E l \in {"exit", "ret", "fork_scan", "wait_lock", "pause_lock"} :
             proc' = proc /\ Finish(p, l)
  BY <1>2, Moves, KillKeptAt
<1>3. CASE proc' = proc /\ \E k \in KillTargets :
             thread' = [thread EXCEPT ![p] = [At("kill_scan") EXCEPT !.arg = k]]
  <2>1. PICK k \in KillTargets :
             thread' = [thread EXCEPT ![p] = [At("kill_scan") EXCEPT !.arg = k]]
    BY <1>3, Zenon
  <2>2. thread \in [Proc -> Thread]
    BY Typed DEF IInv
  <2>3. thread'[p].arg = k
    BY <2>1, <2>2 DEF At
  <2>4. \A q \in Proc \ {p} : thread'[q] = thread[q]
    BY <2>1, <2>2
  <2>5. \A q \in Proc \ {p} : KillSame(q)
    BY <1>3, <2>4 DEF KillSame, Place
  <2>6. KillSafe(p)'
    BY <1>3, <2>3 DEF KillInv, KillSafe
  <2> QED
    BY <2>5, <2>6, KillKept DEF KillInv
<1> QED
  BY <1>1, <1>2, <1>3 DEF Usertrap, UserTrap, Call, UserInterrupt

LEMMA ForkKillInv ==
  ASSUME IInv, KillInv, NEW c \in CPU, NEW p \in Proc, Kfork(c, p)
  PROVE  KillInv'
<1>0. /\ proc \in [Proc -> Slot] /\ thread \in [Proc -> Thread] /\ thread[p] \in Thread
      /\ thread[p].i \in 1..End
  BY Typed, Zenon DEF IInv, Thread
<1>1. ASSUME ForkScan(c, p)
      PROVE  KillInv'
  <2>1. thread[p].at = "fork_scan"
    BY <1>1 DEF ForkScan
  <2>2. CASE thread' = [thread EXCEPT ![p].i = thread[p].i + 1] /\ proc' = proc
    <3>1. thread'[p].at = "fork_scan" /\ \A q \in Proc \ {p} : thread'[q] = thread[q]
      BY <1>0, <2>1, <2>2 DEF Thread
    <3> QED
      BY <2>2, <3>1, KillKeptAt
  <2>3. CASE Finish(p, Failed(p)) /\ proc' = proc
    BY <2>3, Moves, KillKeptAt DEF Failed
  <2>4. CASE \E s \in Proc :
               /\ proc[s].state = "UNUSED"
               /\ proc' = [proc EXCEPT ![s].state = "USED", ![s].pid = nextpid]
               /\ thread' = [thread EXCEPT ![p] = [At("fork_build") EXCEPT !.np = s]]
    <3>1. PICK s \in Proc :
               /\ proc[s].state = "UNUSED"
               /\ proc' = [proc EXCEPT ![s].state = "USED", ![s].pid = nextpid]
               /\ thread' = [thread EXCEPT ![p] = [At("fork_build") EXCEPT !.np = s]]
      BY <2>4, Zenon
    <3>2. /\ thread'[p].at = "fork_build"
          /\ \A q \in Proc \ {p} : thread'[q] = thread[q]
      BY <1>0, <3>1 DEF At
    <3>3. \A q \in Proc \ {s} : proc'[q] = proc[q]
      BY <1>0, <3>1
    <3>4. proc'[s].state = "USED" /\ (proc'[s].killed => proc[s].killed)
      BY <1>0, <3>1 DEF Slot
    <3>5. \A q \in Proc \ {s} : KillSame(q)
      BY <3>2, <3>3 DEF KillSame, Place
    <3>6. KillSafe(s)'
      BY <3>1, <3>2, <3>4 DEF KillInv, KillSafe, Place
    <3> QED
      BY <3>5, <3>6, KillKept DEF KillInv
  <2>5. thread[p].i # End => thread[p].i \in Proc
    BY <1>0
  <2> QED
    BY <1>1, <2>2, <2>3, <2>4, <2>5, Zenon DEF ForkScan
<1>2. ASSUME ForkBuild(c, p)
      PROVE  KillInv'
  <2>1. PICK n \in Proc : n = thread[p].np /\ n # p
    BY <1>2, ChildFacts DEF ForkBuild, Forking, Place
  <2>2. CASE /\ proc' = [proc EXCEPT ![n].arrival_time = ticks]
             /\ thread' = [thread EXCEPT ![p].at = "fork_link", ![n] = At("forkret")]
    <3>1. /\ thread'[p].at = "fork_link" /\ thread'[n].at = "forkret"
          /\ \A q \in Proc \ {p, n} : thread'[q] = thread[q]
      BY <1>0, <2>1, <2>2, AtPlace, Zenon DEF Thread
    <3>2. \A q \in Proc : /\ proc'[q].state = proc[q].state /\ proc'[q].pid = proc[q].pid
                          /\ proc'[q].killed => proc[q].killed
      BY <1>0, <2>2 DEF Slot
    <3>3. \A q \in Proc : KillSame(q)
      BY <3>1, <3>2 DEF KillSame, Place
    <3> QED
      BY <3>3, KillKept DEF KillInv
  <2>3. CASE proc' = FreeProc(n) /\ Finish(p, Failed(p))
    <3>1. /\ thread'[p].at \in {"exit", "ret"}
          /\ \A q \in Proc \ {p} : thread'[q] = thread[q]
      BY <2>3, Moves DEF Failed
    <3>2. proc'[n] = UnusedProc /\ \A q \in Proc \ {n} : proc'[q] = proc[q]
      BY <1>0, <2>3 DEF FreeProc
    <3>3. \A q \in Proc : KillSame(q)
      BY <3>1, <3>2 DEF KillSame, Place
    <3> QED
      BY <3>3, KillKept DEF KillInv
  <2> QED
    BY <1>2, <2>1, <2>2, <2>3 DEF ForkBuild
<1>3. ASSUME NEW n \in Proc, NEW l \in {"fork_ready", "ret"},
             \/ proc' = [proc EXCEPT ![n].parent = p]
             \/ proc' = [proc EXCEPT ![n].state = "RUNNABLE"],
             Finish(p, l) \/ Goto(p, l)
      PROVE  KillInv'
  <2>1. \A q \in Proc : /\ proc'[q].state = "UNUSED" => proc[q].state = "UNUSED"
                        /\ proc'[q].pid = proc[q].pid
                        /\ proc'[q].killed => proc[q].killed
    <3>1. CASE proc' = [proc EXCEPT ![n].parent = p]
      BY <1>0, <3>1 DEF Slot
    <3>2. CASE proc' = [proc EXCEPT ![n].state = "RUNNABLE"]
      BY <1>0, <3>2 DEF Slot
    <3> QED
      BY <1>3, <3>1, <3>2
  <2>2. /\ thread'[p].at \in {"fork_ready", "ret"}
        /\ \A q \in Proc \ {p} : thread'[q] = thread[q]
    BY <1>3, Moves
  <2> QED
    BY <2>1, <2>2, KillKeptAt
<1>4. ASSUME ForkLink(c, p) \/ ForkReady(c, p)
      PROVE  KillInv'
  <2>1. PICK n \in Proc : n = thread[p].np
    BY <1>4, ChildFacts DEF ForkLink, ForkReady, Forking, Place
  <2> QED
    BY <1>3, <1>4, <2>1 DEF ForkLink, ForkReady
<1> QED
  BY <1>1, <1>2, <1>4 DEF Kfork

LEMMA ExitKillInv ==
  ASSUME IInv, KillInv, NEW c \in CPU, NEW p \in Proc, Kexit(c, p)
  PROVE  KillInv'
<1>0. /\ proc \in [Proc -> Slot] /\ thread \in [Proc -> Thread] /\ thread[p] \in Thread
  BY Typed DEF IInv
<1>1. /\ \A q \in Proc \ {p} : thread'[q] = thread[q]
      /\ thread'[p].at \notin {"kill_scan", "yielded"}
  <2>1. CASE \E l \in {"panic", "exit_reparent", "exit_zombie", "dead"} : Finish(p, l) \/ Goto(p, l)
    BY <2>1, Moves
  <2>2. CASE \E s : thread[p].at = "exit_reparent" /\ thread' = [thread EXCEPT ![p].i = s]
    BY <1>0, <2>2 DEF Thread
  <2>3. CASE \E l \in {"reparent_wake", "exit_wake"} :
               thread' = [thread EXCEPT ![p].at = l, ![p].w = 1]
    BY <1>0, <2>3 DEF Thread
  <2>4. CASE \E s : /\ thread[p].at \in {"reparent_wake", "exit_wake"}
                    /\ thread' = [thread EXCEPT ![p].w = s]
    BY <1>0, <2>4 DEF Thread
  <2>5. CASE \E s : thread' = [thread EXCEPT ![p].at = "exit_reparent", ![p].w = 1, ![p].i = s]
    BY <1>0, <2>5 DEF Thread
  <2>6. ExitBegin(c, p) \/ ExitReparent(c, p) \/ ExitWake(c, p) \/ ExitZombie(c, p)
    BY DEF Kexit
  <2>7. CASE ExitBegin(c, p) \/ ExitZombie(c, p)
    BY <2>1, <2>7 DEF ExitBegin, ExitZombie
  <2>8. CASE ExitReparent(c, p)
    BY <2>2, <2>3, <2>8 DEF ExitReparent
  <2>9. CASE ExitWake(c, p)
    BY <2>1, <2>4, <2>5, <2>9 DEF ExitWake
  <2> QED
    BY <2>6, <2>7, <2>8, <2>9
<1>2. \A q \in Proc : /\ proc'[q].state = "UNUSED" => proc[q].state = "UNUSED"
                      /\ proc'[q].pid = proc[q].pid
                      /\ proc'[q].killed => proc[q].killed
  <2>1. CASE proc' = proc
    BY <2>1
  <2>2. CASE \E s : proc' = [proc EXCEPT ![s].parent = Initproc]
    BY <1>0, <2>2 DEF Slot
  <2>3. CASE \E s : proc' = [proc EXCEPT ![s].state = "RUNNABLE"]
    BY <1>0, <2>3 DEF Slot
  <2>4. CASE \E s : proc' = [proc EXCEPT ![s].state = "ZOMBIE"]
    BY <1>0, <2>4 DEF Slot
  <2> QED
    BY <2>1, <2>2, <2>3, <2>4 DEF Kexit, ExitBegin, ExitReparent, ExitWake, Wake, ExitZombie
<1> QED
  BY <1>1, <1>2, KillKeptAt

LEMMA WaitKillInv ==
  ASSUME IInv, KillInv, NEW c \in CPU, NEW p \in Proc, Kwait(c, p)
  PROVE  KillInv'
<1>0. /\ proc \in [Proc -> Slot] /\ thread \in [Proc -> Thread] /\ thread[p] \in Thread
      /\ thread[p].i \in 1..End
  BY Typed, Zenon DEF IInv, Thread
<1>1. CASE \E s \in Proc : /\ s # p /\ proc' = FreeProc(s)
                           /\ thread' = [thread EXCEPT ![p] = At("ret"), ![s] = At("none")]
  <2>1. PICK s \in Proc : /\ s # p /\ proc' = FreeProc(s)
                          /\ thread' = [thread EXCEPT ![p] = At("ret"), ![s] = At("none")]
    BY <1>1, Zenon
  <2>2. /\ thread'[p].at = "ret" /\ thread'[s].at = "none"
        /\ \A q \in Proc \ {p, s} : thread'[q] = thread[q]
    BY <1>0, <2>1, AtPlace
  <2>3. proc'[s] = UnusedProc /\ \A q \in Proc \ {s} : proc'[q] = proc[q]
    BY <1>0, <2>1 DEF FreeProc
  <2>4. \A q \in Proc : KillSame(q)
    BY <2>2, <2>3 DEF KillSame, Place
  <2> QED
    BY <2>4, KillKept DEF KillInv
<1>2. CASE proc' = proc /\ \E l \in {"wait_scan", "wait_sleep", "ret", "exit"} : Finish(p, l)
  BY <1>2, Moves, KillKeptAt
<1>3. CASE /\ proc' = proc /\ thread[p].at = "wait_scan"
           /\ \E s : \/ thread' = [thread EXCEPT ![p].i = s]
                     \/ thread' = [thread EXCEPT ![p].i = s, ![p].havekids = TRUE]
  <2>1. PICK s : \/ thread' = [thread EXCEPT ![p].i = s]
                 \/ thread' = [thread EXCEPT ![p].i = s, ![p].havekids = TRUE]
    BY <1>3
  <2>2. /\ \A q \in Proc \ {p} : thread'[q] = thread[q]
        /\ thread'[p].at = "wait_scan"
    <3>1. CASE thread' = [thread EXCEPT ![p].i = s]
      BY <1>0, <1>3, <3>1 DEF Thread
    <3>2. CASE thread' = [thread EXCEPT ![p].i = s, ![p].havekids = TRUE]
      BY <1>0, <1>3, <3>2 DEF Thread
    <3> QED
      BY <2>1, <3>1, <3>2
  <2> QED
    BY <1>3, <2>2, KillKeptAt
<1>4. CASE /\ proc' = [proc EXCEPT ![p].chan = p, ![p].state = "SLEEPING"]
           /\ Goto(p, "wait_woken")
  <2>1. \A q \in Proc : /\ proc'[q].state = "UNUSED" => proc[q].state = "UNUSED"
                        /\ proc'[q].pid = proc[q].pid
                        /\ proc'[q].killed => proc[q].killed
    BY <1>0, <1>4 DEF Slot
  <2>2. /\ thread'[p].at = "wait_woken"
        /\ \A q \in Proc \ {p} : thread'[q] = thread[q]
    BY <1>4, Moves, Zenon
  <2> QED
    BY <2>1, <2>2, KillKeptAt
<1>5. CASE WaitScan(c, p)
  <2>1. /\ thread[p].i \in Proc /\ thread[p].at = "wait_scan"
        /\ proc[thread[p].i].state = "ZOMBIE" => thread[p].i # p
    <3>1. thread[p].i # End /\ thread[p].at = "wait_scan" /\ On(c, p)
      BY <1>5 DEF WaitScan
    <3>2. proc[p].state = "RUNNING"
      BY <3>1, OnFacts
    <3>3. thread[p].i \in Proc
      BY <1>0, <3>1
    <3> QED
      BY <3>1, <3>2, <3>3
  <2>2. PICK s \in Proc : s = thread[p].i
    BY <2>1
  <2>3. CASE /\ proc[s].state = "ZOMBIE" /\ proc' = FreeProc(s)
             /\ thread' = [thread EXCEPT ![p] = At("ret"), ![s] = At("none")]
    <3>1. s # p
      BY <2>1, <2>2, <2>3
    <3> QED
      BY <1>1, <2>3, <3>1, Zenon
  <2>4. CASE proc' = proc /\ Finish(p, "ret")
    BY <1>2, <2>4
  <2>5. CASE proc' = proc /\ thread' = [thread EXCEPT ![p].i = s + 1]
    BY <1>3, <2>1, <2>5, Zenon
  <2>6. CASE proc' = proc /\ thread' = [thread EXCEPT ![p].i = s + 1, ![p].havekids = TRUE]
    BY <1>3, <2>1, <2>6, Zenon
  <2> QED
    BY <1>5, <2>2, <2>3, <2>4, <2>5, <2>6 DEF WaitScan
<1>6. CASE WaitLocked(c, p) \/ WaitCheck(c, p)
  BY <1>2, <1>6 DEF WaitLocked, WaitCheck, Failed
<1>7. CASE WaitSleep(c, p)
  BY <1>4, <1>7 DEF WaitSleep, Sleep
<1> QED
  BY <1>5, <1>6, <1>7 DEF Kwait

LEMMA KillKillInv ==
  ASSUME IInv, KillInv, 0 \notin KillTargets, NEW c \in CPU, NEW p \in Proc, Kill(c, p)
  PROVE  KillInv'
<1>0. /\ proc \in [Proc -> Slot] /\ thread \in [Proc -> Thread] /\ thread[p] \in Thread
      /\ thread[p].i \in 1..End /\ thread[p].at = "kill_scan"
  BY Typed, Zenon DEF IInv, Thread, Kill
<1>1. CASE proc' = proc /\ thread' = [thread EXCEPT ![p].i = thread[p].i + 1]
  <2>1. /\ \A q \in Proc \ {p} : thread'[q] = thread[q]
        /\ thread'[p].at = "kill_scan" /\ thread'[p].arg = thread[p].arg
    BY <1>0, <1>1 DEF Thread
  <2>2. \A q \in Proc : KillSame(q)
    BY <1>0, <1>1, <2>1 DEF KillSame, Place
  <2> QED
    BY <2>2, KillKept DEF KillInv
<1>2. CASE proc' = proc /\ Finish(p, "ret")
  BY <1>2, Moves, KillKeptAt
<1>3. CASE \E s \in Proc : proc[s].pid = thread[p].arg /\ proc' = Killed(s) /\ Finish(p, "ret")
  <2>1. PICK s \in Proc : proc[s].pid = thread[p].arg /\ proc' = Killed(s) /\ Finish(p, "ret")
    BY <1>3
  <2>2. proc[s].pid \in KillTargets /\ proc[s].state # "UNUSED"
    <3>1. thread[p].arg \in KillTargets
      BY <1>0 DEF KillInv, KillSafe, Place
    <3> QED
      BY <2>1, <3>1 DEF KillInv, KillSafe
  <2>3. proc'[s].pid = proc[s].pid /\ proc'[s].state # "UNUSED"
    BY <1>0, <2>1, <2>2 DEF Killed, Slot
  <2>4. \A q \in Proc \ {s} : proc'[q] = proc[q]
    BY <1>0, <2>1 DEF Killed
  <2>5. /\ \A q \in Proc \ {p} : thread'[q] = thread[q]
        /\ thread'[p].at = "ret"
    BY <2>1, Moves
  <2>6. \A q \in Proc \ {s} : KillSame(q)
    BY <2>4, <2>5 DEF KillSame, Place
  <2>7. KillSafe(s)'
    BY <2>2, <2>3, <2>5 DEF KillInv, KillSafe, Place
  <2> QED
    BY <2>6, <2>7, KillKept DEF KillInv
<1> QED
  <2>1. thread[p].i # End => thread[p].i \in Proc
    BY <1>0
  <2> QED
    BY <1>1, <1>2, <1>3, <2>1 DEF Kill

LEMMA OtherKillInv ==
  ASSUME IInv, KillInv, NEW c \in CPU, NEW p \in Proc,
         SysPause(c, p) \/ Woken(c, p) \/ Forkret(c, p) \/ UserReturn(c, p)
  PROVE  KillInv'
<1>0. /\ proc \in [Proc -> Slot] /\ thread \in [Proc -> Thread] /\ thread[p] \in Thread
  BY Typed DEF IInv
<1>1. /\ \A q \in Proc \ {p} : thread'[q] = thread[q]
      /\ thread'[p].at \notin {"kill_scan", "yielded"}
  <2>1. CASE \E l \in {"user", "exit", "ret", "pause_sleep", "pause_woken", "wait_lock",
                       "pause_relock"} : Finish(p, l) \/ Goto(p, l)
    BY <2>1, Moves
  <2>2. CASE PauseLocked(c, p)
    BY <1>0, <2>2 DEF PauseLocked, Thread
  <2> QED
    BY <2>1, <2>2 DEF SysPause, PauseCheck, PauseSleep, Sleep, Woken, Forkret, UserReturn
<1>2. \A q \in Proc : /\ proc'[q].state = "UNUSED" => proc[q].state = "UNUSED"
                      /\ proc'[q].pid = proc[q].pid
                      /\ proc'[q].killed => proc[q].killed
  <2>1. CASE proc' = proc
    BY <2>1
  <2>2. CASE proc' = [proc EXCEPT ![p].chan = None]
    BY <1>0, <2>2 DEF Slot
  <2>3. CASE proc' = [proc EXCEPT ![p].chan = TicksLock, ![p].state = "SLEEPING"]
    BY <1>0, <2>3 DEF Slot
  <2> QED
    BY <2>1, <2>2, <2>3
       DEF SysPause, PauseLocked, PauseCheck, PauseSleep, Sleep, Woken, Forkret, UserReturn
<1> QED
  BY <1>1, <1>2, KillKeptAt

LEMMA ProcStepKillInv ==
  ASSUME IInv, KillInv, "fault" \notin Syscalls, 0 \notin KillTargets,
         NEW c \in CPU, NEW p \in Proc, ProcStep(c, p)
  PROVE  KillInv'
BY UserKillInv, ForkKillInv, ExitKillInv, WaitKillInv, KillKillInv, OtherKillInv
   DEF ProcStep, KernelStep

(* The clock marks nobody.                                                 *)
LEMMA ClockKillInv ==
  ASSUME IInv, KillInv, NEW c \in CPU, ClockBegin(c) \/ ClockWake(c)
  PROVE  KillInv'
<1>0. proc \in [Proc -> Slot] /\ thread' = thread
  BY Typed DEF IInv, ClockBegin, ClockWake
<1>1. \A q \in Proc : /\ proc'[q].state = "UNUSED" => proc[q].state = "UNUSED"
                      /\ proc'[q].pid = proc[q].pid
                      /\ proc'[q].killed => proc[q].killed
  <2>1. CASE proc' = proc
    BY <2>1
  <2>2. CASE \E s : proc' = [proc EXCEPT ![s].state = "RUNNABLE"]
    BY <1>0, <2>2 DEF Slot
  <2> QED
    BY <2>1, <2>2 DEF ClockBegin, ClockWake, Wake
<1>2. \A q \in Proc : KillSame(q)
  BY <1>0, <1>1 DEF KillSame, Place
<1> QED
  BY <1>2, KillKept DEF KillInv

LEMMA InitKillInv ==
  ASSUME Init
  PROVE  KillInv
BY DEF Init, KillInv, KillSafe, Place, UnusedProc, At

LEMMA KillTheNamed == KillInv => KillHitsPid
BY DEF KillInv, KillSafe, KillHitsPid

USE DEF Yielding

-----------------------------------------------------------------------------
(* First come, first served: the scheduler's own steps                     *)

LEMMA ScanBeginIInvFCFS ==
  ASSUME IInv, NEW c \in CPU, ScanBeginFCFS(c)
  PROVE  IInv'
<1>1. /\ cpu[c].at = "loop" /\ cpu[c].irq = 0
      /\ UNCHANGED <<proc, thread, lock, ticks, nextpid, shell>>
      /\ cpu[c].proc = None /\ cpu[c].selected = None
  BY DEF ScanBeginFCFS, IInv, CpuInv
<1>2. /\ cpu \in [CPU -> Core] /\ cpu[c] \in Core /\ thread \in [Proc -> Thread]
      /\ lock \in [Lock -> CPU \union {NoCPU}]
  BY Typed DEF IInv
<1>3. /\ cpu'[c] \in Core /\ cpu' = [cpu EXCEPT ![c] = cpu'[c]]
      /\ cpu'[c].at = "scan" /\ cpu'[c].irq = 0
      /\ cpu'[c].proc = None /\ cpu'[c].selected = None
  BY <1>1, <1>2, Zenon DEF ScanBeginFCFS, Core
<1>4. \A l \in Lock : lock'[l] = c <=> Holds(c, l)'
  <2>1. \A l \in Lock : ~ Holds(c, l) /\ ~ Holds(c, l)'
    BY <1>1, <1>3 DEF Holds
  <2> QED
    BY <1>1, <2>1 DEF IInv, LocksInv
<1> QED
  BY <1>1, <1>2, <1>3, <1>4, CoreStep

LEMMA ScanIInvFCFS ==
  ASSUME IInv, NEW c \in CPU, ScanFCFS(c)
  PROVE  IInv'
<1>0. PICK s : s = cpu[c].i
  OBVIOUS
<1>1. PICK selected : selected = cpu[c].selected
  OBVIOUS
<1>2. /\ cpu \in [CPU -> Core] /\ cpu[c] \in Core /\ thread \in [Proc -> Thread]
      /\ lock \in [Lock -> CPU \union {NoCPU}]
  BY Typed DEF IInv
<1>3. /\ cpu[c].at = "scan" /\ s # End /\ lock[s] = NoCPU
      /\ UNCHANGED <<proc, thread, ticks, nextpid, shell>>
  BY <1>0 DEF ScanFCFS
<1>4. /\ cpu[c].irq = 0 /\ cpu[c].proc = None
      /\ selected # None => selected < s /\ proc[selected].state = "RUNNABLE"
  BY <1>0, <1>1, <1>3 DEF IInv, CpuInv
<1>5. s \in 1..End /\ selected \in Proc \union {None}
  BY <1>0, <1>1, <1>2 DEF Core
<1>6. s \in Proc /\ s + 1 \in 1..End /\ s < s + 1
  BY <1>3, <1>5
<1>7. \A l \in Lock : lock[l] = c <=> l = selected
  BY <1>1, <1>3, <1>4 DEF IInv, LocksInv, Holds
<1>8. CASE /\ Better(c, s)
           /\ lock' = [l \in Lock |-> IF l = s THEN c
                                      ELSE IF l = selected THEN NoCPU ELSE lock[l]]
           /\ cpu' = [cpu EXCEPT ![c].i = s + 1, ![c].selected = s]
  <2>1. /\ cpu'[c] \in Core /\ cpu' = [cpu EXCEPT ![c] = cpu'[c]]
        /\ cpu'[c].at = "scan" /\ cpu'[c].irq = 0 /\ cpu'[c].i = s + 1
        /\ cpu'[c].proc = None /\ cpu'[c].selected = s
    BY <1>2, <1>3, <1>4, <1>6, <1>8, Zenon DEF Core
  <2>2. proc[s].state = "RUNNABLE"
    BY <1>8 DEF Better
  <2>3. \A l \in Lock : /\ lock'[l] = c <=> l = s
                        /\ \A d \in CPU \ {c} : lock'[l] = d <=> lock[l] = d
    BY <1>3, <1>7, <1>8
  <2>4. \A l \in Lock : lock'[l] = c <=> Holds(c, l)'
    BY <2>1, <2>3 DEF Holds
  <2>5. lock' \in [Lock -> CPU \union {NoCPU}]
    BY <1>2, <1>8
  <2> QED
    BY <1>2, <1>3, <1>4, <1>6, <2>1, <2>2, <2>3, <2>4, <2>5, CoreStep
<1>9. CASE cpu' = [cpu EXCEPT ![c].i = s + 1] /\ UNCHANGED lock
  <2>1. /\ cpu'[c] \in Core /\ cpu' = [cpu EXCEPT ![c] = cpu'[c]]
        /\ cpu'[c].at = "scan" /\ cpu'[c].irq = 0 /\ cpu'[c].i = s + 1
        /\ cpu'[c].proc = None /\ cpu'[c].selected = selected
    BY <1>1, <1>2, <1>3, <1>4, <1>6, <1>9, Zenon DEF Core
  <2>2. \A l \in Lock : lock'[l] = c <=> Holds(c, l)'
    BY <1>7, <1>9, <2>1 DEF Holds
  <2>3. selected # None => selected < s + 1
    BY <1>4, <1>5, <1>6
  <2>4. /\ thread' \in [Proc -> Thread] /\ \A q \in Proc : thread'[q] = thread[q]
        /\ lock' \in [Lock -> CPU \union {NoCPU}]
        /\ \A l \in Lock : /\ lock'[l] = c <=> Holds(c, l)'
                           /\ \A d \in CPU \ {c} : lock'[l] = d <=> lock[l] = d
    BY <1>2, <1>3, <1>9, <2>2
  <2> QED
    BY <1>3, <1>4, <2>1, <2>3, <2>4, CoreStep
<1> QED
  BY <1>0, <1>1, <1>8, <1>9 DEF ScanFCFS

LEMMA DispatchIInv ==
  ASSUME IInv, NEW c \in CPU, Dispatch(c)
  PROVE  IInv'
<1>1. /\ cpu \in [CPU -> Core] /\ cpu[c] \in Core
      /\ lock \in [Lock -> CPU \union {NoCPU}]
      /\ cpu[c].selected \in Proc \union {None}
  BY Typed DEF IInv, Core
<1>2. PICK p \in Proc : p = cpu[c].selected
  BY <1>1 DEF Dispatch
<1>3. /\ cpu[c].at = "scan" /\ cpu[c].irq = 0 /\ proc[p].state = "RUNNABLE"
      /\ UNCHANGED <<thread, lock, ticks, nextpid, shell>>
      /\ proc' = [proc EXCEPT ![p].state = "RUNNING"]
  BY <1>2 DEF Dispatch, IInv, CpuInv
<1>4. /\ cpu'[c] \in Core /\ cpu' = [cpu EXCEPT ![c] = cpu'[c]]
      /\ cpu'[c].at = "switched" /\ cpu'[c].irq = cpu[c].irq
      /\ cpu'[c].proc = p /\ cpu'[c].selected = p
  BY <1>1, <1>2, Zenon DEF Dispatch, Core
<1>5. \A l \in Lock : lock[l] = c <=> l = p
  BY <1>2, <1>3 DEF IInv, LocksInv, Holds
<1> QED
  BY <1>1, <1>3, <1>4, <1>5, SwitchOn, Zenon

(* Back at the head of the loop, with no lock.                             *)
LEMMA LoopingIInvFCFS ==
  ASSUME IInv, NEW c \in CPU, cpu[c].at \in {"scan", "back"},
         cpu' = [cpu EXCEPT ![c] = Looping],
         UNCHANGED <<proc, thread, ticks, nextpid, shell>>,
         lock' \in [Lock -> CPU \union {NoCPU}],
         \A l \in Lock : /\ lock'[l] # c
                         /\ \A d \in CPU \ {c} : lock'[l] = d <=> lock[l] = d
  PROVE  IInv'
<1>1. cpu \in [CPU -> Core] /\ thread \in [Proc -> Thread] /\ cpu[c].irq = 0
  BY Typed DEF IInv, CpuInv
<1>2. /\ cpu'[c] \in Core /\ cpu' = [cpu EXCEPT ![c] = cpu'[c]]
      /\ cpu'[c].at = "loop" /\ cpu'[c].irq = 0
      /\ cpu'[c].proc = None /\ cpu'[c].selected = None
  <2>1. 1 \in 1..End /\ 0 \in 0..NPROC + 2 /\ None \in Proc \union {None}
    OBVIOUS
  <2>2. Looping \in Core
    BY <2>1 DEF Looping, Core
  <2> QED
    BY <1>1, <2>2 DEF Looping
<1>3. \A l \in Lock : ~ Holds(c, l)'
  BY <1>2 DEF Holds
<1>4. /\ thread' \in [Proc -> Thread] /\ \A q \in Proc : thread'[q] = thread[q]
      /\ \A l \in Lock : /\ lock'[l] = c <=> Holds(c, l)'
                         /\ \A d \in CPU \ {c} : lock'[l] = d <=> lock[l] = d
  BY <1>1, <1>3
<1>5. /\ cpu[c].at # "switched" /\ cpu'[c].at \notin {"switched", "scan", "back"}
      /\ cpu[c].irq \notin Proc /\ cpu'[c].irq \notin Proc
  BY <1>1, <1>2
<1> QED
  BY <1>2, <1>4, <1>5, CoreStep, Zenon

LEMMA IdleIInv ==
  ASSUME IInv, NEW c \in CPU, Idle(c)
  PROVE  IInv'
<1>1. /\ cpu[c].at = "scan" /\ cpu[c].selected = None /\ cpu[c].irq = 0
      /\ lock \in [Lock -> CPU \union {NoCPU}]
  BY Typed DEF IInv, CpuInv, Idle
<1>2. \A l \in Lock : lock[l] # c
  BY <1>1 DEF IInv, LocksInv, Holds
<1> QED
  BY <1>1, <1>2, LoopingIInvFCFS, Zenon DEF Idle

LEMMA SwitchBackIInvFCFS ==
  ASSUME IInv, NEW c \in CPU, SwitchBackFCFS(c)
  PROVE  IInv'
<1>1. /\ cpu[c].at = "back" /\ cpu[c].irq = 0 /\ cpu[c].selected \in Proc
      /\ lock \in [Lock -> CPU \union {NoCPU}]
      /\ lock' = [lock EXCEPT ![cpu[c].selected] = NoCPU]
  BY Typed DEF IInv, CpuInv, Core, SwitchBackFCFS, Release
<1>2. \A l \in Lock : lock[l] = c <=> l = cpu[c].selected
  BY <1>1 DEF IInv, LocksInv, Holds
<1>3. /\ lock' \in [Lock -> CPU \union {NoCPU}]
      /\ \A l \in Lock : /\ lock'[l] # c
                         /\ \A d \in CPU \ {c} : lock'[l] = d <=> lock[l] = d
  BY <1>1, <1>2
<1> QED
  BY <1>1, <1>3, LoopingIInvFCFS, Zenon DEF SwitchBackFCFS

LEMMA ClockEndIInvFCFS ==
  ASSUME IInv, NEW c \in CPU, ClockEndFCFS(c)
  PROVE  IInv'
<1>1. /\ cpu \in [CPU -> Core] /\ cpu[c] \in Core /\ thread \in [Proc -> Thread]
      /\ lock \in [Lock -> CPU \union {NoCPU}] /\ cpu[c].proc \in Proc \union {None}
  BY Typed DEF IInv, Core
<1>2. /\ cpu[c].irq = End /\ lock' = [lock EXCEPT ![TicksLock] = NoCPU]
      /\ cpu' = [cpu EXCEPT ![c].irq = 0]
      /\ UNCHANGED <<proc, ticks, nextpid, shell>>
  BY DEF ClockEndFCFS, Release
<1>3. /\ cpu[c].at \in {"loop", "switched"}
      /\ cpu[c].at = "switched" => thread[cpu[c].proc].at \in Preemptible
      /\ cpu[c].irq \in 1..End /\ cpu[c].irq \notin Proc
      /\ cpu[c].at = "loop" => cpu[c].proc = None /\ cpu[c].selected = None
      /\ cpu[c].at = "switched" => cpu[c].proc \in Proc
  BY <1>1, <1>2 DEF IInv, CpuInv
<1>4. /\ cpu'[c] \in Core /\ cpu' = [cpu EXCEPT ![c] = cpu'[c]]
      /\ cpu'[c].at = cpu[c].at /\ cpu'[c].irq = 0
      /\ cpu'[c].proc = cpu[c].proc /\ cpu'[c].selected = cpu[c].selected
  <2>1. 0 \in 0..NPROC + 2
    OBVIOUS
  <2>2. PICK k \in Core : k = [cpu[c] EXCEPT !.irq = 0]
    BY <1>1, <2>1, CoreMoves, Zenon
  <2>3. cpu'[c] = k /\ cpu' = [cpu EXCEPT ![c] = k]
    BY <1>1, <1>2, <2>2
  <2>4. k.at = cpu[c].at /\ k.irq = 0 /\ k.proc = cpu[c].proc /\ k.selected = cpu[c].selected
    BY <1>1, <2>2 DEF Core
  <2> QED
    BY <2>3, <2>4
<1>5. /\ thread' \in [Proc -> Thread]
      /\ \A q \in Proc : \/ thread'[q] = thread[q]
                         \/ thread[q].at = "user" /\ thread'[q].at \in {"ret", "exit"}
  <2>1. CASE cpu[c].at = "switched" /\ thread[cpu[c].proc].at = "user"
    <3>1. At("ret") \in Thread /\ At("ret").at = "ret"
      <4>1. Initproc \in Proc /\ 0 \in Nat
        OBVIOUS
      <4> QED
        BY <4>1, LocalsType, AtPlace, Zenon DEF Location
    <3>2. thread' = [thread EXCEPT ![cpu[c].proc] = At("ret")]
      BY <2>1 DEF ClockEndFCFS, Finish
    <3> QED
      BY <1>1, <1>3, <2>1, <3>1, <3>2
  <2>2. CASE ~ (cpu[c].at = "switched" /\ thread[cpu[c].proc].at = "user")
    BY <1>1, <2>2 DEF ClockEndFCFS
  <2> QED
    BY <2>1, <2>2
<1>6. \A l \in Lock : lock[l] = c <=> l = TicksLock
  BY <1>3 DEF IInv, LocksInv, Holds, ThreadHolds, Preemptible, HoldsOwn, HoldsWait, HoldsTicks, Exiting
<1>7. /\ lock' \in [Lock -> CPU \union {NoCPU}]
      /\ \A l \in Lock : /\ lock'[l] # c
                         /\ \A d \in CPU \ {c} : lock'[l] = d <=> lock[l] = d
  BY <1>1, <1>2, <1>6
<1>8. \A l \in Lock : ~ Holds(c, l)'
  <2>1. cpu[c].at = "switched" => thread'[cpu[c].proc].at \in Preemptible
    BY <1>3, <1>5 DEF Preemptible
  <2> QED
    BY <1>3, <1>4, <2>1 DEF Holds, ThreadHolds, Preemptible, HoldsOwn, HoldsWait, HoldsTicks, Exiting
<1>9. /\ lock' \in [Lock -> CPU \union {NoCPU}]
      /\ \A l \in Lock : /\ lock'[l] = c <=> Holds(c, l)'
                         /\ \A d \in CPU \ {c} : lock'[l] = d <=> lock[l] = d
  BY <1>7, <1>8
<1>10. cpu'[c].at \notin {"scan", "back"} /\ cpu'[c].irq \notin Proc
  BY <1>3, <1>4
<1> QED
  BY <1>2, <1>3, <1>4, <1>5, <1>9, <1>10, CoreStep, Zenon

-----------------------------------------------------------------------------
(* Together                                                                *)

LEMMA NextIInvFCFS == IInv /\ [NextFCFS]_vars => IInv'
<1> SUFFICES ASSUME IInv, [NextFCFS]_vars
             PROVE  IInv'
  OBVIOUS
<1>1. CASE UNCHANGED vars
  BY <1>1, StutterIInv
<1>2. ASSUME NEW c \in CPU, SchedulerStepFCFS(c)
      PROVE  IInv'
  BY <1>2, ScanBeginIInvFCFS, ScanIInvFCFS, DispatchIInv, IdleIInv, SwitchBackIInvFCFS DEF SchedulerStepFCFS
<1>3. ASSUME NEW c \in CPU, ClockBegin(c) \/ ClockWake(c) \/ ClockEndFCFS(c)
      PROVE  IInv'
  BY <1>3, ClockBeginIInv, ClockWakeIInv, ClockEndIInvFCFS
<1>4. ASSUME NEW c \in CPU, NEW p \in Proc, ProcStep(c, p)
      PROVE  IInv'
  BY <1>4, ProcStepIInv
<1> QED
  BY <1>1, <1>2, <1>3, <1>4 DEF NextFCFS

LEMMA SpecIInvFCFS == SpecFCFS => []IInv
<1> QED
  BY InitIInv, NextIInvFCFS, PTL DEF SpecFCFS

(* proc.c: a process is RUNNING exactly while one CPU executes it, and no  *)
(* two CPUs are ever on one kernel stack.                                  *)
THEOREM AlwaysRunsOnceFCFS == SpecFCFS => []RunsOnce
<1>1. IInv => RunsOnce
  BY DEF IInv
<1> QED
  BY <1>1, SpecIInvFCFS, PTL

(* spinlock.c and sched() of proc.c: locks are taken in the order          *)
(* wait_lock or tickslock, then the slots of the table upwards, so no CPU  *)
(* acquires a lock it holds; a lock that was taken in an earlier step is   *)
(* given back by the CPU that holds it; a thread enters the scheduler with *)
(* exactly its own lock; no CPU holds a lock where the scheduler or the    *)
(* return to user space turns interrupts on; and every variable keeps its  *)
(* type.                                                                   *)
THEOREM AlwaysLockDisciplineFCFS == SpecFCFS => []LockDiscipline
<1> QED
  BY Ordered, SpecIInvFCFS, PTL

(* proc.c and sysproc.c: no process stays asleep in kwait beside a zombie  *)
(* child, or in sys_pause when its time is over.                           *)
THEOREM AlwaysNoLostWakeupFCFS == SpecFCFS => []NoLostWakeup
<1> QED
  BY WakeupsArrive, SpecIInvFCFS, PTL

(* kexit and kfork: every process but init has a living parent.            *)
THEOREM AlwaysParentLivesFCFS == SpecFCFS => []ParentLives
<1> QED
  BY SomeoneReaps, SpecIInvFCFS, PTL

-----------------------------------------------------------------------------
(* Who is killed                                                           *)

(* The scheduler marks nobody, and neither does the end of the clock.      *)
LEMMA SchedulerKillInvFCFS ==
  ASSUME IInv, KillInv, NEW c \in CPU, SchedulerStepFCFS(c) \/ ClockEndFCFS(c)
  PROVE  KillInv'
<1>1. proc \in [Proc -> Slot] /\ thread \in [Proc -> Thread]
  BY Typed DEF IInv
<1>2. \A q \in Proc : /\ proc'[q].state = "UNUSED" => proc[q].state = "UNUSED"
                      /\ proc'[q].pid = proc[q].pid
                      /\ proc'[q].killed => proc[q].killed
  <2>1. CASE proc' = proc
    BY <2>1
  <2>2. CASE \E s : proc' = [proc EXCEPT ![s].state = "RUNNING"]
    BY <1>1, <2>2 DEF Slot
  <2> QED
    BY <2>1, <2>2
       DEF SchedulerStepFCFS, ScanBeginFCFS, ScanFCFS, Dispatch, Idle, SwitchBackFCFS, ClockEndFCFS
<1>3. CASE thread' = thread
  <2>1. \A q \in Proc : KillSame(q)
    BY <1>2, <1>3 DEF KillSame, Place
  <2> QED
    BY <2>1, KillKept DEF KillInv
<1>4. CASE \E p \in Proc : Finish(p, "ret")
  <2>1. PICK p \in Proc : Finish(p, "ret")
    BY <1>4
  <2>2. /\ thread'[p].at \notin {"kill_scan", "yielded"}
        /\ \A q \in Proc \ {p} : thread'[q] = thread[q]
    BY <2>1, Moves
  <2> QED
    BY <1>2, <2>2, KillKeptAt
<1>5. ASSUME ClockEndFCFS(c), cpu[c].at = "switched"
      PROVE  cpu[c].proc \in Proc
  BY <1>5, Typed DEF IInv, CpuInv, Core
<1> QED
  BY <1>3, <1>4, <1>5
     DEF SchedulerStepFCFS, ScanBeginFCFS, ScanFCFS, Dispatch, Idle, SwitchBackFCFS, ClockEndFCFS

(* kkill: when no program faults and none kills pid 0, that of a free slot,*)
(* kill marks the process it names and no other that takes the slot later. *)
THEOREM AlwaysKillHitsPidFCFS ==
  ASSUME "fault" \notin Syscalls, 0 \notin KillTargets
  PROVE  SpecFCFS => []KillHitsPid
<1>1. IInv /\ KillInv /\ [NextFCFS]_vars => KillInv'
  <2> SUFFICES ASSUME IInv, KillInv, [NextFCFS]_vars
               PROVE  KillInv'
    OBVIOUS
  <2>1. CASE UNCHANGED vars
    <3>1. \A q \in Proc : KillSame(q)
      BY <2>1 DEF vars, KillSame, Place
    <3> QED
      BY <3>1, KillKept DEF KillInv
  <2>2. ASSUME NEW c \in CPU, SchedulerStepFCFS(c) \/ ClockBegin(c) \/ ClockWake(c) \/ ClockEndFCFS(c)
        PROVE  KillInv'
    BY <2>2, SchedulerKillInvFCFS, ClockKillInv
  <2>3. ASSUME NEW c \in CPU, NEW p \in Proc, ProcStep(c, p)
        PROVE  KillInv'
    BY <2>3, ProcStepKillInv
  <2> QED
    BY <2>1, <2>2, <2>3 DEF NextFCFS
<1> QED
  BY <1>1, InitKillInv, KillTheNamed, SpecIInvFCFS, PTL DEF SpecFCFS

-----------------------------------------------------------------------------
(* First come, first served, on one CPU                                    *)

(* A scan starts at the first slot, and the process selected came first    *)
(* among the slots looked at.                                              *)
ScanInv ==
  \A c \in CPU :
    /\ cpu[c].at = "loop" => cpu[c].i = 1
    /\ cpu[c].at = "scan" =>
         \A p \in Proc : p < cpu[c].i /\ proc[p].state = "RUNNABLE" =>
           /\ cpu[c].selected # None
           /\ proc[cpu[c].selected].arrival_time <= proc[p].arrival_time

LEMMA ScanScanInv ==
  ASSUME IInv, ScanInv, CPU = {CPU0}, ScanFCFS(CPU0)
  PROVE  ScanInv'
<1>1. PICK s : s = cpu[CPU0].i
  OBVIOUS
<1>2. PICK selected : selected = cpu[CPU0].selected
  OBVIOUS
<1>3. /\ cpu \in [CPU -> Core] /\ proc \in [Proc -> Slot] /\ proc' = proc
      /\ cpu[CPU0].at = "scan" /\ s \in 1..End /\ s # End
      /\ selected \in Proc \union {None}
  BY <1>1, <1>2, Typed DEF IInv, Core, ScanFCFS
<1>4. s \in Proc /\ \A p \in Proc : p < s + 1 <=> p < s \/ p = s
  BY <1>3
<1>5. \A p \in Proc : proc[p].arrival_time \in Nat
  BY <1>3 DEF Slot
<1>6. \A p \in Proc : p < s /\ proc[p].state = "RUNNABLE" =>
        selected # None /\ proc[selected].arrival_time <= proc[p].arrival_time
  BY <1>1, <1>2, <1>3 DEF ScanInv
<1>7. CASE Better(CPU0, s) /\ cpu' = [cpu EXCEPT ![CPU0].i = s + 1, ![CPU0].selected = s]
  <2>1. cpu'[CPU0].i = s + 1 /\ cpu'[CPU0].selected = s /\ cpu'[CPU0].at = "scan"
    BY <1>3, <1>7 DEF Core
  <2>2. selected # None => proc[s].arrival_time < proc[selected].arrival_time
    BY <1>2, <1>7 DEF Better
  <2>3. \A p \in Proc : p < s + 1 /\ proc[p].state = "RUNNABLE" =>
          proc[s].arrival_time <= proc[p].arrival_time
    BY <1>3, <1>4, <1>5, <1>6, <2>2
  <2> QED
    BY <1>3, <1>4, <2>1, <2>3 DEF ScanInv
<1>8. CASE ~ Better(CPU0, s) /\ cpu' = [cpu EXCEPT ![CPU0].i = s + 1]
  <2>1. cpu'[CPU0].i = s + 1 /\ cpu'[CPU0].selected = selected /\ cpu'[CPU0].at = "scan"
    BY <1>2, <1>3, <1>8 DEF Core
  <2>2. proc[s].state = "RUNNABLE" =>
          selected # None /\ ~ (proc[s].arrival_time < proc[selected].arrival_time)
    BY <1>2, <1>8 DEF Better
  <2>3. \A p \in Proc : p < s + 1 /\ proc[p].state = "RUNNABLE" =>
          selected # None /\ proc[selected].arrival_time <= proc[p].arrival_time
    BY <1>3, <1>4, <1>5, <1>6, <2>2
  <2> QED
    BY <1>3, <2>1, <2>3 DEF ScanInv
<1> QED
  BY <1>1, <1>7, <1>8 DEF ScanFCFS

LEMMA NextScanInv == CPU = {CPU0} /\ IInv /\ ScanInv /\ [NextFCFS]_vars => ScanInv'
<1> SUFFICES ASSUME CPU = {CPU0}, IInv, ScanInv, [NextFCFS]_vars
             PROVE  ScanInv'
  OBVIOUS
<1>0. cpu \in [CPU -> Core]
  BY Typed DEF IInv
<1>1. ASSUME cpu'[CPU0].at = cpu[CPU0].at, cpu'[CPU0].i = cpu[CPU0].i, cpu[CPU0].at # "scan"
      PROVE  ScanInv'
  BY <1>1 DEF ScanInv
<1>2. ASSUME cpu'[CPU0].at \in {"switched", "back"}
      PROVE  ScanInv'
  BY <1>2 DEF ScanInv
<1>3. CASE UNCHANGED vars
  BY <1>3 DEF vars, ScanInv
<1>4. CASE ScanBeginFCFS(CPU0)
  <2>1. cpu'[CPU0].at = "scan" /\ cpu'[CPU0].i = 1
    BY <1>0, <1>4 DEF ScanBeginFCFS, Core, ScanInv
  <2>2. \A p \in Proc : ~ (p < 1)
    OBVIOUS
  <2> QED
    BY <2>1, <2>2 DEF ScanInv
<1>5. CASE Idle(CPU0) \/ SwitchBackFCFS(CPU0)
  BY <1>0, <1>5 DEF Idle, SwitchBackFCFS, Looping, ScanInv
<1>6. CASE Dispatch(CPU0)
  BY <1>0, <1>2, <1>6 DEF Dispatch, Core
<1>7. CASE ClockBegin(CPU0) \/ ClockWake(CPU0) \/ ClockEndFCFS(CPU0)
  <2>1. cpu[CPU0].at \in {"loop", "switched"}
    BY <1>7 DEF ClockBegin, Interruptible, ClockWake, ClockEndFCFS, IInv, CpuInv
  <2>2. cpu'[CPU0].at = cpu[CPU0].at /\ cpu'[CPU0].i = cpu[CPU0].i
    BY <1>0, <1>7 DEF ClockBegin, ClockWake, ClockEndFCFS, Core
  <2> QED
    BY <1>1, <2>1, <2>2
<1>8. ASSUME NEW p \in Proc, ProcStep(CPU0, p)
      PROVE  ScanInv'
  <2>1. On(CPU0, p) /\ (cpu' = cpu \/ Sched(CPU0))
    BY <1>8, ProcStepCpu
  <2>2. cpu'[CPU0].at \in {"switched", "back"}
    BY <1>0, <2>1 DEF On, Sched, Core
  <2> QED
    BY <1>2, <2>2
<1> QED
  BY <1>3, <1>4, <1>5, <1>6, <1>7, <1>8, ScanScanInv DEF NextFCFS, SchedulerStepFCFS

(* scheduler() of xv6-riscv-modificado: on a machine with one CPU each     *)
(* dispatch takes a runnable process none arrived before.  (Another CPU    *)
(* could wake up a process in a slot the scan has passed.)                 *)
THEOREM AlwaysEarliestArrival ==
  ASSUME CPU = {CPU0}
  PROVE  SpecFCFS => EarliestArrival
<1>1. Init => ScanInv
  <2> SUFFICES ASSUME Init, NEW c \in CPU
               PROVE  cpu[c] = Looping
    BY DEF ScanInv, Looping
  <2> QED
    BY DEF Init
<1>2. IInv /\ ScanInv /\ [NextFCFS]_vars => ScanInv'
  BY NextScanInv
<1>3. IInv /\ ScanInv =>
        \A c \in CPU : Dispatch(c) =>
          \A p \in Proc : proc[p].state = "RUNNABLE" =>
            proc[cpu[c].selected].arrival_time <= proc[p].arrival_time
  BY DEF ScanInv, Dispatch
<1> QED
  BY <1>1, <1>2, <1>3, SpecIInvFCFS, PTL DEF SpecFCFS, EarliestArrival

-----------------------------------------------------------------------------
(* Round robin                                                             *)

(* What else holds of this scheduler's CPUs: while a process runs, i is its*)
(* slot; a scan selects nobody; only a running process yields.             *)
RoundAt(c) ==
  /\ cpu[c].at \in {"switched", "back"} => cpu[c].i # End
  /\ cpu[c].at = "scan" => cpu[c].selected = None
  /\ cpu[c].irq = Yielding => cpu[c].at = "switched"

RoundInv == \A c \in CPU : RoundAt(c)

-----------------------------------------------------------------------------
(* The scheduler's own steps                                               *)

LEMMA ScanBeginIInvRR ==
  ASSUME IInv, NEW c \in CPU, ScanBeginRR(c)
  PROVE  IInv'
<1>1. /\ cpu[c].at = "loop" /\ cpu[c].irq = 0
      /\ UNCHANGED <<proc, thread, lock, ticks, nextpid, shell>>
      /\ cpu[c].proc = None /\ cpu[c].selected = None
  BY DEF ScanBeginRR, IInv, CpuInv
<1>2. /\ cpu \in [CPU -> Core] /\ cpu[c] \in Core /\ thread \in [Proc -> Thread]
      /\ lock \in [Lock -> CPU \union {NoCPU}]
  BY Typed DEF IInv
<1>3. /\ cpu'[c] \in Core /\ cpu' = [cpu EXCEPT ![c] = cpu'[c]]
      /\ cpu'[c].at = "scan" /\ cpu'[c].irq = 0
      /\ cpu'[c].proc = None /\ cpu'[c].selected = None
  BY <1>1, <1>2, Zenon DEF ScanBeginRR, Core
<1>4. \A l \in Lock : lock'[l] = c <=> Holds(c, l)'
  <2>1. \A l \in Lock : ~ Holds(c, l) /\ ~ Holds(c, l)'
    BY <1>1, <1>3 DEF Holds
  <2> QED
    BY <1>1, <2>1 DEF IInv, LocksInv
<1> QED
  BY <1>1, <1>2, <1>3, <1>4, CoreStep

(* The scheduler goes on with slot i, or at the head of its loop, with no  *)
(* lock held.                                                              *)
LEMMA LoopingIInvRR ==
  ASSUME IInv, NEW c \in CPU, cpu[c].at \in {"scan", "back"}, NEW k \in Core,
         k.at \in {"loop", "scan"}, k.irq = 0, k.proc = None, k.selected = None,
         cpu' = [cpu EXCEPT ![c] = k],
         UNCHANGED <<proc, thread, ticks, nextpid, shell>>,
         lock' \in [Lock -> CPU \union {NoCPU}],
         \A l \in Lock : /\ lock'[l] # c
                         /\ \A d \in CPU \ {c} : lock'[l] = d <=> lock[l] = d
  PROVE  IInv'
<1>1. thread \in [Proc -> Thread] /\ cpu[c].irq = 0 /\ cpu \in [CPU -> Core]
  BY Typed DEF IInv, CpuInv
<1>2. cpu'[c] = k /\ cpu' = [cpu EXCEPT ![c] = cpu'[c]]
  BY <1>1
<1>3. \A l \in Lock : ~ Holds(c, l)'
  BY <1>2 DEF Holds
<1>4. /\ thread' \in [Proc -> Thread] /\ \A q \in Proc : thread'[q] = thread[q]
      /\ \A l \in Lock : /\ lock'[l] = c <=> Holds(c, l)'
                         /\ \A d \in CPU \ {c} : lock'[l] = d <=> lock[l] = d
  BY <1>1, <1>3
<1>5. /\ cpu'[c] \in Core /\ cpu'[c].irq = 0
      /\ cpu[c].at # "switched" /\ cpu'[c].at \notin {"switched", "back"}
      /\ cpu[c].irq \notin Proc /\ cpu'[c].irq \notin Proc
      /\ cpu'[c].proc = None /\ cpu'[c].selected = None
  BY <1>1, <1>2
<1> QED
  BY <1>2, <1>4, <1>5, CoreStep, Zenon

LEMMA ScanIInvRR ==
  ASSUME IInv, RoundInv, NEW c \in CPU, ScanRR(c)
  PROVE  IInv'
<1>0. PICK s : s = cpu[c].i
  OBVIOUS
<1>1. /\ cpu \in [CPU -> Core] /\ cpu[c] \in Core /\ thread \in [Proc -> Thread]
      /\ lock \in [Lock -> CPU \union {NoCPU}]
  BY Typed DEF IInv
<1>2. /\ cpu[c].at = "scan" /\ s # End /\ lock[s] = NoCPU
      /\ UNCHANGED <<thread, ticks, nextpid, shell>>
  BY <1>0 DEF ScanRR
<1>3. cpu[c].irq = 0 /\ cpu[c].proc = None /\ cpu[c].selected = None
  BY <1>2 DEF IInv, CpuInv, RoundInv, RoundAt
<1>4. s \in 1..End
  BY <1>0, <1>1 DEF Core
<1>5. s \in Proc /\ s + 1 \in 1..End
  BY <1>2, <1>4
<1>6. \A l \in Lock : lock[l] # c
  BY <1>2, <1>3 DEF IInv, LocksInv, Holds
<1>7. CASE /\ proc[s].state = "RUNNABLE"
           /\ lock' = [lock EXCEPT ![s] = c]
           /\ proc' = [proc EXCEPT ![s].state = "RUNNING"]
           /\ cpu' = [cpu EXCEPT ![c].at = "switched", ![c].selected = s, ![c].proc = s]
  <2>1. /\ cpu'[c] \in Core /\ cpu' = [cpu EXCEPT ![c] = cpu'[c]]
        /\ cpu'[c].at = "switched" /\ cpu'[c].irq = cpu[c].irq
        /\ cpu'[c].proc = s /\ cpu'[c].selected = s
    BY <1>1, <1>5, <1>7, Zenon DEF Core
  <2>2. /\ lock' \in [Lock -> CPU \union {NoCPU}]
        /\ \A l \in Lock : /\ lock'[l] = c <=> l = s
                           /\ \A d \in CPU \ {c} : lock'[l] = d <=> lock[l] = d
    BY <1>1, <1>2, <1>5, <1>6, <1>7
  <2> QED
    BY <1>2, <1>5, <1>7, <2>1, <2>2, SwitchOn, Zenon
<1>8. CASE cpu' = [cpu EXCEPT ![c].i = s + 1] /\ UNCHANGED <<proc, lock>>
  <2>1. /\ cpu'[c] \in Core /\ cpu' = [cpu EXCEPT ![c] = cpu'[c]]
        /\ cpu'[c].at = "scan" /\ cpu'[c].irq = 0
        /\ cpu'[c].proc = None /\ cpu'[c].selected = None
    BY <1>1, <1>2, <1>3, <1>5, <1>8, Zenon DEF Core
  <2>2. /\ lock' \in [Lock -> CPU \union {NoCPU}]
        /\ \A l \in Lock : /\ lock'[l] # c
                           /\ \A d \in CPU \ {c} : lock'[l] = d <=> lock[l] = d
    BY <1>1, <1>6, <1>8
  <2> QED
    BY <1>2, <1>8, <2>1, <2>2, LoopingIInvRR, Zenon
<1> QED
  BY <1>0, <1>7, <1>8 DEF ScanRR

(* A CPU at the head of the loop, or at slot n of a new scan.              *)
LEMMA LoopingCore ==
  ASSUME NEW n \in 1..End, NEW l \in {"loop", "scan"}
  PROVE  /\ Looping \in Core /\ [Looping EXCEPT !.at = l, !.i = n] \in Core
         /\ Looping.at = "loop" /\ Looping.irq = 0
         /\ Looping.proc = None /\ Looping.selected = None
<1>1. 1 \in 1..End /\ 0 \in 0..NPROC + 2 /\ None \in Proc \union {None}
  OBVIOUS
<1> QED
  BY <1>1, Zenon DEF Looping, Core

LEMMA ScanEndIInv ==
  ASSUME IInv, RoundInv, NEW c \in CPU, ScanEnd(c)
  PROVE  IInv'
<1>1. /\ cpu[c].at = "scan" /\ cpu[c].selected = None /\ cpu[c].irq = 0
      /\ lock \in [Lock -> CPU \union {NoCPU}]
  BY Typed DEF IInv, CpuInv, RoundInv, RoundAt, ScanEnd
<1>2. \A l \in Lock : lock[l] # c
  BY <1>1 DEF IInv, LocksInv, Holds
<1>3. 1 \in 1..End
  OBVIOUS
<1> QED
  BY <1>1, <1>2, <1>3, LoopingCore, LoopingIInvRR, Zenon DEF ScanEnd

LEMMA SwitchBackIInvRR ==
  ASSUME IInv, RoundInv, NEW c \in CPU, SwitchBackRR(c)
  PROVE  IInv'
<1>1. /\ cpu[c].at = "back" /\ cpu[c].irq = 0 /\ cpu[c].selected \in Proc
      /\ lock \in [Lock -> CPU \union {NoCPU}]
      /\ lock' = [lock EXCEPT ![cpu[c].selected] = NoCPU]
  BY Typed, Zenon DEF IInv, CpuInv, Core, SwitchBackRR, Release
<1>2. \A l \in Lock : lock[l] = c <=> l = cpu[c].selected
  BY <1>1 DEF IInv, LocksInv, Holds
<1>3. /\ lock' \in [Lock -> CPU \union {NoCPU}]
      /\ \A l \in Lock : /\ lock'[l] # c
                         /\ \A d \in CPU \ {c} : lock'[l] = d <=> lock[l] = d
  BY <1>1, <1>2
<1>4. cpu[c].i \in 1..End /\ cpu[c].i # End
  BY <1>1, Typed DEF IInv, Core, RoundInv, RoundAt
<1>5. cpu[c].i + 1 \in 1..End
  BY <1>4
<1>6. PICK k \in Core : k = [Looping EXCEPT !.at = "scan", !.i = cpu[c].i + 1]
  BY <1>5, LoopingCore, Zenon
<1>7. k.at = "scan" /\ k.irq = 0 /\ k.proc = None /\ k.selected = None
  BY <1>6 DEF Looping
<1> QED
  <2>1. /\ cpu' = [cpu EXCEPT ![c] = k] /\ k.at \in {"loop", "scan"}
        /\ UNCHANGED <<proc, thread, ticks, nextpid, shell>>
    BY <1>6, <1>7 DEF SwitchBackRR
  <2> QED
    BY <1>1, <1>3, <1>7, <2>1, LoopingIInvRR, Zenon

-----------------------------------------------------------------------------
(* The timer                                                               *)

(* Interrupts of CPU c begin or end while its thread and its scheduler     *)
(* hold no lock.                                                           *)
LEMMA InterruptIInv ==
  ASSUME IInv, NEW c \in CPU, NEW n \in {0, Yielding}, NEW p, p = cpu[c].proc,
         cpu[c].irq \notin Proc, cpu[c].at \in {"loop", "switched"},
         cpu[c].at = "switched" => thread[p].at \in Preemptible,
         cpu' = [cpu EXCEPT ![c].irq = n],
         \/ UNCHANGED thread
         \/ /\ cpu[c].at = "switched" /\ thread[p].at = "user"
            /\ Finish(p, "exit") /\ n = 0,
         lock' \in [Lock -> CPU \union {NoCPU}],
         \A l \in Lock : /\ lock'[l] # c
                         /\ \A d \in CPU \ {c} : lock'[l] = d <=> lock[l] = d,
         UNCHANGED <<proc, ticks, nextpid, shell>>
  PROVE  IInv'
<1>1. /\ cpu \in [CPU -> Core] /\ cpu[c] \in Core /\ thread \in [Proc -> Thread]
      /\ cpu[c].proc \in Proc \union {None}
  BY Typed, Zenon DEF IInv, Core
<1>2. /\ cpu[c].at = "loop" => cpu[c].proc = None /\ cpu[c].selected = None
      /\ cpu[c].at = "switched" => p \in Proc
  BY <1>1 DEF IInv, CpuInv
<1>3. n \in 0..NPROC + 2 /\ n \notin 1..End /\ n \notin Proc
  OBVIOUS
<1>4. /\ cpu'[c] \in Core /\ cpu' = [cpu EXCEPT ![c] = cpu'[c]]
      /\ cpu'[c].at = cpu[c].at /\ cpu'[c].irq = n
      /\ cpu'[c].proc = p /\ cpu'[c].selected = cpu[c].selected
  <2>1. PICK k \in Core : k = [cpu[c] EXCEPT !.irq = n]
    BY <1>1, <1>3, CoreMoves, Zenon
  <2>2. cpu'[c] = k /\ cpu' = [cpu EXCEPT ![c] = k]
    BY <1>1, <2>1
  <2>3. k.at = cpu[c].at /\ k.irq = n /\ k.proc = cpu[c].proc /\ k.selected = cpu[c].selected
    BY <1>1, <2>1 DEF Core
  <2> QED
    BY <2>2, <2>3, Zenon
<1>5. /\ thread' \in [Proc -> Thread]
      /\ \A q \in Proc : \/ thread'[q] = thread[q]
                         \/ thread[q].at = "user" /\ thread'[q].at \in {"ret", "exit"}
      /\ cpu[c].at = "switched" => thread'[p].at \in Preemptible
  <2>1. CASE UNCHANGED thread
    BY <1>1, <2>1
  <2>2. CASE cpu[c].at = "switched" /\ thread[p].at = "user" /\ Finish(p, "exit")
    <3>1. At("exit") \in Thread /\ At("exit").at = "exit"
      <4>1. Initproc \in Proc /\ 0 \in Nat
        OBVIOUS
      <4> QED
        BY <4>1, LocalsType, AtPlace, Zenon DEF Location
    <3>2. thread' = [thread EXCEPT ![p] = At("exit")]
      BY <2>2 DEF Finish
    <3> QED
      BY <1>1, <1>2, <2>2, <3>1, <3>2 DEF Preemptible
  <2> QED
    BY <2>1, <2>2
<1>6. \A l \in Lock : ~ Holds(c, l)'
  BY <1>3, <1>4, <1>5, Zenon
     DEF Holds, ThreadHolds, Preemptible, HoldsOwn, HoldsWait, HoldsTicks, Exiting
<1>7. \A l \in Lock : /\ lock'[l] = c <=> Holds(c, l)'
                      /\ \A d \in CPU \ {c} : lock'[l] = d <=> lock[l] = d
  BY <1>6
<1>8. cpu'[c].at \notin {"scan", "back"} /\ cpu'[c].irq \notin Proc
  BY <1>3, <1>4
<1> QED
  BY <1>2, <1>4, <1>5, <1>7, <1>8, CoreStep, Zenon

LEMMA ClockEndIInvRR ==
  ASSUME IInv, NEW c \in CPU, ClockEndRR(c)
  PROVE  IInv'
<1>1. /\ lock \in [Lock -> CPU \union {NoCPU}] /\ cpu[c].irq = End
      /\ lock' = [lock EXCEPT ![TicksLock] = NoCPU]
      /\ UNCHANGED <<proc, thread, ticks, nextpid, shell>>
  BY Typed DEF IInv, ClockEndRR, Release
<1>2. PICK n \in {0, Yielding} : n = AfterClock(c)
  BY DEF AfterClock
<1>3. /\ cpu[c].at \in {"loop", "switched"} /\ cpu[c].irq \in 1..End /\ cpu[c].irq \notin Proc
      /\ cpu[c].at = "switched" => thread[cpu[c].proc].at \in Preemptible
  BY <1>1 DEF IInv, CpuInv
<1>4. \A l \in Lock : lock[l] = c <=> l = TicksLock
  BY <1>3
     DEF IInv, LocksInv, Holds, ThreadHolds, Preemptible, HoldsOwn, HoldsWait, HoldsTicks, Exiting
<1>5. /\ lock' \in [Lock -> CPU \union {NoCPU}]
      /\ \A l \in Lock : /\ lock'[l] # c
                         /\ \A d \in CPU \ {c} : lock'[l] = d <=> lock[l] = d
  BY <1>1, <1>4
<1>6. cpu' = [cpu EXCEPT ![c].irq = n]
  BY <1>2 DEF ClockEndRR
<1> QED
  BY <1>1, <1>3, <1>5, <1>6, InterruptIInv, Zenon

LEMMA TimerBeginIInv ==
  ASSUME IInv, NEW c \in CPU, TimerBegin(c)
  PROVE  IInv'
<1>1. /\ lock \in [Lock -> CPU \union {NoCPU}] /\ cpu[c].irq = 0
      /\ cpu[c].at \in {"loop", "switched"}
      /\ cpu' = [cpu EXCEPT ![c].irq = Yielding]
      /\ UNCHANGED <<proc, thread, lock, ticks, nextpid, shell>>
  BY Typed DEF IInv, TimerBegin, Interruptible
<1>2. /\ \A l \in Lock : ~ Holds(c, l)
      /\ cpu[c].at = "switched" => thread[cpu[c].proc].at \in Preemptible
  BY HoldsNothing DEF TimerBegin
<1>3. \A l \in Lock : lock[l] # c
  BY <1>2 DEF IInv, LocksInv
<1>4. cpu[c].irq \notin Proc
  BY <1>1
<1> QED
  BY <1>1, <1>2, <1>3, <1>4, InterruptIInv, Zenon

-----------------------------------------------------------------------------
(* yield                                                                   *)

(* The locals of a thread that yields or goes on.                          *)
LEMMA YieldLocals ==
  ASSUME NEW t \in Thread, NEW l \in Location, NEW r \in Location
  PROVE  [t EXCEPT !.at = l, !.resume = r] \in Thread
BY Zenon DEF Thread

LEMMA YieldIInv ==
  ASSUME IInv, RoundInv, NEW c \in CPU, Yield(c)
  PROVE  IInv'
<1>1. PICK p : p = cpu[c].proc
  OBVIOUS
<1>2. /\ cpu[c].irq = Yielding /\ cpu[c].at = "switched" /\ cpu[c].selected = p
      /\ cpu[c].proc = p /\ p \in Proc /\ lock[p] = NoCPU
      /\ thread[p].at \in Preemptible /\ proc[p].state = "RUNNING"
      /\ UNCHANGED <<ticks, nextpid, shell>>
  <2>1. cpu[c].irq = Yielding /\ cpu[c].at = "switched" /\ cpu[c].irq # 0
    BY DEF Yield, RoundInv, RoundAt
  <2>2. p \in Proc /\ cpu[c].selected = p /\ thread[p].at \in Preemptible
    BY <1>1, <2>1, Typed DEF IInv, CpuInv, Core
  <2>3. proc[p].state = "RUNNING"
    BY <1>1, <2>1, <2>2 DEF IInv, RunsOnce
  <2> QED
    BY <1>1, <2>1, <2>2, <2>3 DEF Yield
<1>3. lock \in [Lock -> CPU \union {NoCPU}] /\ \A l \in Lock : lock[l] # c
  <2>1. cpu[c].irq \notin 1..End
    BY <1>2
  <2>2. \A l \in Lock : ~ Holds(c, l)
    BY <1>2, <2>1
       DEF Holds, ThreadHolds, Preemptible, HoldsOwn, HoldsWait, HoldsTicks, Exiting
  <2> QED
    BY <2>2, Typed DEF IInv, LocksInv
<1>4. CASE /\ thread[p].at = "user" /\ Finish(p, "exit")
           /\ cpu' = [cpu EXCEPT ![c].irq = 0]
           /\ UNCHANGED <<proc, lock>>
  <2>1. cpu[c].irq \notin Proc
    BY <1>2
  <2> QED
    BY <1>2, <1>3, <1>4, <2>1, InterruptIInv, Zenon
<1>5. CASE /\ lock' = [lock EXCEPT ![p] = c]
           /\ proc' = [proc EXCEPT ![p].state = "RUNNABLE"]
           /\ thread' = [thread EXCEPT ![p].at = "yielded", ![p].resume = thread[p].at]
           /\ cpu' = [cpu EXCEPT ![c].irq = 0, ![c].at = "back"]
  <2>1. PICK x \in Slot : x = [proc[p] EXCEPT !.state = "RUNNABLE"]
    <3>1. proc[p] \in Slot /\ "RUNNABLE" \in State /\ 0 \in Nat /\ p \in Proc
      BY <1>2, Typed DEF IInv, State
    <3> QED
      BY <3>1, SlotMoves, Zenon
  <2>2. x.state = "RUNNABLE" /\ x.parent = proc[p].parent /\ x.chan = proc[p].chan
    BY <1>2, <2>1, Typed DEF IInv, Slot
  <2>3. /\ proc'[p] = x /\ \A q \in Proc \ {p} : proc'[q] = proc[q]
        /\ proc' \in [Proc -> Slot]
    BY <1>2, <1>5, <2>1, Typed DEF IInv
  <2>4. PICK t \in Thread : t = [thread[p] EXCEPT !.at = "yielded", !.resume = thread[p].at]
    <3>1. thread[p] \in Thread /\ thread[p].at \in Location /\ "yielded" \in Location
      BY <1>2, Typed DEF IInv, Preemptible, Location
    <3> QED
      BY <3>1, YieldLocals, Zenon
  <2>5. t.at = "yielded" /\ t.resume = thread[p].at /\ t.np = thread[p].np /\ t.arg = thread[p].arg
    BY <1>2, <2>4, Typed DEF IInv, Thread
  <2>6. /\ thread'[p] = t /\ \A q \in Proc \ {p} : thread'[q] = thread[q]
        /\ thread' \in [Proc -> Thread]
    BY <1>2, <1>5, <2>4, Typed, Zenon DEF IInv
  <2>7. PICK k \in Core : k = [cpu[c] EXCEPT !.irq = 0, !.at = "back"]
    <3>1. cpu[c] \in Core /\ 0 \in 0..NPROC + 2
      BY Typed DEF IInv
    <3> QED
      BY <3>1, CoreMoves, Zenon
  <2>8. k.at = "back" /\ k.irq = 0 /\ k.proc = p /\ k.selected = p
    BY <1>2, <2>7, Typed DEF IInv, Core
  <2>9. /\ cpu'[c] = k /\ \A d \in CPU \ {c} : cpu'[d] = cpu[d]
        /\ cpu' \in [CPU -> Core]
    BY <1>5, <2>7, Typed DEF IInv
  <2>10. /\ lock' \in [Lock -> CPU \union {NoCPU}]
         /\ \A l \in Lock : /\ lock'[l] = c <=> l = p
                            /\ \A d \in CPU \ {c} : lock'[l] = d <=> lock[l] = d
    BY <1>2, <1>3, <1>5
  <2>11. TypeOK'
    BY <1>2, <2>3, <2>6, <2>9, <2>10, Typed, Retyped, Zenon DEF IInv
  <2>12. CpuInv' /\ RunsOnce' /\ LocksInv'
    <3>1. /\ \A q \in Proc \ {p} : proc'[q].state = proc[q].state /\ thread'[q] = thread[q]
          /\ proc'[p].state \notin {"UNUSED", "USED", "RUNNING"}
      BY <2>2, <2>3, <2>6
    <3> QED
      BY <1>2, <2>8, <2>9, <2>10, <3>1, SwitchOff
  <2>13. StateInv'
    BY <1>2, <2>2, <2>3, <2>5, <2>6 DEF IInv, StateInv, HoldsOwn
  <2>14. ForkInv'
    <3> SUFFICES ASSUME NEW q \in Proc, Forking(q)'
                 PROVE  /\ Forking(q) /\ thread'[q].np = thread[q].np
                        /\ proc'[thread[q].np].state = "USED"
                        /\ thread'[thread[q].np].at =
                             IF Place(q)' = "fork_build" THEN "none" ELSE "forkret"
                        /\ Place(q)' = "fork_ready" => proc'[thread[q].np].parent = q
      BY ForkKept
    <3>1. thread[p].at # "yielded"
      BY <1>2 DEF Preemptible
    <3>2. Place(q)' = Place(q) /\ thread'[q].np = thread[q].np
      BY <2>5, <2>6, <3>1 DEF Place
    <3>3. Forking(q)
      BY <3>2 DEF Forking
    <3>4. thread[q].np \in Proc \ {p}
      BY <1>2, <3>3 DEF IInv, ForkInv
    <3> QED
      BY <2>3, <2>6, <3>2, <3>3, <3>4 DEF IInv, ForkInv
  <2>15. ParentInv' /\ WaitInv'
    <3>1. \A q \in Proc : Quiet(q)
      BY <1>2, <2>2, <2>3, <2>5, <2>6
         DEF Quiet, Alive, Preemptible, HoldsWait, HoldsTicks, Exiting
    <3> QED
      BY <3>1, QuietStep
  <2>16. TickInv'
    <3> SUFFICES ASSUME NEW q \in Proc
                 PROVE  /\ thread'[q].at = "pause_sleep" => Elapsed(q)' < PauseTicks
                        /\ proc'[q].state = "SLEEPING" /\ proc'[q].chan = TicksLock =>
                             Elapsed(q)' < PauseTicks \/ \E d \in CPU : cpu'[d].irq \in 1..q
      BY DEF TickInv
    <3>1. Elapsed(q)' = Elapsed(q)
      BY <1>2, <2>5, <2>6 DEF Elapsed
    <3>2. \A d \in CPU : cpu[d].irq \in 1..q => cpu'[d].irq = cpu[d].irq
      <4>1. Yielding \notin 1..q
        OBVIOUS
      <4> QED
        BY <1>2, <2>9, <4>1
    <3>3. CASE q = p
      BY <2>2, <2>3, <2>5, <2>6, <3>3
    <3>4. CASE q # p
      BY <2>3, <2>6, <3>1, <3>2, <3>4 DEF IInv, TickInv
    <3> QED
      BY <3>3, <3>4
  <2> QED
    BY <2>11, <2>12, <2>13, <2>14, <2>15, <2>16 DEF IInv
<1> QED
  BY <1>1, <1>4, <1>5 DEF Yield

LEMMA YieldReturnIInv ==
  ASSUME IInv, NEW c \in CPU, NEW p \in Proc, YieldReturn(c, p)
  PROVE  IInv'
<1>1. /\ On(c, p) /\ thread[p].at = "yielded" /\ Release(p)
      /\ UNCHANGED <<proc, cpu, ticks, nextpid, shell>>
  BY DEF YieldReturn
<1>2. /\ thread \in [Proc -> Thread] /\ proc[p].state = "RUNNING"
      /\ thread[p] \in Thread /\ thread[p].resume \in Preemptible
  BY <1>1, Typed, OnFacts DEF IInv, StateInv
<1>3. PICK t \in Thread : t = [thread[p] EXCEPT !.at = thread[p].resume, !.resume = "none"]
  <2>1. thread[p].resume \in Location /\ "none" \in Location
    BY <1>2 DEF Preemptible, Location
  <2> QED
    BY <1>2, <2>1, YieldLocals, Zenon
<1>4. t.at = thread[p].resume /\ t.np = thread[p].np /\ t.arg = thread[p].arg
  BY <1>2, <1>3 DEF Thread
<1>5. /\ thread'[p] = t /\ \A q \in Proc \ {p} : thread'[q] = thread[q]
      /\ thread' \in [Proc -> Thread]
  BY <1>2, <1>3 DEF YieldReturn
<1>6. LockStep(c, p, t)
  <2>1. \A l \in Lock : ThreadHolds(p, thread[p], l) <=> l = p
    BY <1>1 DEF ThreadHolds, HoldsOwn, HoldsWait, HoldsTicks, Exiting
  <2>2. \A l \in Lock : ~ ThreadHolds(p, t, l)
    BY <1>2, <1>4 DEF ThreadHolds, Preemptible, HoldsOwn, HoldsWait, HoldsTicks, Exiting
  <2> QED
    BY <1>1, <2>1, <2>2, LockSteps
<1>7. TypeOK'
  BY <1>1, <1>5, <1>6, Typed, Retyped DEF IInv, LockStep
<1>8. CpuInv' /\ RunsOnce' /\ LocksInv'
  BY <1>1, <1>5, <1>6, CpusKept
<1>9. StateInv'
  BY <1>1, <1>2, <1>4, <1>5 DEF IInv, StateInv, Active, Preemptible
<1>10. \A q \in Proc : Place(q)' = Place(q) /\ thread'[q].np = thread[q].np
  <2>1. t.at # "yielded"
    BY <1>2, <1>4 DEF Preemptible
  <2> QED
    BY <1>1, <1>4, <1>5, <2>1 DEF Place
<1>11. ForkInv'
  <2> SUFFICES ASSUME NEW q \in Proc, Forking(q)'
               PROVE  /\ Forking(q) /\ thread'[q].np = thread[q].np
                      /\ proc'[thread[q].np].state = "USED"
                      /\ thread'[thread[q].np].at =
                           IF Place(q)' = "fork_build" THEN "none" ELSE "forkret"
                      /\ Place(q)' = "fork_ready" => proc'[thread[q].np].parent = q
    BY ForkKept
  <2>1. Forking(q)
    BY <1>10 DEF Forking
  <2>2. thread[q].np \in Proc \ {p}
    BY <1>2, <2>1 DEF IInv, ForkInv
  <2> QED
    BY <1>1, <1>5, <1>10, <2>1, <2>2 DEF IInv, ForkInv
<1>12. ParentInv' /\ WaitInv' /\ TickInv'
  <2>1. \A q \in Proc : Quiet(q)
    BY <1>1, <1>2, <1>4, <1>5 DEF Quiet, Preemptible, HoldsWait, HoldsTicks, Exiting
  <2> QED
    BY <1>1, <2>1, QuietStep
<1> QED
  BY <1>7, <1>8, <1>9, <1>11, <1>12 DEF IInv

-----------------------------------------------------------------------------
(* Together                                                                *)

LEMMA RoundKept ==
  ASSUME RoundInv, NEW c \in CPU, \A d \in CPU \ {c} : cpu'[d] = cpu[d],
         cpu'[c].at \in {"switched", "back"} => cpu'[c].i # End,
         cpu'[c].at = "scan" => cpu'[c].selected = None,
         cpu'[c].irq = Yielding => cpu'[c].at = "switched"
  PROVE  RoundInv'
<1> SUFFICES ASSUME NEW d \in CPU
             PROVE  RoundAt(d)'
  BY DEF RoundInv
<1>1. CASE d = c
  BY <1>1 DEF RoundAt
<1>2. CASE d # c
  BY <1>2 DEF RoundInv, RoundAt
<1> QED
  BY <1>1, <1>2

LEMMA SchedulerRoundInv ==
  ASSUME IInv, RoundInv, NEW c \in CPU, SchedulerStepRR(c)
  PROVE  RoundInv'
<1>0. /\ cpu \in [CPU -> Core] /\ cpu[c] \in Core /\ Yielding # 0
      /\ \A d \in CPU \ {c} : cpu'[d] = cpu[d]
  <2>1. cpu \in [CPU -> Core]
    BY Typed DEF IInv
  <2> QED
    BY <2>1 DEF SchedulerStepRR, ScanBeginRR, ScanRR, SwitchBackRR, ScanEnd
<1>1. CASE ScanBeginRR(c)
  <2>1. cpu'[c].at = "scan" /\ cpu'[c].selected = None /\ cpu'[c].irq = 0
    BY <1>0, <1>1 DEF ScanBeginRR, IInv, CpuInv, Core
  <2> QED
    BY <1>0, <2>1, RoundKept
<1>2. CASE ScanRR(c)
  <2>1. /\ cpu[c].at = "scan" /\ cpu[c].irq = 0 /\ cpu[c].selected = None
        /\ cpu[c].i # End
    BY <1>2 DEF ScanRR, IInv, CpuInv, RoundInv, RoundAt
  <2>2. /\ cpu'[c].irq = 0
        /\ \/ cpu'[c].at = "scan" /\ cpu'[c].selected = None
           \/ cpu'[c].at = "switched" /\ cpu'[c].i = cpu[c].i
    BY <1>0, <1>2, <2>1 DEF ScanRR, Core
  <2> QED
    BY <1>0, <2>1, <2>2, RoundKept
<1>3. CASE SwitchBackRR(c)
  <2>1. cpu'[c].at = "scan" /\ cpu'[c].selected = None /\ cpu'[c].irq = 0
    BY <1>0, <1>3 DEF SwitchBackRR, Looping
  <2> QED
    BY <1>0, <2>1, RoundKept
<1>4. CASE ScanEnd(c)
  <2>1. cpu'[c].at = "loop" /\ cpu'[c].irq = 0
    BY <1>0, <1>4 DEF ScanEnd, Looping
  <2> QED
    BY <1>0, <2>1, RoundKept
<1> QED
  BY <1>1, <1>2, <1>3, <1>4 DEF SchedulerStepRR

LEMMA TimerRoundInv ==
  ASSUME IInv, RoundInv, NEW c \in CPU, TimerStep(c)
  PROVE  RoundInv'
<1>0. cpu \in [CPU -> Core] /\ cpu[c] \in Core /\ cpu[c].irq \in 0..NPROC + 2
  BY Typed DEF IInv, Core
<1>1. ASSUME NEW n, cpu' = [cpu EXCEPT ![c].irq = n], cpu[c].at \in {"loop", "switched"},
             n = Yielding => cpu[c].at = "switched"
      PROVE  RoundInv'
  <2>1. /\ cpu'[c].at = cpu[c].at /\ cpu'[c].irq = n /\ cpu'[c].i = cpu[c].i
        /\ \A d \in CPU \ {c} : cpu'[d] = cpu[d]
    BY <1>0, <1>1 DEF Core
  <2>2. cpu[c].at = "switched" => cpu[c].i # End
    BY DEF RoundInv, RoundAt
  <2> QED
    BY <1>1, <2>1, <2>2, RoundKept
<1>2. cpu[c].irq # 0 => cpu[c].at \in {"loop", "switched"}
  BY DEF IInv, CpuInv
<1>3. CASE ClockBegin(c)
  <2>1. 1 # Yielding
    OBVIOUS
  <2>2. cpu' = [cpu EXCEPT ![c].irq = 1] /\ cpu[c].at \in {"loop", "switched"}
    BY <1>3 DEF ClockBegin, Interruptible
  <2> QED
    BY <1>1, <2>1, <2>2, Zenon
<1>4. CASE ClockWake(c)
  <2>1. PICK n : n = cpu[c].irq + 1
    OBVIOUS
  <2>2. cpu[c].irq # 0 /\ n # Yielding
    BY <1>0, <1>4, <2>1 DEF ClockWake
  <2>3. cpu' = [cpu EXCEPT ![c].irq = n]
    BY <1>4, <2>1 DEF ClockWake
  <2> QED
    BY <1>1, <1>2, <2>2, <2>3, Zenon
<1>5. CASE ClockEndRR(c)
  <2>1. cpu[c].irq # 0 /\ Yielding # 0
    BY <1>5 DEF ClockEndRR
  <2>2. cpu' = [cpu EXCEPT ![c].irq = AfterClock(c)]
    BY <1>5 DEF ClockEndRR
  <2>3. AfterClock(c) = Yielding => cpu[c].at = "switched"
    BY <2>1 DEF AfterClock
  <2> QED
    BY <1>1, <1>2, <2>1, <2>2, <2>3, Zenon
<1>6. CASE TimerBegin(c)
  <2>1. Yielding # 0
    OBVIOUS
  <2>2. cpu' = [cpu EXCEPT ![c].irq = Yielding] /\ cpu[c].at = "switched"
    BY <1>6, <2>1 DEF TimerBegin, AfterClock
  <2> QED
    BY <1>1, <2>2, Zenon
<1>7. CASE Yield(c)
  <2>1. cpu[c].irq = Yielding /\ cpu[c].at = "switched" /\ cpu[c].i # End /\ Yielding # 0
    BY <1>7 DEF Yield, RoundInv, RoundAt
  <2>2. CASE cpu' = [cpu EXCEPT ![c].irq = 0]
    BY <1>1, <2>1, <2>2, Zenon
  <2>3. CASE cpu' = [cpu EXCEPT ![c].irq = 0, ![c].at = "back"]
    <3>1. /\ cpu'[c].at = "back" /\ cpu'[c].irq = 0 /\ cpu'[c].i = cpu[c].i
          /\ \A d \in CPU \ {c} : cpu'[d] = cpu[d]
      BY <1>0, <2>3 DEF Core
    <3> QED
      BY <2>1, <3>1, RoundKept
  <2> QED
    BY <1>7, <2>2, <2>3 DEF Yield
<1> QED
  BY <1>3, <1>4, <1>5, <1>6, <1>7 DEF TimerStep

LEMMA ThreadRoundInv ==
  ASSUME IInv, RoundInv, NEW c \in CPU, NEW p \in Proc, YieldReturn(c, p) \/ ProcStep(c, p)
  PROVE  RoundInv'
<1>0. cpu \in [CPU -> Core] /\ cpu[c] \in Core
  BY Typed DEF IInv
<1>1. On(c, p) /\ (UNCHANGED cpu \/ Sched(c))
  BY ProcStepCpu DEF YieldReturn
<1>2. CASE UNCHANGED cpu
  BY <1>2 DEF RoundInv, RoundAt
<1>3. CASE Sched(c)
  <2>1. cpu[c].irq = 0 /\ cpu[c].i # End /\ Yielding # 0
    BY <1>1 DEF On, RoundInv, RoundAt
  <2>2. /\ cpu'[c].at = "back" /\ cpu'[c].irq = cpu[c].irq /\ cpu'[c].i = cpu[c].i
        /\ \A d \in CPU \ {c} : cpu'[d] = cpu[d]
    BY <1>0, <1>3 DEF Sched, Core
  <2> QED
    BY <2>1, <2>2, RoundKept
<1> QED
  BY <1>1, <1>2, <1>3

InvRR == IInv /\ RoundInv

LEMMA NextInvRR == InvRR /\ [NextRR]_vars => InvRR'
<1> SUFFICES ASSUME IInv, RoundInv, [NextRR]_vars
             PROVE  IInv' /\ RoundInv'
  BY DEF InvRR
<1>1. CASE UNCHANGED vars
  BY <1>1, StutterIInv DEF vars, RoundInv, RoundAt
<1>2. ASSUME NEW c \in CPU, SchedulerStepRR(c)
      PROVE  IInv' /\ RoundInv'
  BY <1>2, ScanBeginIInvRR, ScanIInvRR, SwitchBackIInvRR, ScanEndIInv, SchedulerRoundInv
     DEF SchedulerStepRR
<1>3. ASSUME NEW c \in CPU, TimerStep(c)
      PROVE  IInv' /\ RoundInv'
  BY <1>3, ClockBeginIInv, ClockWakeIInv, ClockEndIInvRR, TimerBeginIInv, YieldIInv, TimerRoundInv
     DEF TimerStep
<1>4. ASSUME NEW c \in CPU, NEW p \in Proc, YieldReturn(c, p) \/ ProcStep(c, p)
      PROVE  IInv' /\ RoundInv'
  BY <1>4, YieldReturnIInv, ProcStepIInv, ThreadRoundInv
<1> QED
  BY <1>1, <1>2, <1>3, <1>4 DEF NextRR

LEMMA InitRoundInv ==
  ASSUME Init
  PROVE  RoundInv
<1>1. \A c \in CPU : cpu[c] = Looping
  BY DEF Init
<1>2. Looping.at = "loop" /\ Looping.irq = 0
  BY DEF Looping
<1>3. 0 # Yielding
  OBVIOUS
<1> QED
  BY <1>1, <1>2, <1>3 DEF RoundInv, RoundAt

LEMMA SpecInvRR == SpecRR => []InvRR
<1>1. Init => InvRR
  BY InitIInv, InitRoundInv DEF InvRR
<1> QED
  BY <1>1, NextInvRR, PTL DEF SpecRR

(* proc.c: a process is RUNNING exactly while one CPU executes it, and no  *)
(* two CPUs are ever on one kernel stack, wherever a timer interrupt makes *)
(* a process yield.                                                        *)
THEOREM AlwaysRunsOnceRR == SpecRR => []RunsOnce
<1>1. InvRR => RunsOnce
  BY DEF InvRR, IInv
<1> QED
  BY <1>1, SpecInvRR, PTL

(* spinlock.c and sched(), with the acquire of yield() wherever a timer    *)
(* interrupt comes: locks are taken in the order wait_lock or tickslock,   *)
(* then the slots of the table upwards, so no CPU acquires a lock it holds;*)
(* a lock that was taken in an earlier step is given back by the CPU that  *)
(* holds it; a thread enters the scheduler with exactly its own lock; no   *)
(* CPU holds a lock where the scheduler or the return to user space turns  *)
(* interrupts on; and every variable keeps its type.                       *)
THEOREM AlwaysLockDisciplineRR == SpecRR => []LockDiscipline
<1>1. InvRR => LockDiscipline
  BY Ordered DEF InvRR
<1> QED
  BY <1>1, SpecInvRR, PTL

(* proc.c and sysproc.c: no process stays asleep in kwait beside a zombie  *)
(* child, or in sys_pause when its time is over.                           *)
THEOREM AlwaysNoLostWakeupRR == SpecRR => []NoLostWakeup
<1>1. InvRR => NoLostWakeup
  BY WakeupsArrive DEF InvRR
<1> QED
  BY <1>1, SpecInvRR, PTL

(* kexit and kfork: every process but init has a living parent.            *)
THEOREM AlwaysParentLivesRR == SpecRR => []ParentLives
<1>1. InvRR => ParentLives
  BY SomeoneReaps DEF InvRR
<1> QED
  BY <1>1, SpecInvRR, PTL

-----------------------------------------------------------------------------
(* Who is killed                                                           *)

(* Neither the scheduler nor the timer marks anybody.                      *)
LEMMA SchedulerKillInvRR ==
  ASSUME IInv, RoundInv, KillInv, NEW c \in CPU, SchedulerStepRR(c) \/ TimerStep(c)
  PROVE  KillInv'
<1>1. proc \in [Proc -> Slot] /\ thread \in [Proc -> Thread]
  BY Typed DEF IInv
<1>2. CASE Yield(c)
  <2>1. PICK p : p = cpu[c].proc
    OBVIOUS
  <2>2. p \in Proc /\ thread[p].at \in Preemptible
    <3>1. cpu[c].at = "switched" /\ cpu[c].irq # 0
      BY <1>2 DEF Yield, RoundInv, RoundAt
    <3> QED
      BY <2>1, <3>1, Typed DEF IInv, CpuInv, Core
  <2>3. CASE Finish(p, "exit") /\ proc' = proc
    BY <2>2, <2>3, Moves, KillKeptAt
  <2>4. CASE /\ proc' = [proc EXCEPT ![p].state = "RUNNABLE"]
             /\ thread' = [thread EXCEPT ![p].at = "yielded", ![p].resume = thread[p].at]
    <3>1. \A q \in Proc : /\ proc'[q].state = "UNUSED" => proc[q].state = "UNUSED"
                          /\ proc'[q].pid = proc[q].pid
                          /\ proc'[q].killed => proc[q].killed
      BY <1>1, <2>4 DEF Slot
    <3>2. \A q \in Proc : Place(q)' = Place(q) /\ thread'[q].arg = thread[q].arg
      <4>1. /\ \A q \in Proc \ {p} : thread'[q] = thread[q]
            /\ thread'[p].at = "yielded" /\ thread'[p].resume = thread[p].at
            /\ thread'[p].arg = thread[p].arg
        BY <1>1, <2>2, <2>4 DEF Thread
      <4> QED
        BY <2>2, <4>1 DEF Place, Preemptible
    <3>3. \A q \in Proc : KillSame(q)
      BY <3>1, <3>2 DEF KillSame
    <3> QED
      BY <3>3, KillKept DEF KillInv
  <2> QED
    BY <1>2, <2>1, <2>3, <2>4 DEF Yield
<1>3. CASE ClockBegin(c) \/ ClockWake(c)
  BY <1>3, ClockKillInv
<1>4. CASE SchedulerStepRR(c) \/ ClockEndRR(c) \/ TimerBegin(c)
  <2>1. thread' = thread
    BY <1>4 DEF SchedulerStepRR, ScanBeginRR, ScanRR, SwitchBackRR, ScanEnd, ClockEndRR, TimerBegin
  <2>2. \A q \in Proc : /\ proc'[q].state = "UNUSED" => proc[q].state = "UNUSED"
                        /\ proc'[q].pid = proc[q].pid
                        /\ proc'[q].killed => proc[q].killed
    <3>1. CASE proc' = proc
      BY <3>1
    <3>2. CASE \E s : proc' = [proc EXCEPT ![s].state = "RUNNING"]
      BY <1>1, <3>2 DEF Slot
    <3> QED
      BY <1>4, <3>1, <3>2
         DEF SchedulerStepRR, ScanBeginRR, ScanRR, SwitchBackRR, ScanEnd, ClockEndRR, TimerBegin
  <2>3. \A q \in Proc : KillSame(q)
    BY <2>1, <2>2 DEF KillSame, Place
  <2> QED
    BY <2>3, KillKept DEF KillInv
<1> QED
  BY <1>2, <1>3, <1>4 DEF TimerStep

(* A thread that goes on is where it was when it yielded.                  *)
LEMMA YieldReturnKillInv ==
  ASSUME IInv, KillInv, NEW c \in CPU, NEW p \in Proc, YieldReturn(c, p)
  PROVE  KillInv'
<1>1. thread \in [Proc -> Thread] /\ thread[p] \in Thread
  BY Typed DEF IInv
<1>2. /\ \A q \in Proc \ {p} : thread'[q] = thread[q]
      /\ thread'[p].at = thread[p].resume /\ thread[p].at = "yielded"
      /\ thread'[p].arg = thread[p].arg /\ proc' = proc
  BY <1>1 DEF YieldReturn, Thread
<1>3. thread[p].resume # "yielded"
  BY <1>2 DEF IInv, StateInv, Preemptible
<1>4. \A q \in Proc : Place(q)' = Place(q) /\ thread'[q].arg = thread[q].arg
  BY <1>2, <1>3 DEF Place
<1>5. \A q \in Proc : KillSame(q)
  BY <1>2, <1>4 DEF KillSame
<1> QED
  BY <1>5, KillKept DEF KillInv

(* kkill: when no program faults and none kills pid 0, that of a free slot,*)
(* kill marks the process it names and no other that takes the slot later. *)
THEOREM AlwaysKillHitsPidRR ==
  ASSUME "fault" \notin Syscalls, 0 \notin KillTargets
  PROVE  SpecRR => []KillHitsPid
<1>1. InvRR /\ KillInv /\ [NextRR]_vars => KillInv'
  <2> SUFFICES ASSUME IInv, RoundInv, KillInv, [NextRR]_vars
               PROVE  KillInv'
    BY DEF InvRR
  <2>1. CASE UNCHANGED vars
    <3>1. \A q \in Proc : KillSame(q)
      BY <2>1 DEF vars, KillSame, Place
    <3> QED
      BY <3>1, KillKept DEF KillInv
  <2>2. ASSUME NEW c \in CPU, SchedulerStepRR(c) \/ TimerStep(c)
        PROVE  KillInv'
    BY <2>2, SchedulerKillInvRR
  <2>3. ASSUME NEW c \in CPU, NEW p \in Proc, YieldReturn(c, p) \/ ProcStep(c, p)
        PROVE  KillInv'
    BY <2>3, YieldReturnKillInv, ProcStepKillInv
  <2> QED
    BY <2>1, <2>2, <2>3 DEF NextRR
<1> QED
  BY <1>1, InitKillInv, KillTheNamed, SpecInvRR, PTL DEF SpecRR

=============================================================================
