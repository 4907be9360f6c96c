--------------------------------- MODULE Proc ---------------------------------
(***************************************************************************)
(* Processes, their locks and the clock of xv6-riscv-modificado            *)
(* (kernel/proc.c, the process system calls of kernel/sysproc.c, and the   *)
(* traps of kernel/trap.c that lead to them).  The two schedulers extend   *)
(* this module: ProcFCFS is the one of xv6-riscv-modificado, ProcRR the one*)
(* of the original xv6-riscv, whose proc.c is otherwise the same.          *)
(*                                                                         *)
(* A spinlock is held by a CPU, as lk->cpu says.  A critical section that  *)
(* takes one lock, touches only what it protects and gives it back is one  *)
(* step; every other acquire and release is a step boundary.  The contexts *)
(* swtch changes between are thread[p] and the scheduler of cpu[c].        *)
(*                                                                         *)
(* Left out: memory, open files and the current directory (kfork copies    *)
(* them under np->lock, kexit drops them before it takes a lock), the exit *)
(* status, and the other channels processes sleep on.                      *)
(***************************************************************************)
EXTENDS Integers, FiniteSets

CONSTANTS CPU,          \* the CPUs
          CPU0,         \* the one whose timer advances ticks
          NoCPU,        \* the holder of a free lock
          NPROC,        \* slots of the process table
          Syscalls,     \* the system calls user programs make
          KillTargets,  \* the pids they pass to kill
          PauseTicks,   \* the n they pass to pause
          MemoryFails,  \* whether kalloc and uvmcopy may fail in kfork
          MaxPid,       \* bound: pids given out
          MaxTicks,     \* bound: value of ticks at which the clock stops
          TickWidth     \* ticks is an unsigned number modulo TickWidth

ASSUME CPUAssumption == CPU0 \in CPU /\ NoCPU \notin CPU
ASSUME SizeAssumption ==
  /\ NPROC \in Nat \ {0} /\ MaxPid \in Nat /\ MaxTicks \in Nat
  /\ TickWidth \in Nat \ {0} /\ PauseTicks \in Nat
  /\ KillTargets \subseteq Nat /\ MemoryFails \in BOOLEAN
  /\ Syscalls \subseteq {"fork", "exit", "wait", "kill", "pause", "fault"}

Proc == 1..NPROC
Initproc == 1                \* initproc: userinit takes the first slot
None == 0                    \* a null struct proc pointer, or no channel
WaitLock == NPROC + 1        \* wait_lock
TicksLock == NPROC + 2       \* tickslock; also stands for the channel &ticks
End == NPROC + 1             \* &proc[NPROC], where a loop over the table ends
Yielding == NPROC + 2        \* a value of irq: the clock is served, yield
Lock == Proc \union {WaitLock, TicksLock}   \* p in Proc stands for p->lock

VARIABLES
  proc,     \* proc[p]: the fields of struct proc the model keeps
  thread,   \* thread[p]: where p's kernel thread is, and its local variables
  cpu,      \* cpu[c]: c->proc, and the scheduler's and the trap's locals
  lock,     \* lock[l]: the CPU that holds l
  ticks,    \* ticks of trap.c
  nextpid,  \* nextpid of proc.c
  shell     \* the variable pid of user/init.c: the child it waits for, or None

vars == <<proc, thread, cpu, lock, ticks, nextpid, shell>>

State == {"UNUSED", "USED", "SLEEPING", "RUNNABLE", "RUNNING", "ZOMBIE"}

(* What freeproc leaves.  (It leaves arrival_time too, which nobody reads  *)
(* before allocproc has set it again.)                                     *)
UnusedProc == [state |-> "UNUSED", pid |-> 0, parent |-> None, chan |-> None,
               killed |-> FALSE, arrival_time |-> 0]

(* A thread at location l: i and w index loops over the table, np is the   *)
(* child kfork makes, arg the pid kkill looks for or sys_pause's ticks0,   *)
(* havekids kwait's flag and resume where a thread that yielded goes on.   *)
At(l) == [at |-> l, i |-> 1, w |-> 1, np |-> None, arg |-> 0,
          havekids |-> FALSE, resume |-> "none"]

(* A CPU at the head of the scheduler's loop, outside any interrupt.       *)
Looping == [at |-> "loop", i |-> 1, selected |-> None, proc |-> None, irq |-> 0]

Init ==
  /\ proc = [p \in Proc |->
               IF p = Initproc
                 THEN [UnusedProc EXCEPT !.state = "RUNNABLE", !.pid = 1]
                 ELSE UnusedProc]
  /\ thread = [p \in Proc |-> At(IF p = Initproc THEN "forkret" ELSE "none")]
  /\ cpu = [c \in CPU |-> Looping]
  /\ lock = [l \in Lock |-> NoCPU]
  /\ ticks = 0
  /\ nextpid = 2
  /\ shell = None

-----------------------------------------------------------------------------
(* Locks and context switches                                              *)

Free(l) == lock[l] = NoCPU
Acquire(c, l) == Free(l) /\ lock' = [lock EXCEPT ![l] = c]
Release(l) == lock' = [lock EXCEPT ![l] = NoCPU]
Held(c) == {l \in Lock : lock[l] = c}

(* CPU c executes p's kernel thread, or p in user space.                   *)
On(c, p) == cpu[c].at = "switched" /\ cpu[c].irq = 0 /\ cpu[c].proc = p

Goto(p, l) == thread' = [thread EXCEPT ![p].at = l]
Finish(p, l) == thread' = [thread EXCEPT ![p] = At(l)]

(* sched: swtch to the scheduler of c, which goes on after its own swtch.  *)
Sched(c) == cpu' = [cpu EXCEPT ![c].at = "back"]

(* wakeup's work on one slot.                                              *)
Wake(s, chan) ==
  IF proc[s].state = "SLEEPING" /\ proc[s].chan = chan
    THEN [proc EXCEPT ![s].state = "RUNNABLE"]
    ELSE proc

(* A faulty freeproc that forgets the field killed.                        *)
FreeProcKeepsKilled(s) ==
  [proc EXCEPT ![s] = [UnusedProc EXCEPT !.killed = proc[s].killed]]

(* freeproc                                                                *)
FreeProc(s) == [proc EXCEPT ![s] = UnusedProc]

(* A system call that fails returns -1; init answers with exit(1).         *)
Failed(p) == IF p = Initproc THEN "exit" ELSE "ret"

-----------------------------------------------------------------------------
(* User programs and the way in and out of the kernel                      *)

(* Init starts a shell and waits for it, again and again; other programs   *)
(* make the calls of Syscalls.  MaxPid bounds the pids: when none is left  *)
(* nobody forks, and init only waits for the children it still has.        *)
CanFork == nextpid + Cardinality({p \in Proc : "fork_scan" \in {thread[p].at, thread[p].resume}}) <= MaxPid

InitCalls ==
  IF shell = None /\ CanFork THEN {"fork"}
  ELSE IF shell # None \/ \E s \in Proc : proc[s].parent = Initproc THEN {"wait"}
  ELSE {}

Call(p) ==
  LET calls == IF p = Initproc THEN InitCalls ELSE Syscalls
  IN  \/ "fork" \in calls /\ CanFork /\ Finish(p, "fork_scan")
      \/ "wait" \in calls /\ Finish(p, "wait_lock")
      \/ "exit" \in calls /\ Finish(p, "exit")
      \/ "pause" \in calls /\ Finish(p, "pause_lock")
      \/ "kill" \in calls /\ \E k \in KillTargets :
           thread' = [thread EXCEPT ![p] = [At("kill_scan") EXCEPT !.arg = k]]

(* usertrap for a system call: a killed process exits instead.             *)
UserTrap(c, p) ==
  /\ On(c, p) /\ thread[p].at = "user" /\ Free(p)
  /\ IF proc[p].killed THEN Finish(p, "exit") ELSE Call(p)
  /\ UNCHANGED <<proc, cpu, lock, ticks, nextpid, shell>>

(* usertrap for a fault it cannot serve: setkilled.                        *)
UserFault(c, p) ==
  /\ On(c, p) /\ thread[p].at = "user" /\ Free(p)
  /\ "fault" \in Syscalls /\ p # Initproc
  /\ proc' = [proc EXCEPT ![p].killed = TRUE]
  /\ Finish(p, "ret")
  /\ UNCHANGED <<cpu, lock, ticks, nextpid, shell>>

(* usertrap for a device interrupt: nothing of a process changes, but the  *)
(* check below is made.                                                    *)
UserInterrupt(c, p) ==
  /\ On(c, p) /\ thread[p].at = "user"
  /\ Finish(p, "ret")
  /\ UNCHANGED <<proc, cpu, lock, ticks, nextpid, shell>>

(* The check usertrap makes before it returns to user space.               *)
UserReturn(c, p) ==
  /\ On(c, p) /\ thread[p].at = "ret" /\ Free(p)
  /\ Finish(p, IF proc[p].killed THEN "exit" ELSE "user")
  /\ UNCHANGED <<proc, cpu, lock, ticks, nextpid, shell>>

-----------------------------------------------------------------------------
(* kfork, with allocproc inlined                                           *)

(* allocproc looks at one slot: an unused one gets a pid and stays locked. *)
ForkScan(c, p) ==
  LET s == thread[p].i IN
  /\ On(c, p) /\ thread[p].at = "fork_scan"
  /\ \/ /\ s # End /\ Free(s) /\ proc[s].state # "UNUSED"
        /\ thread' = [thread EXCEPT ![p].i = s + 1]
        /\ UNCHANGED <<proc, lock, nextpid>>
     \/ /\ s # End /\ proc[s].state = "UNUSED"
        /\ Acquire(c, s)
        /\ proc' = [proc EXCEPT ![s].state = "USED", ![s].pid = nextpid]
        /\ nextpid' = nextpid + 1
        /\ thread' = [thread EXCEPT ![p] = [At("fork_build") EXCEPT !.np = s]]
     \/ /\ s = End
        /\ Finish(p, Failed(p))
        /\ UNCHANGED <<proc, lock, nextpid>>
  /\ UNCHANGED <<cpu, ticks, shell>>

(* A faulty kfork that keeps np->lock for the rest of its work.            *)
ForkBuildKeepsLock(c, p) ==
  LET np == thread[p].np IN
  /\ On(c, p) /\ thread[p].at = "fork_build"
  /\ proc' = [proc EXCEPT ![np].arrival_time = ticks]
  /\ thread' = [thread EXCEPT ![p].at = "fork_link", ![np] = At("forkret")]
  /\ UNCHANGED <<cpu, lock, ticks, nextpid, shell>>

(* The rest of allocproc, which reads ticks without tickslock, and the copy*)
(* of the parent; when memory runs out the slot is freed again.            *)
ForkBuild(c, p) ==
  LET np == thread[p].np IN
  /\ On(c, p) /\ thread[p].at = "fork_build"
  /\ \/ /\ proc' = [proc EXCEPT ![np].arrival_time = ticks]
        /\ thread' = [thread EXCEPT ![p].at = "fork_link", ![np] = At("forkret")]
     \/ /\ MemoryFails
        /\ proc' = FreeProc(np)
        /\ Finish(p, Failed(p))
  /\ Release(np)
  /\ UNCHANGED <<cpu, ticks, nextpid, shell>>

(* np->parent = p, under wait_lock.                                        *)
ForkLink(c, p) ==
  /\ On(c, p) /\ thread[p].at = "fork_link" /\ Free(WaitLock)
  /\ proc' = [proc EXCEPT ![thread[p].np].parent = p]
  /\ Goto(p, "fork_ready")
  /\ UNCHANGED <<cpu, lock, ticks, nextpid, shell>>

(* np->state = RUNNABLE, under np->lock.                                   *)
ForkReady(c, p) ==
  LET np == thread[p].np IN
  /\ On(c, p) /\ thread[p].at = "fork_ready" /\ Free(np)
  /\ proc' = [proc EXCEPT ![np].state = "RUNNABLE"]
  /\ shell' = IF p = Initproc THEN proc[np].pid ELSE shell
  /\ Finish(p, "ret")
  /\ UNCHANGED <<cpu, lock, ticks, nextpid>>

(* A thread scheduled for the first time gives back its own lock and goes  *)
(* to user space.                                                          *)
Forkret(c, p) ==
  /\ On(c, p) /\ thread[p].at = "forkret"
  /\ Release(p)
  /\ Goto(p, "user")
  /\ UNCHANGED <<proc, cpu, ticks, nextpid, shell>>

-----------------------------------------------------------------------------
(* kexit                                                                   *)

(* A faulty kexit that does its work without wait_lock.                    *)
ExitBeginUnlocked(c, p) ==
  /\ On(c, p) /\ thread[p].at = "exit"
  /\ Finish(p, IF p = Initproc THEN "panic" ELSE "exit_reparent")
  /\ UNCHANGED <<proc, cpu, lock, ticks, nextpid, shell>>

(* init must not exit; anybody else takes wait_lock.                       *)
ExitBegin(c, p) ==
  /\ On(c, p) /\ thread[p].at = "exit"
  /\ \/ p = Initproc /\ Goto(p, "panic") /\ UNCHANGED lock
     \/ p # Initproc /\ Acquire(c, WaitLock) /\ Finish(p, "exit_reparent")
  /\ UNCHANGED <<proc, cpu, ticks, nextpid, shell>>

(* A faulty kexit that does not reparent.                                  *)
ExitReparentNobody(c, p) ==
  /\ On(c, p) /\ thread[p].at = "exit_reparent"
  /\ thread' = [thread EXCEPT ![p].at = "exit_wake", ![p].w = 1]
  /\ UNCHANGED <<proc, cpu, lock, ticks, nextpid, shell>>

(* reparent looks at one slot: a child goes to init, which is woken up.    *)
ExitReparent(c, p) ==
  LET s == thread[p].i IN
  /\ On(c, p) /\ thread[p].at = "exit_reparent"
  /\ \/ /\ s # End /\ proc[s].parent = p
        /\ proc' = [proc EXCEPT ![s].parent = Initproc]
        /\ thread' = [thread EXCEPT ![p].at = "reparent_wake", ![p].w = 1]
     \/ /\ s # End /\ proc[s].parent # p
        /\ thread' = [thread EXCEPT ![p].i = s + 1]
        /\ UNCHANGED proc
     \/ /\ s = End
        /\ thread' = [thread EXCEPT ![p].at = "exit_wake", ![p].w = 1]
        /\ UNCHANGED proc
  /\ UNCHANGED <<cpu, lock, ticks, nextpid, shell>>

(* A faulty reparent that does not wake up init.                           *)
WakeChanParent(p) == proc[p].parent

(* Whom kexit wakes up: init for every child that changed hands, then its  *)
(* own parent.                                                             *)
WakeChan(p) ==
  IF thread[p].at = "reparent_wake" THEN Initproc ELSE proc[p].parent

(* One slot of such a wakeup.  The caller's slot is skipped.               *)
ExitWake(c, p) ==
  LET w == thread[p].w IN
  /\ On(c, p) /\ thread[p].at \in {"reparent_wake", "exit_wake"}
  /\ \/ /\ w # End /\ w # p /\ Free(w)
        /\ proc' = Wake(w, WakeChan(p))
        /\ thread' = [thread EXCEPT ![p].w = w + 1]
     \/ /\ w = p
        /\ thread' = [thread EXCEPT ![p].w = w + 1]
        /\ UNCHANGED proc
     \/ /\ w = End
        /\ IF thread[p].at = "reparent_wake"
             THEN thread' = [thread EXCEPT ![p].at = "exit_reparent", ![p].w = 1,
                                           ![p].i = thread[p].i + 1]
             ELSE Finish(p, "exit_zombie")
        /\ UNCHANGED proc
  /\ UNCHANGED <<cpu, lock, ticks, nextpid, shell>>

(* Under p->lock: become a zombie, give back wait_lock, never return.      *)
ExitZombie(c, p) ==
  /\ On(c, p) /\ thread[p].at = "exit_zombie" /\ Free(p)
  /\ proc' = [proc EXCEPT ![p].state = "ZOMBIE"]
  /\ lock' = [lock EXCEPT ![p] = c, ![WaitLock] = NoCPU]
  /\ Finish(p, "dead")
  /\ Sched(c)
  /\ UNCHANGED <<ticks, nextpid, shell>>

-----------------------------------------------------------------------------
(* kwait                                                                   *)

WaitLocked(c, p) ==
  /\ On(c, p) /\ thread[p].at = "wait_lock"
  /\ Acquire(c, WaitLock)
  /\ Finish(p, "wait_scan")
  /\ UNCHANGED <<proc, cpu, ticks, nextpid, shell>>

(* kwait looks at one slot.  A zombie child is freed, unless its status    *)
(* cannot be copied out.                                                   *)
WaitScan(c, p) ==
  LET s == thread[p].i IN
  /\ On(c, p) /\ thread[p].at = "wait_scan" /\ s # End
  /\ \/ /\ proc[s].parent # p
        /\ thread' = [thread EXCEPT ![p].i = s + 1]
        /\ UNCHANGED <<proc, lock, shell>>
     \/ /\ proc[s].parent = p /\ Free(s) /\ proc[s].state # "ZOMBIE"
        /\ thread' = [thread EXCEPT ![p].i = s + 1, ![p].havekids = TRUE]
        /\ UNCHANGED <<proc, lock, shell>>
     \/ /\ proc[s].parent = p /\ Free(s) /\ proc[s].state = "ZOMBIE"
        /\ proc' = FreeProc(s)
        /\ thread' = [thread EXCEPT ![p] = At("ret"), ![s] = At("none")]
        /\ Release(WaitLock)
        /\ shell' = IF p = Initproc /\ proc[s].pid = shell THEN None ELSE shell
     \/ /\ proc[s].parent = p /\ Free(s) /\ proc[s].state = "ZOMBIE"
        /\ p # Initproc
        /\ Finish(p, "ret")
        /\ Release(WaitLock)
        /\ UNCHANGED <<proc, shell>>
  /\ UNCHANGED <<cpu, ticks, nextpid>>

(* No child, or the caller was killed: give up.  killed() takes and gives  *)
(* back p->lock, so this check and the sleep are two steps.                *)
WaitCheck(c, p) ==
  /\ On(c, p) /\ thread[p].at = "wait_scan" /\ thread[p].i = End
  /\ \/ /\ ~ thread[p].havekids
        /\ Finish(p, Failed(p)) /\ Release(WaitLock)
     \/ /\ thread[p].havekids /\ Free(p) /\ proc[p].killed
        /\ Finish(p, Failed(p)) /\ Release(WaitLock)
     \/ /\ thread[p].havekids /\ Free(p) /\ ~ proc[p].killed
        /\ Finish(p, "wait_sleep") /\ UNCHANGED lock
  /\ UNCHANGED <<proc, cpu, ticks, nextpid, shell>>

-----------------------------------------------------------------------------
(* sleep, called by kwait with wait_lock and by sys_pause with tickslock   *)

(* A faulty sleep that does not take p->lock.                              *)
SleepUnlocked(c, p, chan, lk, woken) ==
  /\ Release(lk)
  /\ proc' = [proc EXCEPT ![p].chan = chan, ![p].state = "SLEEPING"]
  /\ Goto(p, woken)
  /\ Sched(c)
  /\ UNCHANGED <<ticks, nextpid, shell>>

Sleep(c, p, chan, lk, woken) ==
  /\ Free(p)
  /\ lock' = [lock EXCEPT ![p] = c, ![lk] = NoCPU]
  /\ proc' = [proc EXCEPT ![p].chan = chan, ![p].state = "SLEEPING"]
  /\ Goto(p, woken)
  /\ Sched(c)
  /\ UNCHANGED <<ticks, nextpid, shell>>

WaitSleep(c, p) ==
  /\ On(c, p) /\ thread[p].at = "wait_sleep"
  /\ Sleep(c, p, p, WaitLock, "wait_woken")

PauseSleep(c, p) ==
  /\ On(c, p) /\ thread[p].at = "pause_sleep"
  /\ Sleep(c, p, TicksLock, TicksLock, "pause_woken")

(* Back from swtch: tidy up, then go for the caller's lock again.          *)
Woken(c, p) ==
  /\ On(c, p) /\ thread[p].at \in {"wait_woken", "pause_woken"}
  /\ proc' = [proc EXCEPT ![p].chan = None]
  /\ Release(p)
  /\ Goto(p, IF thread[p].at = "wait_woken" THEN "wait_lock" ELSE "pause_relock")
  /\ UNCHANGED <<cpu, ticks, nextpid, shell>>

-----------------------------------------------------------------------------
(* kkill                                                                   *)

(* The victim is marked, and woken up if it sleeps.                        *)
Killed(s) ==
  [proc EXCEPT ![s].killed = TRUE,
               ![s].state = IF @ = "SLEEPING" THEN "RUNNABLE" ELSE @]

(* kkill looks at one slot.                                                *)
Kill(c, p) ==
  LET s == thread[p].i IN
  /\ On(c, p) /\ thread[p].at = "kill_scan"
  /\ \/ /\ s # End /\ Free(s) /\ proc[s].pid = thread[p].arg
        /\ proc' = Killed(s)
        /\ Finish(p, "ret")
     \/ /\ s # End /\ Free(s) /\ proc[s].pid # thread[p].arg
        /\ thread' = [thread EXCEPT ![p].i = s + 1]
        /\ UNCHANGED proc
     \/ /\ s = End
        /\ Finish(p, "ret")
        /\ UNCHANGED proc
  /\ UNCHANGED <<cpu, lock, ticks, nextpid, shell>>

-----------------------------------------------------------------------------
(* sys_pause                                                               *)

PauseLocked(c, p) ==
  /\ On(c, p) /\ thread[p].at \in {"pause_lock", "pause_relock"}
  /\ Acquire(c, TicksLock)
  /\ thread' = [thread EXCEPT ![p].at = "pause_check",
                              ![p].arg = IF thread[p].at = "pause_lock" THEN ticks ELSE @]
  /\ UNCHANGED <<proc, cpu, ticks, nextpid, shell>>

Elapsed(p) == (ticks - thread[p].arg + TickWidth) % TickWidth   \* ticks - ticks0

PauseCheck(c, p) ==
  /\ On(c, p) /\ thread[p].at = "pause_check"
  /\ \/ /\ Elapsed(p) >= PauseTicks
        /\ Finish(p, "ret") /\ Release(TicksLock)
     \/ /\ Elapsed(p) < PauseTicks /\ Free(p) /\ proc[p].killed
        /\ Finish(p, "ret") /\ Release(TicksLock)
     \/ /\ Elapsed(p) < PauseTicks /\ Free(p) /\ ~ proc[p].killed
        /\ Goto(p, "pause_sleep") /\ UNCHANGED lock
  /\ UNCHANGED <<proc, cpu, ticks, nextpid, shell>>

-----------------------------------------------------------------------------
(* clockintr on CPU 0.  An interrupt comes only while the CPU holds no lock*)
(* and either runs a process or is at the scheduler's intr_on.             *)

Interruptible(c) ==
  /\ cpu[c].irq = 0 /\ cpu[c].at \in {"loop", "switched"}
  /\ Held(c) = {}

ClockBegin(c) ==
  /\ c = CPU0 /\ Interruptible(c) /\ ticks < MaxTicks
  /\ Acquire(c, TicksLock)
  /\ ticks' = (ticks + 1) % TickWidth
  /\ cpu' = [cpu EXCEPT ![c].irq = 1]
  /\ UNCHANGED <<proc, thread, nextpid, shell>>

(* One slot of wakeup(&ticks); the interrupted process is skipped.         *)
ClockWake(c) ==
  LET s == cpu[c].irq IN
  /\ s \in Proc
  /\ \/ /\ s # cpu[c].proc /\ Free(s) /\ proc' = Wake(s, TicksLock)
     \/ /\ s = cpu[c].proc /\ UNCHANGED proc
  /\ cpu' = [cpu EXCEPT ![c].irq = s + 1]
  /\ UNCHANGED <<thread, lock, ticks, nextpid, shell>>

-----------------------------------------------------------------------------

Kfork(c, p) == ForkScan(c, p) \/ ForkBuild(c, p) \/ ForkLink(c, p) \/ ForkReady(c, p)
Kexit(c, p) == ExitBegin(c, p) \/ ExitReparent(c, p) \/ ExitWake(c, p) \/ ExitZombie(c, p)
Kwait(c, p) == WaitLocked(c, p) \/ WaitScan(c, p) \/ WaitCheck(c, p) \/ WaitSleep(c, p)
SysPause(c, p) == PauseLocked(c, p) \/ PauseCheck(c, p) \/ PauseSleep(c, p)

KernelStep(c, p) ==
  \/ Kfork(c, p) \/ Kexit(c, p) \/ Kwait(c, p) \/ Kill(c, p) \/ SysPause(c, p)
  \/ Woken(c, p) \/ Forkret(c, p) \/ UserReturn(c, p)

Usertrap(c, p) == UserTrap(c, p) \/ UserFault(c, p) \/ UserInterrupt(c, p)

ProcStep(c, p) == Usertrap(c, p) \/ KernelStep(c, p)

(* Interrupts take a killed process into the kernel, and init's program    *)
(* goes on.                                                                *)
UserFairness ==
  /\ \A p \in Proc : WF_vars(\E c \in CPU : UserInterrupt(c, p) /\ proc[p].killed)
  /\ SF_vars(\E c \in CPU : UserTrap(c, Initproc))

(* Programs end: one that may exit again and again does.                   *)
ProgramsEnd ==
  \A p \in Proc \ {Initproc} :
    SF_vars(\E c \in CPU : UserTrap(c, p) /\ thread'[p].at = "exit")

-----------------------------------------------------------------------------
(* Properties of both schedulers                                           *)

Location ==
  {"none", "user", "ret", "fork_scan", "fork_build", "fork_link", "fork_ready",
   "forkret", "exit", "panic", "exit_reparent", "reparent_wake", "exit_wake",
   "exit_zombie", "dead", "wait_lock", "wait_scan", "wait_sleep", "wait_woken",
   "kill_scan", "pause_lock", "pause_relock", "pause_check", "pause_sleep",
   "pause_woken", "yielded"}

TypeOK ==
  /\ proc \in [Proc -> [state : State, pid : Nat, parent : Proc \union {None},
                        chan : Proc \union {None, TicksLock}, killed : BOOLEAN,
                        arrival_time : Nat]]
  /\ thread \in [Proc -> [at : Location, i : 1..End, w : 1..End,
                          np : Proc \union {None}, arg : Nat,
                          havekids : BOOLEAN, resume : Location]]
  /\ cpu \in [CPU -> [at : {"loop", "scan", "switched", "back"}, i : 1..End,
                      selected : Proc \union {None}, proc : Proc \union {None},
                      irq : 0..NPROC + 2]]
  /\ lock \in [Lock -> CPU \union {NoCPU}]
  /\ ticks \in Nat
  /\ nextpid \in Nat
  /\ shell \in Nat

(* A process is RUNNING exactly while one CPU executes it, and no two CPUs *)
(* ever execute one kernel stack: a thread that is on its way into the     *)
(* scheduler is not picked up by another CPU before its registers are saved*)
RunsOnce ==
  /\ \A c, d \in CPU : cpu[c].proc # None /\ cpu[c].proc = cpu[d].proc => c = d
  /\ \A p \in Proc : proc[p].state = "RUNNING" <=>
       \E c \in CPU : cpu[c].proc = p /\ cpu[c].at = "switched"

(* What sched() panics for: a thread enters the scheduler with its own lock*)
(* held, no other lock held, and its state changed.                        *)
SchedAsserts ==
  \A c \in CPU : cpu[c].at = "back" =>
    /\ Held(c) = {cpu[c].proc}
    /\ cpu[c].selected = cpu[c].proc
    /\ proc[cpu[c].proc].state # "RUNNING"

(* The locks CPU c takes next, spinning until each is free.                *)
Wanted(c) ==
  LET p == cpu[c].proc
      t == thread[p]
  IN  IF cpu[c].irq = Yielding THEN {p} \intersect Proc
      ELSE IF cpu[c].irq # 0 THEN {cpu[c].irq} \intersect (Proc \ {p})
      ELSE IF cpu[c].at = "scan" THEN {cpu[c].i} \intersect Proc
      ELSE IF cpu[c].at # "switched" THEN {}
      ELSE {l \in Lock :
              \/ /\ t.at \in {"user", "ret", "wait_sleep", "pause_sleep",
                             "pause_check", "exit_zombie"}
                 /\ l = p
              \/ t.at \in {"fork_link", "exit", "wait_lock"} /\ l = WaitLock
              \/ t.at \in {"pause_lock", "pause_relock"} /\ l = TicksLock
              \/ t.at \in {"fork_scan", "kill_scan"} /\ l = t.i /\ l \in Proc
              \/ t.at = "fork_ready" /\ l = t.np
              \/ t.at \in {"reparent_wake", "exit_wake"} /\ l = t.w /\ l \in Proc \ {p}
              \/ t.at = "wait_scan" /\ t.i = End /\ l = p
              \/ t.at = "wait_scan" /\ t.i # End /\ l = t.i /\ proc[l].parent = p}

(* The locks taken in an earlier step, perhaps by the scheduler or by      *)
(* another thread, that CPU c comes to give back where it is now.          *)
Returned(c) ==
  LET p == cpu[c].proc
      t == thread[p]
  IN  IF cpu[c].irq = End THEN {TicksLock}
      ELSE IF cpu[c].irq # 0 THEN {}
      ELSE IF cpu[c].at \in {"scan", "back"} THEN {cpu[c].selected} \ {None}
      ELSE IF cpu[c].at # "switched" THEN {}
      ELSE {l \in Lock :
              \/ t.at \in {"forkret", "wait_woken", "pause_woken", "yielded"} /\ l = p
              \/ t.at = "fork_build" /\ l = t.np
              \/ t.at \in {"wait_scan", "wait_sleep", "exit_zombie"} /\ l = WaitLock
              \/ t.at \in {"pause_check", "pause_sleep"} /\ l = TicksLock}

(* wait_lock and tickslock come before every p->lock, and p->locks are     *)
(* nested in the order of the table only (the scheduler keeps the one it   *)
(* selected while it looks at later slots).  A CPU that spins holds only   *)
(* locks that come before the one it wants, so CPUs never wait for one     *)
(* another in a circle, and none acquires a lock it holds (acquire's       *)
(* panic).                                                                 *)
Rank(l) == IF l \in Proc THEN l ELSE 0

LockOrder ==
  \A c \in CPU : \A held \in Held(c), l \in Wanted(c) : Rank(held) < Rank(l)

(* What release panics for: the CPU that comes to give back a lock, handed *)
(* over from the scheduler to a thread, from a thread to the scheduler, or *)
(* kept through several steps of a call, is its holder.                    *)
ReleaseAsserts == \A c \in CPU : Returned(c) \subseteq Held(c)

(* Where interrupts are turned on whatever noff says, by the scheduler's   *)
(* intr_on and by the return to user space, the CPU holds no spinlock: an  *)
(* interrupt there never finds one held, and no release meets the panic    *)
(* "pop_off - interruptible".  (noff is not modelled: acquire and release  *)
(* are its only users that are not matched within one function.)           *)
InterruptAsserts ==
  \A c \in CPU :
    cpu[c].irq = 0 /\ (cpu[c].at = "loop" \/ \E p \in Proc : On(c, p) /\ thread[p].at = "user")
      => Held(c) = {}

(* The discipline acquire, release, sched and interrupts rely on, with two *)
(* CPUs, threads that move from one to the other, and a p->lock that one   *)
(* context takes and another gives back.                                   *)
LockDiscipline ==
  TypeOK /\ SchedAsserts /\ LockOrder /\ ReleaseAsserts /\ InterruptAsserts

(* When nobody holds wait_lock, no process sleeps in kwait while a child of*)
(* it is a zombie: the wakeups of kexit, of reparent for the orphans that  *)
(* go to init, and the check-then-sleep of kwait never miss one another.   *)
NoLostExit ==
  Free(WaitLock) =>
    \A p, s \in Proc :
      /\ proc[p].state = "SLEEPING" /\ proc[p].chan = p
      /\ proc[s].parent = p
      => proc[s].state # "ZOMBIE"

(* When nobody holds tickslock, no process sleeps in sys_pause whose time  *)
(* is over.                                                                *)
NoLostTick ==
  Free(TicksLock) =>
    \A p \in Proc :
      proc[p].state = "SLEEPING" /\ proc[p].chan = TicksLock
        => Elapsed(p) < PauseTicks

(* Sleep gives up its lock and sleeps in one step as far as wakeup can see:*)
(* no exit and no tick comes in between and is lost.                       *)
NoLostWakeup == NoLostExit /\ NoLostTick

(* When nobody holds wait_lock, every process that was started, but init,  *)
(* has a parent that has not exited: someone is left to reap it.           *)
ParentLives ==
  Free(WaitLock) =>
    \A p \in Proc \ {Initproc} :
      proc[p].state \notin {"UNUSED", "USED"} =>
        /\ proc[p].parent # None
        /\ proc[proc[p].parent].state \in {"SLEEPING", "RUNNABLE", "RUNNING"}

(* kill kills the process it names, and no other that takes the slot later.*)
KillHitsPid ==
  \A p \in Proc :
    proc[p].state # "UNUSED" /\ proc[p].killed => proc[p].pid \in KillTargets

(* A zombie left to init is reaped, unless init panicked.                  *)
InitReaps ==
  \A p \in Proc :
    proc[p].state = "ZOMBIE" /\ proc[p].parent = Initproc
      ~> proc[p].state # "ZOMBIE" \/ thread[Initproc].at = "panic"

(* A process that can run gets a CPU.                                      *)
RunnableRuns ==
  \A p \in Proc : proc[p].state = "RUNNABLE" ~> proc[p].state = "RUNNING"

(* A killed process exits, whatever it slept on.                           *)
KilledExits ==
  \A p \in Proc :
    proc[p].killed ~> proc[p].state = "ZOMBIE" \/ ~ proc[p].killed

(* Lives end: who is killed exits, and who exits is reaped.                *)
LivesEnd == InitReaps /\ KilledExits

=============================================================================
