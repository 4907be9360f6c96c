-------------------------------- MODULE ProcRR --------------------------------
(***************************************************************************)
(* The scheduler of the original xv6-riscv: round robin over the table,    *)
(* with a yield on every timer interrupt.                                  *)
(***************************************************************************)
EXTENDS Proc

(* intr_on, intr_off: the head of the scheduler's loop.                    *)
ScanBeginRR(c) ==
  /\ cpu[c].at = "loop" /\ cpu[c].irq = 0
  /\ cpu' = [cpu EXCEPT ![c].at = "scan"]
  /\ UNCHANGED <<proc, thread, lock, ticks, nextpid, shell>>

(* One slot of the scan: a runnable process runs at once, with its lock    *)
(* held.                                                                   *)
ScanRR(c) ==
  LET s == cpu[c].i IN
  /\ cpu[c].at = "scan" /\ s # End /\ Free(s)
  /\ \/ /\ proc[s].state = "RUNNABLE"
        /\ lock' = [lock EXCEPT ![s] = c]
        /\ proc' = [proc EXCEPT ![s].state = "RUNNING"]
        /\ cpu' = [cpu EXCEPT ![c].at = "switched", ![c].selected = s, ![c].proc = s]
     \/ /\ proc[s].state # "RUNNABLE"
        /\ cpu' = [cpu EXCEPT ![c].i = s + 1]
        /\ UNCHANGED <<proc, lock>>
  /\ UNCHANGED <<thread, ticks, nextpid, shell>>

(* A faulty scheduler that starts again from the first slot.               *)
SwitchBackRestarts(c) ==
  /\ cpu[c].at = "back"
  /\ Release(cpu[c].selected)
  /\ cpu' = [cpu EXCEPT ![c] = Looping]
  /\ UNCHANGED <<proc, thread, ticks, nextpid, shell>>

(* The process came back: release its lock and look at the next slot.      *)
SwitchBackRR(c) ==
  /\ cpu[c].at = "back"
  /\ Release(cpu[c].selected)
  /\ cpu' = [cpu EXCEPT ![c] = [Looping EXCEPT !.at = "scan", !.i = cpu[c].i + 1]]
  /\ UNCHANGED <<proc, thread, ticks, nextpid, shell>>

(* The end of the scan; wfi when it ran nothing.                           *)
ScanEnd(c) ==
  /\ cpu[c].at = "scan" /\ cpu[c].i = End
  /\ cpu' = [cpu EXCEPT ![c] = Looping]
  /\ UNCHANGED <<proc, thread, lock, ticks, nextpid, shell>>

-----------------------------------------------------------------------------
(* The timer interrupt ends in yield() when it interrupted a process.      *)

AfterClock(c) == IF cpu[c].at = "switched" THEN Yielding ELSE 0

ClockEndRR(c) ==
  /\ cpu[c].irq = End
  /\ Release(TicksLock)
  /\ cpu' = [cpu EXCEPT ![c].irq = AfterClock(c)]
  /\ UNCHANGED <<proc, thread, ticks, nextpid, shell>>

(* The timer of a CPU that does not keep the time.                         *)
TimerBegin(c) ==
  /\ c # CPU0 /\ Interruptible(c) /\ AfterClock(c) = Yielding
  /\ cpu' = [cpu EXCEPT ![c].irq = Yielding]
  /\ UNCHANGED <<proc, thread, lock, ticks, nextpid, shell>>

(* usertrap lets a killed process exit before it would yield; kerneltrap   *)
(* yields at any point of the kernel where interrupts are on.              *)
Yield(c) ==
  LET p == cpu[c].proc IN
  /\ cpu[c].irq = Yielding /\ Free(p)
  /\ \/ /\ thread[p].at = "user" /\ proc[p].killed
        /\ Finish(p, "exit")
        /\ cpu' = [cpu EXCEPT ![c].irq = 0]
        /\ UNCHANGED <<proc, lock>>
     \/ /\ ~ (thread[p].at = "user" /\ proc[p].killed)
        /\ lock' = [lock EXCEPT ![p] = c]
        /\ proc' = [proc EXCEPT ![p].state = "RUNNABLE"]
        /\ thread' = [thread EXCEPT ![p].at = "yielded", ![p].resume = thread[p].at]
        /\ cpu' = [cpu EXCEPT ![c].irq = 0, ![c].at = "back"]
  /\ UNCHANGED <<ticks, nextpid, shell>>

(* The rest of yield(), when the process is scheduled again.               *)
YieldReturn(c, p) ==
  /\ On(c, p) /\ thread[p].at = "yielded"
  /\ Release(p)
  /\ thread' = [thread EXCEPT ![p].at = thread[p].resume, ![p].resume = "none"]
  /\ UNCHANGED <<proc, cpu, ticks, nextpid, shell>>

SchedulerStepRR(c) ==
  \/ ScanBeginRR(c) \/ ScanRR(c) \/ SwitchBackRR(c) \/ ScanEnd(c)

TimerStep(c) ==
  \/ ClockBegin(c) \/ ClockWake(c) \/ ClockEndRR(c)
  \/ TimerBegin(c) \/ Yield(c)

NextRR ==
  \E c \in CPU :
    \/ SchedulerStepRR(c)
    \/ TimerStep(c)
    \/ \E p \in Proc : YieldReturn(c, p) \/ ProcStep(c, p)

SpecRR == Init /\ [][NextRR]_vars

(* As in ProcFCFS; programs may spin in user space for ever.               *)
FairnessRR ==
  /\ UserFairness
  /\ \A c \in CPU :
       /\ SF_vars(SchedulerStepRR(c) \/ \E p \in Proc : YieldReturn(c, p) \/ KernelStep(c, p))
       /\ SF_vars(TimerStep(c))

FairSpecRR == SpecRR /\ FairnessRR

=============================================================================
