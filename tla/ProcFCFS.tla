------------------------------- MODULE ProcFCFS -------------------------------
(***************************************************************************)
(* The scheduler of xv6-riscv-modificado: first come first served by       *)
(* arrival_time, without preemption (the yield() calls of trap.c are       *)
(* commented out).                                                         *)
(***************************************************************************)
EXTENDS Proc

(* intr_on, intr_off: the head of the scheduler's loop.                    *)
ScanBeginFCFS(c) ==
  /\ cpu[c].at = "loop" /\ cpu[c].irq = 0
  /\ cpu' = [cpu EXCEPT ![c].at = "scan"]
  /\ UNCHANGED <<proc, thread, lock, ticks, nextpid, shell>>

(* A faulty comparison: whoever comes first in the table stays selected.   *)
BetterFirstSlot(c, s) ==
  proc[s].state = "RUNNABLE" /\ cpu[c].selected = None

(* The process at slot s would replace the one selected so far.            *)
Better(c, s) ==
  LET selected == cpu[c].selected IN
  /\ proc[s].state = "RUNNABLE"
  /\ selected # None => proc[s].arrival_time < proc[selected].arrival_time

(* One slot of the scan.  The lock of the selected process, and only that  *)
(* one, stays held.                                                        *)
ScanFCFS(c) ==
  LET s == cpu[c].i
      selected == cpu[c].selected
  IN
  /\ cpu[c].at = "scan" /\ s # End /\ Free(s)
  /\ \/ /\ Better(c, s)
        /\ lock' = [l \in Lock |-> IF l = s THEN c
                                   ELSE IF l = selected THEN NoCPU ELSE lock[l]]
        /\ cpu' = [cpu EXCEPT ![c].i = s + 1, ![c].selected = s]
     \/ /\ ~ Better(c, s)
        /\ cpu' = [cpu EXCEPT ![c].i = s + 1]
        /\ UNCHANGED lock
  /\ UNCHANGED <<proc, thread, ticks, nextpid, shell>>

(* swtch to the selected process.                                          *)
Dispatch(c) ==
  LET selected == cpu[c].selected IN
  /\ cpu[c].at = "scan" /\ cpu[c].i = End /\ selected # None
  /\ proc' = [proc EXCEPT ![selected].state = "RUNNING"]
  /\ cpu' = [cpu EXCEPT ![c].at = "switched", ![c].proc = selected]
  /\ UNCHANGED <<thread, lock, ticks, nextpid, shell>>

(* Nothing to run: wfi, then round the loop again.                         *)
Idle(c) ==
  /\ cpu[c].at = "scan" /\ cpu[c].i = End /\ cpu[c].selected = None
  /\ cpu' = [cpu EXCEPT ![c] = Looping]
  /\ UNCHANGED <<proc, thread, lock, ticks, nextpid, shell>>

(* A faulty scheduler that does not release the lock.                      *)
SwitchBackLocked(c) ==
  /\ cpu[c].at = "back"
  /\ cpu' = [cpu EXCEPT ![c] = Looping]
  /\ UNCHANGED <<proc, thread, lock, ticks, nextpid, shell>>

(* The process came back: release its lock.                                *)
SwitchBackFCFS(c) ==
  /\ cpu[c].at = "back"
  /\ Release(cpu[c].selected)
  /\ cpu' = [cpu EXCEPT ![c] = Looping]
  /\ UNCHANGED <<proc, thread, ticks, nextpid, shell>>

(* The clock interrupt returns to what it interrupted, without a yield: to *)
(* the rest of usertrap when that was a user program.                      *)
ClockEndFCFS(c) ==
  LET p == cpu[c].proc IN
  /\ cpu[c].irq = End
  /\ Release(TicksLock)
  /\ cpu' = [cpu EXCEPT ![c].irq = 0]
  /\ IF cpu[c].at = "switched" /\ thread[p].at = "user"
       THEN Finish(p, "ret")
       ELSE UNCHANGED thread
  /\ UNCHANGED <<proc, ticks, nextpid, shell>>

SchedulerStepFCFS(c) ==
  \/ ScanBeginFCFS(c) \/ ScanFCFS(c) \/ Dispatch(c) \/ Idle(c) \/ SwitchBackFCFS(c)

NextFCFS ==
  \E c \in CPU :
    \/ SchedulerStepFCFS(c)
    \/ ClockBegin(c) \/ ClockWake(c) \/ ClockEndFCFS(c)
    \/ \E p \in Proc : ProcStep(c, p)

SpecFCFS == Init /\ [][NextFCFS]_vars

(* A CPU in the kernel goes on: a spinlock that is free again and again is *)
(* taken in the end, and clock interrupts are taken in the end but are far *)
(* enough apart to let the CPU get on with other work between them.        *)
FairnessFCFS ==
  /\ UserFairness
  /\ \A c \in CPU :
       /\ SF_vars(SchedulerStepFCFS(c) \/ \E p \in Proc : KernelStep(c, p))
       /\ SF_vars(ClockBegin(c) \/ ClockWake(c) \/ ClockEndFCFS(c))

FairSpecFCFS == SpecFCFS /\ FairnessFCFS
EndingSpec == FairSpecFCFS /\ ProgramsEnd

-----------------------------------------------------------------------------
(* Properties                                                              *)

(* Each dispatch takes a runnable process none arrived before, as the      *)
(* comment at proc.c:446 says.                                             *)
EarliestArrival ==
  [][\A c \in CPU : Dispatch(c) =>
       \A p \in Proc : proc[p].state = "RUNNABLE" =>
         proc[cpu[c].selected].arrival_time <= proc[p].arrival_time]_vars

=============================================================================
