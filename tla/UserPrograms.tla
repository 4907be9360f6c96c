------------------------------ MODULE UserPrograms -----------------------------
(***************************************************************************)
(* User programs as the system calls they make: the tests of usertests.c   *)
(* that are about processes and pipes, and the small programs forktest,    *)
(* zombie, test_launch and test_scheduler.                                 *)
(*                                                                         *)
(* Abstractions.  A loop is unrolled, Rounds times where the test would go *)
(* round more often (reparent2 once).  Bytes are counted, and what a       *)
(* program prints is left out.  What a test checks is part of the call     *)
(* whose result it is.                                                     *)
(***************************************************************************)
EXTENDS Integers, Sequences, SequencesExt

CONSTANTS Rounds,      \* rounds of a test's loop
          MostForks    \* forks that cannot all succeed (N of forktest)

ASSUME ProgramsAssumption == Rounds \in Nat \ {0} /\ MostForks \in Nat \ {0}

(* Calls.  The child of fork goes on with child; fails is what the parent  *)
(* does next when there is none.                                           *)
Close(fd) == [call |-> "close", fd |-> fd]
Dup(fd) == [call |-> "dup", fd |-> fd]
Fork(child, fails) == [call |-> "fork", child |-> child, fails |-> fails]
Leave(status) == [call |-> "exit", status |-> status]
Pause == [call |-> "pause"]
Spin == [call |-> "spin"]
Pipe(fails) == [call |-> "pipe", fails |-> fails]

(* kill of the k-th child, or of the parent.                               *)
Kill(k) == [call |-> "kill", kid |-> k]
Parent == 0

(* wait, which may find no child, or none but the last one, and what its   *)
(* status may be.                                                          *)
AnyStatus == -1..Rounds
WaitsFor(none, last, statuses) ==
  [call |-> "wait", none |-> none, last |-> last, statuses |-> statuses]
Wait == WaitsFor(TRUE, FALSE, AnyStatus)
NoChild == WaitsFor(TRUE, FALSE, {})

(* Bytes that write must have written, that reads up to the end must have  *)
(* seen, and that one read must return.                                    *)
Write(fd, n) == [call |-> "write", fd |-> fd, n |-> n]
ReadToEnd(fd, n) == [call |-> "read_to_end", fd |-> fd, n |-> n]
ReadOnce(fd, n) == [call |-> "read_once", fd |-> fd, n |-> n]

(* A test that fails says so.                                              *)
Fails == [call |-> "fail"]

Round == 1..Rounds

(* A program that does not look whether its fork succeeded.                *)
ForkAnd(child, rest) == <<Fork(child, rest)>> \o rest

-----------------------------------------------------------------------------
(* usertests.c.  The descriptors of a test's pipe are the two above those  *)
(* of the console.                                                         *)

R == 3
W == 4
ForkFailed == <<Leave(1)>>

Pipe1 ==
  LET writes == [n \in Round |-> Write(W, 2)] IN
  <<Pipe(ForkFailed), Fork(<<Close(R)>> \o writes \o <<Leave(0)>>, ForkFailed),
    Close(W), ReadToEnd(R, 2 * Rounds), Close(R), WaitsFor(FALSE, FALSE, {0})>>

Killstatus ==
  FlattenSeq([i \in Round |->
    <<Fork(<<Spin>>, ForkFailed), Pause, Kill(i), WaitsFor(FALSE, FALSE, {-1})>>])

(* preempt would see by its read that it has no pipe.                      *)
Preempt ==
  <<Fork(<<Spin>>, ForkFailed), Fork(<<Spin>>, ForkFailed), Pipe(<<Fails>>),
    Fork(<<Close(R), Write(W, 1), Close(W), Spin>>, ForkFailed),
    Close(W), ReadOnce(R, 1), Close(R), Kill(1), Kill(2), Kill(3), Wait, Wait, Wait>>

Exitwait ==
  FlattenSeq([i \in Round |->
    <<Fork(<<Leave(i - 1)>>, ForkFailed), WaitsFor(FALSE, TRUE, {i - 1})>>])

Reparent ==
  LET grandchild == Fork(<<Leave(0)>>, <<Kill(Parent), Leave(1)>>) IN
  FlattenSeq([i \in Round |->
    <<Fork(<<grandchild, Leave(0)>>, ForkFailed), WaitsFor(FALSE, TRUE, AnyStatus)>>])

Twochildren ==
  LET child == Fork(<<Leave(0)>>, ForkFailed) IN
  FlattenSeq([i \in Round |-> <<child, child, Wait, Wait>>])

Forkfork ==
  LET kid == Fork(FlattenSeq([j \in Round |-> <<Fork(<<Leave(0)>>, ForkFailed), Wait>>]),
                  ForkFailed) IN
  <<kid, kid, WaitsFor(FALSE, FALSE, {0}), WaitsFor(FALSE, FALSE, {0})>>

(* fork(); fork(); exit(0): the first child forks too.  One round, for the *)
(* orphans of each may still be there in the next.                         *)
Reparent2 == <<Fork(ForkAnd(ForkAnd(<< >>, << >>), ForkAnd(<< >>, << >>)), ForkFailed), Wait>>

(* The calls after n forks that succeeded.                                 *)
Reaped(n) == [i \in 1..n |-> WaitsFor(FALSE, FALSE, AnyStatus)] \o <<NoChild>>
Forks[n \in 0..MostForks] ==
  IF n = MostForks THEN <<Fails>>
  ELSE <<Fork(<<Leave(0)>>, Reaped(n))>> \o Forks[n + 1]
Forktest == [Forks[0] EXCEPT ![1].fails = <<Fails>>]

Test == [pipe1 |-> Pipe1, killstatus |-> Killstatus, preempt |-> Preempt, exitwait |-> Exitwait,
         reparent |-> Reparent, twochildren |-> Twochildren, forkfork |-> Forkfork,
         reparent2 |-> Reparent2, forktest |-> Forktest]

(* run: a test has a process of its own, whose status says whether it went *)
(* well.                                                                   *)
Run(test) == <<Fork(test \o <<Leave(0)>>, ForkFailed), WaitsFor(FALSE, FALSE, {0})>>

-----------------------------------------------------------------------------
(* Other programs                                                          *)

(* forktest.c does not mind if no fork succeeds.                           *)
ForktestAlone == Forks[0]

Zombie == <<Fork(<< >>, << >>), Pause>>

TestScheduler == <<Pause>>
TestLaunch ==
  LET Launch(rest) == ForkAnd(TestScheduler, rest) IN
  Launch(<<Pause>> \o Launch(<<Pause>> \o Launch(<<Wait, Wait, Wait>>)))

Binary == [zombie |-> Zombie, test_launch |-> TestLaunch, forktest |-> ForktestAlone]

(* The calls of the program that argv names, with its arguments.           *)
Commands == {<<b>> : b \in DOMAIN Binary} \union {<<"usertests", t>> : t \in DOMAIN Test}
TextOf(argv) == IF argv[1] = "usertests" THEN Run(Test[argv[2]]) ELSE Binary[argv[1]]

=============================================================================
