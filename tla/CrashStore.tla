------------------------------ MODULE CrashStore ------------------------------
(***************************************************************************)
(* What the logging system of xv6-riscv promises the file system, with no  *)
(* log, no cache and no header: the disk always holds the blocks as they   *)
(* were at a moment when no file system call was in progress, so that a    *)
(* crash loses whole calls and never a part of one.                        *)
(***************************************************************************)
EXTENDS Integers

CONSTANTS Process, Block, Val, Blank

VARIABLES mem,      \* the blocks as system calls see them
          stable,   \* the blocks a crash at this moment would leave
          active    \* the processes inside a file system call

vars == <<mem, stable, active>>

Init ==
  /\ mem = [b \in Block |-> Blank]
  /\ stable = mem
  /\ active = {}

Begin(p) ==
  /\ p \notin active
  /\ active' = active \union {p}
  /\ UNCHANGED <<mem, stable>>

Write(p, b, v) ==
  /\ p \in active
  /\ mem' = [mem EXCEPT ![b] = v]
  /\ UNCHANGED <<stable, active>>

End(p) ==
  /\ p \in active
  /\ active' = active \ {p}
  /\ UNCHANGED <<mem, stable>>

(* Everything written so far becomes stable at once.                       *)
Save ==
  /\ active = {}
  /\ stable' = mem
  /\ UNCHANGED <<mem, active>>

Crash ==
  /\ mem' = stable
  /\ active' = {}
  /\ UNCHANGED stable

Next ==
  \/ \E p \in Process :
       \/ Begin(p)
       \/ End(p)
       \/ \E b \in Block, v \in Val : Write(p, b, v)
  \/ Save
  \/ Crash

Spec == Init /\ [][Next]_vars

=============================================================================
