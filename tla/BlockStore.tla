------------------------------ MODULE BlockStore -------------------------------
(***************************************************************************)
(* What the buffer cache promises the file system: the blocks of a disk,   *)
(* of which a process holds one at a time to itself and sees the contents  *)
(* the last holder left.                                                   *)
(***************************************************************************)
CONSTANTS Process, Block, Val, Blank, Nothing

VARIABLES mem,     \* the contents of each block
          held     \* the block each process holds, or Nothing

vars == <<mem, held>>

Init ==
  /\ mem = [b \in Block |-> Blank]
  /\ held = [p \in Process |-> Nothing]

Hold(p, b) ==
  /\ held[p] = Nothing /\ \A q \in Process : held[q] # b
  /\ held' = [held EXCEPT ![p] = b]
  /\ UNCHANGED mem

Change(p, v) ==
  /\ held[p] # Nothing
  /\ mem' = [mem EXCEPT ![held[p]] = v]
  /\ UNCHANGED held

Drop(p) ==
  /\ held[p] # Nothing
  /\ held' = [held EXCEPT ![p] = Nothing]
  /\ UNCHANGED mem

Next ==
  \E p \in Process :
    \/ \E b \in Block : Hold(p, b)
    \/ \E v \in Val : Change(p, v)
    \/ Drop(p)

Spec == Init /\ [][Next]_vars

=============================================================================
