------------------------------- MODULE Terminal -------------------------------
(***************************************************************************)
(* What the console promises of its input (kernel/console.c): characters   *)
(* are read in the order they were typed, a line at a time; until its line *)
(* is complete a character can be erased; what does not fit is not stored. *)
(***************************************************************************)
EXTENDS Sequences, Naturals

CONSTANTS INPUT_BUF_SIZE, Char, EndOfLine(_)

VARIABLES unread,    \* complete lines, not read yet
          line       \* the line being typed

Init == unread = << >> /\ line = << >>

Room == Len(unread) + Len(line) < INPUT_BUF_SIZE

(* A line is complete when it ends, and also when there is no more room.   *)
Complete(c) == EndOfLine(c) \/ Len(unread) + Len(line) + 1 = INPUT_BUF_SIZE

Store(c) ==
  /\ Room /\ ~ Complete(c)
  /\ line' = Append(line, c)
  /\ UNCHANGED unread

StoreLast(c) ==
  /\ Room /\ Complete(c)
  /\ unread' = unread \o Append(line, c)
  /\ line' = << >>

Erase ==
  /\ line # << >>
  /\ line' = SubSeq(line, 1, Len(line) - 1)
  /\ UNCHANGED unread

Take ==
  /\ unread # << >>
  /\ unread' = Tail(unread)
  /\ UNCHANGED line

Next == (\E c \in Char : Store(c) \/ StoreLast(c)) \/ Erase \/ Take

Spec == Init /\ [][Next]_<<unread, line>>

===============================================================================
