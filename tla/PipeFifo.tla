-------------------------------- MODULE PipeFifo -------------------------------
(***************************************************************************)
(* What a pipe promises the processes that hold its ends: a queue of bytes *)
(* of bounded length, which answers a read with the bytes that have waited *)
(* longest, and with none only when it is empty and nobody can write to it *)
(* any more.  A page is used for one pipe after another.                   *)
(***************************************************************************)
EXTENDS Integers, Sequences

CONSTANTS Process, Byte, Size, None

VARIABLES queue,      \* the bytes written and not read
          readopen, writeopen,
          answer      \* the bytes a read of the process is about to return

vars == <<queue, readopen, writeopen, answer>>

Init ==
  /\ queue = << >>
  /\ readopen = FALSE
  /\ writeopen = FALSE
  /\ answer = [p \in Process |-> None]

Open ==
  /\ ~ readopen /\ ~ writeopen
  /\ queue' = << >>
  /\ readopen' = TRUE
  /\ writeopen' = TRUE
  /\ UNCHANGED answer

Put(b) ==
  /\ readopen /\ writeopen /\ Len(queue) < Size
  /\ queue' = Append(queue, b)
  /\ UNCHANGED <<readopen, writeopen, answer>>

Get(p, k) ==
  /\ readopen /\ answer[p] = None
  /\ k = 0 => queue = << >> /\ ~ writeopen
  /\ answer' = [answer EXCEPT ![p] = SubSeq(queue, 1, k)]
  /\ queue' = SubSeq(queue, k + 1, Len(queue))
  /\ UNCHANGED <<readopen, writeopen>>

Return(p) ==
  /\ answer[p] # None
  /\ answer' = [answer EXCEPT ![p] = None]
  /\ UNCHANGED <<queue, readopen, writeopen>>

CloseRead ==
  /\ readopen
  /\ readopen' = FALSE
  /\ queue' = IF writeopen THEN queue ELSE << >>
  /\ UNCHANGED <<writeopen, answer>>

CloseWrite ==
  /\ writeopen
  /\ writeopen' = FALSE
  /\ queue' = IF readopen THEN queue ELSE << >>
  /\ UNCHANGED <<readopen, answer>>

Next ==
  \/ Open
  \/ \E b \in Byte : Put(b)
  \/ \E p \in Process : Return(p) \/ \E k \in 0..Len(queue) : Get(p, k)
  \/ CloseRead
  \/ CloseWrite

Spec == Init /\ [][Next]_vars

=============================================================================
