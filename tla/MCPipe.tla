--------------------------------- MODULE MCPipe --------------------------------
(***************************************************************************)
(* Two processes that fork, two files and two descriptors each, one pipe *)
(* of two bytes whose counters wrap after four.                            *)
(***************************************************************************)
EXTENDS Pipe

CONSTANTS p1, p2
=============================================================================
