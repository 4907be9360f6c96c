--------------------------------- MODULE MCVm ---------------------------------
(***************************************************************************)
(* Two processes, pages of two bytes, eight pages of virtual memory: six   *)
(* for the user. A program of text alone, and one of data that ends within *)
(* a page and of text that has its pages already.                          *)
(***************************************************************************)
EXTENDS Vm

CONSTANTS p1, p2

Text == [start |-> 0, end |-> 1, write |-> FALSE]
Data == [start |-> 2, end |-> 3, write |-> TRUE]

Small == <<Text>>
Programs == {Small, <<Data, Text>>}

=============================================================================
