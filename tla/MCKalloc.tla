------------------------------ MODULE MCKalloc ------------------------------
(***************************************************************************)
(* Three pages and two threads: the list empties, refills and leaves a     *)
(* stale tail behind while the other thread is inside kfree or kalloc.     *)
(***************************************************************************)
EXTENDS Kalloc

CONSTANTS t1, t2, none
=============================================================================
