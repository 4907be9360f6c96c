------------------------------- MODULE MCConsole -------------------------------
(***************************************************************************)
(* A ring of two characters, and indices that wrap after four and start    *)
(* half way; a reader, two writers, the echo and printk.  Lines end with   *)
(* C('D'), which a read leaves to the next one, or because the ring is     *)
(* full: a newline would end them in the same way.                         *)
(***************************************************************************)
EXTENDS Console

CONSTANTS r1, w1, w2

=============================================================================
