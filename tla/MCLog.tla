--------------------------------- MODULE MCLog ---------------------------------
(***************************************************************************)
(* Three processes, two of which fit in the log together, so that one waits*)
(* for room; two blocks, so that calls share one and overwrite each other. *)
(***************************************************************************)
EXTENDS Log

CONSTANTS p1, p2, p3, b1, b2
=============================================================================
