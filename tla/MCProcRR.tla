------------------------------- MODULE MCProcRR -------------------------------
(***************************************************************************)
(* As MCProcFCFS, with the original scheduler.                             *)
(***************************************************************************)
EXTENDS ProcRR

CONSTANTS c1, c2, none
=============================================================================
