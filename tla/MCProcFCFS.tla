------------------------------ MODULE MCProcFCFS ------------------------------
(***************************************************************************)
(* Up to two CPUs and three slots: init, its shell and a grandchild, so    *)
(* that an orphan can be left to init and a slot can be used again.        *)
(***************************************************************************)
EXTENDS ProcFCFS

CONSTANTS c1, c2, none
=============================================================================
