-------------------------------- MODULE MCBcache -------------------------------
(***************************************************************************)
(* Three processes and the eight descriptors of the driver: fewer buffers  *)
(* than blocks, or buffers for more requests than there are descriptors.   *)
(***************************************************************************)
EXTENDS Bcache, TLC

CONSTANTS p1, p2, p3, b1, b2, b3

Symmetry == Permutations(Process) \union Permutations(Block \ Changing)
=============================================================================
