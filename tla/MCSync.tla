-------------------------------- MODULE MCSync --------------------------------
(***************************************************************************)
(* TLC instances of Sync.  Nodes and chunks are model values that no       *)
(* definition tells apart.                                                 *)
(***************************************************************************)
EXTENDS Sync, TLC

Symmetry == Permutations(Nodes) \cup Permutations(Chunks)
=============================================================================
