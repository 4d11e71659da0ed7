------------------------------ MODULE MCSurgical -------------------------------
(***************************************************************************)
(* TLC instances of Surgical.                                              *)
(***************************************************************************)
EXTENDS Surgical, TLC

Symmetry == Permutations(Actors) \cup Permutations(Contents)
=============================================================================
