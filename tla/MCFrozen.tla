------------------------------ MODULE MCFrozen -------------------------------
(***************************************************************************)
(* TLC instance of Frozen.  Commands are interchangeable, and so are the   *)
(* contents of a file: neither is compared with anything but its like.     *)
(***************************************************************************)
EXTENDS Frozen, TLC

Symmetry == Permutations(Procs) \cup Permutations(Vals)
=============================================================================
