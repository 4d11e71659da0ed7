------------------------------ MODULE MCFabric -------------------------------
(***************************************************************************)
(* TLC instances of Fabric.  Contents a and b have a chunk in common, so   *)
(* that a purge of one meets a chunk it must keep for the other.           *)
(***************************************************************************)
EXTENDS Fabric

CONSTANTS a, b, k1, k2, k3

MCChunksOf == [c \in {a, b} |-> IF c = a THEN {k1, k2} ELSE {k2, k3}]
=============================================================================
