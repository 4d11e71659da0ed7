------------------------------- MODULE MCFleet --------------------------------
(***************************************************************************)
(* TLC instances of Fleet: one node signs orders, both are given them.     *)
(***************************************************************************)
EXTENDS Fleet

CONSTANTS n1, n2

MCNodes   == {n1, n2}
MCSigners == {n1}
=============================================================================
