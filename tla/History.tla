------------------------------- MODULE History --------------------------------
(***************************************************************************)
(* What the snapshot graph of a fabric promises, whatever command runs or  *)
(* dies: an append-only history of trees, each committed on top of the     *)
(* HEAD of its time, and a HEAD that names a committed tree or none.       *)
(***************************************************************************)
EXTENDS Integers, Sequences

CONSTANT Trees

VARIABLES snaps, head

Init == snaps = <<>> /\ head = 0

Commit ==
    /\ \E t \in Trees : snaps' = Append(snaps, [parent |-> head, files |-> t])
    /\ UNCHANGED head

Checkout ==
    /\ head' \in 0..Len(snaps)
    /\ UNCHANGED snaps

Next == Commit \/ Checkout

Spec == Init /\ [][Next]_<<snaps, head>>
=============================================================================
