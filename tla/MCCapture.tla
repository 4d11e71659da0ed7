------------------------------ MODULE MCCapture ------------------------------
(***************************************************************************)
(* TLC instance of Capture.  The code only compares blocks (through the    *)
(* hash of the content), so the block values are interchangeable.          *)
(***************************************************************************)
EXTENDS Capture, TLC

BlockSymmetry == Permutations(Blocks)
=============================================================================
