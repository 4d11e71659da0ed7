----------------------------- MODULE MCAuditLog ------------------------------
(***************************************************************************)
(* TLC instance of AuditLog: processes and entry bodies are only compared, *)
(* so both sets are symmetric in the safety runs.                          *)
(***************************************************************************)
EXTENDS AuditLog, TLC

Symmetry == Permutations(Procs) \cup Permutations(Bodies)
=============================================================================
