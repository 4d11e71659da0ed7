----------------------------- MODULE MCKeyStore ------------------------------
(***************************************************************************)
(* TLC instance of KeyStore: processes, keys and ids are only compared.    *)
(***************************************************************************)
EXTENDS KeyStore, TLC

Symmetry == Permutations(Procs) \cup Permutations(Keys) \cup Permutations(Ids)
=============================================================================
