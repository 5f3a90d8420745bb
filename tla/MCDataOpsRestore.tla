-------------------------- MODULE MCDataOpsRestore --------------------------
(* Symmetry for DataOpsRestore: operations and workers are interchangeable. *)
EXTENDS DataOpsRestore, TLC

Interchangeable == Permutations(Ops) \cup Permutations(Workers)
=============================================================================
