--------------------------- MODULE MCVaultRestore ---------------------------
(* Symmetry for VaultRestore: jobs and workers are interchangeable.         *)
EXTENDS VaultRestore, TLC

Interchangeable == Permutations(Jobs) \cup Permutations(Workers)
=============================================================================
