-------------------------- MODULE MCVaultSnapshot --------------------------
(* Model values for VaultSnapshot: the only write changes a file too, which*)
(* the scan of the source trees can see.                                    *)
EXTENDS VaultSnapshot, TLC

CONSTANTS a1, a2

OneJob    == [a \in Attempts |-> Job]
FileWrite == {1}
Symmetry  == Permutations(Attempts)
=============================================================================
