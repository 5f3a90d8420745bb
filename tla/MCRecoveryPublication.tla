----------------------- MODULE MCRecoveryPublication -----------------------
(* Model values for RecoveryPublication.                                    *)
EXTENDS RecoveryPublication, TLC

CONSTANTS o1, o2, w1, w2

Symmetry == Permutations(Reconcilers) \cup Permutations(Ops)
=============================================================================
