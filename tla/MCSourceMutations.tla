------------------------- MODULE MCSourceMutations -------------------------
(* Model values for SourceMutations: two attempts of one job and the only   *)
(* attempt of another compete for the barrier.                              *)
EXTENDS SourceMutations, TLC

CONSTANTS h1, h2, h3, j1, j2

JobOfHolder == (h1 :> j1) @@ (h2 :> j1) @@ (h3 :> j2)
=============================================================================
