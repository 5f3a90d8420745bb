--------------------------- MODULE MCSearchCorpus ---------------------------
(* Model values for SearchCorpus: one editor, one snapshot, worker processes *)
(* that share the result cache.                                              *)
EXTENDS SearchCorpus, TLC

CONSTANTS w1, p1, h1, j1, d1, d2

JobOfHolder == h1 :> j1
=============================================================================
