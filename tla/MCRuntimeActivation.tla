------------------------ MODULE MCRuntimeActivation ------------------------
(* Model values for RuntimeActivation: g0 was active before g1, g2 is new. *)
EXTENDS RuntimeActivation

CONSTANTS g0, g1, g2
=============================================================================
