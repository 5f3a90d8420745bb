------------------------- MODULE MCVaultPublication -------------------------
(* Model values for VaultPublication: two generations, two workers.          *)
EXTENDS VaultPublication, TLC

CONSTANTS g1, g2, w1, w2

=============================================================================
