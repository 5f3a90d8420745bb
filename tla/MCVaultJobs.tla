---------------------------- MODULE MCVaultJobs ----------------------------
(* Model values for VaultJobs: created_at order is the order of numbers.    *)
EXTENDS VaultJobs, TLC

OneJob == 1..1
=============================================================================
