-------------------------- MODULE MCDataOpsWorker --------------------------
(* Model values for DataOpsWorker: created_at order is the order of numbers. *)
EXTENDS DataOpsWorker, TLC

TwoOps == 1..2

=============================================================================
