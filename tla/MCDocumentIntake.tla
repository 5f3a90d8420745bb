-------------------------- MODULE MCDocumentIntake --------------------------
(* Model values for DocumentIntake: two documents of one folder, one batch   *)
(* and one worker.                                                           *)
EXTENDS DocumentIntake, TLC

CONSTANTS d1, d2, w1

=============================================================================
