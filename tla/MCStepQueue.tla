---------------------------- MODULE MCStepQueue -----------------------------
(* Small instances of StepQueue for TLC. *)
EXTENDS StepQueue
=============================================================================
