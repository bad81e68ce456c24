---------------------------- MODULE MCEvaluation ----------------------------
(* Small instances of Evaluation for TLC. *)
EXTENDS Evaluation
=============================================================================
