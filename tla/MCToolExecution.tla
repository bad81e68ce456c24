--------------------------- MODULE MCToolExecution ---------------------------
(* Small instances of ToolExecution for TLC. *)
EXTENDS ToolExecution
=============================================================================
