--------------------------- MODULE MCContextWindow ---------------------------
(* Small instances of ContextWindow for TLC. *)
EXTENDS ContextWindow
=============================================================================
