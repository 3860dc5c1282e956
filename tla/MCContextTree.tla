---------------------------- MODULE MCContextTree ----------------------------
(***************************************************************************)
(* An instance of ContextTree for TLC: three contexts, so that a chain of  *)
(* three and a parent with two children occur, and one AfterFunc           *)
(* registration, whose function may cancel any of them from inside a close.*)
(***************************************************************************)
EXTENDS ContextTree

CONSTANTS reason  \* a cause of the program's own
=============================================================================
