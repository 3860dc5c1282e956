------------------------- MODULE MCBuildTransaction -------------------------
(***************************************************************************)
(* An instance of BuildTransaction for TLC: two invocations of the command *)
(* on one output directory, one after the other, one after the crash of    *)
(* the other, or side by side.                                             *)
(***************************************************************************)
EXTENDS BuildTransaction

Verifications == {"package", "callable"}
=============================================================================
