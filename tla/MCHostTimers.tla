---------------------------- MODULE MCHostTimers ----------------------------
(***************************************************************************)
(* HostTimers for TLC: two timers and one source with two tickers, and one *)
(* handle more than callbacks that can be scheduled at once.               *)
(***************************************************************************)
EXTENDS HostTimers
=============================================================================
