-------------------------- MODULE MCSerialChannel --------------------------
(***************************************************************************)
(* An instance of SerialChannel for TLC: a channel of the program with a   *)
(* buffer of two, so that the head passes the compaction limit of one both *)
(* before and after half of the buffer is received, the nil channel, and a *)
(* provider channel with a buffer of one, as timers have.                  *)
(***************************************************************************)
EXTENDS SerialChannel, TLC

CONSTANTS chan, tick, v1, v2

CapacityOf == chan :> 2 @@ tick :> 1

Send(ch, v) == [op |-> "send", on |-> ch, value |-> v]
Receive(ch) == [op |-> "receive", on |-> ch, value |-> NoValue]

Used == {Send(chan, v1), Send(chan, v2), Receive(chan), Receive(tick), Receive(Nil)}

Interchangeable == Permutations(Values) \cup Permutations(Observers)
=============================================================================
