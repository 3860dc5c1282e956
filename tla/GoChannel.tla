----------------------------- MODULE GoChannel -----------------------------
(***************************************************************************)
(* What a channel promises to a serial program (docs/spec/architecture.md, *)
(* "Selected Serial Concurrency Envelope"): a first in, first out buffer   *)
(* and a close state, from which the result of every operation is          *)
(* determined at once.  A send, a receive and a select are one operation,  *)
(* over one alternative or several; it proceeds with any alternative that  *)
(* Go would let proceed, and would block only where Go would.              *)
(*                                                                         *)
(* The channels of the provider library are of the same kind, but only the *)
(* library puts values in, and it drops what does not fit.                 *)
(***************************************************************************)
EXTENDS Naturals, Sequences

CONSTANTS
    Channels,   \* channel identities
    Providers,  \* the channels the provider library owns
    Nil,        \* the nil channel
    Values,
    Capacity,   \* channel -> size of its buffer
    NoValue,    \* what a receive alternative sends
    Nothing     \* no alternative

VARIABLES
    queue,   \* channel -> values sent and not received
    closed,  \* channel -> it was closed
    outcome  \* of the last operation: what was asked, what was done, the result

vars == <<queue, closed, outcome>>

Sends == [op : {"send"}, on : (Channels \ Providers) \cup {Nil}, value : Values]
Receives == [op : {"receive"}, on : Channels \cup {Nil}, value : {NoValue}]
Alternatives == Sends \cup Receives

Result(asked, did, result) == [asked |-> asked, did |-> did, result |-> result]
NoOutcome == Result({}, Nothing, "none")

-----------------------------------------------------------------------------
Init ==
    /\ queue = [c \in Channels |-> <<>>]
    /\ closed = [c \in Channels |-> FALSE]
    /\ outcome = NoOutcome

Proceeds(a) ==
    /\ a.on # Nil
    /\ \/ closed[a.on]
       \/ a.op = "send" /\ Len(queue[a.on]) < Capacity[a.on]
       \/ a.op = "receive" /\ queue[a.on] # <<>>

Transfer(asked, a) ==
    \/ /\ a.op = "send" /\ closed[a.on]
       /\ outcome' = Result(asked, a, "send on closed channel")
       /\ UNCHANGED queue
    \/ /\ a.op = "send" /\ ~closed[a.on]
       /\ outcome' = Result(asked, a, "sent")
       /\ queue' = [queue EXCEPT ![a.on] = Append(@, a.value)]
    \/ /\ a.op = "receive" /\ queue[a.on] # <<>>
       /\ outcome' = Result(asked, a, Head(queue[a.on]))
       /\ queue' = [queue EXCEPT ![a.on] = Tail(@)]
    \/ /\ a.op = "receive" /\ queue[a.on] = <<>>
       /\ outcome' = Result(asked, a, "zero")
       /\ UNCHANGED queue

Communicate ==
    LET asked == outcome'.asked IN
    /\ asked \subseteq Alternatives
    /\ \/ \E a \in asked : Proceeds(a) /\ Transfer(asked, a)
       \/ /\ \A a \in asked : ~Proceeds(a)
          /\ outcome' = Result(asked, Nothing, "would block")
          /\ UNCHANGED queue
    /\ UNCHANGED closed

Close(c) ==
    /\ closed' = [closed EXCEPT ![c] = TRUE]
    /\ outcome' = Result({}, Nothing, IF closed[c] /\ c \notin Providers
                                      THEN "close of closed channel" ELSE "closed")
    /\ UNCHANGED queue

CloseNil ==
    /\ outcome' = Result({}, Nothing, "close of nil channel")
    /\ UNCHANGED <<queue, closed>>

\* The library puts a value in: it is dropped when there is no room for it.
Offer(c, v) ==
    /\ queue' = IF closed[c] \/ Len(queue[c]) >= Capacity[c] THEN queue
                ELSE [queue EXCEPT ![c] = Append(@, v)]
    /\ outcome' = NoOutcome
    /\ UNCHANGED closed

Discard(c) ==
    /\ queue' = [queue EXCEPT ![c] = <<>>]
    /\ outcome' = NoOutcome
    /\ UNCHANGED closed

\* The program goes on to something else.
Continue == outcome' = NoOutcome /\ UNCHANGED <<queue, closed>>

Next ==
    \/ Communicate
    \/ \E c \in Channels : Close(c)
    \/ CloseNil
    \/ \E c \in Providers, v \in Values : Offer(c, v)
    \/ \E c \in Providers : Discard(c)
    \/ Continue

Spec == Init /\ [][Next]_vars
=============================================================================
