--------------------------- MODULE SerialChannel ---------------------------
(***************************************************************************)
(* The channels of a translated program: GoChannel of the emitted runtime  *)
(* (internal/emit/runtime/channel) and ProviderChannel of the library      *)
(* (gostdlib, portable/concurrency).  The buffer of the first is read      *)
(* through a head index and compacted now and then.  A select prepares its *)
(* cases one by one, while their operands are evaluated and may use        *)
(* channels themselves, then tests and commits in one go.  close runs the  *)
(* observers of the channel, which may use channels, watch and stop        *)
(* watching them, close others, and panic.                                 *)
(*                                                                         *)
(* The program is serial: control is in the body of the observer called    *)
(* last, or outside every close.  Of the operands of a select, those that  *)
(* run a select or an observer themselves are left out.                    *)
(*                                                                         *)
(* An operator named Bug... is a mistaken form of the definition after it  *)
(* and is used by no specification: it says what a property would catch.   *)
(***************************************************************************)
EXTENDS Naturals, SequencesExt

CONSTANTS
    Channels, Providers, Nil, Values, Capacity, NoValue, Nothing,  \* as in GoChannel
    CompactAt,  \* the head index from which a buffer may be compacted (64)
    Usable,     \* the alternatives the program uses
    MaxCases,   \* bound on the cases of a select
    Observers,  \* functions given to $observeClose, each once
    Nowhere     \* an observer not yet registered

VARIABLES
    buffer, head,  \* channel -> values, and index of the first one not received
    closed,
    outcome,    \* as in GoChannel
    cases,      \* prepared cases of the select under evaluation
    observers,  \* channel -> registered observers, in insertion order
    watched,    \* observer -> the channel it was registered with
    told,       \* observer -> how often it was called
    withdrawn,  \* observers unregistered before they were called
    closing,    \* closes under way, the innermost first, with whom they called
    cut         \* channels whose close was abandoned by a panic

channelVars == <<buffer, head, closed>>
observerVars == <<observers, watched, told, withdrawn, closing, cut>>
vars == <<channelVars, outcome, cases, observerVars>>

Live(c) == Len(buffer[c]) - head[c]

\* The values not received.
Pending(values, h) == SubSeq(values, h + 1, Len(values))

Promise == INSTANCE GoChannel WITH
    queue <- [c \in Channels |-> Pending(buffer[c], head[c])]

ASSUME ChannelsAssumption ==
    /\ Providers \subseteq Channels
    /\ Nil \notin Channels
    /\ Nowhere \notin Channels
    /\ Capacity \in [Channels -> Nat]
ASSUME CompactAtAssumption == CompactAt \in Nat
\* The alternatives a program can use are those of the promise.
ASSUME UsableAssumption == Usable \subseteq Promise!Alternatives

-----------------------------------------------------------------------------
\* sendReady, receiveReady, and ready of the case of a nil channel.
BugReady(a) ==
    /\ a.on # Nil
    /\ \/ closed[a.on]
       \/ a.op = "send" /\ Live(a.on) <= Capacity[a.on]
       \/ a.op = "receive" /\ Live(a.on) > 0

Ready(a) ==
    /\ a.on # Nil
    /\ \/ closed[a.on]
       \/ a.op = "send" /\ Live(a.on) < Capacity[a.on]
       \/ a.op = "receive" /\ Live(a.on) > 0

CompactionNeeded(values, h) == h >= CompactAt /\ h * 2 >= Len(values)

\* compactBuffer: the values kept and the index of the first of them.
BugCompacted(values, h) ==
    IF h = Len(values) THEN [values |-> <<>>, head |-> 0]
    ELSE [values |-> values, head |-> h]

Compacted(values, h) ==
    IF h = Len(values) THEN [values |-> <<>>, head |-> 0]
    ELSE IF CompactionNeeded(values, h)
    THEN [values |-> SubSeq(values, h + 1, Len(values)), head |-> 0]
    ELSE [values |-> values, head |-> h]

\* What taking the first value of a channel leaves; a provider channel shifts.
Taken(c) ==
    IF c \in Providers THEN [values |-> Tail(buffer[c]), head |-> 0]
    ELSE Compacted(buffer[c], head[c] + 1)

\* commitPreparedSend, commitSelectSend and takeReceive: FALSE when neither
\* applies.
Commit(asked, a) ==
    IF a.op = "send"
    THEN \/ /\ closed[a.on]
            /\ outcome' = Promise!Result(asked, a, "send on closed channel")
            /\ UNCHANGED channelVars
         \/ /\ ~closed[a.on] /\ Live(a.on) < Capacity[a.on]
            /\ outcome' = Promise!Result(asked, a, "sent")
            /\ buffer' = [buffer EXCEPT ![a.on] = Append(@, a.value)]
            /\ UNCHANGED <<head, closed>>
    ELSE \/ /\ Live(a.on) > 0
            /\ outcome' = Promise!Result(asked, a, buffer[a.on][head[a.on] + 1])
            /\ buffer' = [buffer EXCEPT ![a.on] = Taken(a.on).values]
            /\ head' = [head EXCEPT ![a.on] = Taken(a.on).head]
            /\ UNCHANGED closed
         \/ /\ Live(a.on) <= 0 /\ closed[a.on]
            /\ outcome' = Promise!Result(asked, a, "zero")
            /\ UNCHANGED channelVars

Commits(a) ==
    \/ closed[a.on]
    \/ a.op = "send" /\ Live(a.on) < Capacity[a.on]
    \/ a.op = "receive" /\ Live(a.on) > 0

WouldBlock(asked) ==
    /\ outcome' = Promise!Result(asked, Nothing, "would block")
    /\ UNCHANGED channelVars

-----------------------------------------------------------------------------
Init ==
    /\ buffer = [c \in Channels |-> <<>>]
    /\ head = [c \in Channels |-> 0]
    /\ closed = [c \in Channels |-> FALSE]
    /\ outcome = Promise!NoOutcome
    /\ cases = <<>>
    /\ observers = [c \in Channels |-> <<>>]
    /\ watched = [o \in Observers |-> Nowhere]
    /\ told = [o \in Observers |-> 0]
    /\ withdrawn = {}
    /\ closing = <<>>
    /\ cut = {}

\* The program's own code runs, outside every close or in an observer.
Running == closing # <<>> => Head(closing).called # {}

\* send and receive, of the nil channel too.
Communicate(a) ==
    /\ Running
    /\ IF a.on # Nil /\ Commits(a) THEN Commit({a}, a) ELSE WouldBlock({a})
    /\ UNCHANGED <<cases, observerVars>>

\* selectSend and selectReceive: a case with its operands, the value copied.
Prepare(a) ==
    /\ Running
    /\ Len(cases) < MaxCases
    /\ cases' = Append(cases, a)
    /\ outcome' = Promise!NoOutcome
    /\ UNCHANGED <<channelVars, observerVars>>

\* select and selectReady: test every case, choose a ready one, commit it.  A
\* commit that declines counts as no case ready.
Select ==
    LET asked == {cases[i] : i \in DOMAIN cases} IN
    /\ Running
    /\ \/ \E a \in asked :
             /\ Ready(a)
             /\ IF Commits(a) THEN Commit(asked, a) ELSE WouldBlock(asked)
       \/ (\A a \in asked : ~Ready(a)) /\ WouldBlock(asked)
    /\ cases' = <<>>
    /\ UNCHANGED observerVars

Close(c) ==
    /\ Running
    /\ cases # <<>> => observers[c] = <<>>
    /\ closed' = [closed EXCEPT ![c] = TRUE]
    /\ outcome' = Promise!Result({}, Nothing, IF closed[c] /\ c \notin Providers
                                 THEN "close of closed channel" ELSE "closed")
    /\ closing' = IF closed[c] THEN closing
                  ELSE <<[on |-> c, called |-> {}]>> \o closing
    /\ UNCHANGED <<buffer, head, cases, observers, watched, told, withdrawn, cut>>

CloseNil ==
    /\ Running
    /\ outcome' = Promise!Result({}, Nothing, "close of nil channel")
    /\ UNCHANGED <<channelVars, cases, observerVars>>

\* ProviderChannel.offer, from a callback of the event loop.
Offer(c, v) ==
    /\ closing = <<>> /\ cases = <<>>
    /\ buffer' = IF closed[c] \/ Len(buffer[c]) >= Capacity[c] THEN buffer
                 ELSE [buffer EXCEPT ![c] = Append(@, v)]
    /\ outcome' = Promise!NoOutcome
    /\ UNCHANGED <<head, closed, cases, observerVars>>

\* ProviderChannel.discard, when a timer is reset.
Discard(c) ==
    /\ Running
    /\ buffer' = [buffer EXCEPT ![c] = <<>>]
    /\ outcome' = Promise!NoOutcome
    /\ UNCHANGED <<head, closed, cases, observerVars>>

\* $observeClose: a closed channel calls the observer at once.
BugObserveClose(o, c) ==
    /\ Running
    /\ watched[o] = Nowhere
    /\ watched' = [watched EXCEPT ![o] = c]
    /\ observers' = [observers EXCEPT ![c] = Append(@, o)]
    /\ outcome' = Promise!NoOutcome
    /\ UNCHANGED <<channelVars, cases, told, withdrawn, closing, cut>>

ObserveClose(o, c) ==
    /\ Running
    /\ watched[o] = Nowhere
    /\ watched' = [watched EXCEPT ![o] = c]
    /\ closed[c] => cases = <<>>
    /\ IF closed[c]
       THEN told' = [told EXCEPT ![o] = @ + 1] /\ UNCHANGED observers
       ELSE observers' = [observers EXCEPT ![c] = Append(@, o)] /\ UNCHANGED told
    /\ outcome' = Promise!NoOutcome
    /\ UNCHANGED <<channelVars, cases, withdrawn, closing, cut>>

\* The function $observeClose returned.
Unobserve(o) ==
    /\ Running
    /\ watched[o] # Nowhere
    /\ LET c == watched[o] IN
       \/ \E i \in DOMAIN observers[c] :
             /\ observers[c][i] = o
             /\ observers' = [observers EXCEPT ![c] = RemoveAt(@, i)]
       \/ /\ \A i \in DOMAIN observers[c] : observers[c][i] # o
          /\ UNCHANGED observers
    /\ withdrawn' = IF told[o] = 0 THEN withdrawn \cup {o} ELSE withdrawn
    /\ outcome' = Promise!NoOutcome
    /\ UNCHANGED <<channelVars, cases, watched, told, closing, cut>>

\* Where those are whom the innermost close still has to call: a Set is
\* iterated live, in insertion order.
Uncalled ==
    LET close == Head(closing)
    IN  {i \in DOMAIN observers[close.on] : observers[close.on][i] \notin close.called}

CallObserver ==
    /\ closing # <<>>
    /\ \E i \in Uncalled :
          /\ \A j \in Uncalled : i <= j
          /\ LET o == observers[Head(closing).on][i] IN
             /\ told' = [told EXCEPT ![o] = @ + 1]
             /\ closing' = [closing EXCEPT ![1].called = @ \cup {o}]
    /\ outcome' = Promise!NoOutcome
    /\ UNCHANGED <<channelVars, cases, observers, watched, withdrawn, cut>>

CloseReturns ==
    /\ closing # <<>>
    /\ Uncalled = {}
    /\ observers' = [observers EXCEPT ![Head(closing).on] = <<>>]
    /\ closing' = Tail(closing)
    /\ outcome' = Promise!NoOutcome
    /\ UNCHANGED <<channelVars, cases, watched, told, withdrawn, cut>>

\* A panic abandons the select under evaluation and the n innermost closes,
\* until the program recovers in an observer further out or outside all closes.
Panic(n) ==
    /\ Running
    /\ closing' = SubSeq(closing, n + 1, Len(closing))
    /\ cut' = cut \cup {closing[i].on : i \in 1..n}
    /\ cases' = <<>>
    /\ outcome' = Promise!NoOutcome
    /\ UNCHANGED <<channelVars, observers, watched, told, withdrawn>>

Next ==
    \/ \E a \in Usable : Communicate(a) \/ Prepare(a)
    \/ Select
    \/ \E c \in Channels :
          \/ Close(c)
          \/ \E o \in Observers : ObserveClose(o, c)
    \/ CloseNil
    \/ \E c \in Providers :
          \/ \E v \in Values : Offer(c, v)
          \/ Discard(c)
    \/ \E o \in Observers : Unobserve(o)
    \/ CallObserver
    \/ CloseReturns
    \/ \E n \in 0..Len(closing) : Panic(n)

Spec == Init /\ [][Next]_vars

-----------------------------------------------------------------------------
(* Properties *)

\* Every variable holds a value of its type, and the head stays in the buffer.
TypeOK ==
    /\ buffer \in [Channels -> Seq(Values)]
    /\ head \in [Channels -> Nat]
    /\ \A c \in Channels : head[c] <= Len(buffer[c])
    /\ \A c \in Providers : head[c] = 0
    /\ closed \in [Channels -> BOOLEAN]
    /\ cases \in Seq(Usable)
    /\ observers \in [Channels -> Seq(Observers)]
    /\ watched \in [Observers -> Channels \cup {Nowhere}]
    /\ told \in [Observers -> Nat]
    /\ withdrawn \subseteq Observers
    /\ closing \in Seq([on : Channels, called : SUBSET Observers])
    /\ cut \subseteq Channels

\* Head index, compaction, prepared cases and observers aside, a channel is
\* the first in, first out buffer of GoChannel: no value is lost, repeated or
\* overtaken, and no operation would block where Go would let it proceed.
ImplementsGoChannel == Promise!Spec

\* Values already received are not retained without bound: compactBuffer drops
\* them before the head reaches the larger of its limit and the capacity, so a
\* buffer never holds more than that and the values not received.
RetentionIsBounded ==
    \A c \in Channels :
        /\ Live(c) <= Capacity[c]
        /\ head[c] <= CompactAt \/ head[c] <= Capacity[c]

\* An observer is called once its channel is closed, once at most, and never
\* after it was withdrawn; when the close has returned, everyone who watched
\* the channel was called, unless a panic cut the close short.
ObserversAreServed ==
    \A o \in Observers : watched[o] # Nowhere =>
        LET c == watched[o] IN
        /\ told[o] <= 1
        /\ told[o] = 1 => closed[c] /\ o \notin withdrawn
        /\ (closed[c] /\ c \notin cut /\ \A i \in DOMAIN closing : closing[i].on # c)
              => told[o] = 1 \/ o \in withdrawn
=============================================================================
