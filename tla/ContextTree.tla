----------------------------- MODULE ContextTree -----------------------------
(***************************************************************************)
(* Contexts of the serial profile (gostdlib portable/context, with the     *)
(* ProviderChannel they close and os/signal.NotifyContext).  There are no  *)
(* goroutines: cancel closes the done channel, and close calls the         *)
(* channel's observers one after the other before it returns.  An observer *)
(* cancels a child, which closes another channel, or runs a function of    *)
(* the program (AfterFunc), which may cancel, create and stop whatever it  *)
(* likes, or panic.  stack holds the closes and functions under way.       *)
(*                                                                         *)
(* A Set is iterated in insertion order; here the context and its signals, *)
(* registered when it was created, are told first, the others in any       *)
(* order.  Time is left out: a timer fires in some turn of the event loop,  *)
(* which comes when the program has returned.  A ValueContext shares       *)
(* Done and Err with its parent and is not told apart from it; AfterFunc   *)
(* of Background, which never runs, and foreign implementations of Context *)
(* are left out.                                                           *)
(*                                                                         *)
(* An operator named Bug... is a mistaken form of the definition after it  *)
(* and is used by no specification: it says what a property would catch.   *)
(***************************************************************************)
EXTENDS Naturals, Sequences

CONSTANTS
    Contexts, Background, NoContext,  \* as in Cancellation
    NoError, Canceled, DeadlineExceeded, Causes,
    Functions  \* registrations of AfterFunc, each with its function

ASSUME ParentsAssumption ==
    /\ Background # NoContext
    /\ {Background, NoContext} \cap Contexts = {}
ASSUME ErrorsAssumption == NoError \notin Causes \cup {Canceled, DeadlineExceeded}

VARIABLES
    parent,       \* context -> its parent, NoContext before it is created
    failure,      \* context -> CancelContext.#failure
    cause,        \* context -> CancelContext.#cause
    observers,    \* context -> observers registered with its done channel
    claimed,      \* contexts whose subscription to their parent is over
    armed,        \* contexts whose WithTimeout timer has not fired
    listening,    \* contexts of NotifyContext that have not been stopped
    registered,   \* function -> context of its AfterFunc, NoContext without
    started, stopped,  \* the flags of an AfterFunc registration
    runs,         \* function -> how often it was called
    stack,        \* closes and functions under way, innermost last
    interrupted   \* contexts whose close a panic cut short

cancelVars == <<parent, failure, cause>>
afterVars == <<registered, started, stopped, runs>>
vars == <<cancelVars, observers, claimed, armed, listening, afterVars, stack,
          interrupted>>

-----------------------------------------------------------------------------
(* Observers of a done channel, and the frames of the stack.               *)

Own(c) == [kind |-> "own", of |-> c]              \* of c's channel, for c
Propagate(c) == [kind |-> "propagate", of |-> c]  \* of its parent's, for c
Notify(c) == [kind |-> "notify", of |-> c]        \* of c's, for its signals
After(f) == [kind |-> "after", of |-> f]          \* of a context's, for f

Observers == {Own(c) : c \in Contexts} \cup {Propagate(c) : c \in Contexts}
             \cup {Notify(c) : c \in Contexts} \cup {After(f) : f \in Functions}

Close(c) == [kind |-> "close", of |-> c, told |-> {}]
Run(f) == [kind |-> "run", of |-> f, told |-> {}]

Depth == Len(stack)
Top == stack[Depth]
Popped == SubSeq(stack, 1, Depth - 1)

\* The program is in control: nothing was called, or a function of it runs.
UserRuns == IF stack = <<>> THEN TRUE ELSE Top.kind = "run"

Created(c) == parent[c] # NoContext

\* cancel records the failure and closes done before anything else happens.
Closed(c) == failure[c] # NoError

HasDone(p) == p \in Contexts

-----------------------------------------------------------------------------
(* What the operations have in common.                                     *)

Init ==
    /\ parent = [c \in Contexts |-> NoContext]
    /\ failure = [c \in Contexts |-> NoError]
    /\ cause = [c \in Contexts |-> NoError]
    /\ observers = [c \in Contexts |-> {}]
    /\ claimed = {}
    /\ armed = {}
    /\ listening = {}
    /\ registered = [f \in Functions |-> NoContext]
    /\ started = {}
    /\ stopped = {}
    /\ runs = [f \in Functions |-> 0]
    /\ stack = <<>>
    /\ interrupted = {}

\* CancelContext.cancel, called from the frames below: the first call records
\* its failure and enters close, any other does nothing.
Cancels(c, error, why, below) ==
    IF Closed(c)
    THEN /\ stack' = below
         /\ UNCHANGED <<failure, cause>>
    ELSE /\ failure' = [failure EXCEPT ![c] = error]
         /\ cause' = [cause EXCEPT ![c] = why]
         /\ stack' = Append(below, Close(c))

\* Mistake: the end of the subscription with the parent is kept.
BugKeepParentEnd(c) == [observers EXCEPT ![c] = @ \ {Own(c)}]

\* The observers left when c's subscription is claimed: neither end stays.
Unsubscribed(c) ==
    [observers EXCEPT ![parent[c]] = @ \ {Propagate(c)}, ![c] = @ \ {Own(c)}]

-----------------------------------------------------------------------------
(* Calls of the program.                                                   *)

Kinds == {"cancel", "timeout", "notify"}

\* Mistake: the child of a cancelled parent subscribes to it, too late.
BugSubscribeToClosed(c, p, kind) ==
    /\ UserRuns
    /\ ~Created(c)
    /\ p = Background \/ (p \in Contexts /\ Created(p))
    /\ parent' = [parent EXCEPT ![c] = p]
    /\ armed' = IF kind = "timeout" THEN armed \cup {c} ELSE armed
    /\ observers' = IF HasDone(p)
                    THEN [observers EXCEPT ![p] = @ \cup {Propagate(c)},
                                           ![c] = {Own(c)}]
                    ELSE observers
    /\ UNCHANGED <<failure, cause, listening, claimed, afterVars, stack,
                   interrupted>>

\* WithCancel, WithCancelCause, WithTimeout and NotifyContext: the constructor
\* follows a cancelled parent at once or subscribes to both done channels; then
\* the timer is armed, or the signals are listened for until the context ends.
Create(c, p, kind) ==
    /\ UserRuns
    /\ ~Created(c)
    /\ p = Background \/ (p \in Contexts /\ Created(p))
    /\ parent' = [parent EXCEPT ![c] = p]
    /\ armed' = IF kind = "timeout" THEN armed \cup {c} ELSE armed
    /\ LET notifies == IF kind = "notify" THEN {Notify(c)} ELSE {} IN
       IF HasDone(p) /\ Closed(p)
       THEN /\ failure' = [failure EXCEPT ![c] = failure[p]]
            /\ cause' = [cause EXCEPT ![c] = cause[p]]
            /\ UNCHANGED <<observers, listening>>
       ELSE /\ observers' =
                  IF HasDone(p)
                  THEN [observers EXCEPT ![p] = @ \cup {Propagate(c)},
                                         ![c] = {Own(c)} \cup notifies]
                  ELSE [observers EXCEPT ![c] = notifies]
            /\ listening' = IF kind = "notify" THEN listening \cup {c} ELSE listening
            /\ UNCHANGED <<failure, cause>>
    /\ UNCHANGED <<claimed, afterVars, stack, interrupted>>

Cancel(c, why) ==
    /\ UserRuns
    /\ Created(c)
    /\ Cancels(c, Canceled, why, stack)
    /\ UNCHANGED <<parent, observers, claimed, armed, listening, afterVars,
                   interrupted>>

\* stop of NotifyContext, called by the program or by a signal.
StopNotification(c) ==
    /\ UserRuns
    /\ c \in listening
    /\ listening' = listening \ {c}
    /\ observers' = [observers EXCEPT ![c] = @ \ {Notify(c)}]
    /\ Cancels(c, Canceled, Canceled, stack)
    /\ UNCHANGED <<parent, claimed, armed, afterVars, interrupted>>

\* Mistake: the call is not noted.
BugRunUnmarked(f, below) ==
    /\ runs' = [runs EXCEPT ![f] = @ + 1]
    /\ stack' = Append(below, Run(f))
    /\ UNCHANGED started

Runs(f, below) ==
    /\ started' = started \cup {f}
    /\ runs' = [runs EXCEPT ![f] = @ + 1]
    /\ stack' = Append(below, Run(f))

AfterFunc(f, c) ==
    /\ UserRuns
    /\ registered[f] = NoContext
    /\ Created(c)
    /\ registered' = [registered EXCEPT ![f] = c]
    /\ IF Closed(c)
       THEN Runs(f, stack) /\ UNCHANGED observers
       ELSE /\ observers' = [observers EXCEPT ![c] = @ \cup {After(f)}]
            /\ UNCHANGED <<started, runs, stack>>
    /\ UNCHANGED <<cancelVars, claimed, armed, listening, stopped, interrupted>>

\* The stop function of AfterFunc, when it returns true.
StopAfterFunc(f) ==
    /\ UserRuns
    /\ registered[f] # NoContext
    /\ f \notin started \cup stopped
    /\ stopped' = stopped \cup {f}
    /\ observers' = [observers EXCEPT ![registered[f]] = @ \ {After(f)}]
    /\ UNCHANGED <<cancelVars, claimed, armed, listening, registered, started,
                   runs, stack, interrupted>>

\* The timer of WithTimeout, which nothing ever stops.
Expire(c) ==
    /\ stack = <<>>
    /\ c \in armed
    /\ armed' = armed \ {c}
    /\ Cancels(c, DeadlineExceeded, DeadlineExceeded, stack)
    /\ UNCHANGED <<parent, observers, claimed, listening, afterVars, interrupted>>

Return ==
    /\ stack # <<>>
    /\ Top.kind = "run"
    /\ stack' = Popped
    /\ UNCHANGED <<cancelVars, observers, claimed, armed, listening, afterVars,
                   interrupted>>

\* The running function panics; a function below recovers, or whoever made the
\* outermost call.  The closes in between never go on.
Panic(recovered) ==
    /\ stack # <<>>
    /\ Top.kind = "run"
    /\ recovered < Depth
    /\ recovered > 0 => stack[recovered].kind = "run"
    /\ stack' = SubSeq(stack, 1, recovered)
    /\ interrupted' = interrupted \cup
          {c \in Contexts : \E i \in recovered + 1 .. Depth :
                stack[i].kind = "close" /\ stack[i].of = c}
    /\ UNCHANGED <<cancelVars, observers, claimed, armed, listening, afterVars>>

-----------------------------------------------------------------------------
(* The loop of ProviderChannel.close.                                      *)

Closing(c) == stack # <<>> /\ Top.kind = "close" /\ Top.of = c

Untold(c) == observers[c] \ Top.told

\* Whom close may tell next.
NextTold(c) ==
    LET untold == Untold(c) IN
    IF Own(c) \in untold THEN {Own(c)}
    ELSE IF Notify(c) \in untold THEN {Notify(c)}
    ELSE untold

\* Mistake: the loop goes on until no observer is left.
BugLoopUntilEmpty(o) == stack

Telling(o) == Append(Popped, [Top EXCEPT !.told = @ \cup {o}])

\* Mistake: what is claimed is noted by the observer, not by the context.
BugClaimObserver(c) ==
    /\ Closing(c)
    /\ Own(c) \in NextTold(c)
    /\ claimed' = claimed \cup {Own(c)}
    /\ observers' = IF c \in claimed THEN observers ELSE Unsubscribed(c)
    /\ stack' = Telling(Own(c))
    /\ UNCHANGED <<cancelVars, armed, listening, afterVars, interrupted>>

\* claim, for the context's own end of its subscription: both ends go.
TellOwn(c) ==
    /\ Closing(c)
    /\ Own(c) \in NextTold(c)
    /\ claimed' = claimed \cup {c}
    /\ observers' = IF c \in claimed THEN observers ELSE Unsubscribed(c)
    /\ stack' = Telling(Own(c))
    /\ UNCHANGED <<cancelVars, armed, listening, afterVars, interrupted>>

\* Mistake: the child gets its parent's error as its cause.
BugDropCause(c, d) ==
    /\ Closing(c)
    /\ Propagate(d) \in NextTold(c)
    /\ claimed' = claimed \cup {d}
    /\ IF d \in claimed
       THEN /\ stack' = Telling(Propagate(d))
            /\ UNCHANGED <<failure, cause, observers>>
       ELSE /\ observers' = Unsubscribed(d)
            /\ Cancels(d, failure[c], failure[c], Telling(Propagate(d)))
    /\ UNCHANGED <<parent, armed, listening, afterVars, interrupted>>

\* claim, for the parent's end: the child is cancelled with what the parent has.
TellChild(c, d) ==
    /\ Closing(c)
    /\ Propagate(d) \in NextTold(c)
    /\ claimed' = claimed \cup {d}
    /\ IF d \in claimed
       THEN /\ stack' = Telling(Propagate(d))
            /\ UNCHANGED <<failure, cause, observers>>
       ELSE /\ observers' = Unsubscribed(d)
            /\ Cancels(d, failure[c], cause[c], Telling(Propagate(d)))
    /\ UNCHANGED <<parent, armed, listening, afterVars, interrupted>>

TellNotify(c) ==
    /\ Closing(c)
    /\ Notify(c) \in NextTold(c)
    /\ listening' = listening \ {c}
    /\ observers' = [observers EXCEPT ![c] = @ \ {Notify(c)}]
    /\ Cancels(c, Canceled, Canceled, Telling(Notify(c)))
    /\ UNCHANGED <<parent, claimed, armed, afterVars, interrupted>>

TellAfter(c, f) ==
    /\ Closing(c)
    /\ After(f) \in NextTold(c)
    /\ IF f \in stopped \cup started
       THEN stack' = Telling(After(f)) /\ UNCHANGED <<started, runs>>
       ELSE Runs(f, Telling(After(f)))
    /\ UNCHANGED <<cancelVars, observers, claimed, armed, listening, registered,
                   stopped, interrupted>>

CloseReturns(c) ==
    /\ Closing(c)
    /\ Untold(c) = {}
    /\ observers' = [observers EXCEPT ![c] = {}]
    /\ stack' = Popped
    /\ UNCHANGED <<cancelVars, claimed, armed, listening, afterVars, interrupted>>

\* What close does next.
CloseStep ==
    \E c \in Contexts :
        \/ TellOwn(c)
        \/ \E d \in Contexts : TellChild(c, d)
        \/ TellNotify(c)
        \/ \E f \in Functions : TellAfter(c, f)
        \/ CloseReturns(c)

Next ==
    \/ CloseStep
    \/ Return
    \/ \E c \in Contexts :
          \/ \E p \in Contexts \cup {Background}, kind \in Kinds : Create(c, p, kind)
          \/ \E why \in Causes \cup {Canceled} : Cancel(c, why)
          \/ StopNotification(c)
          \/ \E f \in Functions : AfterFunc(f, c)
          \/ Expire(c)
    \/ \E f \in Functions : StopAfterFunc(f)
    \/ \E recovered \in 0 .. Depth : Panic(recovered)

Spec == Init /\ [][Next]_vars

\* A close goes on, and a function of the program returns.
FairSpec == Spec /\ WF_vars(CloseStep) /\ WF_vars(Return)

-----------------------------------------------------------------------------
(* Properties *)

Frames == [kind : {"close"}, of : Contexts, told : SUBSET Observers]
          \cup [kind : {"run"}, of : Functions, told : {{}}]

\* Every variable holds what its comment says.
TypeOK ==
    /\ parent \in [Contexts -> Contexts \cup {Background, NoContext}]
    /\ failure \in [Contexts -> {NoError, Canceled, DeadlineExceeded}]
    /\ cause \in [Contexts -> {NoError, Canceled, DeadlineExceeded} \cup Causes]
    /\ observers \in [Contexts -> SUBSET Observers]
    /\ claimed \subseteq Contexts
    /\ armed \subseteq Contexts
    /\ listening \subseteq Contexts
    /\ registered \in [Functions -> Contexts \cup {NoContext}]
    /\ started \subseteq Functions
    /\ stopped \subseteq Functions
    /\ runs \in [Functions -> Nat]
    /\ stack \in Seq(Frames)
    /\ interrupted \subseteq Contexts

Children(c) == {d \in Contexts : parent[d] = c}
Registered(c) == {f \in Functions : registered[f] = c}

\* A close of c is under way and has yet to tell this observer.
Due(c, o) ==
    /\ o \in observers[c]
    /\ \E i \in 1 .. Depth :
          stack[i].kind = "close" /\ stack[i].of = c /\ o \notin stack[i].told

UnderWay(c) == \E i \in 1 .. Depth : stack[i].kind = "close" /\ stack[i].of = c

\* Whenever the program is in control, an open channel is observed by what
\* must learn of its close and by nothing else: its own context, the children
\* that are not cancelled, the functions not stopped and the signals listened
\* for.  A context that ends leaves nothing behind with a parent that lives on.
OpenIsObserved ==
    UserRuns =>
        \A c \in Contexts :
            Created(c) /\ ~Closed(c) =>
                observers[c] =
                    (IF HasDone(parent[c]) THEN {Own(c)} ELSE {})
                    \cup (IF c \in listening THEN {Notify(c)} ELSE {})
                    \cup {Propagate(d) : d \in {d \in Children(c) : ~Closed(d)}}
                    \cup {After(f) : f \in Registered(c) \ stopped}

\* Nobody is forgotten, however functions of the program cancel, create and
\* stop while closes are under way: what depends on a cancelled context is
\* cancelled, called, stopped or silenced, or is about to be by a close that
\* has not returned, unless a panic cut that close short.
NobodyIsForgotten ==
    \A c \in Contexts : Closed(c) /\ c \notin interrupted =>
        /\ \A d \in Children(c) : Closed(d) \/ Due(c, Propagate(d))
        /\ \A f \in Registered(c) : f \in started \cup stopped \/ Due(c, After(f))
        /\ c \in listening => Due(c, Notify(c))

\* A function runs at most once, and never after its stop said it would not.
FunctionsRunOnce ==
    \A f \in Functions : runs[f] <= (IF f \in stopped THEN 0 ELSE 1)

\* A close ends, whatever it sets off: there is no cancellation that calls
\* itself for ever.
CascadesEnd == \A c \in Contexts : UnderWay(c) ~> ~UnderWay(c)

\* The tree implements the promise of cancellation.
Promise == INSTANCE Cancellation WITH control <- UserRuns

ImplementsCancellation == Promise!Spec
=============================================================================
