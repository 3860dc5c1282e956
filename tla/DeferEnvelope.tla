--------------------------- MODULE DeferEnvelope ---------------------------
(***************************************************************************)
(* How a translated function defers, panics and recovers: the try, catch   *)
(* and finally of internal/emit/callable around its body, the defer slots  *)
(* or the defer stack drained in the finally, and the Recovery each        *)
(* deferred call is given (internal/emit/runtime/panic).                   *)
(*                                                                         *)
(* An exception under way, `flight', is a GoPanic or an exception of the   *)
(* host.  The catches keep only a GoPanic; the other goes on when the      *)
(* finally is through.  What functions compute and return is left out.     *)
(*                                                                         *)
(* An operator named Bug... is a mistaken form of the definition after it  *)
(* and is used by no specification: it says what a property would catch.   *)
(***************************************************************************)
EXTENDS Naturals, Sequences

CONSTANTS
    Functions, Recovering, Uses, Panics, None,  \* as in GoUnwinding
    Host,      \* an exception of the host
    Unset,     \* a defer slot without a call
    Storage,   \* function -> "none", "static" or "dynamic": where it defers
    Slots,     \* function -> number of its defer statements, when static
    MaxCalls,  \* bound on the calls under way; the innermost neither calls nor defers
    MaxDefers  \* bound on a defer stack

ASSUME DistinctAssumption ==
    /\ None \notin Panics
    /\ Host \notin Panics
    /\ Host # None
    /\ Unset \notin Functions
ASSUME StorageAssumption ==
    /\ Storage \in [Functions -> {"none", "static", "dynamic"}]
    /\ Slots \in [Functions -> Nat]
    /\ Uses \in [Functions -> SUBSET Functions]

VARIABLES
    frames,  \* the invocations under way, the innermost last
    flight,  \* the exception thrown and not yet caught, or None
    got,     \* what recover returned, in the step before
    exit     \* how the outermost call ended, in the step before

vars == <<frames, flight, got, exit>>

\* pending: the field of the Recovery the call was given.  active: the panic
\* in $activePanic.  suspended: a host exception waits for the finally to end.
\* passed: the defer statements executed; a static one has a slot of its own,
\* and they are executed in source order.
NewFrame(f, entry, pending) ==
    [fn |-> f, entry |-> entry, pending |-> pending,
     slots |-> IF Storage[f] = "static" THEN [i \in 1..Slots[f] |-> Unset]
               ELSE <<>>,
     passed |-> 0, phase |-> "body", active |-> None, suspended |-> FALSE]

Top == Len(frames)
Outer == SubSeq(frames, 1, Top - 1)
Running == frames # <<>> /\ frames[Top].phase = "body" /\ flight = None
Silent == got' = None /\ exit' = "none"
Ending == frames # <<>> /\ frames[Top].phase = "ending" /\ flight = None

\* The calls a frame still has to make when it ends.
Deferred(frame) ==
    IF frame.passed < Len(frame.slots) THEN SubSeq(frame.slots, 1, frame.passed)
    ELSE frame.slots

\* A host exception is under way.
Faulting == flight = Host \/ \E i \in 1..Top : frames[i].suspended

\* The frames as GoUnwinding sees them.
Stack ==
    [i \in 1..Top |->
        [fn |-> frames[i].fn,
         deferred |-> i > 1 /\ frames[i - 1].phase = "ending",
         defers |-> Deferred(frames[i]),
         unwinding |-> frames[i].phase = "ending"
                          \/ (i = Top /\ flight # None),
         panic |-> IF i = Top /\ flight # None THEN flight
                   ELSE frames[i].active,
         recovered |-> /\ i < Top
                       /\ frames[i].active # None
                       /\ frames[i + 1].pending = None]]

Promise == INSTANCE GoUnwinding WITH stack <- Stack, faulted <- Faulting

-----------------------------------------------------------------------------
Init == frames = <<>> /\ flight = None /\ got = None /\ exit = "none"

\* The host calls an exported function.
Begin(f) ==
    /\ frames = <<>>
    /\ frames' = <<NewFrame(f, "ordinary", None)>>
    /\ UNCHANGED flight /\ Silent

Call(f) ==
    /\ Running /\ f \in Uses[frames[Top].fn]
    /\ Top < MaxCalls
    /\ frames' = Append(frames, NewFrame(f, "ordinary", None))
    /\ UNCHANGED flight /\ Silent

\* A defer statement fills its slot, or pushes on the stack.
Defer(f) ==
    /\ Running /\ f \in Uses[frames[Top].fn]
    /\ Top < MaxCalls
    /\ LET slots == frames[Top].slots
           next == frames[Top].passed + 1
       IN  \/ /\ Storage[frames[Top].fn] = "static" /\ next <= Len(slots)
              /\ frames' = [frames EXCEPT ![Top].slots[next] = f, ![Top].passed = next]
           \/ /\ Storage[frames[Top].fn] = "dynamic" /\ next <= MaxDefers
              /\ frames' = [frames EXCEPT ![Top].slots = Append(slots, f),
                                          ![Top].passed = next]
    /\ UNCHANGED flight /\ Silent

\* The body breaks to its return label, or ends.
Return ==
    /\ Running
    /\ frames' = [frames EXCEPT ![Top].phase = "ending"]
    /\ UNCHANGED flight /\ Silent

\* A panic of the program or the runtime, or an exception of the host.
Throw(p) ==
    /\ Running
    /\ flight' = p
    /\ UNCHANGED frames /\ Silent

\* recover(): without an authority it is undefined.
BugRecover ==
    /\ Running /\ frames[Top].fn \in Recovering
    /\ got' = IF frames[Top].entry = "deferred" THEN frames[Top].pending ELSE None
    /\ UNCHANGED <<frames, flight>> /\ exit' = "none"

Recover ==
    /\ Running /\ frames[Top].fn \in Recovering
    /\ IF frames[Top].entry = "deferred"
       THEN /\ got' = frames[Top].pending
            /\ frames' = [frames EXCEPT ![Top].pending = None]
       ELSE got' = None /\ UNCHANGED frames
    /\ UNCHANGED flight
    /\ exit' = "none"

\* The catch around the body, or around a deferred call, keeps a GoPanic.
BugCatch ==
    /\ frames # <<>> /\ flight # None
    /\ Storage[frames[Top].fn] # "none"
    /\ frames' = [frames EXCEPT ![Top].phase = "ending",
                                ![Top].active = IF flight = Host THEN None ELSE flight]
    /\ flight' = None
    /\ Silent

Catch ==
    /\ frames # <<>> /\ flight \in Panics
    /\ Storage[frames[Top].fn] # "none"
    /\ frames' = [frames EXCEPT ![Top].phase = "ending", ![Top].active = flight]
    /\ flight' = None
    /\ Silent

\* The catch rethrows an exception of the host, and the finally runs first.
Suspend ==
    /\ frames # <<>> /\ flight = Host
    /\ Storage[frames[Top].fn] # "none" /\ frames[Top].phase = "body"
    /\ frames' = [frames EXCEPT ![Top].phase = "ending", ![Top].suspended = TRUE]
    /\ flight' = None
    /\ Silent

\* An exception leaves a function without an envelope, and one of the host a
\* finally that is under way.
Escape ==
    /\ frames # <<>> /\ flight # None
    /\ \/ Storage[frames[Top].fn] = "none"
       \/ flight = Host /\ frames[Top].phase = "ending"
    /\ frames' = Outer
    /\ IF Top = 1 THEN exit' = flight /\ flight' = None ELSE UNCHANGED flight /\ exit' = "none"
    /\ got' = None

\* The finally calls what was deferred last: through the deferred entry when
\* the function contains recover.
RunDeferred ==
    /\ Ending
    /\ frames[Top].slots # <<>>
    /\ LET last == frames[Top].slots[Len(frames[Top].slots)]
           rest == [frames EXCEPT ![Top].slots = SubSeq(@, 1, Len(@) - 1)]
       IN  frames' = IF last = Unset THEN rest
                     ELSE Append(rest, NewFrame(last,
                            IF last \in Recovering THEN "deferred" ELSE "ordinary",
                            frames[Top].active))
    /\ UNCHANGED flight /\ Silent

\* The finally is through: the host exception that waited goes on, or the
\* active panic is thrown.
LeaveThrowing ==
    /\ Ending
    /\ frames[Top].slots = <<>>
    /\ frames[Top].suspended \/ frames[Top].active # None
    /\ LET thrown == IF frames[Top].suspended THEN Host ELSE frames[Top].active IN
       IF Top = 1 THEN exit' = thrown /\ UNCHANGED flight
       ELSE flight' = thrown /\ exit' = "none"
    /\ frames' = Outer
    /\ got' = None

\* The function returns; when it was a deferred call, recovered() says whether
\* the caller's panic is over.
LeaveReturning ==
    /\ Ending
    /\ frames[Top].slots = <<>>
    /\ ~frames[Top].suspended /\ frames[Top].active = None
    /\ frames' = IF Top > 1 /\ frames[Top].pending = None
                               /\ frames[Top - 1].phase = "ending"
                 THEN [Outer EXCEPT ![Top - 1].active = None]
                 ELSE Outer
    /\ exit' = IF Top = 1 THEN "returned" ELSE "none"
    /\ UNCHANGED flight
    /\ got' = None

Next ==
    \/ \E f \in Functions : Begin(f) \/ Call(f) \/ Defer(f)
    \/ Return
    \/ \E p \in Panics \cup {Host} : Throw(p)
    \/ Recover
    \/ Catch
    \/ Suspend
    \/ Escape
    \/ RunDeferred
    \/ LeaveThrowing
    \/ LeaveReturning

Spec == Init /\ [][Next]_vars

-----------------------------------------------------------------------------
(* Properties *)

Frames ==
    [fn : Functions, entry : {"ordinary", "deferred"}, pending : Panics \cup {None},
     slots : Seq(Functions \cup {Unset}), passed : Nat, phase : {"body", "ending"},
     active : Panics \cup {None}, suspended : BOOLEAN]

TypeOK ==
    /\ frames \in Seq(Frames)
    /\ flight \in Panics \cup {Host, None}
    /\ got \in Panics \cup {None}
    /\ exit \in Panics \cup {Host, "none", "returned"}
    /\ frames = <<>> => flight = None

\* A function without an envelope has nothing to defer, to catch or to suspend.
PlainFrame(frame) ==
    frame.slots = <<>> /\ frame.active = None /\ ~frame.suspended

\* The defer statements passed have their calls in the first slots, and a body
\* has caught nothing yet.
FrameOK(frame) ==
    /\ Storage[frame.fn] = "none" => PlainFrame(frame)
    /\ \A s \in 1..Len(frame.slots) : frame.slots[s] = Unset <=> s > frame.passed
    /\ frame.phase = "body" =>
           /\ frame.active = None /\ ~frame.suspended
           /\ Storage[frame.fn] = "dynamic" => frame.passed = Len(frame.slots)

Ordinary(frame) == frame.entry = "ordinary" /\ frame.pending = None

\* A deferred call has the panic it was run for until it recovers it, which only
\* the deferred entry can; any other call has none.
Linked(caller, frame) ==
    IF caller.phase = "body" THEN Ordinary(frame)
    ELSE IF frame.fn \in Recovering
    THEN frame.entry = "deferred" /\ frame.pending \in {None, caller.active}
    ELSE frame.entry = "ordinary" /\ frame.pending = caller.active

FramesAreLinked ==
    \A i \in 1..Top :
        /\ FrameOK(frames[i])
        /\ IF i = 1 THEN Ordinary(frames[i]) ELSE Linked(frames[i - 1], frames[i])

\* got and exit tell of one step.
ReportsAreFresh ==
    /\ exit # "none" => frames = <<>>
    /\ got # None => Running

\* Whatever the storage, the envelope unwinds as GoUnwinding promises: every
\* deferred call runs once, last in first out; recover takes a panic only in
\* the call that panic runs; a new panic replaces the one before.
ImplementsGoUnwinding == Promise!Spec

\* "Unrelated host exceptions are rethrown unchanged": one that was thrown is
\* under way until it leaves the outermost call, whatever deferred calls do.
HostExceptionsPass == [][Faulting => Faulting' \/ (frames' = <<>> /\ exit' = Host)]_vars
=============================================================================
