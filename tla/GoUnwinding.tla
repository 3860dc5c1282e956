---------------------------- MODULE GoUnwinding ----------------------------
(***************************************************************************)
(* What defer, panic and recover promise to a serial program               *)
(* (docs/spec/architecture.md, "Panic, Recover, Defer, And Control"): the  *)
(* deferred calls of a function run last in, first out when it returns or  *)
(* panics; recover stops the panic that runs a deferred call only when     *)
(* that call itself asks; a panic that leaves a deferred call replaces the *)
(* one that was running it.                                                *)
(*                                                                         *)
(* Of an exception of the host nothing is promised: `faulted' tells that   *)
(* one is under way.                                                       *)
(***************************************************************************)
EXTENDS Naturals, Sequences

CONSTANTS
    Functions,
    Recovering,  \* the functions that contain recover
    Uses,        \* function -> the functions it calls or defers
    Panics,      \* values a program panics with
    None         \* no panic, and nil from recover

VARIABLES
    stack,   \* the calls under way, the innermost last
    got,     \* what recover returned, in the step before
    exit,    \* how the outermost call ended, in the step before
    faulted

vars == <<stack, got, exit, faulted>>

NewCall(f, deferred) ==
    [fn |-> f, deferred |-> deferred, defers |-> <<>>, unwinding |-> FALSE,
     panic |-> None, recovered |-> FALSE]

Top == Len(stack)
Outer == SubSeq(stack, 1, Top - 1)
Running == stack # <<>> /\ ~stack[Top].unwinding
Silent == got' = None /\ exit' = "none"

-----------------------------------------------------------------------------
Init == stack = <<>> /\ got = None /\ exit = "none" /\ faulted = FALSE

Begin(f) ==
    /\ stack = <<>>
    /\ stack' = <<NewCall(f, FALSE)>>
    /\ Silent

Call(f) ==
    /\ Running /\ f \in Uses[stack[Top].fn]
    /\ stack' = Append(stack, NewCall(f, FALSE))
    /\ Silent

Defer(f) ==
    /\ Running /\ f \in Uses[stack[Top].fn]
    /\ stack' = [stack EXCEPT ![Top].defers = Append(@, f)]
    /\ Silent

Return ==
    /\ Running
    /\ stack' = [stack EXCEPT ![Top].unwinding = TRUE]
    /\ Silent

Raise(p) ==
    /\ Running
    /\ stack' = [stack EXCEPT ![Top].unwinding = TRUE, ![Top].panic = p]
    /\ Silent

\* The panic a call may recover: the one that runs it as a deferred call.
Recoverable ==
    /\ stack[Top].deferred
    /\ stack[Top - 1].panic # None
    /\ ~stack[Top - 1].recovered

Recover ==
    /\ Running /\ stack[Top].fn \in Recovering
    /\ IF Recoverable
       THEN /\ got' = stack[Top - 1].panic
            /\ stack' = [stack EXCEPT ![Top - 1].recovered = TRUE]
       ELSE got' = None /\ UNCHANGED stack
    /\ exit' = "none"

RunDeferred ==
    /\ stack # <<>> /\ stack[Top].unwinding /\ stack[Top].defers # <<>>
    /\ LET defers == stack[Top].defers IN
       stack' = Append([stack EXCEPT ![Top].defers = SubSeq(@, 1, Len(@) - 1)],
                       NewCall(defers[Len(defers)], TRUE))
    /\ Silent

\* A call ends.  A panic goes on in the caller, in place of one it may already
\* have; otherwise a panic the deferred call recovered is over.
Leave ==
    /\ stack # <<>> /\ stack[Top].unwinding /\ stack[Top].defers = <<>>
    /\ LET panic == stack[Top].panic IN
       IF Top = 1
       THEN stack' = <<>> /\ exit' = IF panic = None THEN "returned" ELSE panic
       ELSE /\ stack' =
                 IF panic # None
                 THEN [Outer EXCEPT ![Top - 1].unwinding = TRUE,
                                    ![Top - 1].panic = panic,
                                    ![Top - 1].recovered = FALSE]
                 ELSE IF Outer[Top - 1].recovered
                 THEN [Outer EXCEPT ![Top - 1].panic = None,
                                    ![Top - 1].recovered = FALSE]
                 ELSE Outer
            /\ exit' = "none"
    /\ got' = None

Next ==
    \/ faulted \/ faulted'
    \/ /\ UNCHANGED faulted
       /\ \/ \E f \in Functions : Begin(f) \/ Call(f) \/ Defer(f)
          \/ Return
          \/ \E p \in Panics : Raise(p)
          \/ Recover
          \/ RunDeferred
          \/ Leave

Spec == Init /\ [][Next]_vars
=============================================================================
