---------------------------- MODULE Cancellation ----------------------------
(***************************************************************************)
(* What contexts promise the program: each is cancelled once, by a call,   *)
(* by its timer or because its parent is, and then it has the parent's     *)
(* error and cause.  Calls and timers cancel while the program is in       *)
(* control; what the runtime cancels on its own account follows a parent.  *)
(* ContextTree says how a child is told, and implements this               *)
(* specification.                                                          *)
(***************************************************************************)
CONSTANTS
    Contexts,    \* contexts WithCancel and its kin may create
    Background,  \* the parent that is never cancelled
    NoContext,   \* the parent of a context not created yet
    NoError,     \* the error of a context that is not cancelled
    Canceled,    \* context.Canceled
    DeadlineExceeded,
    Causes       \* causes a WithCancelCause function may be called with

VARIABLES
    parent,   \* context -> its parent, NoContext before it is created
    failure,  \* context -> what Err returns
    cause,    \* context -> what Cause returns
    control   \* the program is in control, which may change with any step

cancelVars == <<parent, failure, cause>>

Created(c) == parent[c] # NoContext

\* done is closed in the step that records the failure.
Closed(c) == failure[c] # NoError

Init ==
    /\ parent = [c \in Contexts |-> NoContext]
    /\ failure = [c \in Contexts |-> NoError]
    /\ cause = [c \in Contexts |-> NoError]

CanBeParent(p) == p = Background \/ (p \in Contexts /\ Created(p))

\* A context created under a cancelled one is cancelled with it.
Create(c, p) ==
    /\ control
    /\ ~Created(c)
    /\ CanBeParent(p)
    /\ parent' = [parent EXCEPT ![c] = p]
    /\ IF p \in Contexts /\ Closed(p)
       THEN /\ failure' = [failure EXCEPT ![c] = failure[p]]
            /\ cause' = [cause EXCEPT ![c] = cause[p]]
       ELSE UNCHANGED <<failure, cause>>

Records(c, error, why) ==
    /\ ~Closed(c)
    /\ failure' = [failure EXCEPT ![c] = error]
    /\ cause' = [cause EXCEPT ![c] = why]
    /\ UNCHANGED parent

CancelledByCall(c) ==
    /\ control
    /\ Created(c)
    /\ \E why \in Causes \cup {Canceled} : Records(c, Canceled, why)

CancelledByTimer(c) ==
    /\ control
    /\ Created(c)
    /\ Records(c, DeadlineExceeded, DeadlineExceeded)

FollowsParent(c) ==
    /\ ~control
    /\ parent[c] \in Contexts
    /\ Closed(parent[c])
    /\ Records(c, failure[parent[c]], cause[parent[c]])

Next ==
    \E c \in Contexts :
        \/ \E p \in Contexts \cup {Background} : Create(c, p)
        \/ CancelledByCall(c)
        \/ CancelledByTimer(c)
        \/ FollowsParent(c)

Spec == Init /\ [][Next]_cancelVars
=============================================================================
