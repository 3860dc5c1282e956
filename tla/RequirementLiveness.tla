------------------------ MODULE RequirementLiveness ------------------------
(***************************************************************************)
(* What the scheduler of declaration requirements promises                 *)
(* (internal/emit/requirements), without its reference counts.  A          *)
(* requirement is a demand on the declaration that owns it (a copy         *)
(* operation, an adapter, a concretization); it is live while it is a root *)
(* of the program or some artifact's committed revision requests it.  Its  *)
(* owner is handed the requirements to apply in batches, and requirements  *)
(* that died are withdrawn only once every addition has been applied.      *)
(*                                                                         *)
(* RequirementScheduler, which counts references on shared request graphs, *)
(* implements this specification and is checked and proved to keep its     *)
(* promises; Settle runs the compiler on it.                               *)
(***************************************************************************)
CONSTANTS
    Owners,        \* artifact owners, as consumers and as owners of requirements
    Requirements,  \* api.DeclarationRequirement
    OwnerOf        \* requirement -> the owner that must apply it

VARIABLES
    requested,  \* consumer -> requirements its committed revision requests
    roots,      \* requirements of the program itself, never withdrawn
    active,     \* requirements in force, the dead ones not withdrawn included
    applied,    \* requirements handed to their owners by the last batches
    pending,    \* owners whose batch is due
    removed     \* pending owners that lost a requirement

vars == <<requested, roots, active, applied, pending, removed>>

-----------------------------------------------------------------------------
Live == roots \cup UNION {requested[c] : c \in Owners}

Dead == active \ Live

OwnersOf(requirements) == {OwnerOf[r] : r \in requirements}

OwnedBy(o) == {r \in Requirements : OwnerOf[r] = o}

Init ==
    /\ requested = [c \in Owners |-> {}]
    /\ roots = {}
    /\ active = {}
    /\ applied = {}
    /\ pending = {}
    /\ removed = {}

\* What a requirement that becomes live changes: nothing when it is already in
\* force, dead or not, and otherwise its owner gets a batch.
Activate(requirements) ==
    /\ active' = active \cup requirements
    /\ pending' = pending \cup OwnersOf(requirements \ active)

\* Roots are enqueued one by one, but several in a row with nothing between.
Enqueue(requirements) ==
    /\ roots' = roots \cup requirements
    /\ Activate(requirements)
    /\ UNCHANGED <<requested, applied, removed>>

Replace(c, requirements) ==
    /\ requested' = [requested EXCEPT ![c] = requirements]
    /\ Activate(requirements \ requested[c])
    /\ UNCHANGED <<roots, applied, removed>>

NextBatch(o) ==
    /\ o \in pending
    /\ pending' = pending \ {o}
    /\ removed' = removed \ {o}
    /\ applied' = (applied \ OwnedBy(o)) \cup (active \cap OwnedBy(o))
    /\ UNCHANGED <<requested, roots, active>>

FinalizeRemovals ==
    /\ pending = {}
    /\ Dead # {}
    /\ active' = active \ Dead
    /\ removed' = removed \cup OwnersOf(Dead)
    /\ pending' = OwnersOf(Dead)
    /\ UNCHANGED <<requested, roots, applied>>

Next ==
    \/ \E requirements \in SUBSET Requirements : Enqueue(requirements)
    \/ \E c \in Owners, requirements \in SUBSET Requirements :
          Replace(c, requirements)
    \/ \E o \in Owners : NextBatch(o)
    \/ FinalizeRemovals

Spec == Init /\ [][Next]_vars

-----------------------------------------------------------------------------
(* Its invariants, which Settle's rest on.  The first: every variable holds a
   value of its Go type. *)
TypeOK ==
    /\ requested \in [Owners -> SUBSET Requirements]
    /\ roots \subseteq Requirements
    /\ active \subseteq Requirements
    /\ applied \subseteq Requirements
    /\ pending \subseteq Owners
    /\ removed \subseteq Owners

\* A requirement that something still needs is in force.
LiveIsActive == Live \subseteq active

\* An owner without a batch due applies exactly its requirements in force.
AppliedIsActive ==
    \A r \in Requirements :
        OwnerOf[r] \notin pending => (r \in applied <=> r \in active)

\* The mark of a removal leaves with the batch it belongs to.
RemovedIsPending == removed \subseteq pending
=============================================================================
