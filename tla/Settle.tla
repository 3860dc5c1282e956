------------------------------- MODULE Settle -------------------------------
(***************************************************************************)
(* The compiler session settling a program (programSession.settle): the    *)
(* artifact graph, the requirement scheduler and the queues of             *)
(* declarations, package initializers and package exports, driven by one   *)
(* loop until none of them has work.                                       *)
(*                                                                         *)
(* Lowering is the constant operator Revise: what the build of an owner    *)
(* makes of its applied requirements and of the facets it reads.  The      *)
(* program is chosen once, so a behaviour is one deterministic compilation *)
(* up to the order of a queue, which is left open: the emission queue is   *)
(* first in, first out and the others are ordered by a comparison of       *)
(* owners, to make output reproducible.                                    *)
(*                                                                         *)
(* An operator named Bug... is a mistaken form of the definition after it  *)
(* and is used by no specification: it says what a property would catch.   *)
(***************************************************************************)
EXTENDS Naturals, FiniteSets

CONSTANTS
    Declarations,  \* owners of source declarations
    Initializers,  \* owners of package variable initializers
    Generated,     \* owners of generated compilation artifacts
    Assemblies,    \* owners of package assemblies
    NoOwner,
    Facets, Values, Absent,   \* as in ArtifactGraph
    Requirements, OwnerOf,    \* as in RequirementLiveness
    Programs,      \* Go programs
    RootObjects(_),  \* program -> declarations a root of its emission names
    RootRequirements,  \* projections of untyped constants that are roots
    Brings(_),     \* owner -> declarations and initializers its use schedules
    InitOrder(_),  \* initializer -> the initializers of its package
    ExportedBy,    \* exported declaration -> assembly of its package
    Revise(_, _, _, _),      \* program, owner, requirements, facet contents
    ReviseExports(_, _, _),  \* program, exported declarations, facet contents
    Reflects(_, _)           \* program, published owners -> requirements

Owners == Declarations \cup Initializers \cup Generated \cup Assemblies

ASSUME KindsAssumption ==
    /\ Declarations \cap (Initializers \cup Generated \cup Assemblies) = {}
    /\ Initializers \cap (Generated \cup Assemblies) = {}
    /\ Generated \cap Assemblies = {}
    /\ NoOwner \notin Owners
    /\ Absent \notin Values
ASSUME RequirementsAssumption ==
    /\ OwnerOf \in [Requirements -> Owners \ Assemblies]
    /\ RootRequirements \subseteq Requirements
ASSUME ExportedByAssumption ==
    /\ ExportedBy \in [DOMAIN ExportedBy -> Assemblies]
    /\ DOMAIN ExportedBy \subseteq Declarations
ASSUME InitOrderAssumption ==
    \A o \in Initializers : o \in InitOrder(o) /\ InitOrder(o) \subseteq Initializers
\* The use of a declaration or initializer schedules it, and maybe others; the
\* initializers of a package are scheduled together.
ASSUME BringsAssumption ==
    /\ \A o \in Owners : Brings(o) \subseteq Declarations \cup Initializers
    /\ \A o \in Declarations \cup Initializers : o \in Brings(o)
    /\ \A o \in Owners : \A i \in Brings(o) \cap Initializers :
          InitOrder(i) \subseteq Brings(o)
    /\ \A program \in Programs : RootObjects(program) \subseteq Owners

VARIABLES
    source,        \* the program compiled
    contract, history, dependencies, reverse, dirty, removalDirty, observed,
    failed,        \* an ArtifactConvergenceError ended the compilation
    requested, roots, active, applied, pending, removed,
    queued,        \* declarations and initializers to emit
    materialized,  \* owners with a declaration in the target files
    exported,      \* declarations recorded for a package export
    exportPending, \* assemblies to publish
    initializing,  \* initializers left of the package whose turn it is
    batch,         \* owners left of the dirty batch
    applying,      \* owner whose requirement batch was taken
    requirementRemovalOwner,
    status         \* of settle

graphVars == <<contract, history, dependencies, reverse, dirty, removalDirty,
               observed, failed>>
livenessVars == <<requested, roots, active, applied, pending, removed>>
exportVars == <<exported, exportPending>>
controlVars == <<initializing, batch, applying, requirementRemovalOwner, status>>
vars == <<source, graphVars, livenessVars, queued, materialized, exportVars,
          controlVars>>

G == INSTANCE ArtifactGraph WITH
        Certified <- {}, Subscribable <- SUBSET (Owners \X Facets)

L == INSTANCE RequirementLiveness

-----------------------------------------------------------------------------
View == [d \in Owners \X Facets |-> contract[d[1]][d[2]]]

Members(x) == {d \in exported : ExportedBy[d] = x}

Revision(o) ==
    IF o \in Assemblies
    THEN ReviseExports(source, Members(o), View)
    ELSE Revise(source, o, applied \cap L!OwnedBy(o), View)

\* The coverage contract of no statement.
Retired == [contract |-> G!NoContract, dependencies |-> {}, requests |-> {}]

\* RequireUse of these owners, with what requirePackage adds.
Used(owners) == UNION {Brings(o) : o \in owners}

\* What a build schedules for emission: the provider of every dependency and
\* the owner of every requirement it requests.
BugProvidersOnly(revision) == Used({d[1] : d \in revision.dependencies})

Scheduled(revision) ==
    Used({d[1] : d \in revision.dependencies} \cup L!OwnersOf(revision.requests))

BugEnqueueAgain(owners, emitting) == (queued \cup owners) \ {emitting}

\* scheduler.enqueue and packageInitializationScheduler.enqueue.
Enqueued(owners, emitting) ==
    (queued \cup {o \in owners : ~G!Published(o)}) \ {emitting}

\* CompareArtifactOwners, between owners of different kinds: those that no
\* other owner of the set precedes.  Within a kind the order is left open.
Rank(o) ==
    CASE o \in Declarations -> 0
      [] o \in Initializers -> 1
      [] o \in Assemblies -> 2
      [] o \in Generated -> 3

First(owners) == {o \in owners : \A p \in owners : Rank(o) <= Rank(p)}

Settling == status = "settling" /\ ~failed
Idle == Settling /\ initializing = {} /\ batch = {} /\ applying = NoOwner

-----------------------------------------------------------------------------
Init ==
    /\ source \in Programs
    /\ G!Init
    /\ L!Init
    /\ queued = {}
    /\ materialized = {}
    /\ exported = {}
    /\ exportPending = {}
    /\ initializing = {}
    /\ batch = {}
    /\ applying = NoOwner
    /\ requirementRemovalOwner = NoOwner
    /\ status = "opened"

RequireProgramRoots ==
    /\ status = "opened"
    /\ status' = "settling"
    /\ queued' = Used(RootObjects(source) \cup L!OwnersOf(RootRequirements))
    /\ roots' = RootRequirements
    /\ L!Activate(RootRequirements)
    /\ UNCHANGED <<source, graphVars, requested, applied, removed, materialized,
                   exportVars, initializing, batch, applying,
                   requirementRemovalOwner>>

\* recordPackageExport.
RecordPackageExport(o) ==
    IF o \in DOMAIN ExportedBy
    THEN /\ exported' = exported \cup {o}
         /\ exportPending' = exportPending \cup {ExportedBy[o]}
    ELSE UNCHANGED exportVars

\* The first revision of an owner, and its declaration in the target files.
Publish(o) ==
    /\ o \in queued
    /\ LET revision == Revision(o) IN
       /\ G!Emit(o, revision.contract, revision.dependencies)
       /\ L!Replace(o, revision.requests)
       /\ queued' = Enqueued(Scheduled(revision), o)
    /\ materialized' = materialized \cup {o}

Emit(o) ==
    /\ Idle
    /\ o \in Declarations
    /\ Publish(o)
    /\ RecordPackageExport(o)
    /\ UNCHANGED <<source, controlVars>>

\* Initializers have their turn when nothing else but removals is left.
InitializersDue ==
    /\ Idle
    /\ queued \cap Declarations = {}
    /\ pending = {}
    /\ dirty = {}

\* packageInitializations.next.
TakeInitializers(o) ==
    /\ InitializersDue
    /\ o \in queued \cap Initializers
    /\ initializing' = queued \cap InitOrder(o)
    /\ UNCHANGED <<source, graphVars, livenessVars, queued, materialized,
                   exportVars, batch, applying, requirementRemovalOwner, status>>

\* emitPackageInitialization emits the initializers of a package in a row; what
\* they schedule, demand and make dirty waits.
EmitInitializer(o) ==
    /\ Settling
    /\ o \in initializing
    /\ Publish(o)
    /\ initializing' = initializing \ {o}
    /\ UNCHANGED <<source, exportVars, batch, applying, requirementRemovalOwner,
                   status>>

\* requirements.NextBatch, and the removal transaction opened for the owner.
TakeBatch(o) ==
    /\ Idle
    /\ queued \cap Declarations = {}
    /\ o \in First(pending)
    /\ L!NextBatch(o)
    /\ applying' = o
    /\ requirementRemovalOwner' = IF o \in removed THEN o ELSE NoOwner
    /\ UNCHANGED <<source, graphVars, queued, materialized, exportVars,
                   initializing, batch, status>>

\* "dirty target artifact was not emitted first", and the definition a
\* generated artifact is built from.
CanReconstruct(o) ==
    CASE o \in Declarations \cup Initializers -> o \in materialized
      [] o \in Generated -> applied \cap L!OwnedBy(o) # {}
      [] o \in Assemblies -> G!Published(o)

\* commitArtifactRevision and DiscardDirty of a rebuilt owner, or the
\* convergence error of its commit.
BugRequestsKept(o, revision, historical) ==
    /\ \/ /\ G!Reconstruct(o, revision.contract, revision.dependencies, historical)
          /\ L!Replace(o, requested[o] \cup revision.requests)
       \/ /\ G!RejectOscillation(o, revision.contract, historical)
          /\ UNCHANGED livenessVars
    /\ queued' = Enqueued(Scheduled(revision), NoOwner)

Commit(o, revision, historical) ==
    /\ \/ /\ G!Reconstruct(o, revision.contract, revision.dependencies, historical)
          /\ L!Replace(o, revision.requests)
       \/ /\ G!RejectOscillation(o, revision.contract, historical)
          /\ UNCHANGED livenessVars
    /\ queued' = Enqueued(Scheduled(revision), NoOwner)

\* retireCompilationGeneratedArtifact is due: the batch withdrew the last
\* requirement of a generated artifact.
Retires(o) ==
    /\ o \in Generated
    /\ requirementRemovalOwner = o
    /\ applied \cap L!OwnedBy(o) = {}

Retire(o) ==
    /\ o \in materialized
    /\ Commit(o, Retired, TRUE)
    /\ materialized' = materialized \ {o}

\* A rebuilt owner; the first build of a generated artifact is one as well.
Rebuild(o, historical) ==
    /\ CanReconstruct(o)
    /\ Commit(o, Revision(o), historical)
    /\ materialized' = materialized \cup ({o} \cap Generated)

ApplyRequirements(o) ==
    /\ Settling
    /\ applying = o
    /\ applying' = NoOwner
    /\ requirementRemovalOwner' = NoOwner
    /\ \/ Retires(o) /\ Retire(o)
       \/ ~Retires(o) /\ Rebuild(o, requirementRemovalOwner = o)
    /\ UNCHANGED <<source, exportVars, initializing, batch, status>>

TakeDirtyBatch ==
    /\ Idle
    /\ queued \cap Declarations = {}
    /\ pending = {}
    /\ dirty # {}
    /\ batch' = dirty
    /\ UNCHANGED <<source, graphVars, livenessVars, queued, materialized,
                   exportVars, initializing, applying, requirementRemovalOwner,
                   status>>

\* The owner that follows in the order of DirtyBatch: one whose providers are
\* out of the batch, or any when a cycle leaves none.
Ready == {o \in batch : {d[1] : d \in dependencies[o]} \cap batch = {}}

NextInBatch == IF Ready # {} THEN First(Ready) ELSE First(batch)

ReconstructScheduled(o) ==
    /\ Settling
    /\ o \in NextInBatch
    /\ batch' = batch \ {o}
    /\ Rebuild(o, FALSE)
    /\ UNCHANGED <<source, exportVars, initializing, applying,
                   requirementRemovalOwner, status>>

\* What must be drained before removals, exports and reflection get their turn.
Drained == Idle /\ queued = {} /\ pending = {} /\ dirty = {}

BugFinalizeEarly ==
    /\ Idle
    /\ queued \cap Declarations = {}
    /\ pending = {}
    /\ L!FinalizeRemovals
    /\ UNCHANGED <<source, graphVars, queued, materialized, exportVars,
                   controlVars>>

FinalizeRemovals ==
    /\ Drained
    /\ L!FinalizeRemovals
    /\ UNCHANGED <<source, graphVars, queued, materialized, exportVars,
                   controlVars>>

\* publishPackageExports, for one package of the batch: publishing one leaves
\* settle nothing else to do before the next.
PublishExports(x) ==
    /\ Drained
    /\ L!Dead = {}
    /\ x \in exportPending
    /\ exportPending' = exportPending \ {x}
    /\ Commit(x, Revision(x), FALSE)
    /\ UNCHANGED <<source, materialized, exported, controlVars>>

ReflectionDemands ==
    Reflects(source, {o \in Owners : G!Published(o)}) \ roots

BugQuiescentWithDead == Drained /\ exportPending = {}

Quiescent == Drained /\ L!Dead = {} /\ exportPending = {}

ScheduleReflection ==
    /\ Quiescent
    /\ ReflectionDemands # {}
    /\ roots' = roots \cup ReflectionDemands
    /\ L!Activate(ReflectionDemands)
    /\ queued' = Enqueued(Used(L!OwnersOf(ReflectionDemands)), NoOwner)
    /\ UNCHANGED <<source, graphVars, requested, applied, removed, materialized,
                   exportVars, controlVars>>

\* A ScheduleError of settle is due: an owner would be emitted twice, rebuilt
\* before it was emitted, or retired before it was built.  The error ends the
\* compilation; none of the actions above is possible for that owner.
Refused ==
    /\ Settling
    /\ \/ \E o \in queued \cap Declarations : Idle /\ G!Published(o)
       \/ \E o \in initializing : G!Published(o)
       \/ \E o \in NextInBatch : ~CanReconstruct(o)
       \/ /\ applying # NoOwner
          /\ IF Retires(applying) THEN applying \notin materialized
                                  ELSE ~CanReconstruct(applying)

Settled ==
    /\ Quiescent
    /\ ReflectionDemands = {}
    /\ status' = "settled"
    /\ UNCHANGED <<source, graphVars, livenessVars, queued, materialized,
                   exportVars, initializing, batch, applying,
                   requirementRemovalOwner>>

Next ==
    \/ RequireProgramRoots
    \/ \E o \in Owners : \/ Emit(o)
                         \/ TakeInitializers(o)
                         \/ EmitInitializer(o)
                         \/ TakeBatch(o)
                         \/ ApplyRequirements(o)
                         \/ ReconstructScheduled(o)
                         \/ PublishExports(o)
    \/ TakeDirtyBatch
    \/ FinalizeRemovals
    \/ ScheduleReflection
    \/ Settled

Spec == Init /\ [][Next]_vars

\* settle is one thread that never waits: it takes a step while it can.
FairSpec == Spec /\ WF_vars(Next)

-----------------------------------------------------------------------------
(* Properties *)

\* Every variable holds a value of its Go type.
TypeOK ==
    /\ source \in Programs
    /\ G!TypeOK
    /\ L!TypeOK
    /\ queued \subseteq Declarations \cup Initializers
    /\ materialized \subseteq Owners
    /\ exported \subseteq DOMAIN ExportedBy
    /\ exportPending \subseteq Assemblies
    /\ initializing \subseteq queued \cap Initializers
    /\ batch \subseteq Owners
    /\ {applying, requirementRemovalOwner} \subseteq Owners \cup {NoOwner}
    /\ status \in {"opened", "settling", "settled"}

\* settle meets no ScheduleError: a declaration or initializer is emitted, and
\* once, before a requirement or an invalidation rebuilds it; a generated
\* artifact is built before it is retired and never built without a demand.
NeverRefused == ~Refused

\* "Emission is open until every requested target artifact reaches a fixed
\* point": a settled program is one.  Building any artifact again, from its
\* applied requirements and the facets as they are now, gives the contract,
\* the dependencies and the requests that are committed.
SettledIsFixpoint ==
    status = "settled" =>
        \A o \in materialized \cup {x \in Assemblies : G!Published(x)} :
            LET revision == Revision(o) IN
            /\ contract[o] = revision.contract
            /\ dependencies[o] = revision.dependencies
            /\ requested[o] = revision.requests

\* What verifyTargetFilesSettled checks, and what it does not: when settled
\* every dependency names a facet its provider has, every requirement in force
\* is applied to an owner in the target files and asked for by somebody, and
\* the generated artifacts in the target files are those demanded.
SettledIsClosed ==
    status = "settled" =>
        /\ \A o \in Owners : \A d \in dependencies[o] :
              contract[d[1]][d[2]] # Absent
        /\ applied = L!Live
        /\ L!OwnersOf(applied) \subseteq materialized
        /\ materialized \cap Generated \subseteq L!OwnersOf(applied)
        /\ \A d \in materialized \cap DOMAIN ExportedBy :
              d \in Members(ExportedBy[d]) /\ G!Published(ExportedBy[d])

\* What is withdrawn was asked for no longer: no artifact of the target files,
\* built again from its requirements and the facets as they are now, would
\* demand it.  Removed before every rebuild that is due, a requirement would go
\* from an owner and come back to it.
WithdrawnForGood ==
    [][\A r \in active \ active' :
          \A o \in materialized : r \notin Revision(o).requests]_vars

Ended == failed \/ status = "settled" \/ Refused

\* Convergence as far as the code guarantees it: once no owner holds, or is
\* about to be given, the authority to go back to an old contract, the
\* histories grow with every change and compilation ends, settled or refused
\* as an oscillation.
EndsOnceAuthorityIsSpent ==
    <>[](removed = {} /\ removalDirty = {} /\ requirementRemovalOwner = NoOwner)
        => <>Ended

\* "Translation fails when target artifact reconstruction does not converge":
\* every compilation ends.
EveryCompilationEnds == <>Ended

\* "The root must not commit incomplete intermediate membership as an
\* aggregate revision": a package export assembly gains members only when
\* nothing but itself is left to emit, apply, reconstruct or withdraw.
MembershipGrowsWhenQuiescent ==
    [][\A x \in Assemblies :
          (\E d \in dependencies'[x] : d \notin dependencies[x]) =>
              /\ queued = {} /\ pending = {} /\ L!Dead = {}
              /\ dirty \subseteq {x}]_vars
=============================================================================
