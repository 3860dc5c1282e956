---------------------------- MODULE SettleProofs ----------------------------
(***************************************************************************)
(* Proofs about Settle, for any program, any owners and any lowering that  *)
(* satisfies the named hypotheses of each theorem.  The invariants of the  *)
(* artifact graph and of requirement liveness carry over to the session    *)
(* that drives both; on them rests that what it settles on is a fixed      *)
(* point and closed under its demands, and that it meets no ScheduleError. *)
(***************************************************************************)
EXTENDS Settle, TLAPS

GP == INSTANCE ArtifactGraphProofs WITH
        Certified <- {}, Subscribable <- SUBSET (Owners \X Facets)

USE KindsAssumption, RequirementsAssumption, ExportedByAssumption

-----------------------------------------------------------------------------
(* What is assumed of lowering *)

Views == [Owners \X Facets -> Values \cup {Absent}]

RevisionOK(revision) ==
    /\ revision.contract \in [Facets -> Values \cup {Absent}]
    /\ revision.dependencies \subseteq Owners \X Facets
    /\ revision.requests \subseteq Requirements

\* Every build returns a contract, dependencies and requests; an assembly
\* depends on what it exports.
LoweringIsTyped ==
    /\ \A program \in Programs, o \in Owners, selected \in SUBSET Requirements,
          view \in Views : RevisionOK(Revise(program, o, selected, view))
    /\ \A program \in Programs, members \in SUBSET DOMAIN ExportedBy, view \in Views :
          LET revision == ReviseExports(program, members, view) IN
          /\ RevisionOK(revision)
          /\ revision.dependencies \subseteq members \X Facets
    /\ \A program \in Programs, published \in SUBSET Owners :
          Reflects(program, published) \subseteq Requirements

\* Views that differ at most in facets of an owner, or that it does not
\* depend on.
SameFor(o, revision, view, other) ==
    \A d \in revision.dependencies : d[1] = o \/ view[d] = other[d]

\* What a build makes depends on the facets it subscribed to, and on none of
\* its own, which its commit is about to change.
LoweringReadsItsDependencies ==
    /\ \A program \in Programs, o \in Owners, selected \in SUBSET Requirements,
          view \in Views, other \in Views :
          LET revision == Revise(program, o, selected, view) IN
          SameFor(o, revision, view, other) =>
              Revise(program, o, selected, other) = revision
    /\ \A program \in Programs, members \in SUBSET DOMAIN ExportedBy,
          view \in Views, other \in Views :
          LET revision == ReviseExports(program, members, view) IN
          SameFor(NoOwner, revision, view, other) =>
              ReviseExports(program, members, other) = revision

-----------------------------------------------------------------------------
(* The scheduler inside the session *)

\* The invariants of requirement liveness.
LivenessInv ==
    /\ L!TypeOK
    /\ L!LiveIsActive
    /\ L!AppliedIsActive
    /\ L!RemovedIsPending

\* A scheduler nobody called satisfies them.
LEMMA InitLivenessInv == L!Init => LivenessInv
BY DEF L!Init, LivenessInv, L!TypeOK, L!LiveIsActive, L!Live, L!AppliedIsActive,
       L!RemovedIsPending

\* Requirements that become live, and the owners that must apply them.
LEMMA ActivateInv ==
  ASSUME LivenessInv, NEW requirements \in SUBSET Requirements,
         L!Activate(requirements), applied' = applied, removed' = removed
  PROVE  /\ active' \subseteq Requirements
         /\ pending' \subseteq Owners
         /\ L!AppliedIsActive'
         /\ L!RemovedIsPending'
<1>1. active' \subseteq Requirements /\ pending' \subseteq Owners
  BY DEF LivenessInv, L!TypeOK, L!Activate, L!OwnersOf
<1>2. L!AppliedIsActive'
  BY DEF LivenessInv, L!AppliedIsActive, L!Activate, L!OwnersOf
<1>3. L!RemovedIsPending'
  BY DEF LivenessInv, L!RemovedIsPending, L!Activate
<1> QED
  BY <1>1, <1>2, <1>3

\* Every step of the scheduler's promise keeps them.
LEMMA NextLivenessInv == LivenessInv /\ [L!Next]_(L!vars) => LivenessInv'
<1> SUFFICES ASSUME LivenessInv, [L!Next]_(L!vars) PROVE LivenessInv'
  OBVIOUS
<1>1. ASSUME NEW requirements \in SUBSET Requirements, L!Enqueue(requirements)
      PROVE  LivenessInv'
  <2>1. L!TypeOK' /\ L!AppliedIsActive' /\ L!RemovedIsPending'
    BY <1>1, ActivateInv DEF L!Enqueue, LivenessInv, L!TypeOK
  <2>2. L!LiveIsActive'
    BY <1>1 DEF L!Enqueue, L!Activate, LivenessInv, L!LiveIsActive, L!Live
  <2> QED
    BY <2>1, <2>2 DEF LivenessInv
<1>2. ASSUME NEW c \in Owners, NEW requirements \in SUBSET Requirements,
             L!Replace(c, requirements)
      PROVE  LivenessInv'
  <2>1. L!TypeOK' /\ L!AppliedIsActive' /\ L!RemovedIsPending'
    BY <1>2, ActivateInv DEF L!Replace, LivenessInv, L!TypeOK
  <2>2. L!LiveIsActive'
    <3> SUFFICES ASSUME NEW r \in L!Live' PROVE r \in active'
      BY DEF L!LiveIsActive
    <3>1. CASE r \in roots
      BY <1>2, <3>1 DEF L!Replace, L!Activate, LivenessInv, L!LiveIsActive, L!Live
    <3>2. CASE r \notin roots
      <4>1. PICK d \in Owners : r \in requested'[d]
        BY <1>2, <3>2 DEF L!Replace, L!Live
      <4>2. r \in requested[d] \/ r \in requirements \ requested[c]
        BY <1>2, <4>1 DEF L!Replace, LivenessInv, L!TypeOK
      <4> QED
        BY <1>2, <4>2 DEF L!Replace, L!Activate, LivenessInv, L!LiveIsActive, L!Live
    <3> QED
      BY <3>1, <3>2
  <2> QED
    BY <2>1, <2>2 DEF LivenessInv
<1>3. ASSUME NEW o \in Owners, L!NextBatch(o) PROVE LivenessInv'
  <2>1. L!TypeOK'
    BY <1>3 DEF L!NextBatch, LivenessInv, L!TypeOK, L!OwnedBy
  <2>2. L!LiveIsActive' /\ L!RemovedIsPending'
    BY <1>3 DEF L!NextBatch, LivenessInv, L!LiveIsActive, L!Live, L!RemovedIsPending
  <2>3. L!AppliedIsActive'
    BY <1>3 DEF L!NextBatch, LivenessInv, L!AppliedIsActive, L!OwnedBy
  <2> QED
    BY <2>1, <2>2, <2>3 DEF LivenessInv
<1>4. ASSUME L!FinalizeRemovals PROVE LivenessInv'
  <2>1. L!TypeOK'
    BY <1>4 DEF L!FinalizeRemovals, LivenessInv, L!TypeOK, L!OwnersOf, L!Dead
  <2>2. L!LiveIsActive'
    BY <1>4 DEF L!FinalizeRemovals, LivenessInv, L!LiveIsActive, L!Live, L!Dead
  <2>3. L!AppliedIsActive'
    BY <1>4 DEF L!FinalizeRemovals, LivenessInv, L!AppliedIsActive, L!OwnersOf
  <2>4. L!RemovedIsPending'
    BY <1>4 DEF L!FinalizeRemovals, LivenessInv, L!RemovedIsPending
  <2> QED
    BY <2>1, <2>2, <2>3, <2>4 DEF LivenessInv
<1>5. CASE UNCHANGED L!vars
  BY <1>5 DEF L!vars, LivenessInv, L!TypeOK, L!LiveIsActive, L!Live,
       L!AppliedIsActive, L!RemovedIsPending
<1> QED
  BY <1>1, <1>2, <1>3, <1>4, <1>5 DEF L!Next

-----------------------------------------------------------------------------
(* The graph and the scheduler inside the session *)

TypesOK ==
    /\ source \in Programs
    /\ queued \subseteq Declarations \cup Initializers
    /\ materialized \subseteq Owners \ Assemblies
    /\ exported \subseteq DOMAIN ExportedBy
    /\ exportPending \subseteq Assemblies
    /\ batch \subseteq Owners
    /\ {applying, requirementRemovalOwner} \subseteq Owners \cup {NoOwner}
    /\ status \in {"opened", "settling", "settled"}

\* What both keep, and the types of the rest.
BaseInv == GP!GraphInv /\ LivenessInv /\ TypesOK

\* The operators of the two instances of the graph are the same.
LEMMA SameGraph ==
  ASSUME NEW o, NEW next, NEW deps, NEW historical
  PROVE  /\ G!Emit(o, next, deps) => GP!Emit(o, next, deps)
         /\ G!Reconstruct(o, next, deps, historical)
               => GP!Reconstruct(o, next, deps, historical)
         /\ G!RejectOscillation(o, next, historical)
               => GP!RejectOscillation(o, next, historical)
         /\ G!CommitRecord(o, next, deps) => GP!CommitRecord(o, next, deps)
<1> USE DEF G!CommitRecord, GP!CommitRecord, G!CommitDirty, GP!CommitDirty,
            G!CommitRemovalDirty, GP!CommitRemovalDirty, G!Observation, GP!Observation,
            G!Published, GP!Published, G!Oscillates, GP!Oscillates,
            G!DiscardDirty, GP!DiscardDirty, G!Authorized, GP!Authorized,
            G!ContainsHistory, GP!ContainsHistory, G!Invalidated, GP!Invalidated,
            G!Resubscribed, GP!Resubscribed, G!Consumers, GP!Consumers,
            G!Changed, GP!Changed, G!graphVars, GP!graphVars,
            G!AddReverseEdges, GP!AddReverseEdges,
            G!RemoveReverseEdges, GP!RemoveReverseEdges,
            G!Dependencies, GP!Dependencies
<1>1. G!CommitRecord(o, next, deps) => GP!CommitRecord(o, next, deps)
  OBVIOUS
<1>2. G!Emit(o, next, deps) => GP!Emit(o, next, deps)
  BY DEF G!Emit, GP!Emit
<1>3. G!Reconstruct(o, next, deps, historical)
         => GP!Reconstruct(o, next, deps, historical)
  BY DEF G!Reconstruct, GP!Reconstruct
<1>4. G!RejectOscillation(o, next, historical)
         => GP!RejectOscillation(o, next, historical)
  BY DEF G!RejectOscillation, GP!RejectOscillation
<1> QED
  BY <1>1, <1>2, <1>3, <1>4

\* What a build returns is typed.
LEMMA RevisionIsTyped ==
  ASSUME LoweringIsTyped, BaseInv, NEW o \in Owners
  PROVE  RevisionOK(Revision(o))
<1>1. View \in Views
  BY DEF BaseInv, GP!GraphInv, GP!TypeOK, GP!Contracts, View, Views
<1>2. CASE o \in Assemblies
  <2>1. Members(o) \in SUBSET DOMAIN ExportedBy /\ source \in Programs
    BY DEF Members, BaseInv, TypesOK
  <2> QED
    BY <1>1, <1>2, <2>1 DEF LoweringIsTyped, Revision
<1>3. CASE o \notin Assemblies
  <2>1. applied \cap L!OwnedBy(o) \in SUBSET Requirements /\ source \in Programs
    BY DEF L!OwnedBy, BaseInv, TypesOK
  <2> QED
    BY <1>1, <1>3, <2>1 DEF LoweringIsTyped, Revision
<1> QED
  BY <1>2, <1>3

\* So is what it schedules.
LEMMA ScheduledIsTyped ==
  ASSUME NEW revision, RevisionOK(revision), NEW o
  PROVE  /\ Scheduled(revision) \subseteq Declarations \cup Initializers
         /\ queued \subseteq Declarations \cup Initializers =>
               Enqueued(Scheduled(revision), o) \subseteq Declarations \cup Initializers
<1>1. \A d \in revision.dependencies : d[1] \in Owners
  BY DEF RevisionOK
<1>2. L!OwnersOf(revision.requests) \subseteq Owners
  BY DEF RevisionOK, L!OwnersOf
<1>3. {d[1] : d \in revision.dependencies} \subseteq Owners
  BY <1>1
<1>4. Scheduled(revision) \subseteq Declarations \cup Initializers
  BY <1>2, <1>3, BringsAssumption DEF Scheduled, Used
<1> QED
  BY <1>4 DEF Enqueued

\* Replace is a step of requirement liveness.
LEMMA ReplaceInv ==
  ASSUME LivenessInv, NEW o \in Owners, NEW requests \in SUBSET Requirements,
         L!Replace(o, requests)
  PROVE  LivenessInv'
<1>1. L!Next
  BY DEF L!Next
<1> QED
  BY <1>1, NextLivenessInv

\* Either outcome of a commit preserves the invariants of both.
LEMMA CommitInv ==
  ASSUME GP!GraphInv, LivenessInv, NEW o \in Owners,
         NEW revision, RevisionOK(revision), NEW historical \in BOOLEAN,
         Commit(o, revision, historical)
  PROVE  GP!GraphInv' /\ LivenessInv'
<1>1. /\ revision.contract \in GP!Contracts
      /\ revision.dependencies \in SUBSET (Owners \X Facets)
      /\ revision.requests \in SUBSET Requirements
  BY DEF RevisionOK, GP!Contracts
<1>2. CASE /\ G!Reconstruct(o, revision.contract, revision.dependencies, historical)
           /\ L!Replace(o, revision.requests)
  BY <1>1, <1>2, SameGraph, GP!ReconstructInv, ReplaceInv DEF GP!Dependencies
<1>3. CASE /\ G!RejectOscillation(o, revision.contract, historical)
           /\ UNCHANGED livenessVars
  <2>1. GP!RejectOscillation(o, revision.contract, historical)
    BY <1>3, SameGraph
  <2>2. GP!GraphInv'
    BY <1>1, <2>1, GP!OtherStepsInv DEF GP!Dependencies
  <2>3. UNCHANGED L!vars
    BY <1>3 DEF livenessVars, L!vars
  <2> QED
    BY <2>2, <2>3, NextLivenessInv
<1> QED
  BY <1>2, <1>3 DEF Commit

\* And so does a first revision.
LEMMA PublishInv ==
  ASSUME LoweringIsTyped, BaseInv, NEW o \in Owners, Publish(o)
  PROVE  GP!GraphInv' /\ LivenessInv'
<1> DEFINE revision == Revision(o)
<1>1. RevisionOK(revision)
  BY RevisionIsTyped
<1> HIDE DEF revision
<1>2. /\ revision.contract \in GP!Contracts
      /\ revision.dependencies \in SUBSET (Owners \X Facets)
      /\ revision.requests \in SUBSET Requirements
  BY <1>1 DEF RevisionOK, GP!Contracts
<1>3. /\ G!Emit(o, revision.contract, revision.dependencies)
      /\ L!Replace(o, revision.requests)
  BY DEF Publish, revision
<1>4. GP!Emit(o, revision.contract, revision.dependencies)
  BY <1>3, SameGraph
<1> QED
  BY <1>2, <1>3, <1>4, GP!EmitInv, ReplaceInv DEF GP!Dependencies, BaseInv

\* A rebuild and a retirement, by what they commit.
LEMMA RebuildInv ==
  ASSUME LoweringIsTyped, BaseInv, NEW o \in Owners, NEW historical \in BOOLEAN,
         \/ Rebuild(o, historical)
         \/ Retire(o)
         \/ Commit(o, Revision(o), historical) /\ UNCHANGED materialized
  PROVE  /\ GP!GraphInv' /\ LivenessInv'
         /\ queued' \subseteq Declarations \cup Initializers
         /\ materialized' \subseteq Owners \ Assemblies
<1>1. RevisionOK(Revision(o)) /\ RevisionOK(Retired)
  BY RevisionIsTyped DEF RevisionOK, Retired, G!NoContract
<1>2. PICK authority \in BOOLEAN :
         Commit(o, Revision(o), authority) \/ Commit(o, Retired, authority)
  BY DEF Rebuild, Retire
<1>3. PICK revision : RevisionOK(revision) /\ Commit(o, revision, authority)
  BY <1>1, <1>2
<1>4. GP!GraphInv' /\ LivenessInv'
  BY <1>3, CommitInv DEF BaseInv
<1>5. queued' \subseteq Declarations \cup Initializers
  <2>1. queued \subseteq Declarations \cup Initializers
    BY DEF BaseInv, TypesOK
  <2>2. queued' = Enqueued(Scheduled(revision), NoOwner)
    BY <1>3 DEF Commit
  <2> QED
    BY <1>3, <2>1, <2>2, ScheduledIsTyped
<1>6. materialized' \subseteq Owners \ Assemblies
  <2>1. materialized \subseteq Owners \ Assemblies
    BY DEF BaseInv, TypesOK
  <2>2. \/ materialized' = materialized \cup ({o} \cap Generated)
        \/ materialized' = materialized \ {o}
        \/ materialized' = materialized
    BY DEF Rebuild, Retire
  <2> QED
    BY <2>1, <2>2 DEF Owners
<1> QED
  BY <1>4, <1>5, <1>6

\* Steps that leave the graph and the requirements alone.
LEMMA UnchangedInv ==
  /\ GP!GraphInv /\ UNCHANGED graphVars => GP!GraphInv'
  /\ LivenessInv /\ UNCHANGED livenessVars => LivenessInv'
<1>1. UNCHANGED graphVars => UNCHANGED GP!vars
  BY DEF graphVars, GP!vars, GP!graphVars
<1>2. UNCHANGED livenessVars => UNCHANGED L!vars
  BY DEF livenessVars, L!vars
<1> QED
  BY <1>1, <1>2, GP!NextGraphInv, NextLivenessInv DEF GP!Dependencies

\* A session that is opened satisfies the invariants of both.
LEMMA InitBaseInv == Init => BaseInv
<1> SUFFICES ASSUME Init PROVE BaseInv
  OBVIOUS
<1>1. GP!Init
  BY DEF Init, G!Init, GP!Init, G!NoContract, GP!NoContract, G!Dependencies,
         GP!Dependencies
<1>2. GP!GraphInv
  BY <1>1, GP!InitGraphInv DEF GP!Dependencies
<1>3. LivenessInv
  BY InitLivenessInv DEF Init
<1>4. TypesOK
  BY DEF Init, TypesOK
<1> QED
  BY <1>2, <1>3, <1>4 DEF BaseInv

\* Requirements demanded by the program itself.
LEMMA RootsInv ==
  ASSUME LivenessInv, NEW requirements \in SUBSET Requirements,
         L!Activate(requirements), UNCHANGED <<requested, applied, removed>>,
         \/ roots' = requirements /\ roots = {}
         \/ roots' = roots \cup requirements
  PROVE  LivenessInv'
<1>2. /\ active' \subseteq Requirements
      /\ pending' \subseteq Owners
      /\ L!AppliedIsActive'
      /\ L!RemovedIsPending'
  BY ActivateInv
<1>3. L!TypeOK'
  BY <1>2 DEF LivenessInv, L!TypeOK
<1>4. L!LiveIsActive'
  BY DEF LivenessInv, L!LiveIsActive, L!Live, L!Activate
<1> QED
  BY <1>2, <1>3, <1>4 DEF LivenessInv

\* Every step of the session preserves the invariants of both components.
LEMMA NextBaseInv ==
  ASSUME LoweringIsTyped, BaseInv, status = "opened" => roots = {}, [Next]_vars
  PROVE  BaseInv'
<1> USE DEF BaseInv, TypesOK
<1>1. CASE UNCHANGED vars
  BY <1>1, UnchangedInv DEF vars, controlVars, exportVars
<1>2. CASE RequireProgramRoots
  <2>1. GP!GraphInv' /\ LivenessInv'
    BY <1>2, UnchangedInv, RootsInv DEF RequireProgramRoots
  <2>2. L!OwnersOf(RootRequirements) \subseteq Owners
    BY DEF L!OwnersOf
  <2>3. queued' \subseteq Declarations \cup Initializers
    BY <1>2, <2>2, BringsAssumption DEF RequireProgramRoots, Used
  <2> QED
    BY <1>2, <2>1, <2>3 DEF RequireProgramRoots, exportVars
<1>3. ASSUME NEW o \in Owners, Emit(o) \/ EmitInitializer(o) PROVE BaseInv'
  <2> USE <1>3 DEF Emit, EmitInitializer
  <2>1. GP!GraphInv' /\ LivenessInv'
    BY PublishInv
  <2>2. queued' \subseteq Declarations \cup Initializers
    BY RevisionIsTyped, ScheduledIsTyped DEF Publish
  <2>3. materialized' \subseteq Owners \ Assemblies
    BY DEF Publish, Owners
  <2>4. exported' \subseteq DOMAIN ExportedBy /\ exportPending' \subseteq Assemblies
    BY DEF RecordPackageExport, exportVars
  <2> QED
    BY <2>1, <2>2, <2>3, <2>4 DEF controlVars
<1>4. ASSUME NEW o \in Owners, TakeBatch(o) PROVE BaseInv'
  <2> USE <1>4 DEF TakeBatch
  <2>1. GP!GraphInv'
    BY UnchangedInv
  <2>2. L!Next
    BY DEF L!Next
  <2>3. LivenessInv'
    BY <2>2, NextLivenessInv
  <2> QED
    BY <2>1, <2>3 DEF exportVars
<1>5. ASSUME NEW o \in Owners, ApplyRequirements(o) PROVE BaseInv'
  <2> USE <1>5 DEF ApplyRequirements
  <2>1. Retire(o) \/ Rebuild(o, requirementRemovalOwner = o)
    OBVIOUS
  <2>2. /\ GP!GraphInv' /\ LivenessInv'
        /\ queued' \subseteq Declarations \cup Initializers
        /\ materialized' \subseteq Owners \ Assemblies
    BY <2>1, RebuildInv
  <2> QED
    BY <2>2 DEF exportVars
<1>6. ASSUME NEW o \in Owners, ReconstructScheduled(o) PROVE BaseInv'
  <2> USE <1>6 DEF ReconstructScheduled
  <2>1. /\ GP!GraphInv' /\ LivenessInv'
        /\ queued' \subseteq Declarations \cup Initializers
        /\ materialized' \subseteq Owners \ Assemblies
    BY RebuildInv
  <2> QED
    BY <2>1 DEF exportVars
<1>7. ASSUME NEW o \in Owners, PublishExports(o) PROVE BaseInv'
  <2> USE <1>7 DEF PublishExports
  <2>1. /\ GP!GraphInv' /\ LivenessInv'
        /\ queued' \subseteq Declarations \cup Initializers
        /\ materialized' \subseteq Owners \ Assemblies
    BY RebuildInv
  <2> QED
    BY <2>1 DEF controlVars
<1>8. CASE TakeDirtyBatch
  BY <1>8, UnchangedInv DEF TakeDirtyBatch, GP!GraphInv, GP!TypeOK, exportVars
<1>9. CASE FinalizeRemovals
  <2> USE <1>9 DEF FinalizeRemovals
  <2>1. L!Next
    BY DEF L!Next
  <2> QED
    BY <2>1, UnchangedInv, NextLivenessInv DEF exportVars, controlVars
<1>10. CASE ScheduleReflection
  <2> USE <1>10 DEF ScheduleReflection
  <2>1. ReflectionDemands \in SUBSET Requirements
    BY DEF ReflectionDemands, LoweringIsTyped
  <2>2. GP!GraphInv' /\ LivenessInv'
    BY <2>1, UnchangedInv, RootsInv
  <2>3. L!OwnersOf(ReflectionDemands) \subseteq Owners
    BY <2>1 DEF L!OwnersOf
  <2>4. queued' \subseteq Declarations \cup Initializers
    BY <2>3, BringsAssumption DEF Used, Enqueued
  <2> QED
    BY <2>2, <2>4 DEF exportVars, controlVars
<1>11. CASE Settled
  BY <1>11, UnchangedInv DEF Settled, exportVars
<1>12. ASSUME NEW o \in Owners, TakeInitializers(o) PROVE BaseInv'
  BY <1>12, UnchangedInv DEF TakeInitializers, exportVars
<1> QED
  BY <1>1, <1>2, <1>3, <1>4, <1>5, <1>6, <1>7, <1>8, <1>9, <1>10, <1>11, <1>12 DEF Next

-----------------------------------------------------------------------------
(* Where settle stands *)

\* settle is in one dirty batch, one requirement batch or one package at a time,
\* and the initializers left of the package are still to be emitted.
TurnInv ==
    /\ initializing \subseteq queued \cap Initializers
    /\ batch = {} \/ applying = NoOwner
    /\ initializing = {} \/ (batch = {} /\ applying = NoOwner)

\* Nothing has happened in a session that is opened, and a settled one has
\* nothing left to do.
PhaseInv ==
    /\ TurnInv
    /\ status = "opened" => Init
    /\ status = "settled" =>
          /\ ~failed
          /\ batch = {} /\ queued = {} /\ pending = {} /\ dirty = {}
          /\ L!Dead = {} /\ exportPending = {}
          /\ applying = NoOwner

SessionInv == BaseInv /\ PhaseInv

\* It satisfies the invariant of the session.
LEMMA InitSessionInv == Init => SessionInv
BY InitBaseInv DEF Init, SessionInv, PhaseInv, TurnInv

\* A revision takes no initializer out of the queue but the one it emits.
LEMMA QueueKeeps ==
  ASSUME queued \subseteq Declarations \cup Initializers, NEW owners, NEW o
  PROVE  /\ queued \ {o} \subseteq Enqueued(owners, o)
         /\ queued \subseteq Enqueued(owners, NoOwner)
BY DEF Enqueued, Owners

\* Every step keeps settle in one turn at a time.
LEMMA NextTurn ==
  ASSUME BaseInv, PhaseInv, [Next]_vars
  PROVE  TurnInv'
<1> USE DEF TurnInv
<1>0. TurnInv /\ queued \subseteq Declarations \cup Initializers
  BY DEF PhaseInv, BaseInv, TypesOK
<1>1. CASE UNCHANGED vars
  BY <1>0, <1>1 DEF vars, controlVars
<1>2. CASE RequireProgramRoots
  BY <1>2 DEF RequireProgramRoots, PhaseInv, Init
<1>3. ASSUME NEW o \in Owners, Emit(o) PROVE TurnInv'
  <2>1. initializing' = {} /\ batch' = {} /\ applying' = NoOwner
    BY <1>3 DEF Emit, Idle, controlVars
  <2> QED
    BY <2>1
<1>4. ASSUME NEW o \in Owners, TakeInitializers(o) PROVE TurnInv'
  <2>1. initializing' \subseteq queued' \cap Initializers
    BY <1>4, InitOrderAssumption DEF TakeInitializers
  <2> QED
    BY <1>4, <2>1 DEF TakeInitializers, InitializersDue, Idle
<1>5. ASSUME NEW o \in Owners, EmitInitializer(o) PROVE TurnInv'
  <2>1. initializing' = initializing \ {o} /\ batch' = {} /\ applying' = NoOwner
    BY <1>0, <1>5 DEF EmitInitializer
  <2>2. queued \ {o} \subseteq queued'
    BY <1>0, <1>5, QueueKeeps DEF EmitInitializer, Publish
  <2> QED
    BY <1>0, <2>1, <2>2
<1>6. ASSUME NEW o \in Owners, TakeBatch(o) PROVE TurnInv'
  BY <1>6 DEF TakeBatch, Idle
<1>7. ASSUME NEW o \in Owners, ApplyRequirements(o) PROVE TurnInv'
  <2>1. o # NoOwner /\ initializing = {} /\ batch = {}
    BY <1>0, <1>7 DEF ApplyRequirements
  <2> QED
    BY <1>7, <2>1 DEF ApplyRequirements
<1>8. ASSUME NEW o \in Owners, ReconstructScheduled(o) PROVE TurnInv'
  <2>1. batch # {}
    BY <1>8 DEF ReconstructScheduled, NextInBatch, First, Ready
  <2> QED
    BY <1>0, <1>8, <2>1 DEF ReconstructScheduled
<1>9. ASSUME NEW o \in Owners, PublishExports(o) PROVE TurnInv'
  BY <1>9 DEF PublishExports, Drained, Idle, controlVars
<1>10. CASE TakeDirtyBatch
  BY <1>10 DEF TakeDirtyBatch, Idle
<1>11. CASE FinalizeRemovals \/ ScheduleReflection
  BY <1>11 DEF FinalizeRemovals, ScheduleReflection, Quiescent, Drained, Idle, controlVars
<1>12. CASE Settled
  BY <1>12 DEF Settled, Quiescent, Drained, Idle
<1> QED
  BY <1>1, <1>2, <1>3, <1>4, <1>5, <1>6, <1>7, <1>8, <1>9, <1>10, <1>11, <1>12 DEF Next

\* Every step preserves it.
LEMMA NextSessionInv ==
  ASSUME LoweringIsTyped, SessionInv, [Next]_vars
  PROVE  SessionInv'
<1>1. status = "opened" => roots = {}
  BY DEF SessionInv, PhaseInv, Init, L!Init
<1>2. BaseInv'
  BY <1>1, NextBaseInv DEF SessionInv
<1>0. TurnInv'
  BY NextTurn DEF SessionInv
<1>3. CASE UNCHANGED vars
  <2>1. (status = "opened" => Init) => (status = "opened" => Init)'
    BY <1>3 DEF vars, graphVars, livenessVars, exportVars, controlVars, Init, G!Init,
                L!Init
  <2>2. L!Dead' = L!Dead
    BY <1>3 DEF vars, livenessVars, L!Dead, L!Live
  <2>3. UNCHANGED <<status, failed, batch, queued, pending, dirty, exportPending, applying>>
    BY <1>3 DEF vars, graphVars, livenessVars, exportVars, controlVars
  <2> QED
    BY <1>0, <1>2, <2>1, <2>2, <2>3 DEF SessionInv, PhaseInv
<1>4. ASSUME status' = "settling" PROVE SessionInv'
  <2>1. status' # "opened" /\ status' # "settled"
    BY <1>4
  <2> QED
    BY <1>0, <1>2, <2>1 DEF SessionInv, PhaseInv
<1>5. CASE Settled
  <2> USE <1>5 DEF Settled, Quiescent, Drained, Idle, Settling
  <2>1. status' # "opened"
    OBVIOUS
  <2>2. ~failed'
    BY DEF graphVars
  <2>3. L!Dead' = {}
    BY DEF livenessVars, L!Dead, L!Live
  <2>4. /\ batch' = {} /\ queued' = {} /\ pending' = {} /\ dirty' = {}
        /\ exportPending' = {} /\ applying' = NoOwner
    BY DEF graphVars, livenessVars, exportVars
  <2> QED
    BY <1>0, <1>2, <2>1, <2>2, <2>3, <2>4 DEF SessionInv, PhaseInv
<1>6. CASE Next /\ ~Settled
  <2>1. ASSUME RequireProgramRoots PROVE status' = "settling"
    BY <2>1 DEF RequireProgramRoots
  <2>2. ASSUME NEW o \in Owners,
               \/ Emit(o) \/ TakeInitializers(o) \/ EmitInitializer(o)
               \/ TakeBatch(o) \/ ApplyRequirements(o) \/ ReconstructScheduled(o)
               \/ PublishExports(o)
        PROVE  status' = "settling"
    BY <2>2 DEF Emit, EmitInitializer, TakeInitializers, InitializersDue, TakeBatch, ApplyRequirements,
                ReconstructScheduled, PublishExports, Drained, Idle, Settling,
                controlVars
  <2>3. ASSUME TakeDirtyBatch \/ FinalizeRemovals \/ ScheduleReflection
        PROVE  status' = "settling"
    BY <2>3 DEF TakeDirtyBatch, FinalizeRemovals, ScheduleReflection, Quiescent,
                Drained, Idle, Settling, controlVars
  <2> QED
    BY <1>4, <1>6, <2>1, <2>2, <2>3 DEF Next
<1> QED
  BY <1>3, <1>5, <1>6

\* While the graph and the scheduler run inside the session their invariants
\* hold: no invalidation is lost, and no live requirement is withdrawn.
THEOREM SessionInvariant ==
  ASSUME LoweringIsTyped
  PROVE  Spec => []SessionInv
<1>1. SessionInv /\ [Next]_vars => SessionInv'
  BY NextSessionInv
<1> QED
  BY <1>1, InitSessionInv, PTL DEF Spec

\* Every variable of a session keeps its Go type.
THEOREM SessionTypeOK ==
  ASSUME LoweringIsTyped
  PROVE  Spec => []TypeOK
<1>1. SessionInv => TypeOK
  <2>1. GP!TypeOK => G!TypeOK
    BY DEF GP!TypeOK, G!TypeOK, GP!Contracts, G!Contracts, GP!Dependencies, G!Dependencies
  <2>2. SessionInv => GP!TypeOK /\ L!TypeOK /\ TypesOK /\ TurnInv
    BY DEF SessionInv, PhaseInv, BaseInv, GP!GraphInv, LivenessInv
  <2>3. TypesOK /\ TurnInv /\ G!TypeOK /\ L!TypeOK => TypeOK
    BY DEF TypesOK, TurnInv, TypeOK
  <2> QED
    BY <2>1, <2>2, <2>3
<1> QED
  BY <1>1, SessionInvariant, PTL

-----------------------------------------------------------------------------
(* The session inside its components: it drives the graph and the scheduler as
   their own specifications say they are driven *)

\* What a commit does to the graph, and to the scheduler, each can do by itself.
LEMMA CommitSteps ==
  ASSUME NEW o \in Owners, NEW revision, RevisionOK(revision),
         NEW historical \in BOOLEAN,
         \/ Commit(o, revision, historical)
         \/ /\ G!Emit(o, revision.contract, revision.dependencies)
            /\ L!Replace(o, revision.requests)
  PROVE  G!Next /\ [L!Next]_(L!vars)
<1>1. /\ revision.contract \in G!Contracts
      /\ revision.dependencies \in SUBSET (Owners \X Facets)
      /\ revision.requests \in SUBSET Requirements
  BY DEF RevisionOK, G!Contracts
<1>2. CASE /\ G!Emit(o, revision.contract, revision.dependencies)
           /\ L!Replace(o, revision.requests)
  BY <1>1, <1>2 DEF G!Next, L!Next
<1>3. CASE /\ G!Reconstruct(o, revision.contract, revision.dependencies, historical)
           /\ L!Replace(o, revision.requests)
  BY <1>1, <1>3 DEF G!Next, L!Next
<1>4. CASE /\ G!RejectOscillation(o, revision.contract, historical)
           /\ UNCHANGED livenessVars
  <2>1. G!Next
    BY <1>1, <1>4 DEF G!Next
  <2>2. UNCHANGED L!vars
    BY <1>4 DEF livenessVars, L!vars
  <2> QED
    BY <2>1, <2>2
<1> QED
  BY <1>2, <1>3, <1>4 DEF Commit

\* Every step of the session is a step, or none, of each.
LEMMA ComponentSteps ==
  ASSUME LoweringIsTyped, SessionInv, [Next]_vars
  PROVE  [G!Next]_(G!vars) /\ [L!Next]_(L!vars)
<1>1. /\ UNCHANGED graphVars => UNCHANGED G!vars
      /\ UNCHANGED livenessVars => UNCHANGED L!vars
  BY DEF graphVars, livenessVars, G!vars, G!graphVars, L!vars
<1>2. BaseInv
  BY DEF SessionInv
<1>3. ASSUME NEW o \in Owners,
             \/ Emit(o) \/ EmitInitializer(o) \/ ApplyRequirements(o)
             \/ ReconstructScheduled(o) \/ PublishExports(o)
      PROVE  [G!Next]_(G!vars) /\ [L!Next]_(L!vars)
  <2>1. RevisionOK(Revision(o)) /\ RevisionOK(Retired)
    BY <1>2, RevisionIsTyped DEF RevisionOK, Retired, G!NoContract
  <2>2. CASE Emit(o) \/ EmitInitializer(o)
    <3> DEFINE revision == Revision(o)
    <3>1. /\ G!Emit(o, revision.contract, revision.dependencies)
          /\ L!Replace(o, revision.requests)
      BY <2>2 DEF Emit, EmitInitializer, Publish
    <3>2. RevisionOK(revision)
      BY <2>1
    <3> HIDE DEF revision
    <3> QED
      BY <3>1, <3>2, CommitSteps
  <2>3. CASE ApplyRequirements(o) \/ ReconstructScheduled(o) \/ PublishExports(o)
    <3>1. PICK authority \in BOOLEAN :
             Commit(o, Revision(o), authority) \/ Commit(o, Retired, authority)
      <4>1. (requirementRemovalOwner = o) \in BOOLEAN
        OBVIOUS
      <4> QED
        BY <2>3, <4>1
        DEF ApplyRequirements, ReconstructScheduled, PublishExports, Retire, Rebuild
    <3>2. PICK revision : RevisionOK(revision) /\ Commit(o, revision, authority)
      BY <2>1, <3>1
    <3> QED
      BY <3>2, CommitSteps
  <2> QED
    BY <1>3, <2>2, <2>3
<1>4. CASE RequireProgramRoots
  <2>1. roots = {}
    BY <1>4 DEF RequireProgramRoots, SessionInv, PhaseInv, Init, L!Init
  <2>2. L!Enqueue(RootRequirements)
    BY <1>4, <2>1 DEF RequireProgramRoots, L!Enqueue
  <2>3. UNCHANGED graphVars
    BY <1>4 DEF RequireProgramRoots
  <2> QED
    BY <1>1, <2>2, <2>3 DEF L!Next
<1>5. ASSUME NEW o \in Owners, TakeBatch(o) PROVE [G!Next]_(G!vars) /\ [L!Next]_(L!vars)
  BY <1>1, <1>5 DEF TakeBatch, L!Next
<1>6. CASE TakeDirtyBatch
  BY <1>1, <1>6 DEF TakeDirtyBatch
<1>7. CASE FinalizeRemovals
  BY <1>1, <1>7 DEF FinalizeRemovals, L!Next
<1>8. CASE ScheduleReflection
  <2>1. ReflectionDemands \in SUBSET Requirements
    BY <1>2 DEF ReflectionDemands, LoweringIsTyped, BaseInv, TypesOK
  <2>2. L!Enqueue(ReflectionDemands) /\ UNCHANGED graphVars
    BY <1>8 DEF ScheduleReflection, L!Enqueue
  <2> QED
    BY <1>1, <2>1, <2>2 DEF L!Next
<1>9. CASE Settled
  BY <1>1, <1>9 DEF Settled
<1>10. CASE UNCHANGED vars
  BY <1>1, <1>10 DEF vars
<1>11. ASSUME NEW o \in Owners, TakeInitializers(o)
       PROVE  [G!Next]_(G!vars) /\ [L!Next]_(L!vars)
  BY <1>1, <1>11 DEF TakeInitializers
<1> QED
  BY <1>3, <1>4, <1>5, <1>6, <1>7, <1>8, <1>9, <1>10, <1>11 DEF Next

\* The session drives the graph and the scheduler as their own specifications
\* allow, so whatever is proved of either alone holds of it in every program.
THEOREM SessionDrivesComponents ==
  ASSUME LoweringIsTyped
  PROVE  Spec => G!Spec /\ L!Spec
<1>1. Init => G!Init /\ L!Init
  BY DEF Init
<1>2. SessionInv /\ [Next]_vars => [G!Next]_(G!vars) /\ [L!Next]_(L!vars)
  BY ComponentSteps
<1> QED
  BY <1>1, <1>2, SessionInvariant, PTL DEF Spec, G!Spec, L!Spec

-----------------------------------------------------------------------------
(* The fixed point *)

Built == materialized \cup {x \in Assemblies : G!Published(x)}

\* Building the owner again would change nothing.
Fixed(o) ==
    LET revision == Revision(o) IN
    /\ contract[o] = revision.contract
    /\ dependencies[o] = revision.dependencies
    /\ requested[o] = revision.requests

\* A built owner that is not at its fixed point is in a queue, or at hand.
FixInv ==
    ~failed =>
        \A o \in Built : \/ o \in dirty
                         \/ o = applying
                         \/ o \in exportPending
                         \/ Fixed(o)

\* What a revision of an owner that commits does to graph and requirements.
Committed(o, revision) ==
    /\ contract' = [contract EXCEPT ![o] = revision.contract]
    /\ history' = [history EXCEPT ![o] = @ \cup {revision.contract}]
    /\ dependencies' = [dependencies EXCEPT ![o] = revision.dependencies]
    /\ L!Replace(o, revision.requests)
    /\ dirty \ {o} \subseteq dirty'
    /\ \A c \in Owners \ {o}, f \in Facets :
          contract[o][f] # revision.contract[f] /\ <<o, f>> \in dependencies[c]
              => c \in dirty'
    /\ \A c \in dirty' \ dirty : c \in Owners /\ dependencies'[c] # {}
    /\ ~failed
    /\ ~failed'

\* A first revision and a reconstruction commit in this sense: the subscribers of
\* what changed become dirty, and nothing else but what depends on something.
LEMMA CommitEffect ==
  ASSUME GP!GraphInv, NEW o \in Owners, NEW revision, RevisionOK(revision),
         NEW historical \in BOOLEAN,
         \/ G!Emit(o, revision.contract, revision.dependencies)
         \/ G!Reconstruct(o, revision.contract, revision.dependencies, historical),
         L!Replace(o, revision.requests)
  PROVE  Committed(o, revision)
<1> DEFINE next == revision.contract
           deps == revision.dependencies
<1>1. next \in GP!Contracts /\ deps \in SUBSET (Owners \X Facets)
  BY DEF RevisionOK, GP!Contracts
<1>2. /\ contract' = [contract EXCEPT ![o] = next]
      /\ history' = [history EXCEPT ![o] = @ \cup {next}]
      /\ dependencies' = [dependencies EXCEPT ![o] = deps]
      /\ ~failed /\ ~failed'
      /\ \/ dirty' = GP!CommitDirty(o, next, deps)
         \/ dirty' = GP!CommitDirty(o, next, deps) \ {o}
  <2>1. \/ GP!Emit(o, next, deps)
        \/ GP!Reconstruct(o, next, deps, historical)
    BY SameGraph
  <2>2. GP!CommitRecord(o, next, deps)
    BY <2>1 DEF GP!Emit, GP!Reconstruct
  <2>3. ~failed /\ ~failed'
    <3>1. ~failed /\ failed' = failed
      BY <2>1 DEF GP!Emit, GP!Reconstruct
    <3> QED
      BY <3>1
  <2> HIDE DEF next, deps
  <2>4. \/ dirty' = GP!CommitDirty(o, next, deps)
        \/ dirty' = GP!CommitDirty(o, next, deps) \ {o}
    BY <2>1 DEF GP!Emit, GP!Reconstruct, GP!DiscardDirty
  <2> QED
    BY <2>2, <2>3, <2>4 DEF GP!CommitRecord
<1>3. /\ GP!Invalidated(o, next, deps) \subseteq Owners
      /\ \A c \in Owners \ {o} : c \in GP!Invalidated(o, next, deps) <=>
            \E f \in GP!Changed(contract[o], next) : <<o, f>> \in dependencies[c]
      /\ o \in GP!Invalidated(o, next, deps) =>
            \E f \in GP!Changed(contract[o], next) : <<o, f>> \in deps
  BY <1>1, GP!InvalidatedExact DEF GP!GraphInv, GP!Dependencies
<1> HIDE DEF next, deps
<1>4. dirty \ {o} \subseteq dirty'
  BY <1>2 DEF GP!CommitDirty
<1>5. ASSUME NEW c \in Owners \ {o}, NEW f \in Facets,
             contract[o][f] # next[f], <<o, f>> \in dependencies[c]
      PROVE  c \in dirty'
  BY <1>2, <1>3, <1>5 DEF GP!CommitDirty, GP!Changed
<1>6. ASSUME NEW c \in dirty' \ dirty PROVE c \in Owners /\ dependencies'[c] # {}
  <2>1. c \in GP!Invalidated(o, next, deps) /\ c \in Owners
    BY <1>2, <1>3 DEF GP!CommitDirty
  <2>2. CASE c = o
    BY <1>2, <1>3, <2>1, <2>2 DEF GP!GraphInv, GP!TypeOK
  <2>3. CASE c # o
    BY <1>2, <1>3, <2>1, <2>3 DEF GP!GraphInv, GP!TypeOK
  <2> QED
    BY <2>2, <2>3
<1> QED
  BY <1>2, <1>4, <1>5, <1>6 DEF Committed, next, deps

\* A build gives the same again while the requirements, the members and the
\* facets it depends on are the same: its own it does not read.
LEMMA SameRevision ==
  ASSUME LoweringIsTyped, LoweringReadsItsDependencies, BaseInv, BaseInv',
         NEW o \in Owners, source' = source,
         applied' \cap L!OwnedBy(o) = applied \cap L!OwnedBy(o),
         o \in Assemblies => Members(o)' = Members(o),
         \A d \in Revision(o).dependencies :
             d[1] # o => contract'[d[1]][d[2]] = contract[d[1]][d[2]]
  PROVE  Revision(o)' = Revision(o)
<1> DEFINE revision == Revision(o)
<1>1. View \in Views /\ View' \in Views
  BY DEF BaseInv, GP!GraphInv, GP!TypeOK, GP!Contracts, View, Views
<1>2. revision.dependencies \subseteq Owners \X Facets
  BY RevisionIsTyped DEF RevisionOK
<1>3. \A d \in Owners \X Facets : /\ View[d] = contract[d[1]][d[2]]
                                 /\ View'[d] = contract'[d[1]][d[2]]
  BY DEF View
<1>4. \A d \in revision.dependencies : d[1] # o => View[d] = View'[d]
  BY <1>2, <1>3
<1>5. source \in Programs
  BY DEF BaseInv, TypesOK
<1>6. CASE o \in Assemblies
  <2>1. Members(o) \in SUBSET DOMAIN ExportedBy
    BY DEF Members, BaseInv, TypesOK
  <2>2. /\ revision = ReviseExports(source, Members(o), View)
        /\ Revision(o)' = ReviseExports(source, Members(o), View')
    BY <1>6 DEF Revision
  <2>3. revision.dependencies \subseteq Members(o) \X Facets
    BY <1>1, <1>5, <2>1, <2>2 DEF LoweringIsTyped
  <2>4. o \notin Members(o)
    BY <1>6, <2>1
  <2>5. SameFor(NoOwner, revision, View, View')
    BY <1>4, <2>3, <2>4 DEF SameFor
  <2> HIDE DEF revision
  <2> QED
    BY <1>1, <1>5, <2>1, <2>2, <2>5 DEF LoweringReadsItsDependencies, revision
<1>7. CASE o \notin Assemblies
  <2>1. applied \cap L!OwnedBy(o) \in SUBSET Requirements
    BY DEF L!OwnedBy
  <2>2. /\ revision = Revise(source, o, applied \cap L!OwnedBy(o), View)
        /\ Revision(o)' = Revise(source, o, applied \cap L!OwnedBy(o), View')
    BY <1>7 DEF Revision
  <2>3. SameFor(o, revision, View, View')
    BY <1>4 DEF SameFor
  <2> QED
    BY <1>1, <1>5, <2>1, <2>2, <2>3 DEF LoweringReadsItsDependencies
<1> QED
  BY <1>6, <1>7

\* A commit leaves every other owner at its fixed point or makes it dirty, and
\* the owner that committed what it builds is at its own.
LEMMA CommitFix ==
  ASSUME LoweringIsTyped, LoweringReadsItsDependencies, BaseInv, BaseInv', FixInv,
         NEW o \in Owners, NEW revision, RevisionOK(revision),
         Committed(o, revision), source' = source,
         Built' \subseteq Built \cup {o},
         revision = Revision(o) \/ o \notin Built',
         applying \in {NoOwner, o},
         exportPending \ {o} \subseteq exportPending',
         o \in Assemblies => Members(o)' = Members(o),
         \A x \in Assemblies : x \in exportPending' \/ Members(x)' = Members(x)
  PROVE  FixInv'
<1> USE DEF Committed
<1>1. SUFFICES ASSUME NEW c \in Built', c \notin dirty', c \notin exportPending'
               PROVE  Fixed(c)'
  BY DEF FixInv
<1>2. Built \subseteq Owners /\ Built' \subseteq Owners
  BY DEF Built, BaseInv, TypesOK, Owners
<1>3. /\ contract \in [Owners -> [Facets -> Values \cup {Absent}]]
      /\ dependencies \in [Owners -> SUBSET (Owners \X Facets)]
      /\ requested \in [Owners -> SUBSET Requirements]
  BY DEF BaseInv, GP!GraphInv, GP!TypeOK, GP!Contracts, GP!Dependencies,
         LivenessInv, L!TypeOK
<1>4. /\ requested' = [requested EXCEPT ![o] = revision.requests]
      /\ applied' = applied
  BY DEF L!Replace
<1>5. \A p \in Owners \ {o} : contract'[p] = contract[p]
  BY <1>3
<1>6. CASE c = o
  <2>1. revision = Revision(o)
    BY <1>6
  <2>2. Revision(o)' = Revision(o)
    <3>1. \A d \in revision.dependencies : d[1] \in Owners
      BY DEF RevisionOK
    <3> QED
      BY <1>4, <1>5, <2>1, <3>1, SameRevision
  <2> QED
    BY <1>3, <1>4, <1>6, <2>1, <2>2 DEF Fixed
<1>7. CASE c # o
  <2>1. c \in Built /\ c \in Owners \ {o} /\ c # applying
    BY <1>2, <1>7
  <2>2. c \notin dirty /\ c \notin exportPending
    BY <1>1, <1>7
  <2>3. Fixed(c)
    BY <2>1, <2>2 DEF FixInv
  <2>4. \A d \in dependencies[c] : contract'[d[1]][d[2]] = contract[d[1]][d[2]]
    <3> SUFFICES ASSUME NEW d \in dependencies[c]
                 PROVE  contract'[d[1]][d[2]] = contract[d[1]][d[2]]
      OBVIOUS
    <3>1. d[1] \in Owners /\ d[2] \in Facets /\ d = <<d[1], d[2]>>
      BY <1>3, <2>1
    <3>2. CASE d[1] = o
      <4>1. contract[o][d[2]] = revision.contract[d[2]]
        BY <1>1, <2>1, <3>1, <3>2
      <4> QED
        BY <1>3, <3>2, <4>1
    <3>3. CASE d[1] # o
      BY <1>5, <3>1, <3>3
    <3> QED
      BY <3>2, <3>3
  <2>5. c \in Assemblies => Members(c)' = Members(c)
    BY <1>1
  <2>6. Revision(c)' = Revision(c)
    BY <1>4, <2>1, <2>3, <2>4, <2>5, SameRevision DEF Fixed
  <2>7. /\ contract'[c] = contract[c]
        /\ dependencies'[c] = dependencies[c]
        /\ requested'[c] = requested[c]
    BY <1>3, <1>4, <2>1
  <2> QED
    BY <2>3, <2>6, <2>7 DEF Fixed
<1> QED
  BY <1>6, <1>7

\* A commit that is not refused as an oscillation.
LEMMA CommitOrFail ==
  ASSUME BaseInv, NEW o \in Owners, NEW revision, RevisionOK(revision),
         NEW historical \in BOOLEAN, Commit(o, revision, historical)
  PROVE  Committed(o, revision) \/ failed'
<1>1. CASE /\ G!Reconstruct(o, revision.contract, revision.dependencies, historical)
           /\ L!Replace(o, revision.requests)
  BY <1>1, CommitEffect DEF BaseInv
<1>2. CASE G!RejectOscillation(o, revision.contract, historical)
  BY <1>2 DEF G!RejectOscillation
<1> QED
  BY <1>1, <1>2 DEF Commit

\* So does the first revision of a declaration or an initializer.
LEMMA PublishEffect ==
  ASSUME LoweringIsTyped, BaseInv, NEW o \in Owners, Publish(o)
  PROVE  Committed(o, Revision(o))
<1> DEFINE revision == Revision(o)
<1>1. RevisionOK(revision)
  BY RevisionIsTyped
<1>2. /\ G!Emit(o, revision.contract, revision.dependencies)
      /\ L!Replace(o, revision.requests)
  BY DEF Publish
<1> HIDE DEF revision
<1>3. Committed(o, revision)
  BY <1>1, <1>2, CommitEffect DEF BaseInv
<1> QED
  BY <1>3 DEF revision

\* What becomes built by a step that commits.
LEMMA BuiltEffect ==
  ASSUME BaseInv, NEW o \in Owners, NEW revision, Committed(o, revision),
         materialized' \subseteq materialized \cup {o}
  PROVE  Built' \subseteq Built \cup {o}
<1>1. \A x \in Owners \ {o} : history'[x] = history[x]
  BY DEF Committed, BaseInv, GP!GraphInv, GP!TypeOK
<1> QED
  BY <1>1 DEF Built, G!Published, Owners

\* A rebuilt owner.
LEMMA RebuildFix ==
  ASSUME LoweringIsTyped, LoweringReadsItsDependencies, BaseInv, BaseInv', FixInv,
         NEW o \in Owners, NEW historical \in BOOLEAN,
         Commit(o, Revision(o), historical),
         materialized' \subseteq materialized \cup {o},
         source' = source, exported' = exported,
         applying \in {NoOwner, o},
         exportPending \ {o} \subseteq exportPending'
  PROVE  FixInv'
<1>1. RevisionOK(Revision(o))
  BY RevisionIsTyped
<1>2. Committed(o, Revision(o)) \/ failed'
  BY <1>1, CommitOrFail
<1>3. \A x : Members(x)' = Members(x)
  BY DEF Members
<1>4. CASE Committed(o, Revision(o))
  <2>1. Built' \subseteq Built \cup {o}
    BY <1>4, BuiltEffect
  <2> QED
    BY <1>1, <1>3, <1>4, <2>1, CommitFix
<1> QED
  BY <1>2, <1>4 DEF FixInv

\* Steps of the queues.
LEMMA QueueFix ==
  ASSUME FixInv,
         UNCHANGED <<source, graphVars, requested, applied, exportVars, materialized,
                     applying>>
  PROVE  FixInv'
<1>1. /\ source' = source /\ contract' = contract /\ history' = history
      /\ dependencies' = dependencies /\ dirty' = dirty /\ failed' = failed
      /\ exported' = exported /\ exportPending' = exportPending
  BY DEF graphVars, exportVars
<1>2. Built' = Built
  BY <1>1 DEF Built, G!Published
<1>3. \A o : Revision(o)' = Revision(o)
  BY <1>1 DEF Revision, Members, View
<1>4. \A o : Fixed(o)' = Fixed(o)
  BY <1>1, <1>3 DEF Fixed
<1>5. failed' = failed /\ dirty' = dirty /\ applying' = applying
      /\ exportPending' = exportPending
  BY <1>1
<1> QED
  BY <1>2, <1>4, <1>5 DEF FixInv

\* No step of the session forgets an owner that is off its fixed point.
LEMMA NextFix ==
  ASSUME LoweringIsTyped, LoweringReadsItsDependencies, SessionInv, SessionInv', FixInv,
         [Next]_vars
  PROVE  FixInv'
<1> USE DEF SessionInv
<1>1. CASE UNCHANGED vars
  BY <1>1, QueueFix DEF vars, livenessVars, controlVars
<1>2. CASE RequireProgramRoots
  <2>1. Init
    BY <1>2 DEF RequireProgramRoots, PhaseInv
  <2>2. Built' = {}
    BY <1>2, <2>1 DEF RequireProgramRoots, Init, G!Init, Built, G!Published, graphVars,
                      Owners
  <2> QED
    BY <2>2 DEF FixInv
<1>3. ASSUME NEW o \in Owners, Emit(o) \/ EmitInitializer(o) PROVE FixInv'
  <2> USE <1>3 DEF Emit, EmitInitializer
  <2>1. /\ Publish(o)
        /\ applying = NoOwner
        /\ source' = source
        /\ o \notin Assemblies
    BY DEF Idle, PhaseInv, TurnInv
  <2>2. Committed(o, Revision(o))
    BY <2>1, PublishEffect
  <2>3. Built' \subseteq Built \cup {o}
    BY <2>1, <2>2, BuiltEffect DEF Publish
  <2>4. /\ exportPending \subseteq exportPending'
        /\ \A x \in Assemblies : x \in exportPending' \/ Members(x)' = Members(x)
    BY DEF RecordPackageExport, exportVars, Members
  <2>5. RevisionOK(Revision(o))
    BY RevisionIsTyped
  <2> QED
    BY <2>1, <2>2, <2>3, <2>4, <2>5, CommitFix
<1>4. ASSUME NEW o \in Owners, TakeBatch(o) PROVE FixInv'
  <2> USE <1>4 DEF TakeBatch
  <2>1. /\ source' = source /\ contract' = contract /\ history' = history
        /\ dependencies' = dependencies /\ dirty' = dirty /\ failed' = failed
        /\ exported' = exported /\ exportPending' = exportPending
        /\ requested' = requested
        /\ applied' = (applied \ L!OwnedBy(o)) \cup (active \cap L!OwnedBy(o))
        /\ applying = NoOwner /\ applying' = o
    BY DEF graphVars, exportVars, L!NextBatch, Idle
  <2>2. Built' = Built
    BY <2>1 DEF Built, G!Published
  <2>3. NoOwner \notin Built
    BY DEF Built, BaseInv, TypesOK, Owners
  <2>4. ASSUME NEW c, c # o PROVE Revision(c)' = Revision(c)
    <3>1. L!OwnedBy(c) \cap L!OwnedBy(o) = {}
      BY <2>4 DEF L!OwnedBy
    <3>2. applied' \cap L!OwnedBy(c) = applied \cap L!OwnedBy(c)
      BY <2>1, <3>1
    <3>3. View' = View /\ Members(c)' = Members(c)
      BY <2>1 DEF View, Members
    <3> QED
      BY <2>1, <3>2, <3>3 DEF Revision
  <2>5. \A c : c # o /\ Fixed(c) => Fixed(c)'
    BY <2>1, <2>4 DEF Fixed
  <2>6. ASSUME NEW c \in Built', ~failed'
        PROVE  c \in dirty' \/ c = applying' \/ c \in exportPending' \/ Fixed(c)'
    BY <2>1, <2>2, <2>3, <2>5, <2>6 DEF FixInv
  <2> QED
    BY <2>6 DEF FixInv
<1>5. ASSUME NEW o \in Owners, ApplyRequirements(o) PROVE FixInv'
  <2> USE <1>5 DEF ApplyRequirements
  <2>1. /\ source' = source /\ exported' = exported /\ exportPending' = exportPending
        /\ applying = o
    BY DEF exportVars
  <2>2. \A x : Members(x)' = Members(x)
    BY <2>1 DEF Members
  <2>3. CASE Retire(o) /\ o \in Generated
    <3>1. RevisionOK(Retired) /\ Commit(o, Retired, TRUE)
      BY <2>3 DEF RevisionOK, Retired, G!NoContract, Retire
    <3>2. Committed(o, Retired) \/ failed'
      BY <3>1, CommitOrFail
    <3>3. CASE Committed(o, Retired)
      <4>1. Built' \subseteq Built \cup {o}
        BY <2>3, <3>3, BuiltEffect DEF Retire
      <4>2. o \notin Built'
        BY <2>3 DEF Retire, Built
      <4> QED
        BY <2>1, <2>2, <3>1, <3>3, <4>1, <4>2, CommitFix
    <3> QED
      BY <3>2, <3>3 DEF FixInv
  <2>4. CASE Rebuild(o, requirementRemovalOwner = o)
    BY <2>1, <2>4, RebuildFix DEF Rebuild
  <2> QED
    BY <2>3, <2>4 DEF Retires
<1>6. ASSUME NEW o \in Owners, ReconstructScheduled(o) PROVE FixInv'
  <2> USE <1>6 DEF ReconstructScheduled
  <2>1. batch # {}
    BY DEF NextInBatch, First, Ready
  <2>2. /\ source' = source /\ exported' = exported /\ exportPending' = exportPending
        /\ applying = NoOwner
    BY <2>1 DEF exportVars, PhaseInv, TurnInv
  <2> QED
    BY <2>2, RebuildFix DEF Rebuild
<1>7. ASSUME NEW o \in Owners, PublishExports(o) PROVE FixInv'
  BY <1>7, RebuildFix DEF PublishExports, Drained, Idle, controlVars
<1>8. CASE TakeDirtyBatch
  BY <1>8, QueueFix DEF TakeDirtyBatch, livenessVars
<1>9. CASE FinalizeRemovals
  BY <1>9, QueueFix DEF FinalizeRemovals, L!FinalizeRemovals, controlVars
<1>10. CASE ScheduleReflection
  BY <1>10, QueueFix DEF ScheduleReflection, controlVars
<1>11. CASE Settled
  BY <1>11, QueueFix DEF Settled, livenessVars
<1>12. ASSUME NEW o \in Owners, TakeInitializers(o) PROVE FixInv'
  BY <1>12, QueueFix DEF TakeInitializers, livenessVars
<1> QED
  BY <1>1, <1>2, <1>3, <1>4, <1>5, <1>6, <1>7, <1>8, <1>9, <1>10, <1>11, <1>12 DEF Next

\* "Emission is open until every requested target artifact reaches a fixed
\* point": what settle ends on is one, whatever the program.
THEOREM SettledAtFixpoint ==
  ASSUME LoweringIsTyped, LoweringReadsItsDependencies
  PROVE  Spec => []SettledIsFixpoint
<1>1. Init => FixInv
  BY DEF Init, G!Init, FixInv, Built, G!Published, Owners
<1>2. SessionInv /\ SessionInv' /\ FixInv /\ [Next]_vars => FixInv'
  BY NextFix
<1>3. SessionInv /\ FixInv => SettledIsFixpoint
  <2> SUFFICES ASSUME SessionInv, FixInv, status = "settled", NEW o \in Built
               PROVE  Fixed(o)
    BY DEF SettledIsFixpoint, Built, Fixed
  <2>1. o # NoOwner
    BY DEF Built, SessionInv, BaseInv, TypesOK, Owners
  <2> QED
    BY <2>1 DEF SessionInv, PhaseInv, FixInv
<1> QED
  BY <1>1, <1>2, <1>3, SessionInvariant, PTL DEF Spec

\* What is withdrawn no artifact of the target files would demand again, built as
\* things stand (FinalizeRemovals follows the dirty batch and the initializers
\* in the loop of settle).
THEOREM WithdrawalsAreFinal ==
  ASSUME LoweringIsTyped, LoweringReadsItsDependencies
  PROVE  Spec => WithdrawnForGood
<1>1. Init => FixInv
  BY DEF Init, G!Init, FixInv, Built, G!Published, Owners
<1>2. SessionInv /\ SessionInv' /\ FixInv /\ [Next]_vars => FixInv'
  BY NextFix
<1>3. ASSUME SessionInv, [Next]_vars, NEW r \in active \ active'
      PROVE  FinalizeRemovals
  <2>1. CASE UNCHANGED vars
    BY <1>3, <2>1 DEF vars, livenessVars
  <2>2. CASE RequireProgramRoots \/ ScheduleReflection
    BY <1>3, <2>2 DEF RequireProgramRoots, ScheduleReflection, L!Activate
  <2>3. ASSUME NEW o \in Owners,
               \/ Emit(o) \/ EmitInitializer(o) \/ ApplyRequirements(o)
               \/ ReconstructScheduled(o) \/ PublishExports(o)
        PROVE  FALSE
    <3>1. /\ \A requests : L!Replace(o, requests) => active \subseteq active'
          /\ UNCHANGED livenessVars => active \subseteq active'
      BY DEF L!Replace, L!Activate, livenessVars
    <3>2. /\ \A revision, historical :
                Commit(o, revision, historical) => active \subseteq active'
          /\ Publish(o) => active \subseteq active'
      BY <3>1 DEF Commit, Publish
    <3> QED
      BY <1>3, <2>3, <3>2 DEF Emit, EmitInitializer, ApplyRequirements, Retire,
         Rebuild, ReconstructScheduled, PublishExports
  <2>4. ASSUME NEW o \in Owners, TakeInitializers(o) \/ TakeBatch(o) PROVE FALSE
    BY <1>3, <2>4 DEF TakeInitializers, TakeBatch, L!NextBatch, livenessVars
  <2>5. CASE TakeDirtyBatch \/ Settled
    BY <1>3, <2>5 DEF TakeDirtyBatch, Settled, livenessVars
  <2> QED
    BY <1>3, <2>1, <2>2, <2>3, <2>4, <2>5 DEF Next
<1>4. ASSUME SessionInv, FixInv, [Next]_vars, NEW r \in active \ active',
             NEW o \in materialized
      PROVE  r \notin Revision(o).requests
  <2>1. FinalizeRemovals
    BY <1>3, <1>4
  <2>2. dirty = {} /\ applying = NoOwner /\ ~failed
    BY <2>1 DEF FinalizeRemovals, Drained, Idle, Settling
  <2>3. o \in Owners \ Assemblies /\ exportPending \subseteq Assemblies
    BY <1>4 DEF SessionInv, BaseInv, TypesOK
  <2>4. o # NoOwner /\ o \in Built
    BY <2>3 DEF Built
  <2>5. Fixed(o)
    BY <1>4, <2>2, <2>3, <2>4 DEF FixInv
  <2>6. requested[o] = Revision(o).requests
    BY <2>5 DEF Fixed
  <2>7. r \in L!Dead
    BY <1>4, <2>1 DEF FinalizeRemovals, L!FinalizeRemovals
  <2>8. r \notin requested[o]
    BY <2>3, <2>7 DEF L!Dead, L!Live
  <2> QED
    BY <2>6, <2>8
<1>5. SessionInv /\ FixInv /\ [Next]_vars =>
          [\A r \in active \ active' :
              \A o \in materialized : r \notin Revision(o).requests]_vars
  BY <1>4
<1> QED
  BY <1>1, <1>2, <1>5, SessionInvariant, PTL DEF Spec, WithdrawnForGood

-----------------------------------------------------------------------------
(* Demands, providers and exports *)

\* A declaration or an initializer is in the target files from its first
\* revision on.
PublishedIsMaterialized ==
    \A o \in Declarations \cup Initializers : G!Published(o) <=> o \in materialized

\* Only what is built depends on anything.
DependentsAreBuilt == \A o \in Owners : dependencies[o] # {} => o \in Built

\* What a committed revision reads is emitted, or will be.
ProvidersAreScheduled ==
    \A o \in Owners : \A d \in dependencies[o] :
        d[1] \in Declarations \cup Initializers => d[1] \in queued \cup materialized

\* Requirements are applied to an owner in the target files, or at hand, and a
\* generated artifact is there for one.
AppliedIsMaterialized ==
    /\ \A r \in applied : OwnerOf[r] \in materialized \cup {applying}
    /\ \A o \in materialized \cap Generated :
          o = applying \/ applied \cap L!OwnedBy(o) # {}

\* The exports recorded are the exported declarations in the target files.
ExportsAreRecorded ==
    /\ exported = materialized \cap DOMAIN ExportedBy
    /\ \A d \in exported :
          ExportedBy[d] \in exportPending \/ G!Published(ExportedBy[d])

MembershipInv ==
    ~failed =>
        /\ PublishedIsMaterialized
        /\ DependentsAreBuilt
        /\ ProvidersAreScheduled
        /\ AppliedIsMaterialized
        /\ ExportsAreRecorded

\* What a commit does to the first three parts and to recorded exports.
LEMMA CommitMembership ==
  ASSUME BaseInv, MembershipInv, NEW o \in Owners, NEW revision, RevisionOK(revision),
         Committed(o, revision), NEW emitting \in {o, NoOwner},
         queued' = Enqueued(Scheduled(revision), emitting),
         emitting = o => o \in materialized',
         materialized' \ {o} = materialized \ {o},
         \/ o \in materialized'
         \/ o \in Assemblies
         \/ o \in Generated /\ revision.dependencies = {}
  PROVE  /\ PublishedIsMaterialized'
         /\ DependentsAreBuilt'
         /\ ProvidersAreScheduled'
         /\ \A x \in Owners : G!Published(x) => G!Published(x)'
         /\ G!Published(o)'
<1> USE DEF Committed
<1>1. /\ history \in [Owners -> SUBSET [Facets -> Values \cup {Absent}]]
      /\ dependencies \in [Owners -> SUBSET (Owners \X Facets)]
  BY DEF BaseInv, GP!GraphInv, GP!TypeOK, GP!Contracts, GP!Dependencies
<1>2. /\ PublishedIsMaterialized
      /\ DependentsAreBuilt
      /\ ProvidersAreScheduled
  BY DEF MembershipInv
<1>3. G!Published(o)' /\ \A x \in Owners \ {o} : G!Published(x)' <=> G!Published(x)
  BY <1>1 DEF G!Published
<1>4. o \in Declarations \cup Initializers => o \in materialized'
  OBVIOUS
<1>5. \A p \in Declarations \cup Initializers : p \in materialized => p \in materialized'
  BY <1>4
<1>6. PublishedIsMaterialized'
  BY <1>2, <1>3, <1>4 DEF PublishedIsMaterialized, Owners
<1>7. DependentsAreBuilt'
  <2> SUFFICES ASSUME NEW c \in Owners, dependencies'[c] # {} PROVE c \in Built'
    BY DEF DependentsAreBuilt
  <2>1. CASE c = o
    BY <1>1, <1>3, <2>1 DEF Built
  <2>2. CASE c # o
    <3>1. c \in Built
      BY <1>1, <1>2, <2>2 DEF DependentsAreBuilt
    <3> QED
      BY <1>3, <2>2, <3>1 DEF Built
  <2> QED
    BY <2>1, <2>2
<1>8. ProvidersAreScheduled'
  <2> SUFFICES ASSUME NEW c \in Owners, NEW d \in dependencies'[c],
                      d[1] \in Declarations \cup Initializers
               PROVE  d[1] \in queued' \cup materialized'
    BY DEF ProvidersAreScheduled
  <2>0. \A p \in Declarations \cup Initializers : p = emitting => p \in materialized'
    BY DEF Owners
  <2>1. \A p \in Declarations \cup Initializers :
           p \in queued \cup materialized => p \in queued' \cup materialized'
    BY <1>5, <2>0 DEF Enqueued
  <2>2. CASE c = o
    <3>1. d \in revision.dependencies
      BY <1>1, <2>2
    <3>2. d[1] \in Scheduled(revision)
      BY <3>1, BringsAssumption DEF Scheduled, Used
    <3>3. G!Published(d[1]) => d[1] \in materialized
      BY <1>2 DEF PublishedIsMaterialized
    <3> QED
      BY <2>0, <2>1, <3>2, <3>3 DEF Enqueued
  <2>3. CASE c # o
    BY <1>1, <1>2, <2>1, <2>3 DEF ProvidersAreScheduled
  <2> QED
    BY <2>2, <2>3
<1> QED
  BY <1>3, <1>6, <1>7, <1>8

\* Nothing is built at first.
LEMMA InitMembership == Init => MembershipInv
<1> SUFFICES ASSUME Init PROVE MembershipInv
  OBVIOUS
<1>1. /\ \A o \in Owners : dependencies[o] = {} /\ ~G!Published(o)
      /\ materialized = {} /\ applied = {} /\ exported = {}
  BY DEF Init, G!Init, L!Init, G!Published
<1> QED
  BY <1>1 DEF MembershipInv, PublishedIsMaterialized, DependentsAreBuilt, Owners,
              ProvidersAreScheduled, AppliedIsMaterialized, ExportsAreRecorded

\* Steps that only schedule.
LEMMA QueueMembership ==
  ASSUME MembershipInv, queued \subseteq queued',
         UNCHANGED <<graphVars, materialized, exportVars, applied, applying>>
  PROVE  MembershipInv'
<1> USE DEF graphVars, exportVars
<1>1. failed' = failed
  OBVIOUS
<1>2. PublishedIsMaterialized => PublishedIsMaterialized'
  BY DEF PublishedIsMaterialized, G!Published
<1>3. DependentsAreBuilt => DependentsAreBuilt'
  BY DEF DependentsAreBuilt, Built, G!Published
<1>4. ProvidersAreScheduled => ProvidersAreScheduled'
  BY DEF ProvidersAreScheduled
<1>5. AppliedIsMaterialized => AppliedIsMaterialized'
  BY DEF AppliedIsMaterialized
<1>6. ExportsAreRecorded => ExportsAreRecorded'
  BY DEF ExportsAreRecorded, G!Published
<1> QED
  BY <1>1, <1>2, <1>3, <1>4, <1>5, <1>6 DEF MembershipInv

\* A rebuilt owner.
LEMMA RebuildMembership ==
  ASSUME LoweringIsTyped, BaseInv, MembershipInv, NEW o \in Owners,
         NEW historical \in BOOLEAN, Rebuild(o, historical), ~failed',
         UNCHANGED exportVars, applying \in {NoOwner, o}, applying' = NoOwner
  PROVE  MembershipInv'
<1> USE DEF Rebuild
<1>1. RevisionOK(Revision(o)) /\ Committed(o, Revision(o))
  BY RevisionIsTyped, CommitOrFail
<1>2. /\ queued' = Enqueued(Scheduled(Revision(o)), NoOwner)
      /\ materialized' = materialized \cup ({o} \cap Generated)
      /\ CanReconstruct(o)
  BY DEF Commit
<1>3. applied' = applied
  BY <1>1 DEF Committed, L!Replace
<1>4. o \in materialized' \/ o \in Assemblies
  BY DEF CanReconstruct, Owners
<1>5. /\ PublishedIsMaterialized'
      /\ DependentsAreBuilt'
      /\ ProvidersAreScheduled'
      /\ \A x \in Owners : G!Published(x) => G!Published(x)'
  BY <1>1, <1>2, <1>4, CommitMembership
<1>6. AppliedIsMaterialized /\ ExportsAreRecorded
  BY <1>1 DEF MembershipInv, Committed
<1>7. AppliedIsMaterialized'
  <2>1. \A r \in applied : OwnerOf[r] \notin Assemblies
    BY DEF BaseInv, LivenessInv, L!TypeOK
  <2>2. \A r \in applied' : OwnerOf[r] \in materialized' \cup {applying'}
    BY <1>2, <1>3, <1>4, <1>6, <2>1 DEF AppliedIsMaterialized
  <2>3. o \in Generated => applied \cap L!OwnedBy(o) # {}
    BY <1>2 DEF CanReconstruct
  <2>4. \A c \in materialized' \cap Generated : applied' \cap L!OwnedBy(c) # {}
    <3>1. NoOwner \notin Generated
      BY DEF Owners
    <3> QED
      BY <1>2, <1>3, <1>6, <2>3, <3>1 DEF AppliedIsMaterialized
  <2> QED
    BY <2>2, <2>4 DEF AppliedIsMaterialized
<1>8. ExportsAreRecorded'
  <2>1. \A d \in DOMAIN ExportedBy : ExportedBy[d] \in Owners
    BY DEF Owners
  <2>2. materialized' \cap DOMAIN ExportedBy = materialized \cap DOMAIN ExportedBy
    BY <1>2
  <2> QED
    BY <1>5, <1>6, <2>1, <2>2 DEF ExportsAreRecorded, exportVars
<1> QED
  BY <1>5, <1>7, <1>8 DEF MembershipInv

\* Every step keeps demands, providers and exports together.
LEMMA NextMembership ==
  ASSUME LoweringIsTyped, SessionInv, SessionInv', MembershipInv, [Next]_vars
  PROVE  MembershipInv'
<1> USE DEF SessionInv
<1> SUFFICES ASSUME ~failed' PROVE MembershipInv'
  BY DEF MembershipInv
<1>1. CASE UNCHANGED vars
  BY <1>1, QueueMembership DEF vars, livenessVars, controlVars
<1>2. CASE RequireProgramRoots
  <2>1. Init
    BY <1>2 DEF RequireProgramRoots, PhaseInv
  <2>2. MembershipInv
    BY <2>1, InitMembership
  <2> QED
    BY <1>2, <2>1, <2>2, QueueMembership DEF RequireProgramRoots, Init
<1>3. ASSUME NEW o \in Owners, Emit(o) \/ EmitInitializer(o) PROVE MembershipInv'
  <2> USE <1>3 DEF Emit, EmitInitializer, Publish
  <2>0. /\ Emit(o) => o \in Declarations
        /\ EmitInitializer(o) => o \in Initializers
    BY DEF PhaseInv, TurnInv
  <2>1. RevisionOK(Revision(o)) /\ Committed(o, Revision(o))
    BY RevisionIsTyped, PublishEffect
  <2>2. /\ queued' = Enqueued(Scheduled(Revision(o)), o)
        /\ materialized' = materialized \cup {o}
        /\ o \in Declarations \cup Initializers
        /\ o \in Initializers => o \notin Declarations
        /\ applying' = applying
    BY <2>0 DEF controlVars
  <2>3. /\ PublishedIsMaterialized'
        /\ DependentsAreBuilt'
        /\ ProvidersAreScheduled'
        /\ \A x \in Owners : G!Published(x) => G!Published(x)'
    BY <2>1, <2>2, CommitMembership
  <2>4. /\ applied' = applied
        /\ AppliedIsMaterialized
        /\ ExportsAreRecorded
    BY <2>1 DEF Committed, L!Replace, MembershipInv
  <2>5. AppliedIsMaterialized'
    BY <2>2, <2>4 DEF AppliedIsMaterialized
  <2>6. ExportsAreRecorded'
    <3>1. \A d \in DOMAIN ExportedBy : ExportedBy[d] \in Owners
      BY DEF Owners
    <3>2. \/ o \in DOMAIN ExportedBy /\ exported' = exported \cup {o}
             /\ exportPending' = exportPending \cup {ExportedBy[o]}
          \/ o \notin DOMAIN ExportedBy /\ UNCHANGED exportVars
      BY <2>0 DEF RecordPackageExport
    <3> QED
      BY <2>2, <2>3, <2>4, <3>1, <3>2 DEF ExportsAreRecorded, exportVars
  <2> QED
    BY <2>3, <2>5, <2>6 DEF MembershipInv
<1>4. ASSUME NEW o \in Owners, TakeBatch(o) PROVE MembershipInv'
  <2> USE <1>4 DEF TakeBatch
  <2>1. /\ applied' = (applied \ L!OwnedBy(o)) \cup (active \cap L!OwnedBy(o))
        /\ applying = NoOwner /\ applying' = o
        /\ failed' = failed /\ history' = history /\ dependencies' = dependencies
        /\ exported' = exported /\ exportPending' = exportPending
    BY DEF graphVars, exportVars, L!NextBatch, Idle
  <2>2. /\ PublishedIsMaterialized /\ DependentsAreBuilt
        /\ ProvidersAreScheduled /\ AppliedIsMaterialized /\ ExportsAreRecorded
    BY <2>1 DEF MembershipInv
  <2>3. /\ PublishedIsMaterialized' /\ DependentsAreBuilt'
        /\ ProvidersAreScheduled' /\ ExportsAreRecorded'
    BY <2>1, <2>2 DEF PublishedIsMaterialized, DependentsAreBuilt, ProvidersAreScheduled,
                      ExportsAreRecorded, Built, G!Published
  <2>4. \A r \in applied' : OwnerOf[r] \in materialized' \cup {applying'}
    BY <2>1, <2>2 DEF AppliedIsMaterialized, L!OwnedBy, BaseInv, LivenessInv, L!TypeOK
  <2>5. ASSUME NEW c \in materialized' \cap Generated, c # applying'
        PROVE  applied' \cap L!OwnedBy(c) # {}
    <3>1. c # NoOwner
      BY <2>5 DEF Owners
    <3>2. applied \cap L!OwnedBy(c) # {}
      BY <2>1, <2>2, <2>5, <3>1 DEF AppliedIsMaterialized
    <3>3. L!OwnedBy(c) \cap L!OwnedBy(o) = {}
      BY <2>1, <2>5 DEF L!OwnedBy
    <3> QED
      BY <2>1, <3>2, <3>3
  <2> QED
    BY <2>3, <2>4, <2>5 DEF MembershipInv, AppliedIsMaterialized
<1>5. ASSUME NEW o \in Owners, ApplyRequirements(o) PROVE MembershipInv'
  <2> USE <1>5 DEF ApplyRequirements
  <2>1. /\ exported' = exported /\ exportPending' = exportPending
        /\ applying = o /\ applying' = NoOwner /\ ~failed
    BY DEF exportVars, Settling
  <2>2. AppliedIsMaterialized /\ ExportsAreRecorded
    BY <2>1 DEF MembershipInv
  <2>3. CASE Retires(o) /\ Retire(o)
    <3> USE <2>3 DEF Retire, Retires
    <3>1. RevisionOK(Retired) /\ Retired.dependencies = {}
      BY DEF RevisionOK, Retired, G!NoContract
    <3>2. Committed(o, Retired) /\ queued' = Enqueued(Scheduled(Retired), NoOwner)
      BY <3>1, CommitOrFail DEF Commit
    <3>3. /\ PublishedIsMaterialized' /\ DependentsAreBuilt'
          /\ ProvidersAreScheduled'
          /\ \A x \in Owners : G!Published(x) => G!Published(x)'
      <4> HIDE DEF Retire, Retires
      <4>1. /\ o \in Generated /\ NoOwner # o
            /\ materialized' \ {o} = materialized \ {o}
        BY DEF Retire, Retires
      <4> QED
        BY <3>1, <3>2, <4>1, CommitMembership
    <3>4. applied' = applied
      BY <3>2 DEF Committed, L!Replace
    <3>5. AppliedIsMaterialized'
      <4>1. \A r \in applied : OwnerOf[r] # o
        BY DEF L!OwnedBy, BaseInv, LivenessInv, L!TypeOK
      <4> QED
        BY <2>1, <2>2, <3>4, <4>1 DEF AppliedIsMaterialized
    <3>6. ExportsAreRecorded'
      <4>1. o \notin DOMAIN ExportedBy
        OBVIOUS
      <4>2. \A d \in DOMAIN ExportedBy : ExportedBy[d] \in Owners
        BY DEF Owners
      <4> QED
        BY <2>1, <2>2, <3>3, <4>1, <4>2 DEF ExportsAreRecorded
    <3> QED
      BY <3>3, <3>5, <3>6 DEF MembershipInv
  <2>4. CASE Rebuild(o, requirementRemovalOwner = o)
    BY <2>1, <2>4, RebuildMembership
  <2> QED
    BY <2>3, <2>4
<1>6. ASSUME NEW o \in Owners, ReconstructScheduled(o) PROVE MembershipInv'
  <2>1. batch # {}
    BY <1>6 DEF ReconstructScheduled, NextInBatch, First, Ready
  <2>2. applying = NoOwner
    BY <2>1 DEF PhaseInv, TurnInv
  <2> QED
    BY <1>6, <2>2, RebuildMembership DEF ReconstructScheduled
<1>7. ASSUME NEW x \in Owners, PublishExports(x) PROVE MembershipInv'
  <2> USE <1>7 DEF PublishExports
  <2>1. /\ x \in Assemblies
        /\ queued' = Enqueued(Scheduled(Revision(x)), NoOwner)
        /\ materialized' = materialized /\ exported' = exported
        /\ applying' = applying
    BY DEF Commit, BaseInv, TypesOK, controlVars
  <2>2. RevisionOK(Revision(x)) /\ Committed(x, Revision(x))
    BY RevisionIsTyped, CommitOrFail
  <2>3. /\ PublishedIsMaterialized' /\ DependentsAreBuilt'
        /\ ProvidersAreScheduled'
        /\ \A p \in Owners : G!Published(p) => G!Published(p)'
        /\ G!Published(x)'
    BY <2>1, <2>2, CommitMembership
  <2>4. /\ applied' = applied
        /\ AppliedIsMaterialized
        /\ ExportsAreRecorded
    BY <2>2 DEF Committed, L!Replace, MembershipInv
  <2>5. \A d \in DOMAIN ExportedBy : ExportedBy[d] \in Owners
    BY DEF Owners
  <2>6. AppliedIsMaterialized' /\ ExportsAreRecorded'
    BY <2>1, <2>3, <2>4, <2>5 DEF AppliedIsMaterialized, ExportsAreRecorded
  <2> QED
    BY <2>3, <2>6 DEF MembershipInv
<1>8. CASE TakeDirtyBatch
  BY <1>8, QueueMembership DEF TakeDirtyBatch, livenessVars
<1>9. CASE FinalizeRemovals
  BY <1>9, QueueMembership DEF FinalizeRemovals, L!FinalizeRemovals, controlVars
<1>10. CASE ScheduleReflection
  <2>1. queued \subseteq queued'
    <3>1. NoOwner \notin queued
      BY DEF BaseInv, TypesOK, Owners
    <3> QED
      BY <1>10, <3>1 DEF ScheduleReflection, Enqueued
  <2> QED
    BY <1>10, <2>1, QueueMembership DEF ScheduleReflection, controlVars
<1>11. CASE Settled
  BY <1>11, QueueMembership DEF Settled, livenessVars
<1>12. ASSUME NEW o \in Owners, TakeInitializers(o) PROVE MembershipInv'
  BY <1>12, QueueMembership DEF TakeInitializers, livenessVars
<1> QED
  BY <1>1, <1>2, <1>3, <1>4, <1>5, <1>6, <1>7, <1>8, <1>9, <1>10, <1>11, <1>12 DEF Next

\* A build depends on what will be emitted or what it demands to be
\* generated, and on facets that every build of it has.
ProvidersAreThere ==
    LET Provides(program, d) ==
          \A selected \in SUBSET Requirements, view \in Views :
              Revise(program, d[1], selected, view).contract[d[2]] # Absent
        Emitted(d) == d[1] \in Declarations \cup Initializers
    IN
    /\ \A program \in Programs, o \in Owners, selected \in SUBSET Requirements,
          view \in Views :
          LET revision == Revise(program, o, selected, view) IN
          \A d \in revision.dependencies :
              /\ Emitted(d) \/ d[1] \in Generated \cap L!OwnersOf(revision.requests)
              /\ Provides(program, d)
    /\ \A program \in Programs, members \in SUBSET DOMAIN ExportedBy, view \in Views :
          \A d \in ReviseExports(program, members, view).dependencies :
              Provides(program, d)

\* What settle ends on is closed under its demands, whatever the program.
THEOREM SettledClosed ==
  ASSUME LoweringIsTyped, LoweringReadsItsDependencies, ProvidersAreThere
  PROVE  Spec => []SettledIsClosed
<1>1. Init => MembershipInv
  BY InitMembership
<1>2. SessionInv /\ SessionInv' /\ MembershipInv /\ [Next]_vars => MembershipInv'
  BY NextMembership
<1>3. SessionInv /\ MembershipInv /\ SettledIsFixpoint => SettledIsClosed
  <2> SUFFICES ASSUME SessionInv, MembershipInv, SettledIsFixpoint, status = "settled"
               PROVE  SettledIsClosed
    BY DEF SettledIsClosed
  <2>1. /\ PublishedIsMaterialized /\ DependentsAreBuilt /\ ProvidersAreScheduled
        /\ AppliedIsMaterialized /\ ExportsAreRecorded
        /\ queued = {} /\ pending = {} /\ L!Dead = {} /\ exportPending = {}
        /\ applying = NoOwner
    BY DEF SessionInv, PhaseInv, MembershipInv
  <2>2. applied = L!Live
    <3>1. active = L!Live
      BY <2>1 DEF SessionInv, BaseInv, LivenessInv, L!LiveIsActive, L!Live,
                  L!Dead
    <3>2. applied = active
      BY <2>1 DEF SessionInv, BaseInv, LivenessInv, L!AppliedIsActive, L!TypeOK
    <3> QED
      BY <3>1, <3>2
  <2>3. \A r \in applied : OwnerOf[r] \in materialized
    <3>1. \A r \in applied : OwnerOf[r] # NoOwner
      BY DEF SessionInv, BaseInv, LivenessInv, L!TypeOK
    <3> QED
      BY <2>1, <3>1 DEF AppliedIsMaterialized
  <2>4. L!OwnersOf(applied) \subseteq materialized
    BY <2>3 DEF L!OwnersOf
  <2>5. materialized \cap Generated \subseteq L!OwnersOf(applied)
    <3>1. NoOwner \notin Generated
      BY DEF Owners
    <3> QED
      BY <2>1, <3>1 DEF AppliedIsMaterialized, L!OwnersOf, L!OwnedBy
  <2>6. \A d \in materialized \cap DOMAIN ExportedBy :
           d \in Members(ExportedBy[d]) /\ G!Published(ExportedBy[d])
    BY <2>1 DEF ExportsAreRecorded, Members
  <2>7. ASSUME NEW o \in Owners, NEW d \in dependencies[o]
        PROVE  contract[d[1]][d[2]] # Absent
    <3>1. o \in Built
      BY <2>1, <2>7 DEF DependentsAreBuilt
    <3>2. Fixed(o)
      BY <3>1 DEF SettledIsFixpoint, Fixed, Built
    <3>3. d \in Revision(o).dependencies
      BY <3>2 DEF Fixed
    <3>4. View \in Views /\ source \in Programs
      BY DEF SessionInv, BaseInv, TypesOK, GP!GraphInv, GP!TypeOK, GP!Contracts, View,
             Views
    <3>5. /\ \/ d[1] \in Declarations \cup Initializers
             \/ d[1] \in Generated \cap L!OwnersOf(Revision(o).requests)
          /\ \A selected \in SUBSET Requirements, view \in Views :
                Revise(source, d[1], selected, view).contract[d[2]] # Absent
      <4>1. CASE o \in Assemblies
        <5>1. Members(o) \in SUBSET DOMAIN ExportedBy
          BY DEF Members, SessionInv, BaseInv, TypesOK
        <5>2. Revision(o) = ReviseExports(source, Members(o), View)
          BY <4>1 DEF Revision
        <5>3. d[1] \in Members(o)
          BY <3>3, <3>4, <5>1, <5>2 DEF LoweringIsTyped
        <5> QED
          BY <3>3, <3>4, <5>1, <5>2, <5>3 DEF ProvidersAreThere
      <4>2. CASE o \notin Assemblies
        <5>1. applied \cap L!OwnedBy(o) \in SUBSET Requirements
          BY DEF L!OwnedBy
        <5>2. Revision(o) = Revise(source, o, applied \cap L!OwnedBy(o), View)
          BY <4>2 DEF Revision
        <5> QED
          BY <3>3, <3>4, <5>1, <5>2 DEF ProvidersAreThere
      <4> QED
        BY <4>1, <4>2
    <3>6. d[1] \in materialized
      <4>1. CASE d[1] \in Declarations \cup Initializers
        BY <2>1, <2>7, <4>1 DEF ProvidersAreScheduled
      <4>2. CASE d[1] \in L!OwnersOf(Revision(o).requests)
        <5>1. Revision(o).requests \subseteq L!Live
          BY <3>2 DEF Fixed, L!Live
        <5> QED
          BY <2>2, <2>3, <4>2, <5>1 DEF L!OwnersOf
      <4> QED
        BY <3>5, <4>1, <4>2
    <3>7. d[1] \in Owners \ Assemblies /\ Fixed(d[1])
      BY <3>6 DEF SettledIsFixpoint, Fixed, SessionInv, BaseInv, TypesOK
    <3>8. contract[d[1]] = Revise(source, d[1], applied \cap L!OwnedBy(d[1]), View).contract
      BY <3>7 DEF Fixed, Revision
    <3>9. applied \cap L!OwnedBy(d[1]) \in SUBSET Requirements
      BY DEF L!OwnedBy
    <3> QED
      BY <3>4, <3>5, <3>8, <3>9
  <2> QED
    BY <2>2, <2>4, <2>5, <2>6, <2>7 DEF SettledIsClosed
<1> QED
  BY <1>1, <1>2, <1>3, SessionInvariant, SettledAtFixpoint, PTL DEF Spec

-----------------------------------------------------------------------------
(* No scheduling error *)

\* The requirements of a package initializer come from its own build.
InitializersDemandThemselves ==
    /\ \A program \in Programs, o \in Owners, selected \in SUBSET Requirements,
          view \in Views :
          \A r \in Revise(program, o, selected, view).requests :
              OwnerOf[r] \in Initializers => OwnerOf[r] = o
    /\ \A program \in Programs, members \in SUBSET DOMAIN ExportedBy, view \in Views :
          \A r \in ReviseExports(program, members, view).requests :
              OwnerOf[r] \notin Initializers
    /\ \A r \in RootRequirements : OwnerOf[r] \notin Initializers
    /\ \A program \in Programs, published \in SUBSET Owners :
          \A r \in Reflects(program, published) : OwnerOf[r] \notin Initializers

\* Nothing is emitted twice.
QueuedIsUnpublished == \A o \in queued : ~G!Published(o)

\* An owner with a requirement in force, or a batch due, is emitted or will be
\* before its turn: initializers are emitted last.
DemandedIsScheduled ==
    \A o \in L!OwnersOf(active) \cup pending :
        /\ o \notin Assemblies
        /\ o \in Declarations => o \in queued \cup materialized
        /\ o \in Initializers => o \in materialized

\* A generated artifact has a batch due for a requirement or for its removal.
PendingIsDemanded ==
    \A o \in pending \cap Generated : o \in removed \/ active \cap L!OwnedBy(o) # {}

RemovedIsBuilt == removed \subseteq materialized \ {applying}

DirtyIsBuilt == dirty \cup batch \subseteq Built

\* The owner at hand can be rebuilt, or retired.
ApplyingIsBuilt ==
    applying # NoOwner =>
        /\ applying \notin Assemblies
        /\ applying \in Declarations \cup Initializers => applying \in materialized
        /\ applying \in Generated =>
              \/ requirementRemovalOwner = applying /\ applying \in materialized
              \/ applied \cap L!OwnedBy(applying) # {}

RefusalInv ==
    ~failed =>
        /\ QueuedIsUnpublished
        /\ DemandedIsScheduled
        /\ PendingIsDemanded
        /\ RemovedIsBuilt
        /\ DirtyIsBuilt
        /\ ApplyingIsBuilt

\* What a commit does to the first three parts and to the dirty set.
LEMMA CommitRefusal ==
  ASSUME BaseInv, MembershipInv, RefusalInv,
         NEW o \in Owners, NEW revision, RevisionOK(revision),
         Committed(o, revision), NEW emitting \in {o, NoOwner},
         queued' = Enqueued(Scheduled(revision), emitting),
         emitting = o => o \in materialized',
         materialized' \ {o} = materialized \ {o},
         \/ o \in materialized'
         \/ o \in Assemblies
         \/ o \in Generated /\ revision.dependencies = {},
         o \in Declarations \cup Initializers => emitting = o \/ o \in materialized,
         o \in dirty' => o \in materialized',
         \A r \in revision.requests : OwnerOf[r] \in Initializers => OwnerOf[r] = o
  PROVE  /\ QueuedIsUnpublished'
         /\ DemandedIsScheduled'
         /\ PendingIsDemanded'
         /\ dirty' \subseteq Built'
         /\ removed' = removed
         /\ \A c \in Built \ {o} : c \in Built'
<1> USE DEF Committed
<1>1. /\ PublishedIsMaterialized'
      /\ DependentsAreBuilt'
      /\ \A x \in Owners : G!Published(x) => G!Published(x)'
  BY CommitMembership
<1>2. /\ history \in [Owners -> SUBSET [Facets -> Values \cup {Absent}]]
      /\ queued \subseteq Declarations \cup Initializers
      /\ materialized \subseteq Owners
      /\ revision.requests \subseteq Requirements
      /\ requested \in [Owners -> SUBSET Requirements]
  BY DEF BaseInv, TypesOK, GP!GraphInv, GP!TypeOK, GP!Contracts, LivenessInv,
         L!TypeOK, RevisionOK
<1>3. /\ QueuedIsUnpublished /\ DemandedIsScheduled /\ PendingIsDemanded /\ DirtyIsBuilt
      /\ PublishedIsMaterialized
  BY DEF RefusalInv, MembershipInv
<1>4. \A x \in Owners \ {o} : G!Published(x)' <=> G!Published(x)
  BY <1>2 DEF G!Published
<1>5. \A p \in Declarations \cup Initializers : p = emitting => p \in materialized'
  BY DEF Owners
<1>6. \A p \in Declarations \cup Initializers :
         p \in materialized => p \in materialized'
  BY DEF Owners
<1>7. \A p \in Declarations \cup Initializers :
         p \in queued \cup materialized => p \in queued' \cup materialized'
  BY <1>5, <1>6 DEF Enqueued
<1>8. \A c \in Built \ {o} : c \in Built'
  BY <1>4 DEF Built, Owners
<1>9. QueuedIsUnpublished'
  <2> SUFFICES ASSUME NEW c \in queued' PROVE ~G!Published(c)'
    BY DEF QueuedIsUnpublished
  <2>1. Scheduled(revision) \subseteq Declarations \cup Initializers
    BY ScheduledIsTyped
  <2>2. c # emitting /\ ~G!Published(c) /\ c \in Declarations \cup Initializers
    BY <1>2, <1>3, <2>1 DEF Enqueued, QueuedIsUnpublished
  <2>3. c # o
    BY <1>3, <2>2 DEF PublishedIsMaterialized
  <2> QED
    BY <1>4, <2>2, <2>3 DEF Owners
<1>10. /\ active' = active \cup (revision.requests \ requested[o])
       /\ pending' = pending \cup
                        L!OwnersOf((revision.requests \ requested[o]) \ active)
       /\ removed' = removed
  BY DEF L!Replace, L!Activate
<1>11. DemandedIsScheduled'
  <2> SUFFICES ASSUME NEW c \in L!OwnersOf(active') \cup pending'
               PROVE  /\ c \notin Assemblies
                      /\ c \in Declarations => c \in queued' \cup materialized'
                      /\ c \in Initializers => c \in materialized'
    BY DEF DemandedIsScheduled
  <2>1. CASE c \in L!OwnersOf(active) \cup pending
    BY <1>3, <1>6, <1>7, <2>1 DEF DemandedIsScheduled
  <2>2. CASE c \in L!OwnersOf(revision.requests)
    <3>1. c \in Owners \ Assemblies
      BY <1>2, <2>2 DEF L!OwnersOf
    <3>2. c \in Initializers => c = o
      BY <2>2 DEF L!OwnersOf
    <3>3. c \in Initializers => c \in materialized'
      BY <1>5, <1>6, <3>2
    <3>4. ASSUME c \in Declarations PROVE c \in queued' \cup materialized'
      <4>1. c \in Scheduled(revision)
        BY <2>2, <3>4, BringsAssumption DEF Scheduled, Used
      <4>2. G!Published(c) => c \in materialized
        BY <1>3, <3>4 DEF PublishedIsMaterialized
      <4> QED
        BY <1>5, <1>7, <3>4, <4>1, <4>2 DEF Enqueued
    <3> QED
      BY <3>1, <3>3, <3>4
  <2> QED
    BY <1>10, <2>1, <2>2 DEF L!OwnersOf
<1>12. PendingIsDemanded'
  <2> SUFFICES ASSUME NEW c \in pending' \cap Generated
               PROVE  c \in removed' \/ active' \cap L!OwnedBy(c) # {}
    BY DEF PendingIsDemanded
  <2>1. CASE c \in pending
    BY <1>3, <1>10, <2>1 DEF PendingIsDemanded
  <2>2. CASE c \in L!OwnersOf((revision.requests \ requested[o]) \ active)
    BY <1>2, <1>10, <2>2 DEF L!OwnersOf, L!OwnedBy
  <2> QED
    BY <1>10, <2>1, <2>2
<1>13. dirty' \subseteq Built'
  <2> SUFFICES ASSUME NEW c \in dirty' PROVE c \in Built'
    OBVIOUS
  <2>1. CASE c = o
    BY <2>1 DEF Built
  <2>2. CASE c # o /\ c \in dirty
    BY <1>3, <1>8, <2>2 DEF DirtyIsBuilt
  <2>3. CASE c \notin dirty
    BY <1>1, <2>3 DEF DependentsAreBuilt
  <2> QED
    BY <2>1, <2>2, <2>3
<1> QED
  BY <1>8, <1>9, <1>10, <1>11, <1>12, <1>13

\* What a build requests of initializers.
LEMMA RevisionDemands ==
  ASSUME LoweringIsTyped, InitializersDemandThemselves, BaseInv, NEW o \in Owners,
         NEW r \in Revision(o).requests, OwnerOf[r] \in Initializers
  PROVE  OwnerOf[r] = o /\ o \notin Assemblies
<1>1. View \in Views /\ source \in Programs
  BY DEF BaseInv, TypesOK, GP!GraphInv, GP!TypeOK, GP!Contracts, View, Views
<1>2. CASE o \in Assemblies
  <2>1. Members(o) \in SUBSET DOMAIN ExportedBy
    BY DEF Members, BaseInv, TypesOK
  <2> QED
    BY <1>1, <1>2, <2>1 DEF InitializersDemandThemselves, Revision
<1>3. CASE o \notin Assemblies
  <2>1. applied \cap L!OwnedBy(o) \in SUBSET Requirements
    BY DEF L!OwnedBy
  <2> QED
    BY <1>1, <1>3, <2>1 DEF InitializersDemandThemselves, Revision
<1> QED
  BY <1>2, <1>3

\* The commit of a rebuilt owner or of a package export.
LEMMA RebuildRefusal ==
  ASSUME LoweringIsTyped, InitializersDemandThemselves, BaseInv, MembershipInv,
         RefusalInv, NEW o \in Owners, NEW historical \in BOOLEAN,
         Commit(o, Revision(o), historical), ~failed',
         materialized' = materialized \cup ({o} \cap Generated),
         o \in Declarations \cup Initializers => o \in materialized
  PROVE  /\ QueuedIsUnpublished'
         /\ DemandedIsScheduled'
         /\ PendingIsDemanded'
         /\ dirty' \subseteq Built'
         /\ removed' = removed
         /\ \A c \in Built \ {o} : c \in Built'
<1>1. RevisionOK(Revision(o)) /\ Committed(o, Revision(o))
  BY RevisionIsTyped, CommitOrFail
<1>2. queued' = Enqueued(Scheduled(Revision(o)), NoOwner)
  BY DEF Commit
<1>3. o \in materialized' \/ o \in Assemblies
  BY DEF Owners
<1>4. o \notin dirty'
  BY DEF Commit, G!Reconstruct, G!DiscardDirty, G!RejectOscillation
<1>5. \A r \in Revision(o).requests : OwnerOf[r] \in Initializers => OwnerOf[r] = o
  BY RevisionDemands
<1> QED
  BY <1>1, <1>2, <1>3, <1>4, <1>5, CommitRefusal

\* Steps of the graph's clients that change neither graph nor requirements.
LEMMA QueueRefusal ==
  ASSUME RefusalInv, batch' \subseteq batch \cup dirty,
         UNCHANGED <<graphVars, livenessVars, queued, materialized, applying,
                     requirementRemovalOwner>>
  PROVE  RefusalInv'
<1> USE DEF graphVars, livenessVars
<1>1. failed' = failed
  OBVIOUS
<1>2. QueuedIsUnpublished => QueuedIsUnpublished'
  BY DEF QueuedIsUnpublished, G!Published
<1>3. DemandedIsScheduled => DemandedIsScheduled'
  BY DEF DemandedIsScheduled
<1>4. PendingIsDemanded => PendingIsDemanded'
  BY DEF PendingIsDemanded
<1>5. RemovedIsBuilt => RemovedIsBuilt'
  BY DEF RemovedIsBuilt
<1>6. DirtyIsBuilt => DirtyIsBuilt'
  BY DEF DirtyIsBuilt, Built, G!Published
<1>7. ApplyingIsBuilt => ApplyingIsBuilt'
  BY DEF ApplyingIsBuilt
<1> QED
  BY <1>1, <1>2, <1>3, <1>4, <1>5, <1>6, <1>7 DEF RefusalInv

\* Nothing is queued at first.
LEMMA InitRefusal == Init => RefusalInv
<1> SUFFICES ASSUME Init PROVE RefusalInv
  OBVIOUS
<1>1. /\ queued = {} /\ active = {} /\ pending = {} /\ removed = {}
      /\ dirty = {} /\ batch = {} /\ applying = NoOwner
  BY DEF Init, G!Init, L!Init
<1> QED
  BY <1>1 DEF RefusalInv, QueuedIsUnpublished, DemandedIsScheduled, PendingIsDemanded,
              RemovedIsBuilt, DirtyIsBuilt, ApplyingIsBuilt, L!OwnersOf

\* The requirements the program itself demands.
LEMMA RootsRefusal ==
  ASSUME BaseInv, MembershipInv, RefusalInv, ~failed,
         NEW requirements \in SUBSET Requirements, NEW used,
         used \subseteq Declarations \cup Initializers,
         \A r \in requirements : OwnerOf[r] \notin Initializers,
         \A r \in requirements : OwnerOf[r] \in Declarations => OwnerOf[r] \in used,
         L!Activate(requirements),
         queued' = Enqueued(used, NoOwner),
         UNCHANGED <<graphVars, requested, applied, removed, materialized, batch,
                     applying, requirementRemovalOwner>>
  PROVE  RefusalInv'
<1> USE DEF graphVars
<1>1. /\ QueuedIsUnpublished /\ DemandedIsScheduled /\ PendingIsDemanded
      /\ RemovedIsBuilt /\ DirtyIsBuilt /\ ApplyingIsBuilt /\ PublishedIsMaterialized
  BY DEF RefusalInv, MembershipInv
<1>2. /\ active' = active \cup requirements
      /\ pending' = pending \cup L!OwnersOf(requirements \ active)
  BY DEF L!Activate
<1>3. queued \subseteq Declarations \cup Initializers
  BY DEF BaseInv, TypesOK
<1>4. queued \subseteq queued'
  BY <1>3 DEF Enqueued, Owners
<1>5. QueuedIsUnpublished'
  BY <1>1 DEF QueuedIsUnpublished, Enqueued, G!Published
<1>6. DemandedIsScheduled'
  <2> SUFFICES ASSUME NEW c \in L!OwnersOf(active') \cup pending'
               PROVE  /\ c \notin Assemblies
                      /\ c \in Declarations => c \in queued' \cup materialized'
                      /\ c \in Initializers => c \in materialized'
    BY DEF DemandedIsScheduled
  <2>1. CASE c \in L!OwnersOf(active) \cup pending
    BY <1>1, <1>4, <2>1 DEF DemandedIsScheduled
  <2>2. CASE c \in L!OwnersOf(requirements)
    <3>1. c \in Owners \ Assemblies /\ c \notin Initializers
      BY <2>2 DEF L!OwnersOf
    <3>2. ASSUME c \in Declarations PROVE c \in queued' \cup materialized'
      <4>1. c \in used
        BY <2>2, <3>2 DEF L!OwnersOf
      <4>2. G!Published(c) => c \in materialized
        BY <1>1, <3>2 DEF PublishedIsMaterialized
      <4>3. c # NoOwner
        BY <3>2 DEF Owners
      <4> QED
        BY <4>1, <4>2, <4>3 DEF Enqueued
    <3> QED
      BY <3>1, <3>2
  <2> QED
    BY <1>2, <2>1, <2>2 DEF L!OwnersOf
<1>7. PendingIsDemanded'
  <2> SUFFICES ASSUME NEW c \in pending' \cap Generated
               PROVE  c \in removed' \/ active' \cap L!OwnedBy(c) # {}
    BY DEF PendingIsDemanded
  <2>1. CASE c \in pending
    BY <1>1, <1>2, <2>1 DEF PendingIsDemanded
  <2>2. CASE c \in L!OwnersOf(requirements \ active)
    BY <1>2, <2>2 DEF L!OwnersOf, L!OwnedBy
  <2> QED
    BY <1>2, <2>1, <2>2
<1>8. RemovedIsBuilt' /\ DirtyIsBuilt' /\ ApplyingIsBuilt'
  BY <1>1 DEF RemovedIsBuilt, DirtyIsBuilt, ApplyingIsBuilt, Built, G!Published
<1> QED
  BY <1>5, <1>6, <1>7, <1>8 DEF RefusalInv

\* Every step keeps each owner in the queue it can be taken from.
LEMMA NextRefusal ==
  ASSUME LoweringIsTyped, InitializersDemandThemselves, SessionInv, SessionInv',
         MembershipInv, RefusalInv, [Next]_vars
  PROVE  RefusalInv'
<1> USE DEF SessionInv
<1> SUFFICES ASSUME ~failed' PROVE RefusalInv'
  BY DEF RefusalInv
<1>1. CASE UNCHANGED vars
  BY <1>1, QueueRefusal DEF vars, controlVars
<1>2. CASE RequireProgramRoots
  <2> USE <1>2 DEF RequireProgramRoots
  <2>1. Init
    BY DEF PhaseInv
  <2>2. /\ ~failed /\ queued = {} /\ \A o \in Owners : ~G!Published(o)
    BY <2>1 DEF Init, G!Init, G!Published
  <2> DEFINE used == Used(RootObjects(source) \cup L!OwnersOf(RootRequirements))
  <2>3. used \subseteq Declarations \cup Initializers
    BY BringsAssumption DEF Used, L!OwnersOf, BaseInv, TypesOK
  <2>4. \A r \in RootRequirements : OwnerOf[r] \in Declarations => OwnerOf[r] \in used
    BY BringsAssumption DEF Used, L!OwnersOf
  <2>5. queued' = used
    OBVIOUS
  <2> HIDE DEF used
  <2>6. queued' = Enqueued(used, NoOwner)
    BY <2>2, <2>3, <2>5 DEF Enqueued, Owners
  <2>7. \A r \in RootRequirements : OwnerOf[r] \notin Initializers
    BY DEF InitializersDemandThemselves
  <2> QED
    BY <2>2, <2>3, <2>4, <2>6, <2>7, RootsRefusal
<1>3. ASSUME NEW o \in Owners, Emit(o) \/ EmitInitializer(o) PROVE RefusalInv'
  <2> USE <1>3 DEF Emit, EmitInitializer, Idle, Settling, Publish, PhaseInv, TurnInv
  <2>1. RevisionOK(Revision(o)) /\ Committed(o, Revision(o))
    BY RevisionIsTyped, PublishEffect
  <2>2. /\ queued' = Enqueued(Scheduled(Revision(o)), o)
        /\ materialized' = materialized \cup {o}
        /\ batch' = {} /\ applying' = NoOwner /\ ~failed
    BY DEF controlVars
  <2>3. \A r \in Revision(o).requests : OwnerOf[r] \in Initializers => OwnerOf[r] = o
    BY RevisionDemands
  <2>4. /\ QueuedIsUnpublished' /\ DemandedIsScheduled' /\ PendingIsDemanded'
        /\ dirty' \subseteq Built' /\ removed' = removed
    BY <2>1, <2>2, <2>3, CommitRefusal
  <2>5. RemovedIsBuilt' /\ DirtyIsBuilt' /\ ApplyingIsBuilt'
    <3>1. RemovedIsBuilt
      BY <2>2 DEF RefusalInv
    <3>2. NoOwner \notin removed
      BY DEF BaseInv, LivenessInv, L!TypeOK
    <3> QED
      BY <2>2, <2>4, <3>1, <3>2 DEF RemovedIsBuilt, DirtyIsBuilt, ApplyingIsBuilt
  <2> QED
    BY <2>4, <2>5 DEF RefusalInv
<1>4. ASSUME NEW o \in Owners, TakeBatch(o) PROVE RefusalInv'
  <2> USE <1>4 DEF TakeBatch
  <2>1. /\ o \in pending /\ pending' = pending \ {o} /\ removed' = removed \ {o}
        /\ applied' = (applied \ L!OwnedBy(o)) \cup (active \cap L!OwnedBy(o))
        /\ active' = active /\ queued' = queued /\ materialized' = materialized
        /\ dirty' = dirty /\ history' = history /\ batch' = batch
        /\ applying = NoOwner /\ applying' = o
        /\ requirementRemovalOwner' = IF o \in removed THEN o ELSE NoOwner
        /\ queued \cap Declarations = {}
    BY DEF graphVars, L!NextBatch, Idle
  <2>2. /\ QueuedIsUnpublished /\ DemandedIsScheduled /\ PendingIsDemanded
        /\ RemovedIsBuilt /\ DirtyIsBuilt
    BY DEF RefusalInv, Idle, Settling
  <2>3. QueuedIsUnpublished' /\ DirtyIsBuilt'
    BY <2>1, <2>2 DEF QueuedIsUnpublished, DirtyIsBuilt, Built, G!Published
  <2>4. DemandedIsScheduled'
    BY <2>1, <2>2 DEF DemandedIsScheduled, L!OwnersOf
  <2>5. PendingIsDemanded' /\ RemovedIsBuilt'
    BY <2>1, <2>2 DEF PendingIsDemanded, RemovedIsBuilt
  <2>6. ApplyingIsBuilt'
    <3>1. /\ o \notin Assemblies
          /\ o \in Declarations \cup Initializers => o \in materialized
      BY <2>1, <2>2 DEF DemandedIsScheduled
    <3>2. ASSUME o \in Generated, o \in removed
          PROVE  requirementRemovalOwner' = o /\ o \in materialized
      BY <2>1, <2>2, <3>2 DEF RemovedIsBuilt
    <3>3. ASSUME o \in Generated, o \notin removed
          PROVE  applied' \cap L!OwnedBy(o) # {}
      BY <2>1, <2>2, <3>3 DEF PendingIsDemanded
    <3> QED
      BY <2>1, <3>1, <3>2, <3>3 DEF ApplyingIsBuilt
  <2> QED
    BY <2>3, <2>4, <2>5, <2>6 DEF RefusalInv
<1>5. ASSUME NEW o \in Owners, ApplyRequirements(o) PROVE RefusalInv'
  <2> USE <1>5 DEF ApplyRequirements
  <2>1. /\ applying = o /\ applying' = NoOwner /\ batch = {} /\ batch' = {} /\ ~failed
    BY DEF Settling, PhaseInv, TurnInv
  <2>2. RemovedIsBuilt /\ PublishedIsMaterialized
    BY <2>1 DEF RefusalInv, MembershipInv
  <2>3. CASE Retires(o) /\ Retire(o)
    <3>1. /\ o \in Generated /\ materialized' = materialized \ {o}
          /\ Commit(o, Retired, TRUE)
      BY <2>3 DEF Retires, Retire
    <3>2. /\ RevisionOK(Retired) /\ Retired.dependencies = {}
          /\ Retired.requests = {}
      BY DEF RevisionOK, Retired, G!NoContract
    <3>3. Committed(o, Retired) /\ queued' = Enqueued(Scheduled(Retired), NoOwner)
      BY <3>1, <3>2, CommitOrFail DEF Commit
    <3>4. o \notin dirty'
      BY <3>1 DEF Commit, G!Reconstruct, G!DiscardDirty, G!RejectOscillation
    <3>5. /\ QueuedIsUnpublished' /\ DemandedIsScheduled' /\ PendingIsDemanded'
          /\ dirty' \subseteq Built' /\ removed' = removed
      BY <3>1, <3>2, <3>3, <3>4, CommitRefusal
    <3>6. RemovedIsBuilt' /\ DirtyIsBuilt' /\ ApplyingIsBuilt'
      <4>1. NoOwner \notin removed
        BY DEF BaseInv, LivenessInv, L!TypeOK
      <4> QED
        BY <2>1, <2>2, <3>1, <3>5, <4>1 DEF RemovedIsBuilt, DirtyIsBuilt, ApplyingIsBuilt
    <3> QED
      BY <3>5, <3>6 DEF RefusalInv
  <2>4. CASE Rebuild(o, requirementRemovalOwner = o)
    <3>1. /\ CanReconstruct(o)
          /\ materialized' = materialized \cup ({o} \cap Generated)
          /\ Commit(o, Revision(o), requirementRemovalOwner = o)
      BY <2>4 DEF Rebuild
    <3>2. o \in Declarations \cup Initializers => o \in materialized
      BY <3>1 DEF CanReconstruct
    <3>3. /\ QueuedIsUnpublished' /\ DemandedIsScheduled' /\ PendingIsDemanded'
          /\ dirty' \subseteq Built' /\ removed' = removed
      BY <3>1, <3>2, RebuildRefusal
    <3>4. RemovedIsBuilt' /\ DirtyIsBuilt' /\ ApplyingIsBuilt'
      <4>1. NoOwner \notin removed
        BY DEF BaseInv, LivenessInv, L!TypeOK
      <4> QED
        BY <2>1, <2>2, <3>1, <3>3, <4>1 DEF RemovedIsBuilt, DirtyIsBuilt, ApplyingIsBuilt
    <3> QED
      BY <3>3, <3>4 DEF RefusalInv
  <2> QED
    BY <2>3, <2>4
<1>6. ASSUME NEW o \in Owners, ReconstructScheduled(o) PROVE RefusalInv'
  <2> USE <1>6 DEF ReconstructScheduled, Rebuild
  <2>1. /\ batch # {} /\ applying = NoOwner /\ applying' = NoOwner /\ ~failed
    BY DEF Settling, NextInBatch, First, Ready, PhaseInv, TurnInv
  <2>2. RemovedIsBuilt /\ DirtyIsBuilt
    BY <2>1 DEF RefusalInv
  <2>3. o \in Declarations \cup Initializers => o \in materialized
    BY DEF CanReconstruct
  <2>4. /\ QueuedIsUnpublished' /\ DemandedIsScheduled' /\ PendingIsDemanded'
        /\ dirty' \subseteq Built' /\ removed' = removed
        /\ \A c \in Built \ {o} : c \in Built'
    BY <2>1, <2>3, RebuildRefusal
  <2>5. DirtyIsBuilt'
    BY <2>2, <2>4 DEF DirtyIsBuilt
  <2>6. RemovedIsBuilt' /\ ApplyingIsBuilt'
    BY <2>1, <2>2, <2>4 DEF RemovedIsBuilt, ApplyingIsBuilt
  <2> QED
    BY <2>4, <2>5, <2>6 DEF RefusalInv
<1>7. ASSUME NEW x \in Owners, PublishExports(x) PROVE RefusalInv'
  <2> USE <1>7 DEF PublishExports
  <2>1. /\ x \in Assemblies /\ materialized' = materialized
        /\ batch' = {} /\ applying = NoOwner /\ applying' = NoOwner /\ ~failed
    BY DEF Drained, Idle, Settling, BaseInv, TypesOK, controlVars
  <2>2. RemovedIsBuilt
    BY <2>1 DEF RefusalInv
  <2>3. /\ QueuedIsUnpublished' /\ DemandedIsScheduled' /\ PendingIsDemanded'
        /\ dirty' \subseteq Built' /\ removed' = removed
    BY <2>1, RebuildRefusal
  <2> QED
    BY <2>1, <2>2, <2>3 DEF RefusalInv, RemovedIsBuilt, DirtyIsBuilt, ApplyingIsBuilt
<1>8. CASE TakeDirtyBatch
  BY <1>8, QueueRefusal DEF TakeDirtyBatch
<1>9. CASE FinalizeRemovals
  <2> USE <1>9 DEF FinalizeRemovals, L!FinalizeRemovals, Drained, Idle, Settling
  <2>1. /\ pending = {} /\ active' = active \ L!Dead
        /\ removed' = removed \cup L!OwnersOf(L!Dead)
        /\ pending' = L!OwnersOf(L!Dead)
        /\ applying = NoOwner /\ applying' = NoOwner /\ ~failed
        /\ queued' = queued /\ materialized' = materialized /\ batch' = batch
        /\ dirty' = dirty /\ history' = history
    BY DEF graphVars, controlVars
  <2>2. /\ QueuedIsUnpublished /\ DemandedIsScheduled /\ RemovedIsBuilt /\ DirtyIsBuilt
        /\ AppliedIsMaterialized
    BY <2>1 DEF RefusalInv, MembershipInv
  <2>3. L!OwnersOf(L!Dead) \subseteq L!OwnersOf(active)
    BY DEF L!OwnersOf, L!Dead
  <2>4. L!OwnersOf(L!Dead) \subseteq materialized
    <3>1. \A r \in active : r \in Requirements /\ r \in applied
      BY <2>1 DEF BaseInv, LivenessInv, L!TypeOK, L!AppliedIsActive
    <3>2. \A r \in active : OwnerOf[r] \in materialized
      BY <2>1, <2>2, <3>1 DEF AppliedIsMaterialized
    <3> QED
      BY <3>2 DEF L!OwnersOf, L!Dead
  <2>5. L!OwnersOf(active') \subseteq L!OwnersOf(active)
    BY <2>1 DEF L!OwnersOf
  <2>6. DemandedIsScheduled'
    BY <2>1, <2>2, <2>3, <2>5 DEF DemandedIsScheduled
  <2>7. PendingIsDemanded'
    BY <2>1 DEF PendingIsDemanded
  <2>8. RemovedIsBuilt'
    <3>1. NoOwner \notin materialized
      BY DEF BaseInv, TypesOK
    <3> QED
      BY <2>1, <2>2, <2>4, <3>1 DEF RemovedIsBuilt
  <2>9. QueuedIsUnpublished' /\ DirtyIsBuilt' /\ ApplyingIsBuilt'
    BY <2>1, <2>2 DEF QueuedIsUnpublished, DirtyIsBuilt, ApplyingIsBuilt, Built,
                      G!Published
  <2> QED
    BY <2>6, <2>7, <2>8, <2>9 DEF RefusalInv
<1>10. CASE ScheduleReflection
  <2> USE <1>10 DEF ScheduleReflection
  <2> DEFINE used == Used(L!OwnersOf(ReflectionDemands))
  <2>1. /\ ReflectionDemands \in SUBSET Requirements
        /\ \A r \in ReflectionDemands : OwnerOf[r] \notin Initializers
    BY DEF ReflectionDemands, LoweringIsTyped, InitializersDemandThemselves, BaseInv,
           TypesOK
  <2>2. used \subseteq Declarations \cup Initializers
    BY <2>1, BringsAssumption DEF Used, L!OwnersOf
  <2>3. \A r \in ReflectionDemands : OwnerOf[r] \in Declarations => OwnerOf[r] \in used
    BY BringsAssumption DEF Used, L!OwnersOf
  <2>4. queued' = Enqueued(used, NoOwner)
    OBVIOUS
  <2> HIDE DEF used
  <2>5. ~failed
    BY DEF Quiescent, Drained, Idle, Settling
  <2> QED
    BY <2>1, <2>2, <2>3, <2>4, <2>5, RootsRefusal DEF controlVars
<1>11. CASE Settled
  BY <1>11, QueueRefusal DEF Settled
<1>12. ASSUME NEW o \in Owners, TakeInitializers(o) PROVE RefusalInv'
  BY <1>12, QueueRefusal DEF TakeInitializers
<1> QED
  BY <1>1, <1>2, <1>3, <1>4, <1>5, <1>6, <1>7, <1>8, <1>9, <1>10, <1>11, <1>12 DEF Next

\* settle meets no ScheduleError: nothing is emitted twice, rebuilt before it
\* was emitted, retired before it was built, or built without a demand.
THEOREM NeverRefusedSession ==
  ASSUME LoweringIsTyped, InitializersDemandThemselves
  PROVE  Spec => []NeverRefused
<1>1. SessionInv /\ SessionInv' /\ MembershipInv /\ [Next]_vars => MembershipInv'
  BY NextMembership
<1>2. SessionInv /\ SessionInv' /\ MembershipInv /\ RefusalInv /\ [Next]_vars
        => RefusalInv'
  BY NextRefusal
<1>3. SessionInv /\ MembershipInv /\ RefusalInv => NeverRefused
  <2> SUFFICES ASSUME SessionInv, MembershipInv, RefusalInv, Settling PROVE ~Refused
    BY DEF NeverRefused, Refused
  <2>1. /\ QueuedIsUnpublished /\ DirtyIsBuilt /\ ApplyingIsBuilt /\ AppliedIsMaterialized
    BY DEF RefusalInv, MembershipInv, Settling
  <2>2. \A o \in queued : ~G!Published(o)
    BY <2>1 DEF QueuedIsUnpublished
  <2>3. ASSUME NEW o \in NextInBatch PROVE CanReconstruct(o)
    <3>1. o \in batch /\ applying = NoOwner
      BY <2>3 DEF NextInBatch, First, Ready, SessionInv, PhaseInv, TurnInv
    <3>2. o \in Built /\ o \in Owners /\ materialized \cap Assemblies = {}
      BY <2>1, <3>1 DEF DirtyIsBuilt, SessionInv, BaseInv, TypesOK
    <3>3. o \in Generated => applied \cap L!OwnedBy(o) # {}
      BY <2>1, <3>1, <3>2 DEF Built, AppliedIsMaterialized, Owners
    <3> QED
      BY <3>2, <3>3 DEF Built, CanReconstruct, Owners
  <2>4. ASSUME applying # NoOwner
        PROVE  IF Retires(applying) THEN applying \in materialized
                                    ELSE CanReconstruct(applying)
    <3>1. applying \in Owners
      BY <2>4 DEF SessionInv, BaseInv, TypesOK
    <3> QED
      BY <2>1, <2>4, <3>1 DEF ApplyingIsBuilt, Retires, CanReconstruct, Owners
  <2> QED
    BY <2>2, <2>3, <2>4 DEF Refused, SessionInv, PhaseInv, TurnInv
<1> QED
  BY <1>1, <1>2, <1>3, InitMembership, InitRefusal, SessionInvariant, PTL DEF Spec
=============================================================================
