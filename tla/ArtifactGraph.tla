--------------------------- MODULE ArtifactGraph ---------------------------
(***************************************************************************)
(* The graph of target artifacts (internal/emit/artifact): every artifact  *)
(* owner publishes a contract, a content for each observable facet, and    *)
(* depends on facets of other owners.  A revision that changes a facet     *)
(* dirties the owners subscribed to it, and an artifact that goes back to  *)
(* a contract it already had is refused, unless the revision follows the   *)
(* removal of a requirement.                                               *)
(*                                                                         *)
(* The client is programSession: an owner is emitted once, then            *)
(* reconstructed any number of times.  What a build makes of the facets it *)
(* reads is not modelled here: contract and dependencies of a revision are *)
(* chosen freely, so what holds holds for every compiled program.          *)
(* `observed` is the only history variable: the facet contents the         *)
(* committed revision of an owner was built from.                          *)
(*                                                                         *)
(* An operator named Bug... is a mistaken form of the definition after it  *)
(* and is used by no specification: it says what a property would catch.   *)
(***************************************************************************)
EXTENDS FiniteSets

CONSTANTS
    Owners,     \* artifact owners (api.ArtifactOwner)
    Facets,     \* observable facets (api.ArtifactFacet)
    Values,     \* encoded contents of a facet
    Absent,     \* the content of a facet a contract does not have
    Certified,  \* owners whose contract an authored implementation fixes
    Subscribable  \* the dependency sets a revision may report

ASSUME AbsentAssumption == Absent \notin Values
ASSUME CertifiedAssumption == Certified \subseteq Owners

Dependencies == Owners \X Facets
Contracts == [Facets -> Values \cup {Absent}]
NoContract == [f \in Facets |-> Absent]

ASSUME SubscribableAssumption == Subscribable \subseteq SUBSET Dependencies

VARIABLES
    contract,      \* owner -> contract of its record, NoContract without one
    history,       \* owner -> contracts it has had, {} without a record
    dependencies,  \* owner -> facets its committed revision depends on
    reverse,       \* facet of an owner -> owners subscribed to it
    dirty,         \* owners to reconstruct
    removalDirty,  \* dirty owners that may go back to an old contract
    observed,      \* owner -> contents its committed revision was built from
    failed         \* an ArtifactConvergenceError ended the compilation

graphVars == <<contract, history, dependencies, reverse, dirty, removalDirty>>
vars == <<graphVars, observed, failed>>

-----------------------------------------------------------------------------
Published(o) == history[o] # {}

Changed(current, next) == {f \in Facets : current[f] # next[f]}

BugContainsCurrent(o, next) == next = contract[o]

ContainsHistory(o, next) == next \in history[o]

Authorized(o, historical) == historical \/ o \in removalDirty

Oscillates(o, next, historical) ==
    /\ Published(o)
    /\ next # contract[o]
    /\ ContainsHistory(o, next)
    /\ ~Authorized(o, historical)

BugKeepReverseEdges(rev, o, deps) == rev

RemoveReverseEdges(rev, o, deps) ==
    [d \in Dependencies |-> IF d \in deps THEN rev[d] \ {o} ELSE rev[d]]

AddReverseEdges(rev, o, deps) ==
    [d \in Dependencies |-> IF d \in deps THEN rev[d] \cup {o} ELSE rev[d]]

Resubscribed(o, deps) ==
    AddReverseEdges(RemoveReverseEdges(reverse, o, dependencies[o]), o, deps)

Consumers(rev, o, facets) == UNION {rev[<<o, f>>] : f \in facets}

BugFirstPublicationSilent(o, next, deps) ==
    IF Published(o)
    THEN Consumers(Resubscribed(o, deps), o, Changed(contract[o], next))
    ELSE {}

Invalidated(o, next, deps) ==
    Consumers(Resubscribed(o, deps), o, Changed(contract[o], next))

BugKeepDependencies(o, next, deps) ==
    /\ contract' = [contract EXCEPT ![o] = next]
    /\ history' = [history EXCEPT ![o] = @ \cup {next}]
    /\ dependencies' = [dependencies EXCEPT ![o] = @ \cup deps]
    /\ reverse' = Resubscribed(o, deps)

\* The part of Graph.commit that touches the record and the reverse index.
CommitRecord(o, next, deps) ==
    /\ contract' = [contract EXCEPT ![o] = next]
    /\ history' = [history EXCEPT ![o] = @ \cup {next}]
    /\ dependencies' = [dependencies EXCEPT ![o] = deps]
    /\ reverse' = Resubscribed(o, deps)

\* The dirty set, and the dirty owners holding removal authority, after
\* Graph.commit invalidated the subscribers of the facets that changed.
CommitDirty(o, next, deps) == dirty \cup Invalidated(o, next, deps)

BugAuthorityStops(o, next, deps, historical) == removalDirty

CommitRemovalDirty(o, next, deps, historical) ==
    IF Authorized(o, historical)
    THEN removalDirty \cup Invalidated(o, next, deps)
    ELSE removalDirty

BugDiscardKeepsAuthority(o, nextDirty, nextRemovalDirty) ==
    /\ dirty' = nextDirty \ {o}
    /\ removalDirty' = nextRemovalDirty

\* Graph.DiscardDirty, applied to the sets the commit before it left.
DiscardDirty(o, nextDirty, nextRemovalDirty) ==
    /\ dirty' = nextDirty \ {o}
    /\ removalDirty' = nextRemovalDirty \ {o}

\* What the build of a revision with these dependencies reads.
Observation(deps) == [d \in deps |-> contract[d[1]][d[2]]]

-----------------------------------------------------------------------------
Init ==
    /\ contract = [o \in Owners |-> NoContract]
    /\ history = [o \in Owners |-> {}]
    /\ dependencies = [o \in Owners |-> {}]
    /\ reverse = [d \in Dependencies |-> {}]
    /\ dirty = {}
    /\ removalDirty = {}
    /\ observed = [o \in Owners |-> [d \in {} |-> Absent]]
    /\ failed = FALSE

\* programSession.emit and emitSourceImplementationContract, emission of
\* package storage and initializers, ensureCallableContractBaseline: the
\* first revision of an owner.
Emit(o, next, deps) ==
    /\ ~failed
    /\ ~Published(o)
    /\ CommitRecord(o, next, deps)
    /\ dirty' = CommitDirty(o, next, deps)
    /\ removalDirty' = CommitRemovalDirty(o, next, deps, FALSE)
    /\ observed' = [observed EXCEPT ![o] = Observation(deps)]
    /\ UNCHANGED failed

\* reconstructScheduledArtifact, publishPackageExports and the retirement of
\* a generated artifact: build, commit, then discard the owner's own entry.
Reconstruct(o, next, deps, historical) ==
    /\ ~failed
    /\ o \notin Certified
    /\ ~Oscillates(o, next, historical)
    /\ CommitRecord(o, next, deps)
    /\ DiscardDirty(o, CommitDirty(o, next, deps),
                       CommitRemovalDirty(o, next, deps, historical))
    /\ observed' = [observed EXCEPT ![o] = Observation(deps)]
    /\ UNCHANGED failed

\* The commit of an oscillating revision: an error, and no change of the graph.
RejectOscillation(o, next, historical) ==
    /\ ~failed
    /\ o \notin Certified
    /\ Oscillates(o, next, historical)
    /\ failed' = TRUE
    /\ UNCHANGED <<graphVars, observed>>

\* acceptSourceImplementationReconstruction: a certified contract is never
\* rebuilt.
AcceptCertified(o) ==
    /\ ~failed
    /\ o \in Certified
    /\ o \in dirty
    /\ DiscardDirty(o, dirty, removalDirty)
    /\ UNCHANGED <<contract, history, dependencies, reverse, observed, failed>>

Next ==
    \E o \in Owners :
        \/ \E next \in Contracts, deps \in Subscribable : Emit(o, next, deps)
        \/ \E next \in Contracts, deps \in Subscribable, historical \in BOOLEAN :
              \/ Reconstruct(o, next, deps, historical)
              \/ RejectOscillation(o, next, historical)
        \/ AcceptCertified(o)

Spec == Init /\ [][Next]_vars

-----------------------------------------------------------------------------
(* Properties *)

\* Every variable holds a value of its Go type.
TypeOK ==
    /\ contract \in [Owners -> Contracts]
    /\ history \in [Owners -> SUBSET Contracts]
    /\ dependencies \in [Owners -> SUBSET Dependencies]
    /\ reverse \in [Dependencies -> SUBSET Owners]
    /\ dirty \subseteq Owners
    /\ removalDirty \subseteq Owners
    /\ \A o \in Owners :
          observed[o] \in [dependencies[o] -> Values \cup {Absent}]
    /\ DOMAIN observed = Owners
    /\ failed \in BOOLEAN

\* The reverse index that commit maintains edge by edge is exactly the
\* inverse of the records' dependency sets: an edge left behind would rebuild
\* an artifact forever, a missing one would leave it stale.
ReverseIndexExact ==
    \A d \in Dependencies, o \in Owners :
        o \in reverse[d] <=> d \in dependencies[o]

\* The contract of a record is in its history, and an owner without a record
\* has no contract: what contains() compares with is what was published.
HistoryHasCurrent ==
    \A o \in Owners :
        IF Published(o) THEN contract[o] \in history[o]
                        ELSE contract[o] = NoContract /\ dependencies[o] = {}

\* No lost invalidation: an artifact that is not queued for reconstruction was
\* built from the contents its dependencies have now, even when a provider was
\* published after its consumer.  DiscardDirty follows commit, so a
\* subscription of an artifact to its own facets does not count; nor does a
\* certified contract, which is never rebuilt.
CleanConsumersAreCurrent ==
    \A o \in Owners \ Certified : o \notin dirty =>
        \A d \in dependencies[o] :
            d[1] # o => observed[o][d] = contract[d[1]][d[2]]

\* Removal authority does not outlive the dirty entry it was given with:
\* DiscardDirty takes both, or a later genuine oscillation would be accepted.
AuthorityOnlyWhileDirty == removalDirty \subseteq dirty

\* "The root requeues only its reverse subscribers": an owner becomes dirty
\* only by a step that changes the content of a facet it depends on.
OnlySubscribersInvalidated ==
    [][\A o \in dirty' \ dirty : \E d \in dependencies'[o] :
          contract'[d[1]][d[2]] # contract[d[1]][d[2]]]_vars

\* A contract a record already had comes back only with the authority to do
\* so, and that authority reaches every other subscriber of what changed:
\* commit hands it on with the invalidation.
RevisitsHandAuthorityOn ==
    [][\A p \in Owners :
          (contract'[p] # contract[p] /\ contract'[p] \in history[p]) =>
              \A o \in Owners \ {p}, f \in Changed(contract[p], contract'[p]) :
                  <<p, f>> \in dependencies'[o] => o \in removalDirty']_vars
=============================================================================
