------------------------ MODULE RequirementScheduler ------------------------
(***************************************************************************)
(* requirements.Scheduler as it is written: which requirements are live is *)
(* never computed, it is counted.  A build returns root requests; a        *)
(* request is a leaf that carries one requirement or a sequence of other   *)
(* requests, shared by pointer between sequences and between consumers.    *)
(* requestRefs counts the references to a request, requirementRefs the     *)
(* live leaves that carry a requirement, and a requirement whose count     *)
(* falls to zero waits in orphaned until FinalizeRemovals.                 *)
(*                                                                         *)
(* Replace walks the requests it is given: its calls of retainRequest and  *)
(* releaseRequest, recursive in the code, are steps here, the calls still  *)
(* to make are kept in retaining and releasing, and nothing else happens   *)
(* until it returns.  The order in which it visits the two sets is that of *)
(* a Go map: any order.  pendingOwners and pending are one set here, and   *)
(* the owner NextBatch pops is any of them (the comparison function orders *)
(* them for reproducible output).                                          *)
(*                                                                         *)
(* An operator named Bug... is a mistaken form of the definition after it  *)
(* and is used by no specification: it says what a property would catch.   *)
(***************************************************************************)
EXTENDS Naturals, SequencesExt

CONSTANTS
    Owners,        \* artifact owners
    Requirements,  \* declaration requirements
    OwnerOf,       \* requirement -> its owner
    Requests,      \* root requests, by identity
    Children,      \* request -> the requests of a sequence, <<>> for a leaf
    Demand,        \* leaf request -> the requirement it carries
    Selections,    \* the sets of declaration requests a build may return
    CertifiedSets, \* the sets InstallCertified may be given
    Nobody         \* no consumer

Leaf(q) == q \in DOMAIN Demand

ASSUME OwnersAssumption == IsFiniteSet(Owners) /\ Nobody \notin Owners
ASSUME OwnerOfAssumption == OwnerOf \in [Requirements -> Owners]
ASSUME RequestsAssumption ==
    /\ IsFiniteSet(Requests)
    /\ Children \in [Requests -> Seq(Requests)]
    /\ DOMAIN Demand \subseteq Requests
    /\ \A q \in DOMAIN Demand : Demand[q] \in Requirements /\ Children[q] = <<>>
ASSUME SelectionsAssumption == {} \in Selections /\ Selections \subseteq SUBSET Requests
ASSUME CertifiedAssumption == CertifiedSets \subseteq SUBSET Requirements

\* p is a sequence with q in it.
Holds(p, q) == \E i \in DOMAIN Children[p] : Children[p][i] = q

\* A sequence is made of requests that exist: sequences do not hold each other
\* in a circle, so in every set of requests there is one none of them holds.
ASSUME AcyclicAssumption ==
    \A some \in (SUBSET Requests) \ {{}} : \E q \in some : \A p \in some : ~Holds(p, q)

VARIABLES
    byConsumer,       \* consumer -> requests of its committed revision
    requestRefs,      \* request -> references to it
    requirementRefs,  \* requirement -> live leaves that carry it
    orphaned,         \* requirements whose count fell to zero
    certified, roots, active, applied,  \* ledgers
    pending,          \* owners in pendingOwners
    removed,          \* pending owners that lost a requirement
    panicked,         \* one of the scheduler's panics was reached
    caller,           \* consumer of the Replace under way, or Nobody
    selected,         \* what it was given
    retaining,        \* the calls of retainRequest it has to make, in order
    releasing         \* the calls of releaseRequest it has to make after them

counts == <<requestRefs, requirementRefs, orphaned>>
ledgers == <<certified, roots, active, applied>>
call == <<caller, selected, retaining, releasing>>
vars == <<byConsumer, counts, ledgers, pending, removed, panicked, call>>

-----------------------------------------------------------------------------
Init ==
    /\ byConsumer = [c \in Owners |-> {}]
    /\ requestRefs = [q \in Requests |-> 0]
    /\ requirementRefs = [r \in Requirements |-> 0]
    /\ orphaned = {}
    /\ certified = {}
    /\ roots = {}
    /\ active = {}
    /\ applied = {}
    /\ pending = {}
    /\ removed = {}
    /\ panicked = FALSE
    /\ caller = Nobody
    /\ selected = {}
    /\ retaining = <<>>
    /\ releasing = <<>>

\* The scheduler can be called.
Idle == caller = Nobody /\ ~panicked

InstallCertified(requirements) ==
    /\ Idle
    /\ certified = {}
    /\ certified' = requirements
    /\ UNCHANGED <<byConsumer, counts, roots, active, applied, pending, removed,
                   panicked, call>>

Enqueue(r) ==
    /\ Idle
    /\ r \notin roots
    /\ roots' = roots \cup {r}
    /\ active' = active \cup {r}
    /\ pending' = IF r \in active THEN pending ELSE pending \cup {OwnerOf[r]}
    /\ UNCHANGED <<byConsumer, counts, certified, applied, removed, panicked, call>>

-----------------------------------------------------------------------------
\* Replace is called: what is new is to be retained, then what is gone released.
Replace(c, requests) ==
    /\ Idle
    /\ caller' = c
    /\ selected' = requests
    /\ retaining' \in SetToSeqs(requests \ byConsumer[c])
    /\ releasing' \in SetToSeqs(byConsumer[c] \ requests)
    /\ UNCHANGED <<byConsumer, counts, ledgers, pending, removed, panicked>>

\* The last part of retainRequest: a requirement nobody requested is put in
\* force, unless it still is.
BugRetainLeavesOrphaned(r) ==
    /\ requirementRefs' = [requirementRefs EXCEPT ![r] = @ + 1]
    /\ IF requirementRefs[r] = 0 /\ r \notin orphaned /\ r \notin active
       THEN active' = active \cup {r} /\ pending' = pending \cup {OwnerOf[r]}
       ELSE UNCHANGED <<active, pending>>
    /\ UNCHANGED orphaned

RetainRequirement(r) ==
    /\ requirementRefs' = [requirementRefs EXCEPT ![r] = @ + 1]
    /\ orphaned' = IF requirementRefs[r] = 0 THEN orphaned \ {r} ELSE orphaned
    /\ IF requirementRefs[r] = 0 /\ r \notin orphaned /\ r \notin active
       THEN active' = active \cup {r} /\ pending' = pending \cup {OwnerOf[r]}
       ELSE UNCHANGED <<active, pending>>

\* One call of retainRequest: the first reference to a request retains its
\* children, before what was to be retained after it.
RetainRequest ==
    /\ ~panicked
    /\ retaining # <<>>
    /\ LET q == Head(retaining)
           first == requestRefs[q] = 0
       IN  /\ requestRefs' = [requestRefs EXCEPT ![q] = @ + 1]
           /\ retaining' = (IF first THEN Children[q] ELSE <<>>) \o Tail(retaining)
           /\ IF first /\ Leaf(q) THEN RetainRequirement(Demand[q])
              ELSE UNCHANGED <<requirementRefs, orphaned, active, pending>>
    /\ UNCHANGED <<byConsumer, certified, roots, applied, removed, panicked,
                   caller, selected, releasing>>

\* The last part of releaseRequest: the last leaf that carries a requirement
\* leaves it orphaned, unless it is a root.
ReleaseRequirement(r) ==
    /\ panicked' = (requirementRefs[r] = 0)
    /\ requirementRefs' = [requirementRefs EXCEPT ![r] = IF @ = 0 THEN 0 ELSE @ - 1]
    /\ orphaned' = IF requirementRefs[r] = 1 /\ r \notin roots
                   THEN orphaned \cup {r} ELSE orphaned

\* One call of releaseRequest: the last reference releases the children.
BugReleaseKeepsChildren ==
    /\ ~panicked
    /\ retaining = <<>> /\ releasing # <<>>
    /\ LET q == Head(releasing)
           last == requestRefs[q] = 1
       IN  /\ requestRefs' = [requestRefs EXCEPT ![q] = IF @ = 0 THEN 0 ELSE @ - 1]
           /\ releasing' = Tail(releasing)
           /\ IF last /\ Leaf(q) THEN ReleaseRequirement(Demand[q])
              ELSE /\ panicked' = (requestRefs[q] = 0)
                   /\ UNCHANGED <<requirementRefs, orphaned>>
    /\ UNCHANGED <<byConsumer, ledgers, pending, removed, caller, selected, retaining>>

ReleaseRequest ==
    /\ ~panicked
    /\ retaining = <<>> /\ releasing # <<>>
    /\ LET q == Head(releasing)
           last == requestRefs[q] = 1
       IN  /\ requestRefs' = [requestRefs EXCEPT ![q] = IF @ = 0 THEN 0 ELSE @ - 1]
           /\ releasing' = (IF last THEN Children[q] ELSE <<>>) \o Tail(releasing)
           /\ IF last /\ Leaf(q) THEN ReleaseRequirement(Demand[q])
              ELSE /\ panicked' = (requestRefs[q] = 0)
                   /\ UNCHANGED <<requirementRefs, orphaned>>
    /\ UNCHANGED <<byConsumer, ledgers, pending, removed, caller, selected, retaining>>

\* Replace returns.
Replaced ==
    /\ ~panicked
    /\ caller # Nobody /\ retaining = <<>> /\ releasing = <<>>
    /\ byConsumer' = [byConsumer EXCEPT ![caller] = selected]
    /\ caller' = Nobody
    /\ selected' = {}
    /\ UNCHANGED <<counts, ledgers, pending, removed, panicked, retaining, releasing>>

-----------------------------------------------------------------------------
OwnedBy(o) == {r \in Requirements : OwnerOf[r] = o}

BugBatchAddsOnly(o) ==
    /\ Idle
    /\ o \in pending
    /\ pending' = pending \ {o}
    /\ removed' = removed \ {o}
    /\ applied' = applied \cup (active \cap OwnedBy(o))
    /\ UNCHANGED <<byConsumer, counts, certified, roots, active, panicked, call>>

BugBatchKeepsRemoved(o) ==
    /\ Idle
    /\ o \in pending
    /\ pending' = pending \ {o}
    /\ applied' = (applied \ OwnedBy(o)) \cup (active \cap OwnedBy(o))
    /\ UNCHANGED <<byConsumer, counts, certified, roots, active, removed, panicked,
                   call>>

NextBatch(o) ==
    /\ Idle
    /\ o \in pending
    /\ pending' = pending \ {o}
    /\ removed' = removed \ {o}
    /\ applied' = (applied \ OwnedBy(o)) \cup (active \cap OwnedBy(o))
    /\ UNCHANGED <<byConsumer, counts, certified, roots, active, panicked, call>>

\* The requirements FinalizeRemovals withdraws: the orphans nothing took up.
BugWithdrawEveryOrphan == orphaned

Withdrawn == {r \in orphaned \ roots : requirementRefs[r] = 0}

\* settle calls it only when NextBatch had nothing to return.
FinalizeRemovals ==
    /\ Idle
    /\ pending = {}
    /\ orphaned # {}
    /\ orphaned' = {}
    /\ active' = active \ Withdrawn
    /\ pending' = {OwnerOf[r] : r \in Withdrawn}
    /\ removed' = removed \cup {OwnerOf[r] : r \in Withdrawn}
    /\ UNCHANGED <<byConsumer, requestRefs, requirementRefs, certified, roots,
                   applied, panicked, call>>

Next ==
    \/ \E requirements \in CertifiedSets : InstallCertified(requirements)
    \/ \E r \in Requirements : Enqueue(r)
    \/ \E c \in Owners, requests \in Selections : Replace(c, requests)
    \/ RetainRequest
    \/ ReleaseRequest
    \/ Replaced
    \/ \E o \in Owners : NextBatch(o)
    \/ FinalizeRemovals

Spec == Init /\ [][Next]_vars

-----------------------------------------------------------------------------
(* Properties *)

\* Every variable holds a value of its Go type; the counts are unsigned.
TypeOK ==
    /\ byConsumer \in [Owners -> Selections]
    /\ requestRefs \in [Requests -> Nat]
    /\ requirementRefs \in [Requirements -> Nat]
    /\ orphaned \subseteq Requirements
    /\ certified \subseteq Requirements
    /\ roots \subseteq Requirements
    /\ active \subseteq Requirements
    /\ applied \subseteq Requirements
    /\ pending \subseteq Owners
    /\ removed \subseteq Owners
    /\ panicked \in BOOLEAN
    /\ caller \in Owners \cup {Nobody}
    /\ selected \in Selections
    /\ retaining \in Seq(Requests)
    /\ releasing \in Seq(Requests)

\* The sets of requests that hold the children of their members.
ClosedSets ==
    {some \in SUBSET Requests :
        \A p \in some, q \in Requests : Holds(p, q) => q \in some}

\* The requests reachable from one, itself included.
Below == [q \in Requests |->
    {n \in Requests : \A some \in ClosedSets : q \in some => n \in some}]

\* The requests reachable from a set of them.
Reached(requests) == UNION {Below[q] : q \in requests}

\* The requirements carried below a request.
Carried == [q \in Requests |-> {Demand[n] : n \in Below[q] \cap DOMAIN Demand}]

Demanded(requests) == UNION {Carried[q] : q \in requests}

LiveRequests == Reached(UNION {byConsumer[c] : c \in Owners})

Live == roots \cup Demanded(UNION {byConsumer[c] : c \in Owners})

\* The places of the live sequences that hold a request.
LivePlaces(q) ==
    {place \in UNION {{p} \X DOMAIN Children[p] : p \in LiveRequests} :
        Children[place[1]][place[2]] = q}

\* The counts are exact, however requests came to be shared: between calls a
\* request is counted once for every consumer that names it and once for every
\* place it has in a live sequence, a requirement once for every live leaf that
\* carries it.  So they are zero exactly when no consumer reaches them, and
\* "declaration request released without liveness" is never raised.
CountsExact ==
    /\ Idle =>
        /\ \A q \in Requests :
              requestRefs[q] = Cardinality({c \in Owners : q \in byConsumer[c]})
                                   + Cardinality(LivePlaces(q))
        /\ \A r \in Requirements :
              requirementRefs[r] =
                  Cardinality({q \in LiveRequests : Leaf(q) /\ Demand[q] = r})
    /\ ~panicked

\* The orphans, roots aside, are exactly what is in force and dead, so that
\* FinalizeRemovals, which looks at nothing else, misses no dead requirement.
OrphansAreTheDead == Idle => orphaned \ roots = active \ Live

\* A requirement that something still needs is in force: FinalizeRemovals
\* must not withdraw a root, nor one requested again after it was orphaned.
LiveIsActive == Idle => Live \subseteq active

\* The mark of a removal is consumed with the batch it belongs to: left
\* behind it would authorise a later oscillation of that owner.
RemovedIsPending == removed \subseteq pending

\* When HasPending answers that nothing is left to do, every owner applies
\* exactly the live requirements: no demand is lost, none survives its last
\* consumer.
SettledAppliesLive == (Idle /\ pending = {} /\ orphaned = {}) => applied = Live

\* The scheduler that counts is the scheduler that computes liveness: a call of
\* Replace takes effect, as a whole, when it is made.
Requested(c) == Demanded(IF c = caller THEN selected ELSE byConsumer[c])

Liveness == INSTANCE RequirementLiveness WITH
    requested <- [c \in Owners |-> Requested(c)],
    active <- active \cup Demanded(selected),
    pending <- pending \cup {OwnerOf[r] : r \in Demanded(selected) \ active}

ImplementsLiveness == Liveness!Spec
=============================================================================
