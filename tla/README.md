# Verification of gotots

gotots compiles a checked Go program to TypeScript. This directory holds TLA+
models of the parts of it whose correctness depends on the order of many steps,
the TLC configurations that check them on small instances, and theorems about
them that TLAPS checks for every value of the constants.

- [1. The system](#1-the-system)
- [2. The modules and the code](#2-the-modules-and-the-code)
- [3. The runs](#3-the-runs)
- [4. Fairness](#4-fairness)
- [5. The proofs](#5-the-proofs)
- [6. Where code and documents disagree](#6-where-code-and-documents-disagree)
- [7. What is not modelled](#7-what-is-not-modelled)
- [8. Plan](#8-plan)

## 1. The system

A build is one command. The parent process opens a staging directory, starts a
compilation worker, verifies authored implementations against what the worker
staged, prints the target files with a TS-Go process and installs the result by
two renames. The worker loads the Go program, opens a compiler session, settles
it and encodes the target files. The program that comes out runs in a host with
an event loop, on a TypeScript library that provides Go's contexts, channels,
sync primitives and timers without goroutines (the "serial profile").

```
 command ── staging, worker, verifier, printer, renames
    │
    └─ worker: load ─► session ─► target files ─► handoff
                          │
          ┌───────────────┼──────────────────┐
     emission queues  requirement scheduler  artifact graph
          └──────── settle: one loop ────────┘
                          │
                     lowering (syntax-directed)

 emitted program ── contexts, channels, sync, timers, panics (serial profile)
```

### The artifact graph (`internal/emit/artifact`)

*State.* A record per published artifact owner: its contract (content per
facet), the contracts it had, its dependencies; the reverse index from a facet
to its subscribers; the dirty owners; the dirty owners that hold removal
authority.
*Operations.* `Commit`, `CommitHistoricalReplacement`, `DiscardDirty`,
`DirtyBatch`, `NextDirty`, `VerifyClosure`.
*Hard.* A consumer may be published before its provider. Subscriptions form
cycles. A contract that comes back is an oscillation and an error, except after
a demand was withdrawn; that exemption travels with the invalidation.
*Correct when* the reverse index is the inverse of the dependencies, every
published artifact that is not dirty was built from what its providers say now,
only subscribers of what changed are rebuilt, and authority does not outlive
the dirty entry it came with.

### The requirement scheduler (`internal/emit/requirements`)

*State.* The request trees each consumer asks with; a reference count per
request and per requirement; roots, orphans, certified requirements; the ledger
of active and applied requirements; the owners with a batch due and those whose
batch carries a removal.
*Operations.* `Enqueue`, `Replace`, `NextBatch`, `FinalizeRemovals`,
`InstallCertified`.
*Hard.* Requests are shared between consumers, between sequences and inside
one. Removal is deferred until every addition has been applied, and a
requirement may return in between.
*Correct when* counts equal occurrences, a requirement is withdrawn exactly
when nobody reaches it, and a settled scheduler applies what is live.

### The compiler session (`internal/emit`)

*State.* The two components above, plus the declarations and package
initializers to emit, the declarations in target files, the exports of each
package and the assemblies to publish, the dirty batch being rebuilt, the owner
whose requirements are being applied.
*Operations.* `requireProgramRoots`; `settle`, which loops over emission,
requirement batches, dirty batches, package initialization, removals, package
exports and reflection, in that order of priority; `emit`,
`applyDeclarationRequirements`, `reconstructScheduledArtifact`,
`retireCompilationGeneratedArtifact`, `publishPackageExports`,
`scheduleReflectionInterfaceDemands`.
*Hard.* Every step feeds every queue: a build subscribes, requests and
schedules. The loop ends only when all are empty at once. Requirements reach
owners not emitted yet; generated artifacts appear and disappear with their
last consumer; a batch is computed once and its own rebuilds dirty more.
*Correct when* no schedule error is reachable, the result is a fixed point of
building, the result is closed under its demands, and the loop ends.

### The build command and output transaction (`internal/command`)

*State.* Processes (parent, worker, verifier, printer), the files in the
staging directory, the output name, a backup name.
*Operations.* `writeOutputTransaction`, `prepareBuildInWorker`,
`runCompileWorker`, `stagePrintPlan`, `verifyImplementationContracts`,
`writePrintPlanTo`, `removeProtocolScratch`, `installOutputDirectory`.
*Hard.* Two renames with a gap between them; a rollback that may fail; a parent
killed anywhere, with a worker that goes on; several builds of one output;
files that change on disk after they were sealed; the removal of the old output,
which may fail or be killed half-way.
*Correct when* what carries the output name is a whole verified build, what may
be put back is complete, a complete output once there never stops existing, failures publish nothing, processes
that need much memory never overlap, and a build ends.

### Contexts of the serial profile (`gostdlib/src/internal/portable/context`, `node/os/signal`)

*State.* Per context: parent, failure, cause, the set of observers of its done
channel; the claim of its subscription; timers; registrations of `AfterFunc`
with their flags; and the JavaScript call stack of closes under way.
*Operations.* `WithCancel`, `WithCancelCause`, `WithTimeout`, `AfterFunc`, its
stop, `NotifyContext`, cancel, close.
*Hard.* Without goroutines everything happens inside `close`: observers are
called while the set is being iterated, and they cancel, register, unregister
or panic, re-entrantly.
*Correct when* cancellation reaches everything that depends on it, functions
run at most once and not after a stop that succeeded, a subscription is gone
from both ends when it is over, and cascades end.

### Channels and select of the serial profile (`emit/runtime/channel`, `portable/concurrency`)

*State.* Per channel: the buffer, the index of its first value not received,
whether it is closed, its observers; the prepared cases of a select.
*Operations.* Send, receive, `select`, close, `$observeClose` and the function
it returns; `offer` and `discard` of the channels the library owns.
*Hard.* The buffer is compacted now and then. A select prepares cases while
their operands run code that uses the same channels. `close` runs observers,
which use, watch and close channels, and panic.
*Correct when* a channel is a first in, first out queue on which an operation
fails exactly where Go would block, what was received is not retained without
bound, and an observer is called once.

### Panic, defer and recover (`emit/callable`, `emit/runtime/panic`)

*State.* Per invocation: its defer slots or defer stack, the active panic, the
`Recovery` it was given; the exception under way.
*Operations.* Call, defer, return, panic, recover, an exception of the host, and
the try, catch and finally of the envelope.
*Hard.* Deferred calls panic and recover while a panic unwinds; a slot may never
be filled; an exception of the host passes through all of it.
*Correct when* a program unwinds as Go's would, and no host exception is lost.

### Timers and tickers (`portable/time/timer.ts`, `node/time/clock.ts`)

*State.* Per timer: whether it is active, the handle of its host callback, what
its channel holds; per ticker, a record its copies share; the callbacks the host
has yet to run.
*Operations.* `NewTimer`, `After`, `AfterFunc`, `Stop`, `Reset`, `NewTicker`,
`Ticker.Stop`, assignment and copying, and the two callbacks.
*Hard.* A function stops or resets the timer that is calling it; `Reset` throws
half-way; copies; a ticker's callback schedules itself again.
*Correct when* each start fires once at most and not after a stop, stop and
reset report what was still to fire, no tick of an earlier start survives, and
what is not stopped does fire.

### Artifact history and queues (`contract_history.go`, `dirty_queue.go`, `dirty_batch.go`)

*State.* Below the graph: a binary heap of dirty owners with the index of each;
per artifact, fingerprints and reverse deltas of its contracts.
*Operations.* push, pop, discard; `DirtyBatch`; append, `contains`, restore.
*Hard.* A discard from the middle moves an element that may have to rise or
sink; a batch with cycles; contents whose common ends overlap; fingerprints that
collide.
*Correct when* they store exactly the sets, and the order, that the graph and
the session rely on.

### Components with state that are not modelled

*Serial sync* (`portable/sync`): what Go blocks on fails at once, so each
primitive is a flag or a count that one call checks and sets. *Value runtime*
(`emit/runtime/integer`, `slice`, `map`...): wrapping integers, slice headers
over shared arrays, iteration under mutation, each a computation on single
values.

### Components that are functions of their inputs

Package loading, the toolchain seal, configuration and flags, the lowering
families, the naming registry, roots and environment contracts, placement and
target files, the TypeScript target library, the certifiers, the remaining
providers. They transform data in one pass and have no interleavings, failures
that leave something behind, or ordering to get wrong. `PROJECT.json` lists
each with its files and the reason.

### How components interact

The session owns the graph and the scheduler and is their only caller; all of
it is one thread, so an interleaving here is the order of queue entries.
Building calls back into the session (`RequireUse`, facet observations,
requests), and the session commits what came back. The command talks to its
worker only through files and an exit status. A context talks to its parent and
children only through observers of done channels; those are the library's channels, and the
deadline of a context is a timer of the host.

## 2. The modules and the code

| module | models | used by |
| --- | --- | --- |
| `ArtifactGraph` | `artifact.Graph` | `ArtifactStorage`, `Settle` (INSTANCE) |
| `RequirementLiveness` | what `requirements.Scheduler` promises: liveness by reachability | `RequirementScheduler` (refinement), `Settle`, and the proofs about both |
| `RequirementScheduler` | the same operations with the code's reference counts | `RequirementSchedulerProofs` |
| `Settle` | `programSession.settle` over both components | `SettleProofs` |
| `BuildTransaction` | `command.Build` and its processes | `BuildTransactionProofs` |
| `Cancellation` | what contexts promise | `ContextTree` (refinement) |
| `ContextTree` | `CancelContext`, `AfterFunc`, `NotifyContext`, channel close | `ContextTreeProofs` |
| `GoChannel` | what channels promise | `SerialChannel` (refinement) |
| `SerialChannel` | `GoChannel` of the emitted runtime, `ProviderChannel` of the library | `SerialChannelProofs` |
| `GoUnwinding` | Go's defer, panic and recover | `DeferEnvelope` (refinement) |
| `DeferEnvelope` | the code emitted around a function that defers, `GoPanic`, `Recovery` | `DeferEnvelopeProofs` |
| `GoTimers` | what timers and tickers promise | `HostTimers` (refinement) |
| `HostTimers` | `Timer`, `Ticker`, `schedule`, `cancelSchedule` | `HostTimersProofs` |
| `OwnerQueue` | the heap of dirty owners, `DirtyBatch` | `ArtifactStorage` |
| `ContractHistory` | reverse deltas and the search in them | `ArtifactStorage` |
| `ArtifactStorage` | the graph with what it relies on of these two | `MCArtifactGraph`, `ArtifactGraphProofs` |

An `MC...` module holds the values a configuration gives the constants. Operators
named `Bug...` are mistaken forms of the definition they precede (a dropped
guard, a missing reset, an edge not removed); no specification uses them, and
each property is violated when one of them takes the place of the original.

**ArtifactGraph.** `contract`, `history`, `dependencies` are the fields of
`artifactRecord`; `reverse`, `dirty`, `removalDirty` those of `Graph`.
`observed` is not in the code: it is what each provider facet held when the
consumer was built, which makes "up to date" expressible. A contract is a
function from facets to values or `Absent`. `CommitRecord` is `Graph.commit`
whole: oscillation check, reverse edges, invalidation of the subscribers of
changed facets, authority handed on. `Emit` and `Reconstruct` are the two ways
the session calls it, `RejectOscillation` the error return, and
`AcceptCertified` the path of owners whose contract is fixed by an authored
implementation. Facet revisions count upward in the code and are kept here only
as far as they tell "published" from "not".

**RequirementLiveness and RequirementScheduler.** The first has, per consumer,
the set of requirements it asks for, and computes `Live` as their union with
the roots. The second has requests with children (`RootRequest` sequences), the
two reference-count maps, the orphans and `panicked` for "declaration request
released without liveness". A call of `Replace` walks the requests: each call of
`retainRequest` and then of `releaseRequest` is a step, which puts the calls for
the children of its request in front of those still to make (`retaining`,
`releasing`). Nothing else happens until `Replace` returns, as in the code, and
the two sets are walked in any order, being Go maps. `ImplementsLiveness` maps `requested` to the requirements a consumer's
requests reach: the whole call takes effect in the promise when it is made,
which adds ahead what the walk has yet to put in force.

**Settle.** Each turn of the loop is an action, except that a requirement batch
and a dirty batch are split where the code calls out in between (`TakeBatch` /
`ApplyRequirements`, `TakeDirtyBatch` / `ReconstructScheduled`). `Revise` is
lowering: a constant operator from the program, the owner, its applied
requirements and a view of all facets to a contract, subscriptions and
requests. What a build schedules for emission follows from what it returns
(`Scheduled`), with the package variables and initializers its package brings
(`Brings`). The emission queue is first in, first out, and the other queues are
ordered by a comparison of owners; inside a kind of owner the order is left
open, between kinds it is `Rank`. A package whose turn it is (`TakeInitializers`)
has its initializers emitted in a row (`EmitInitializer`), in any order, while
what they schedule, demand and make dirty waits; the `init` functions required
after them count with what the package brings. `Refused` is the
disjunction of the schedule errors of the loop. Left out: authored
implementations inside the session, baselines of callable contracts, provider
declarations (a use of one is part of `Revise`).

**BuildTransaction.** `pc` is the program counter of the parent: staged,
compiling, verifying, checking, printing, printed, unscratched, complete, then
placing or backing, replacing, restoring, cleaning. `holds` is what is whole
in a directory, the staging directory of a build or the one of the previous
output, wherever it has been renamed to. `os.RemoveAll` of a backup takes its
artifacts away one by one (`RemoveSome`); it returns when none is left, or with
an error at any point (`Clean`), and a kill in between leaves the rest. `Fail` is any
error before the old output is moved, `Crash` a kill at any step (the worker
lives on), `Damage` a change on disk of an encoded file after its digest was
recorded. There is no lock, so builds of one output directory run side by side.
Renaming onto a name that holds an output fails, since an output is never an
empty directory. What the handoff document says and how it is validated is left
out: a refused handoff is a `Fail`.

**ContextTree.** `stack` is the JavaScript call stack as far as it matters: a
`close` frame with the observers already told, or a `run` frame for a function
of the program. The program acts when the stack is empty or a `run` frame is on
top. A JavaScript `Set` is iterated in insertion order; the observer a context
has for itself and the one for its signals are registered when it is created,
so they are told first, and the rest are told in any order. `Expire` needs an
empty stack because a timer fires in a turn of its own, also for a deadline
already passed. `Panic` cuts the stack back to a function that recovers or to
nothing; `interrupted` records whose close was cut short.

**SerialChannel.** `buffer` and `head` are the array and the head index of
`GoChannel`; `Compacted` is `compactBuffer`, with its limit of 64 as
`CompactAt`. A channel of the library has no head and shifts its array. `cases`
holds the prepared cases of a select; between two of them the program may do
anything, as the operands of the later ones do, except what the header of the
module names. `closing` is the stack of closes under way, each with whom it has
called, and `cut` the channels whose close a panic abandoned. The refinement
maps a queue to the buffer from the head on.

**DeferEnvelope.** A frame is an invocation: `slots` its defer slots (one per
defer statement, or a stack), `phase` the body or the finally, `active` the
panic in `$activePanic`, `pending` the field of the `Recovery` it was given,
`suspended` a host exception that waits for the finally. `flight` is the
exception thrown and not caught. A deferred call goes through the deferred entry
when the function contains recover; the model takes for granted that the callee
is known (function values carry their entry). The refinement computes from the
frames what Go says of them: which calls are deferred, what they still have to
run, which panic they unwind for and whether it is recovered.

**HostTimers.** `scheduled` is what the host has been given and has not run,
cancelled by handle; `handle` and `active` are the fields of `Timer`, `runtime`
and `stopped` those of a ticker and its record. `TimerCallback` is the callback
up to the function it calls, `FunctionReturns` its end, and between them the
program runs. `ResetThrows` is the reset to a duration the host cannot represent,
after `#active` was set. A start is numbered, so that the tick in a channel and
a call say which start they are of. Time is left out: a callback may run at any
turn. `GoTimers` is the promise of this library, not the whole contract of Go:
a tick already in the channel stays there after a `Stop`, as `timer.ts` leaves it,
where Go since 1.23 discards it.

**OwnerQueue, ContractHistory, ArtifactStorage.** The first two are algorithms:
each loop is a step on its variables and a recursive function of the number of
turns, so that it can be proved about. They are compared with definitions that
say what they are for: a heap with right indices after any push, pop and discard
from any heap the code can have (`QueueIsOrdered`); a batch in which the first
owner whose providers are out of it goes next, or the first of all
(`BatchFollowsRule`); a history that knows exactly the contracts an artifact has
had (`HistoryIsExact`). `ArtifactGraph` keeps sets in their place, and `Settle`
the rule of the batch; `ArtifactStorage` puts the three side by side.

## 3. The runs

| run | instance | states | shows |
| --- | --- | --- | --- |
| `graph` | 2 revisable owners, 1 certified, 1 facet | 237k | `ReverseIndexExact`, `CleanConsumersAreCurrent`, `AuthorityOnlyWhileDirty`, `OnlySubscribersInvalidated`, `RevisitsHandAuthorityOn`: no invalidation is lost, none goes astray, authority reaches every subscriber and outlives no dirty entry |
| | every heap of up to 8 owners | 1st | `QueueStaysOrdered` |
| | every dirty set and every dependency among 4 owners | 1st | `BatchesComeInOrder` |
| | up to 4 revisions, 12 contracts of 2 facets | 1st | `OldContractsAreKnown` |
| `requirement_counts` | 2 consumers, 3 requirements, 6 requests, among them two leaves of one requirement, a sequence naming a leaf twice and a sequence of sequences | 3.5M | `CountsExact`, `OrphansAreTheDead`, `LiveIsActive`, `RemovedIsPending`, `SettledAppliesLive`, `ImplementsLiveness` |
| `settle` | 3240 programs of 3 declarations and a generated artifact; 3136 of 2 exported declarations, 2 initializers, an assembly and reflection | 135k | `NeverRefused`, `SettledIsFixpoint`, `SettledIsClosed`, `WithdrawnForGood`, `EndsOnceAuthorityIsSpent` |
| `build_transaction` | 2 builds, up to 2 contracts each | 105k | `PublishedIsWhole`, `LifetimesNeverOverlap`, `BackupIsAccountedFor`, `FailurePublishesNothing`, `KeepsACopy`, `EveryBuildEnds` |
| `contexts` | 3 contexts, 1 function | 501k | `OpenIsObserved`, `NobodyIsForgotten`, `FunctionsRunOnce`, `ImplementsCancellation`, `CascadesEnd` |
| `channels` | a channel of 2, a library channel of 1, nil; selects of 2 cases, 2 observers | 566k | `RetentionIsBounded`, `ObserversAreServed`, `ImplementsGoChannel` |
| `unwinding` | 4 functions, 2 panics, 5 calls deep | 720k | `ImplementsGoUnwinding`, `HostExceptionsPass` |
| `timers` | 2 timers started twice, 2 tickers of 1 source | 223k | `ImplementsGoTimers`, `TimersKeepFiring` |
| `divergence` | one program | | `EveryCompilationEnds` is violated (section 6) |
| `aggregate_membership` | one program | | `MembershipGrowsWhenQuiescent` is violated (section 6) |
| `kept_protocol` | 2 builds | | `FailureKeepsProtocol` is violated (section 6) |

`graph`, `build_transaction` and `contexts` also check their module's `TypeOK`,
which every module with proofs proves. The three properties marked "1st" do not
depend on the state and are evaluated in the first one.

**Why the bounds are enough.** *Graph*: every hazard is about a provider and a
consumer, and a cycle needs two; a facet with two values (a content and its
absence) lets a contract return, and a self-subscription is allowed. More facets
and owners are covered by the theorems. A heap of six is the smallest in which a
discard from the middle lets an element rise; four owners give a cycle with
owners before and behind it; contents of three bytes are the shortest whose
common ends overlap and leave something between. *Requirements*: the interesting
sharing is between two consumers, between two sequences and inside one; the
instance has each, and a requirement carried by two leaves. *Settle*: programs
are generated from rules: whom a build reads, whether its contract is constant,
a copy, a negation or a selection by its requirements, what it asks for and
when. Two declarations in a cycle with a third that joins their batch give
batches of three, stale members and cyclic order; the generated artifact gives
retirement and renewed demand; the package programs give exports and the wave
reflection opens. The negating rules make oscillation happen, so refusals and
authorised returns both occur. *Build*: two builds give every pair of steps on
the two shared names. *Contexts*: three give a chain of three and a parent with
two children; the function may cancel any of them from inside a close. *Channels*:
with `CompactAt` 1 and a buffer of two, the head passes the limit both before
and after half of the buffer is received. *Unwinding*: a function with a stack, one
with slots, one with a slot that itself defers and recovers, and a plain one
that recovers; five calls allow a panic in a deferred call of a deferred call.
*Timers*: two timers give a copy or assignment between any two; four handles are
one more than callbacks that can wait at once.

The counters that need a bound are named constants: `MaxStarts` (2, a start and
a reset) in `HostTimers`, `MaxCalls` (5) and `MaxDefers` (2) in `DeferEnvelope`,
`MaxCases` (2) in `SerialChannel`. The others are bounded by the instance: the
runs of a function and the stack of closes by the numbers of functions, contexts
and channels, the reference counts by the sharing. `channels` and `unwinding`
use symmetry, sound there because they check no liveness and treat values,
observers and panics alike.

Deadlock is checked where the system goes on for ever
(`requirement_counts`, `channels`, `unwinding`, `timers`). A graph stops at an oscillation error; a compilation, a
build and a program without further calls may stop. Those runs say
`CHECK_DEADLOCK FALSE`, and what must not stop early is said by the liveness
properties instead.

## 4. Fairness

- `Settle`: `WF_vars(Next)`. The session is one thread that waits for nothing.
  No fairness between queues is assumed: which entry comes next is the model's
  choice, and every choice must end.
- `BuildTransaction`: weak fairness of each parent and of each worker. The
  parent only waits for processes it started. That a worker, a verifier or a
  printer ends is assumed (the command sets no timeout, its context is
  `context.Background`). Crashes and damage are not fair.
- `ContextTree`: weak fairness of `CloseStep` and `Return`: a loop in `close`
  goes on, and a function of the program returns. A function that loops for
  ever would keep the cascade open in the code as well.
- `HostTimers`: strong fairness of the callback of each timer and each ticker
  source: the host's event loop runs every callback that is not cancelled,
  however often others become due in between and keep it busy. Weak fairness of
  `FunctionReturns`: a function called by the host comes to an end.

`EndsOnceAuthorityIsSpent` is conditional on purpose. The histories of the graph
grow with every change that is not authorised, so compilation ends once no owner
holds removal authority; without that condition it need not (section 6).

## 5. The proofs

Eight modules prove theorems with TLAPS, about 14200 obligations, for every value
of the constants that satisfies the named assumptions (`NoOwner`, `Background`
and the like are not owners or contexts; `Absent` is not a value; the error of
an open context is no cause; a host exception is no panic; the requests form a
finite graph without a cycle; and so on). Every invariant, action property and
refinement the passing runs check is a theorem; the liveness properties are not.

**`ArtifactGraphProofs`.** The inductive invariant `GraphInv` is `TypeOK`,
`ReverseIndexExact`, `HistoryHasCurrent`, `CleanConsumersAreCurrent` and
`AuthorityOnlyWhileDirty`. They need each other: that a clean consumer is
current holds after a commit only because the invalidation finds every
subscriber in the reverse index, and finds the changed facets by comparing with
the contract that was published. `CommitRecordInv` and `CommitClean` carry the
argument for one commit; `EmitInv`, `ReconstructInv` and `OtherStepsInv` apply
it to the actions. Theorems: `TypeCorrect`, `ReverseIndexIsExact`,
`NoLostInvalidation`, `AuthorityIsScoped`, and the action properties
`InvalidationIsExact` (`OnlySubscribersInvalidated`) and `AuthorityIsHandedOn`
(`RevisitsHandAuthorityOn`).

The same module proves the structures below the graph, for any number of owners,
facets and revisions, where the run evaluates small ones. Their loops are
inductions over the number of turns: the set of numbers of turns after which a
loop invariant holds has 0 and is closed under successor, so it is all of `Nat`
(`NumberInduction`, from the well-foundedness of `<`).

- *The heap.* `Stored` says that owners and indices are inverse to each other;
  `HeapUp(q, i)` and `HeapDown(q, i)` that the queue is a heap but for `i` and its parent,
  or for `i` and its children. A turn of `moveUp` or `moveDown` hands the
  exception on, and after as many turns as there are owners none is left. A
  discard puts the last owner in the hole, below or above where it belongs:
  either sink or rise then does nothing. `HeapOrdered` has it for any set of
  owners.
- *The batch.* Each owner left counts its providers among the owners left, those
  with none are in the queue of the ready and all of them in the other
  (`Waiting`); what `popPendingOwner` takes (`Takes`) is therefore what the rule
  says goes next (`GoesNext`), and what is out came out in that order (`Lined`).
  `BatchOrdered`.
- *The history.* A reverse delta restores the older contents from the newer,
  also when the common ends overlap; going back through the entries from the
  current contract (`Traces`) meets exactly the contracts of the past (`Past`).
  The search may skip an entry because a fingerprint is a function of the
  contract, and confirms by restoring because it need not be injective.
  `HistoryExact`.

`QueueOrdered`, `BatchesInOrder` and `OldContractsKnown` apply them to the three
properties of `ArtifactStorage`.

**`RequirementSchedulerProofs`.** `CountInv` says what the counts are in the
middle of a walk as well as between walks. What the calls still to make will add
and drop is counted with the counts (`RefsAccounted`): moving one reference and
putting the children of the request in the list leaves the sum alone, and when
the lists are empty the sum is what `CountsExact` says. A request with a count is
one that consumers or lists reach, because the graph of requests has no cycle:
among counted requests that nothing reaches there is one that none of the others
holds, and nothing would account for its count. So nothing is ever released below zero (`panicked` stays false), and a
requirement has no count exactly when it is dead. Theorems: `CountInvariant`,
`SchedulerTypeOK`, `ExactCounts`, `ExactOrphans`, `LiveInForce`, `RemovalMarks`,
`SettledIsLive`, and the refinement
`SchedulerImplementsLiveness`: only a call of `Replace` is a step of
`RequirementLiveness`, the walk that follows stutters, since a requirement it
puts in force was already in force, and due, in the promise.

**`SettleProofs`.** The session, for every program, set of owners and lowering.
Lowering is a constant operator, so each theorem names what it assumes of it:

- `LoweringIsTyped`: a build returns a contract, dependencies and requests, and
  a package export depends on its members only.
- `LoweringReadsItsDependencies`: a build gives the same result in views that
  agree on the facets it subscribed to, its own excepted. Facets are read
  through an observation that records the subscription; a subscription of an
  owner to itself is forgotten by the `DiscardDirty` after each commit, so a
  build that used its own old contract could settle off its fixed point.
- `ProvidersAreThere`: a build depends on declarations and initializers, or on
  generated artifacts it also requests, and on facets every build of the
  provider has.
- `InitializersDemandThemselves`: the requirements of a package initializer are
  requested by its own build. Initializers are emitted when nothing else is
  left, so a demand from elsewhere would reach one before its emission and be
  refused.

The code does not check them; the programs of the `settle` run satisfy them,
except that an instance has only the facet contents that occur in it, and
`LoweringIsTyped` speaks of all views of them.

`BaseInv` is the invariant of the graph (citing `ArtifactGraphProofs`) and of
liveness (`LivenessInv`: what is live is in force, and an owner without a batch
due applies its requirements in force) inside the session, kept by each action
(`CommitInv`, `PublishInv`); `SessionInv` adds where the loop stands: one dirty
batch, one requirement batch or one package at a time (`TurnInv`), nothing done
before it opens and nothing left when it is settled (`PhaseInv`).
`SessionInvariant` proves it. `SessionTypeOK` is the types. `SessionDrivesComponents`
is that the session uses its components as they are meant to be used: each of
its steps is, on their variables, a step of `ArtifactGraph` and of
`RequirementLiveness` or changes nothing there, so what is proved of them alone
holds inside it. On the invariant rest three inductive invariants. `FixInv`: a built owner off its fixed point
is dirty, at hand, or an assembly to publish; a commit keeps it because exactly
the subscribers of what changed become dirty (`CommitFix`). `MembershipInv`:
what is read is emitted or queued, requirements are applied to what is in the
target files, generated artifacts are there for a requirement, recorded exports
are the exported declarations. `RefusalInv`: nothing queued is published, and
each owner in a queue of the loop is one its step can handle (`DirtyIsBuilt`,
`DemandedIsScheduled`, `RemovedIsBuilt`, `ApplyingIsBuilt`). Theorems:
`SettledAtFixpoint` (`SettledIsFixpoint`), `WithdrawalsAreFinal`
(`WithdrawnForGood`: removals are finalized when nothing is dirty or at hand, so
every owner in the target files is at its fixed point and asks for live
requirements only), `SettledClosed` (`SettledIsClosed`)
and `NeverRefusedSession` (`NeverRefused`). All but the phases are claims about
a compilation that has not failed: an oscillation error leaves the session half
changed, as in the code.

**`BuildTransactionProofs`.** `IInv` states, per build and step, what the staging
directory holds and which processes run (`WorkerHolds`, `ParentHolds`), which
builds keep their staging directory (`Stays`), who may hold a backup (`Holder`),
that an output is in one place (`InOnePlace`), that what is installed is
finished and only loses artifacts (`InstalledIsFinal`, `PreviousIsLeft`), that
the output and what a build may put back are complete (`OutputIsComplete`,
`BackupIsComplete`), and that when nothing carries the output name although
there is a complete output, some build that will not remove it holds a complete
backup (`GapIsHeld`). `PublishedIsWhole` is not inductive: an installed build
could still be changed if its own program counter were forgotten, and the
removal of one build's backup would reach another's, or the output, if one
directory could have two names. `RemovalFacts` says that it does not,
`OutputsUntouched` that no other step touches an output. Theorems: `PublishedOutputsAreWhole`, `SeparateLifetimes`,
`BackupsAreAccountedFor`, `FailuresPublishNothing`, and the action property
`AnOutputIsAlwaysKept` (`KeepsACopy`), for any number of builds and contracts.

**`ContextTreeProofs`.** `TreeInv` says that closes on the stack are closes of
ended contexts, that every observer belongs to a created context or a
registration, and that the flags of a registration agree. It gives
`TypeCorrect`, `FunctionsRunAtMostOnce` and, with `StepSimulates` (each step of
the tree is a step of `Cancellation` or changes nothing it sees),
`RefinesCancellation`. `CoverInv` gives `NobodyForgotten`: every dependent of a
cancelled context whose close was not interrupted is served (closed, started,
stopped, silenced) or waits for a close frame on the stack that has yet to tell
it; there is at most one close frame per context. It is proved from one lemma
per way of changing the stack (push, unwind, tell, pop), for any tree, any
number of functions and any depth of re-entrance.

`OpenInv` gives
`OpenChannelsAreObserved`, the exact form of who observes an open channel: for
every open context, its own observer, that of its signals while it listens, one
per open child that has not been told, one per registration still waiting
(`ObservedBy`). A subscription is claimed when its context ends, and both ends
go then (`ClaimsAgree`); a context that ended and has not told itself is the one
whose close is on top of the stack (`LeavesFirst`), which is why nothing is left
behind whenever the program is in control; nothing happens to a context before
it is created (`CreatedFirst`).

**`SerialChannelProofs`.** `ChannelInv` is that the head lies in the buffer,
`RetentionIsBounded` and the type of the prepared cases. `RefinesGoChannel`
maps each operation to the one of `GoChannel`: a buffer read from its head
through any number of compactions is the queue. The type of the cases is
needed because a select commits what was prepared earlier; that no ready case
is lost in between follows from readiness being tested and committed in one
step. `RetentionBounded` is the bound on values received and still held.
`ObserverInv` is about closes under way: no two are of one channel
(`ClosesDiffer`); who is registered watches that channel, once, and who was
neither called nor withdrawn is registered (`WatchersInv`); a registered observer
that was called is remembered by the close of its channel, and a close that
returned leaves nobody registered (`CallsInv`). It needs all of them because an
observer closes, watches and unwatches other channels while its own close waits
below. It gives `ObserversServed` (`ObserversAreServed`) and, with the first,
`ChannelTypeOK`.

**`DeferEnvelopeProofs`.** `IInv` is `TypeOK`, `FramesAreLinked` and
`ReportsAreFresh`. `FramesAreLinked` is the heart: each frame's slots hold
calls exactly up to the last defer statement passed, a body has caught nothing,
and a deferred call holds the panic its caller unwinds for until it recovers
it. `FramesStayLinked` proves it inductive; from it `RefinesGoUnwinding` follows
action by action, and `HostExceptionsAreNotSwallowed` (`HostExceptionsPass`).

**`HostTimersProofs`.** `Inv` is `TypeOK`, `Linked` (a handle held is a callback
scheduled, and the other way round, one for each owner), `Current` (the callback
is of the last start) and `InUse`. Without `Linked` a stop could cancel
somebody else's callback. Theorems: `CallbacksAreHeld` (`Linked`) and
`RefinesGoTimers`. The fairness of the specification is not used.

**Only model-checked.** Liveness: `EveryBuildEnds`, `CascadesEnd`,
`EndsOnceAuthorityIsSpent` and `TimersKeepFiring`, whose arguments need fairness
and `ENABLED`, which the prover does not treat.

## 6. Where code and documents disagree

**Compilation may not end** (`divergence`). `docs/spec/translation.md:1854` says
that translation fails when "target artifact reconstruction does not converge",
and `docs/spec/architecture.md:380` that "oscillation fails". `Graph.commit`
exempts an owner with removal authority from the history check
(`graph.go:148`), and `invalidateConsumers` hands the exemption to every
subscriber of what changed (`graph.go:254`). In a cycle of subscriptions it
comes back to where it started: `a` stops demanding `needB`; `b` returns to its
old contract with authority; `a` returns with authority and demands `needB`
again; `b` changes again with the authority it got from `a`. `settle` never
returns and no error is reported. The model shows this for the rules of the
session; whether the lowering of some Go program has such rules is not shown.

**Exports may be published before their wave is complete**
(`aggregate_membership`). `docs/spec/architecture.md:388`: "The root must not
commit incomplete intermediate membership as an aggregate revision".
`recordPackageExport` adds an emitted object to the members at once, and
`reconstructPackageExports`, reached from a dirty batch, publishes whatever is
there. The final assembly is right (`SettledIsFixpoint`, `SettledIsClosed`);
the intermediate revision is the one the document forbids.

**A late failure does not keep the protocol** (`kept_protocol`).
`docs/spec/architecture.md:1883` says scratch is removed "only after successful
publication" and that a failure "preserves the immutable protocol".
`removeProtocolScratch` runs before the manifest is written and before
installation, so a failure after it keeps a staging directory without the
protocol.

## 7. What is not modelled

- What is lowered into what, names, placement, printing, hashing, parsing,
  certification: functions of data without steps to reorder.
- The bytes of the handoff document and of the pipe to TS-Go.
- Times and deadlines of contexts; context values; foreign `Context`
  implementations; `AfterFunc` of `Background`, which never runs.
- Time itself, and with it `Sleep` and the host's treatment of delays above
  2^31 - 1 ms; a panic out of the function of an `AfterFunc` timer, which ends
  the program.
- Operands of a select that themselves run a select or an observer.
- What functions compute and return while they unwind.
- Serial sync primitives: with nothing to block on, each is a flag or a count
  that one call checks and sets, and a model of it would restate it.
- The value runtime: computations on single values that interact with nothing
  modelled here.
- The heap of the requirement scheduler's `ownerQueue`: any owner may be next
  there, which is more than the heap allows.
- The compression of old contracts, which loses nothing.
- In the session: authored implementations, callable baselines, provider
  declarations. (Artifacts that demand each other keep each other alive in the
  model as in the code: a requirement is live when any consumer asks for it.)

## 8. Plan

Done: the artifact graph with its history and queues; the requirement scheduler
implementing its promise; `Settle` composing both; the build transaction; the
serial profile's contexts, channels, timers and unwinding, each implementing an
abstract specification.

What would come next:

1. Authored implementations and provider declarations inside the session.
2. The slice, map and integer runtime as bounded algorithms against reference
   definitions.
3. `ContextTree` over `SerialChannel` instead of a close of its own.
