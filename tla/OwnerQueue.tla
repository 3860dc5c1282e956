----------------------------- MODULE OwnerQueue -----------------------------
(***************************************************************************)
(* The queue of dirty owners (internal/emit/artifact/dirty_queue.go), a    *)
(* binary heap with the index of every owner in it, and the order it gives *)
(* a batch of dirty owners (dirty_batch.go).  ArtifactGraph keeps the      *)
(* owners of the queue as a set and Settle the order as a rule: this is    *)
(* how the code stores the one and computes the other.                     *)
(*                                                                         *)
(* Owners are numbers, in the order of compareArtifactOwners.  Sequences   *)
(* start at 1 here, so that the parent of index i is i \div 2.             *)
(***************************************************************************)
EXTENDS Integers, SequencesExt

EmptyQueue == [owners |-> <<>>, indices |-> <<>>]

Size(queue) == Len(queue.owners)

Queued(queue) == DOMAIN queue.indices

Swap(queue, left, right) ==
    LET first == queue.owners[left]
        second == queue.owners[right]
    IN  [owners |-> [queue.owners EXCEPT ![left] = second, ![right] = first],
         indices |-> [queue.indices EXCEPT ![second] = left, ![first] = right]]

\* A turn of the loop of moveUp: an owner before its parent takes its place.
Raised(at) ==
    LET parent == at.index \div 2 IN
    IF at.index = 1 \/ at.queue.owners[parent] <= at.queue.owners[at.index]
    THEN at
    ELSE [queue |-> Swap(at.queue, at.index, parent), index |-> parent]

MoveUp(queue, index) ==
    LET after[n \in 0 .. index] ==
            IF n = 0 THEN [queue |-> queue, index |-> index] ELSE Raised(after[n - 1])
    IN  after[index].queue

\* A turn of the loop of moveDown: an owner after a child, the first of its
\* children takes its place.
Lowered(at) ==
    LET owners == at.queue.owners
        left == 2 * at.index
        right == left + 1
        selected == IF right <= Len(owners) /\ owners[right] < owners[left]
                    THEN right ELSE left
    IN  IF left > Len(owners) \/ owners[at.index] <= owners[selected]
        THEN at
        ELSE [queue |-> Swap(at.queue, at.index, selected), index |-> selected]

MoveDown(queue, index) ==
    LET after[n \in 0 .. Size(queue)] ==
            IF n = 0 THEN [queue |-> queue, index |-> index] ELSE Lowered(after[n - 1])
    IN  after[Size(queue)].queue

\* The queue without its last element, which stands for the one at index.
Replaced(queue, index) ==
    LET last == queue.owners[Size(queue)]
        removed == queue.owners[index]
    IN  [owners |-> [Front(queue.owners) EXCEPT ![index] = last],
         indices |-> [o \in Queued(queue) \ {removed} |->
                         IF o = last THEN index ELSE queue.indices[o]]]

\* Mistake: what takes the place of the removed owner only ever sinks.
BugRemovalSinks(queue, index) ==
    IF index = Size(queue)
    THEN [owners |-> Front(queue.owners),
          indices |-> [o \in Queued(queue) \ {queue.owners[index]} |-> queue.indices[o]]]
    ELSE MoveDown(Replaced(queue, index), index)

RemoveOwnerAt(queue, index) ==
    IF index = Size(queue)
    THEN [owners |-> Front(queue.owners),
          indices |-> [o \in Queued(queue) \ {queue.owners[index]} |-> queue.indices[o]]]
    ELSE LET replaced == Replaced(queue, index) IN
         IF index > 1 /\ replaced.owners[index] < replaced.owners[index \div 2]
         THEN MoveUp(replaced, index)
         ELSE MoveDown(replaced, index)

Push(queue, owner) ==
    IF owner \in Queued(queue) THEN queue
    ELSE MoveUp([owners |-> Append(queue.owners, owner),
                 indices |-> [o \in Queued(queue) \cup {owner} |->
                                 IF o = owner THEN Size(queue) + 1
                                              ELSE queue.indices[o]]],
                Size(queue) + 1)

\* pop, of a queue that holds someone: whom it returns and what it leaves.
Popped(queue) == [owner |-> queue.owners[1], queue |-> RemoveOwnerAt(queue, 1)]

Discard(queue, owner) ==
    IF owner \in Queued(queue) THEN RemoveOwnerAt(queue, queue.indices[owner]) ELSE queue

\* A turn of the loop that pushes owners, in some order: the code goes through
\* a map.
PushedOne(at) ==
    LET owner == CHOOSE o \in at.owners : TRUE IN
    [queue |-> Push(at.queue, owner), owners |-> at.owners \ {owner}]

PushAll(queue, owners) ==
    LET after[n \in 0 .. Cardinality(owners)] ==
            IF n = 0 THEN [queue |-> queue, owners |-> owners] ELSE PushedOne(after[n - 1])
    IN  after[Cardinality(owners)].queue

-----------------------------------------------------------------------------
(* Graph.DirtyBatch, for dirty owners and the providers of each.           *)

BugPopAnyOwner(queue, pending) ==
    IF Size(queue) = 0 THEN [found |-> FALSE]
    ELSE [found |-> TRUE, owner |-> Popped(queue).owner, queue |-> Popped(queue).queue]

\* A turn of the loop of popPendingOwner: an owner that was selected meanwhile
\* is passed over.
Passed(queue, pending) ==
    IF Size(queue) = 0 \/ Popped(queue).owner \in pending THEN queue ELSE Popped(queue).queue

PopPendingOwner(queue, pending) ==
    LET after[n \in 0 .. Size(queue)] ==
            IF n = 0 THEN queue ELSE Passed(after[n - 1], pending)
        left == after[Size(queue)]
    IN  IF Size(left) = 0 THEN [found |-> FALSE]
        ELSE [found |-> TRUE, owner |-> Popped(left).owner, queue |-> Popped(left).queue]

\* A turn of the loop: what is ready comes first, whoever is left otherwise,
\* and the consumers of the selected owner have one provider less to wait for.
Selected(batch, providers) ==
    LET ready == PopPendingOwner(batch.ready, batch.pending)
        any == PopPendingOwner(batch.remaining, batch.pending)
        owner == IF ready.found THEN ready.owner ELSE any.owner
        pending == batch.pending \ {owner}
        consumers == {c \in pending : owner \in providers[c]}
        indegree == [c \in DOMAIN batch.indegree |->
                        IF c \in consumers THEN batch.indegree[c] - 1
                                           ELSE batch.indegree[c]]
    IN  [pending |-> pending,
         indegree |-> indegree,
         ready |-> PushAll(IF ready.found THEN ready.queue ELSE EmptyQueue,
                           {c \in consumers : indegree[c] = 0}),
         remaining |-> IF ready.found THEN batch.remaining ELSE any.queue,
         result |-> Append(batch.result, owner)]

DirtyBatch(dirty, providers) ==
    LET indegree == [c \in dirty |-> Cardinality(providers[c] \cap dirty)]
        after[n \in 0 .. Cardinality(dirty)] ==
            IF n = 0
            THEN [pending |-> dirty,
                  indegree |-> indegree,
                  ready |-> PushAll(EmptyQueue, {c \in dirty : indegree[c] = 0}),
                  remaining |-> PushAll(EmptyQueue, dirty),
                  result |-> <<>>]
            ELSE Selected(after[n - 1], providers)
    IN  after[Cardinality(dirty)].result

-----------------------------------------------------------------------------
(* What they promise *)

\* A heap of exactly these owners, each found at its index.
IsQueueOf(queue, owners) ==
    /\ Queued(queue) = owners
    /\ Size(queue) = Cardinality(owners)
    /\ \A o \in owners : queue.owners[queue.indices[o]] = o
    /\ \A i \in 2 .. Size(queue) : queue.owners[i \div 2] < queue.owners[i]

\* Every queue of these owners: pushing them in the order of such a sequence
\* moves none of them, so each is one the code can be in.
QueuesOf(owners) ==
    {[owners |-> s, indices |-> [o \in owners |-> CHOOSE i \in DOMAIN s : s[i] = o]] :
        s \in {s \in SetToSeqs(owners) : \A i \in 2 .. Len(s) : s[i \div 2] < s[i]}}

\* An owner pushed, discarded from the middle or popped leaves a queue of the
\* others, each at its index, and whoever comes out is the first of them.
QueueIsOrdered(all) ==
    \A owners \in SUBSET all : \A queue \in QueuesOf(owners) :
        /\ \A o \in all : IsQueueOf(Push(queue, o), owners \cup {o})
        /\ \A o \in all : IsQueueOf(Discard(queue, o), owners \ {o})
        /\ owners # {} =>
              /\ \A o \in owners : Popped(queue).owner <= o
              /\ IsQueueOf(Popped(queue).queue, owners \ {Popped(queue).owner})

\* Whom the rule of the batch lets go next: the first owner whose providers
\* are out of it, or the first of all when a cycle leaves none.
FollowsRule(batch, dirty, providers) ==
    /\ {batch[i] : i \in DOMAIN batch} = dirty /\ Len(batch) = Cardinality(dirty)
    /\ \A i \in DOMAIN batch :
          LET left == {batch[j] : j \in i .. Len(batch)}
              ready == {c \in left : providers[c] \cap left = {}}
              next == IF ready # {} THEN ready ELSE left
          IN  batch[i] \in next /\ \A o \in next : batch[i] <= o

\* Two heaps, a count of providers per owner and entries left behind give the
\* order of the rule, whatever depends on what, cycles and itself included.
BatchFollowsRule(all) ==
    \A dirty \in SUBSET all : \A providers \in [dirty -> SUBSET all] :
        FollowsRule(DirtyBatch(dirty, providers), dirty, providers)
=============================================================================
