--------------------------- MODULE ContractHistory ---------------------------
(***************************************************************************)
(* The history of an artifact's contracts                                  *)
(* (internal/emit/artifact/contract_history.go).  ArtifactGraph keeps the  *)
(* contracts an artifact has had as a set; the code keeps the last one and *)
(* for every revision what would undo it: for each facet that changed, how *)
(* much of its content is kept at both ends and what stood in between.  An *)
(* old contract is found again by its fingerprint, then rebuilt from the   *)
(* last one and compared.                                                  *)
(*                                                                         *)
(* A contract says of every facet whether it is present and its encoded    *)
(* content.  Compression of what stood in between, which loses nothing, is *)
(* left out; the fingerprint is one that often collides.                   *)
(***************************************************************************)
EXTENDS Integers, SequencesExt

ChangedFacets(previous, next) == {f \in DOMAIN next : previous[f] # next[f]}

Shorter(left, right) == IF Len(left) <= Len(right) THEN Len(left) ELSE Len(right)

CommonPrefixLength(left, right) ==
    CHOOSE n \in 0 .. Shorter(left, right) :
        /\ \A i \in 1 .. n : left[i] = right[i]
        /\ n = Shorter(left, right) \/ left[n + 1] # right[n + 1]

CommonSuffixLength(left, right) ==
    CHOOSE n \in 0 .. Shorter(left, right) :
        /\ \A i \in 0 .. n - 1 : left[Len(left) - i] = right[Len(right) - i]
        /\ n = Shorter(left, right) \/ left[Len(left) - n] # right[Len(right) - n]

From(value, n) == SubSeq(value, n + 1, Len(value))

\* Mistake: the common ends of the two contents may overlap.
BugEndsOverlap(previous, next) ==
    LET prefix == CommonPrefixLength(previous.value, next.value)
        suffix == CommonSuffixLength(previous.value, next.value)
    IN  [present |-> previous.present,
         prefix |-> prefix,
         suffix |-> suffix,
         middle |-> SubSeq(previous.value, prefix + 1, Len(previous.value) - suffix)]

\* What undoes the change of one facet.
ReverseFacetDelta(previous, next) ==
    LET prefix == CommonPrefixLength(previous.value, next.value)
        suffix == CommonSuffixLength(From(previous.value, prefix),
                                     From(next.value, prefix))
    IN  [present |-> previous.present,
         prefix |-> IF next.present THEN prefix ELSE 0,
         suffix |-> IF next.present THEN suffix ELSE 0,
         middle |-> SubSeq(previous.value, prefix + 1, Len(previous.value) - suffix)]

ReverseContractDelta(previous, next) ==
    [f \in ChangedFacets(previous, next) |-> ReverseFacetDelta(previous[f], next[f])]

RestoreFacet(change, next) ==
    [present |-> change.present,
     value |-> IF change.present
               THEN SubSeq(next.value, 1, change.prefix) \o change.middle
                    \o From(next.value, Len(next.value) - change.suffix)
               ELSE <<>>]

Restore(delta, next) ==
    [f \in DOMAIN next |->
        IF f \in DOMAIN delta THEN RestoreFacet(delta[f], next[f]) ELSE next[f]]

Fingerprint(contract) == [f \in DOMAIN contract |-> Len(contract[f].value)]

Entry(contract, previous) ==
    [fingerprint |-> Fingerprint(contract), previous |-> previous]

\* The contract of an entry, from the last one: the changes after it undone.
Historical(history, current, index) ==
    LET at[i \in index .. Len(history)] ==
            IF i = Len(history) THEN current
            ELSE Restore(history[i + 1].previous, at[i + 1])
    IN  at[index]

ContainsContract(history, current, candidate) ==
    \E i \in DOMAIN history :
        /\ history[i].fingerprint = Fingerprint(candidate)
        /\ Historical(history, current, i) = candidate

NoRecord == [contract |-> <<>>, history |-> <<>>]

\* What Graph.commit makes of a record: the first contract starts its history,
\* one that changes nothing leaves it alone.
Recorded(record, next) ==
    IF record.history = <<>>
    THEN [contract |-> next, history |-> <<Entry(next, <<>>)>>]
    ELSE IF ChangedFacets(record.contract, next) = {}
         THEN [record EXCEPT !.contract = next]
         ELSE [contract |-> next,
               history |-> Append(record.history,
                                  Entry(next, ReverseContractDelta(record.contract, next)))]

RecordOf(revisions) ==
    LET after[n \in 0 .. Len(revisions)] ==
            IF n = 0 THEN NoRecord ELSE Recorded(after[n - 1], revisions[n])
    IN  after[Len(revisions)]

\* However often an artifact was revised, forth and back, its history contains
\* the contracts it has had and no other: none is refused that is new, and none
\* is accepted that is old.
HistoryIsExact(contracts, most) ==
    \A n \in 1 .. most : \A revisions \in [1 .. n -> contracts] :
        LET record == RecordOf(revisions) IN
        \A candidate \in contracts :
            ContainsContract(record.history, record.contract, candidate)
                <=> \E i \in 1 .. n : revisions[i] = candidate
=============================================================================
