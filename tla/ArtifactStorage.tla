-------------------------- MODULE ArtifactStorage --------------------------
(***************************************************************************)
(* The artifact graph over the structures it keeps its sets in: the heap   *)
(* of dirty owners and the batch made from it (OwnerQueue), the history of *)
(* an artifact's contracts (ContractHistory).  They are functions of what  *)
(* they are given, and what is promised of them does not depend on the     *)
(* state of the graph.                                                     *)
(*                                                                         *)
(* The bounds are those of the runs: a heap of six owners is the smallest  *)
(* in which an owner discarded from the middle is replaced by one that     *)
(* must rise, and contents of three bytes the shortest whose common ends   *)
(* can overlap and leave something in between.  ArtifactGraphProofs has    *)
(* the promises for every size.                                            *)
(***************************************************************************)
EXTENDS ArtifactGraph, OwnerQueue, ContractHistory

\* What does not depend on the state is evaluated in the first one only.
AtFirst == \A o \in Owners : ~Published(o)

\* The queue of dirty owners is a heap whose indices are right, whatever is
\* pushed, discarded and popped.
QueueStaysOrdered == AtFirst => QueueIsOrdered(1 .. 8)

\* The batch of dirty owners comes in the order of the rule of Settle.
BatchesComeInOrder == AtFirst => BatchFollowsRule(1 .. 4)

\* Contracts of two facets, the first with contents that share their ends.
Content(value) == [present |-> value # <<>>, value |-> value]

FirstValues == {<<>>, <<0>>, <<0, 0>>, <<0, 1>>, <<0, 0, 0>>, <<0, 1, 0>>}

SecondValues == {<<>>, <<0>>}

SmallContracts ==
    {<<Content(first), Content(second)>> : first \in FirstValues, second \in SecondValues}

\* The history of a record tells old contracts from new ones, whatever the
\* revisions before.
OldContractsAreKnown == AtFirst => HistoryIsExact(SmallContracts, 4)
=============================================================================
