--------------------- MODULE RequirementSchedulerProofs ---------------------
(***************************************************************************)
(* Proofs about RequirementScheduler, for any owners and requirements and  *)
(* any finite graph of requests without a cycle, however they share their  *)
(* children.                                                               *)
(*                                                                         *)
(* The counts are exact only between calls of Replace.  The invariant says *)
(* what they are in the middle of one: what the calls still to make will   *)
(* add and drop is counted with them (RefsAccounted), so that a call of    *)
(* retainRequest or releaseRequest, which moves one reference and exposes  *)
(* the children of a request, leaves the sum alone.                        *)
(***************************************************************************)
EXTENDS RequirementScheduler, FunctionTheorems, FiniteSetTheorems,
        SequenceTheorems, TLAPS

USE OwnersAssumption, OwnerOfAssumption, RequestsAssumption

\* How often a sequence of requests names one.
Times(s, q) == Cardinality({i \in DOMAIN s : s[i] = q})

\* The places of a sequence that hold a request are finitely many.
LEMMA TimesIsNat ==
  ASSUME NEW s \in Seq(Requests), NEW q
  PROVE  Times(s, q) \in Nat /\ IsFiniteSet({i \in DOMAIN s : s[i] = q})
<1>1. {i \in DOMAIN s : s[i] = q} \subseteq 1..Len(s)
  OBVIOUS
<1>2. IsFiniteSet(1..Len(s))
  BY FS_Interval
<1> QED
  BY <1>1, <1>2, FS_Subset, FS_CardinalityType DEF Times

\* Nothing occurs in the empty sequence.
LEMMA TimesEmpty == \A q : Times(<<>>, q) = 0
<1>1. \A q : {i \in DOMAIN <<>> : <<>>[i] = q} = {}
  OBVIOUS
<1> QED
  BY <1>1, FS_EmptySet DEF Times

\* Occurrences in a concatenation add up.
LEMMA TimesConcat ==
  ASSUME NEW s \in Seq(Requests), NEW t \in Seq(Requests), NEW q
  PROVE  Times(s \o t, q) = Times(s, q) + Times(t, q)
<1> DEFINE A == {i \in DOMAIN s : s[i] = q}
           B == {i \in DOMAIN t : t[i] = q}
           C == {i \in (Len(s) + 1)..(Len(s) + Len(t)) : t[i - Len(s)] = q}
           shift == [i \in B |-> i + Len(s)]
<1>1. {i \in DOMAIN (s \o t) : (s \o t)[i] = q} = A \cup C
  <2>1. /\ s \o t \in Seq(Requests)
        /\ Len(s \o t) = Len(s) + Len(t)
        /\ \A i \in 1..(Len(s) + Len(t)) :
              (s \o t)[i] = IF i <= Len(s) THEN s[i] ELSE t[i - Len(s)]
    BY ConcatProperties
  <2>2. DOMAIN (s \o t) = 1..(Len(s) + Len(t)) /\ DOMAIN s = 1..Len(s)
    BY <2>1
  <2> HIDE DEF shift
  <2> QED
    BY <2>1, <2>2
<1>2. A \cap C = {}
  OBVIOUS
<1>3. IsFiniteSet(A) /\ IsFiniteSet(B)
  BY TimesIsNat
<1>4. shift \in Bijection(B, C)
  <2>1. shift \in [B -> C]
    OBVIOUS
  <2>2. \A i, j \in B : shift[i] = shift[j] => i = j
    OBVIOUS
  <2>3. \A k \in C : k - Len(s) \in B /\ shift[k - Len(s)] = k
    OBVIOUS
  <2>4. \A k \in C : \E i \in B : shift[i] = k
    BY <2>3
  <2> HIDE DEF shift, B, C
  <2>5. shift \in Injection(B, C)
    BY <2>1, <2>2, Fun_IsInj
  <2>6. shift \in Surjection(B, C)
    BY <2>1, <2>4, Fun_IsSurj
  <2> QED
    BY <2>5, <2>6, Fun_IsBij
<1>5. IsFiniteSet(C) /\ Cardinality(C) = Cardinality(B)
  <2> HIDE DEF shift, B, C
  <2>1. ExistsBijection(B, C)
    BY <1>4, Fun_ExistsBij
  <2> QED
    BY <1>3, <2>1, FS_Bijection
<1>6. Cardinality(A \cup C) = Cardinality(A) + Cardinality(C)
  <2> HIDE DEF A, C
  <2>1. /\ Cardinality(A \cup C) = Cardinality(A) + Cardinality(C) - Cardinality(A \cap C)
        /\ Cardinality(A) \in Nat /\ Cardinality(C) \in Nat
    BY <1>3, <1>5, FS_Union, FS_CardinalityType
  <2>2. Cardinality(A \cap C) = 0
    BY <1>2, FS_EmptySet
  <2> QED
    BY <2>1, <2>2
<1> QED
  BY <1>1, <1>5, <1>6 DEF Times

\* The head of a sequence occurs once more in it than in its tail.
LEMMA TimesHead ==
  ASSUME NEW s \in Seq(Requests), s # <<>>, NEW q
  PROVE  Times(s, q) = Times(Tail(s), q) + (IF q = Head(s) THEN 1 ELSE 0)
<1>1. /\ <<Head(s)>> \in Seq(Requests) /\ Tail(s) \in Seq(Requests)
      /\ s = <<Head(s)>> \o Tail(s)
  OBVIOUS
<1>2. Times(s, q) = Times(<<Head(s)>>, q) + Times(Tail(s), q)
  <2> DEFINE h == <<Head(s)>>
             t == Tail(s)
  <2>1. Times(h \o t, q) = Times(h, q) + Times(t, q)
    <3> HIDE DEF h, t
    <3> QED
      BY <1>1, TimesConcat DEF h, t
  <2> QED
    BY <1>1, <2>1
<1>3. {i \in DOMAIN <<Head(s)>> : <<Head(s)>>[i] = q} = IF q = Head(s) THEN {1} ELSE {}
  OBVIOUS
<1>4. Times(<<Head(s)>>, q) = IF q = Head(s) THEN 1 ELSE 0
  BY <1>3, FS_EmptySet, FS_Singleton DEF Times
<1>5. Times(Tail(s), q) \in Nat
  BY <1>1, TimesIsNat
<1> QED
  BY <1>2, <1>4, <1>5

\* A set in some order names each of its members once.
LEMMA TimesOrdered ==
  ASSUME NEW set \in SUBSET Requests, NEW s \in SetToSeqs(set), NEW q
  PROVE  s \in Seq(Requests) /\ Times(s, q) = IF q \in set THEN 1 ELSE 0
<1>1. IsFiniteSet(set) /\ Cardinality(set) \in Nat
  BY FS_Subset, FS_CardinalityType
<1> DEFINE D == 1..Cardinality(set)
<1>2. s \in [D -> set] /\ \A i, j \in D : i # j => s[i] # s[j]
  BY DEF SetToSeqs
<1>3. s \in Seq(Requests) /\ DOMAIN s = D
  <2>1. s \in [1..Cardinality(set) -> Requests]
    BY <1>2
  <2> HIDE DEF D
  <2> QED
    BY <1>1, <1>2, <2>1, SeqDef
<1>4. IsFiniteSet(D) /\ Cardinality(D) = Cardinality(set)
  BY <1>1, FS_Interval
<1>5. s \in Injection(D, set)
  <2> HIDE DEF D
  <2> QED
    BY <1>2, Fun_IsInj
<1>6. s \in Surjection(D, set)
  <2> HIDE DEF D
  <2> QED
    BY <1>1, <1>4, <1>5, FS_Injection
<1>7. CASE q \in set
  <2>1. PICK i \in D : s[i] = q
    <3> HIDE DEF D
    <3> QED
      BY <1>6, <1>7, Fun_SurjectionProperties
  <2>2. {k \in DOMAIN s : s[k] = q} = {i}
    BY <1>2, <1>3, <2>1
  <2> QED
    BY <1>3, <1>7, <2>2, FS_Singleton DEF Times
<1>8. CASE q \notin set
  <2>1. {k \in DOMAIN s : s[k] = q} = {}
    BY <1>2, <1>3, <1>8
  <2> QED
    BY <1>3, <1>8, <2>1, FS_EmptySet DEF Times
<1> QED
  BY <1>7, <1>8

-----------------------------------------------------------------------------
(* The inductive invariant *)

\* What a consumer requests, from the moment Replace is called.
Held(c) == IF c = caller THEN selected ELSE byConsumer[c]

HeldRequests == UNION {Held(c) : c \in Owners}

Consumers(q) == {c \in Owners : q \in Held(c)}

Counted == {q \in Requests : requestRefs[q] # 0}

\* The places of the sequences of a set that hold a request.
PlacesIn(set, q) ==
    {place \in UNION {{p} \X DOMAIN Children[p] : p \in set} :
        Children[place[1]][place[2]] = q}

Carriers(set, r) == {q \in set : Leaf(q) /\ Demand[q] = r}

\* Every reference to a request is accounted for: those the calls to come will
\* add, and those they will drop, included.
RefsAccounted ==
    \A q \in Requests :
        requestRefs[q] + Times(retaining, q)
            = Cardinality(Consumers(q)) + Cardinality(PlacesIn(Counted, q))
                + Times(releasing, q)

\* A requirement is counted once for every counted leaf that carries it.
RequirementsAccounted ==
    \A r \in Requirements : requirementRefs[r] = Cardinality(Carriers(Counted, r))

\* A requirement in force is a root, carried, or orphaned, and those are in
\* force.
LedgersAgree ==
    /\ roots \subseteq active
    /\ orphaned \subseteq active
    /\ \A r \in Requirements : requirementRefs[r] # 0 => r \in active \ orphaned
    /\ \A r \in active : r \in roots \/ requirementRefs[r] # 0 \/ r \in orphaned

\* An owner without a batch due applies exactly its requirements in force.
AppliedIsActive ==
    \A r \in Requirements :
        OwnerOf[r] \notin pending => (r \in applied <=> r \in active)

\* A call retains nothing but what it was given and what that holds.
CallInv ==
    /\ caller = Nobody => selected = {} /\ retaining = <<>> /\ releasing = <<>>
    /\ \A i \in DOMAIN retaining : retaining[i] \in Reached(selected)
    /\ ~panicked

CountInv ==
    /\ TypeOK
    /\ RefsAccounted
    /\ RequirementsAccounted
    /\ LedgersAgree
    /\ AppliedIsActive
    /\ RemovedIsPending
    /\ CallInv

-----------------------------------------------------------------------------
(* Places, carriers and reachability *)

\* The places of a set of requests are finitely many.
LEMMA PlacesFinite ==
  ASSUME NEW set \in SUBSET Requests, NEW q
  PROVE  IsFiniteSet(PlacesIn(set, q)) /\ Cardinality(PlacesIn(set, q)) \in Nat
<1> DEFINE all == {{p} \X DOMAIN Children[p] : p \in set}
           f == [p \in set |-> {p} \X DOMAIN Children[p]]
<1>1. f \in Surjection(set, all)
  <2>1. f \in [set -> all]
    OBVIOUS
  <2>2. \A t \in all : \E p \in set : f[p] = t
    OBVIOUS
  <2> HIDE DEF f, all
  <2> QED
    BY <2>1, <2>2, Fun_IsSurj
<1>2. IsFiniteSet(all)
  <2>1. IsFiniteSet(set)
    BY FS_Subset
  <2> HIDE DEF f, all
  <2> QED
    BY <1>1, <2>1, FS_Surjection
<1>3. ASSUME NEW t \in all PROVE IsFiniteSet(t)
  <2>1. PICK p \in set : t = {p} \X DOMAIN Children[p]
    OBVIOUS
  <2>2. Len(Children[p]) \in Nat /\ DOMAIN Children[p] = 1..Len(Children[p])
    <3> HIDE DEF all, f
    <3>1. Children[p] \in Seq(Requests)
      OBVIOUS
    <3> QED
      BY <3>1, LenProperties
  <2>3. IsFiniteSet({p})
    BY FS_Singleton
  <2>4. IsFiniteSet(DOMAIN Children[p])
    <3>1. IsFiniteSet(1..Len(Children[p]))
      BY <2>2, FS_Interval
    <3> QED
      BY <2>2, <3>1
  <2> QED
    BY <2>1, <2>3, <2>4, FS_Product
<1>4. IsFiniteSet(UNION all)
  <2> HIDE DEF all
  <2> QED
    BY <1>2, <1>3, FS_UNION
<1>5. PlacesIn(set, q) \subseteq UNION all
  BY DEF PlacesIn
<1> QED
  <2> HIDE DEF all
  <2> QED
    BY <1>4, <1>5, FS_Subset, FS_CardinalityType

\* A request that joins a set brings the places of its own sequence.
LEMMA PlacesAdd ==
  ASSUME NEW set \in SUBSET Requests, NEW p \in Requests \ set, NEW q
  PROVE  Cardinality(PlacesIn(set \cup {p}, q))
             = Cardinality(PlacesIn(set, q)) + Times(Children[p], q)
<1> DEFINE B == {i \in DOMAIN Children[p] : Children[p][i] = q}
           E == {p} \X B
           pair == [i \in B |-> <<p, i>>]
<1>1. PlacesIn(set \cup {p}, q) = PlacesIn(set, q) \cup E
  <2> DEFINE all(some) == UNION {{x} \X DOMAIN Children[x] : x \in some}
  <2>1. all(set \cup {p}) = all(set) \cup ({p} \X DOMAIN Children[p])
    OBVIOUS
  <2>2. PlacesIn(set \cup {p}, q)
          = {place \in all(set) \cup ({p} \X DOMAIN Children[p]) :
                Children[place[1]][place[2]] = q}
    BY <2>1 DEF PlacesIn
  <2>3. E = {place \in {p} \X DOMAIN Children[p] : Children[place[1]][place[2]] = q}
    OBVIOUS
  <2> HIDE DEF E
  <2> QED
    BY <2>2, <2>3 DEF PlacesIn
<1>2. PlacesIn(set, q) \cap E = {}
  BY DEF PlacesIn
<1>3. IsFiniteSet(B)
  BY TimesIsNat
<1>4. pair \in Bijection(B, E)
  <2>1. pair \in [B -> E]
    OBVIOUS
  <2>2. \A i, j \in B : pair[i] = pair[j] => i = j
    OBVIOUS
  <2>3. \A e \in E : \E i \in B : pair[i] = e
    OBVIOUS
  <2> HIDE DEF pair, B, E
  <2>4. pair \in Injection(B, E)
    BY <2>1, <2>2, Fun_IsInj
  <2>5. pair \in Surjection(B, E)
    BY <2>1, <2>3, Fun_IsSurj
  <2> QED
    BY <2>4, <2>5, Fun_IsBij
<1>5. IsFiniteSet(E) /\ Cardinality(E) = Cardinality(B)
  <2> HIDE DEF pair, B, E
  <2>1. ExistsBijection(B, E)
    BY <1>4, Fun_ExistsBij
  <2> QED
    BY <1>3, <2>1, FS_Bijection
<1>6. IsFiniteSet(PlacesIn(set, q))
  BY PlacesFinite
<1>7. Cardinality(PlacesIn(set, q) \cup E) = Cardinality(PlacesIn(set, q)) + Cardinality(E)
  <2> HIDE DEF E
  <2>1. /\ Cardinality(PlacesIn(set, q) \cup E)
              = Cardinality(PlacesIn(set, q)) + Cardinality(E)
                  - Cardinality(PlacesIn(set, q) \cap E)
        /\ Cardinality(PlacesIn(set, q)) \in Nat /\ Cardinality(E) \in Nat
    BY <1>5, <1>6, FS_Union, FS_CardinalityType
  <2>2. Cardinality(PlacesIn(set, q) \cap E) = 0
    BY <1>2, FS_EmptySet
  <2> QED
    BY <2>1, <2>2
<1> QED
  BY <1>1, <1>5, <1>7 DEF Times

\* A leaf that joins a set carries its requirement once more.
LEMMA CarriersAdd ==
  ASSUME NEW set \in SUBSET Requests, NEW p \in Requests \ set, NEW r
  PROVE  /\ Cardinality(Carriers(set, r)) \in Nat
         /\ Cardinality(Carriers(set \cup {p}, r))
                = Cardinality(Carriers(set, r))
                    + (IF Leaf(p) /\ Demand[p] = r THEN 1 ELSE 0)
<1>1. IsFiniteSet(Carriers(set, r)) /\ Cardinality(Carriers(set, r)) \in Nat
  <2>1. Carriers(set, r) \subseteq Requests
    BY DEF Carriers
  <2> QED
    BY <2>1, FS_Subset, FS_CardinalityType
<1>2. p \notin Carriers(set, r)
  BY DEF Carriers
<1>3. CASE Leaf(p) /\ Demand[p] = r
  <2>1. Carriers(set \cup {p}, r) = Carriers(set, r) \cup {p}
    BY <1>3 DEF Carriers
  <2>2. Cardinality(Carriers(set, r) \cup {p}) = Cardinality(Carriers(set, r)) + 1
    BY <1>1, <1>2, FS_AddElement
  <2> QED
    BY <1>1, <1>3, <2>1, <2>2
<1>4. CASE ~(Leaf(p) /\ Demand[p] = r)
  <2>1. Carriers(set \cup {p}, r) = Carriers(set, r)
    BY <1>4 DEF Carriers
  <2> QED
    BY <1>1, <1>4, <2>1
<1> QED
  BY <1>3, <1>4

\* Reaching is monotone, starts from the set itself, and follows sequences.
LEMMA ReachedProperties ==
  ASSUME NEW set \in SUBSET Requests
  PROVE  /\ set \subseteq Reached(set)
         /\ Reached(set) \in ClosedSets
         /\ \A some \in ClosedSets : set \subseteq some => Reached(set) \subseteq some
<1>1. \A q \in Requests : q \in Below[q] /\ Below[q] \subseteq Requests
  BY DEF Below
<1>2. \A q \in Requests : Below[q] \in ClosedSets
  <2> SUFFICES ASSUME NEW q \in Requests, NEW p \in Below[q], NEW n \in Requests,
                      Holds(p, n)
               PROVE  n \in Below[q]
    BY <1>1 DEF ClosedSets
  <2> SUFFICES ASSUME NEW some \in ClosedSets, q \in some PROVE n \in some
    BY DEF Below
  <2> QED
    BY DEF Below, ClosedSets
<1>3. \A q \in Requests, some \in ClosedSets : q \in some => Below[q] \subseteq some
  BY DEF Below
<1> HIDE DEF Below
<1>4. Reached(set) \in ClosedSets
  <2>1. Reached(set) \subseteq Requests
    BY <1>1 DEF Reached
  <2> QED
    BY <1>2, <2>1 DEF Reached, ClosedSets
<1> QED
  BY <1>1, <1>3, <1>4 DEF Reached

\* What the requests of a set demand is what the reached leaves carry.
LEMMA DemandedProperties ==
  ASSUME NEW set \in SUBSET Requests
  PROVE  Demanded(set) = {Demand[q] : q \in {n \in Reached(set) : Leaf(n)}}
<1>1. \A q \in set : Carried[q] = {Demand[n] : n \in Below[q] \cap DOMAIN Demand}
  BY DEF Carried
<1> HIDE DEF Below, Carried
<1> QED
  BY <1>1 DEF Demanded, Reached, Leaf

-----------------------------------------------------------------------------
(* What exact counts say when no call is left to make *)

\* A request is counted exactly when a consumer reaches it.
LEMMA CountedIsReached ==
  ASSUME TypeOK, RefsAccounted, retaining = <<>>, releasing = <<>>
  PROVE  Counted = Reached(HeldRequests)
<1>1. HeldRequests \in SUBSET Requests
  BY SelectionsAssumption DEF HeldRequests, Held, TypeOK
<1>2. \A q \in Requests :
         q \in Counted <=> q \in HeldRequests \/ \E p \in Counted : Holds(p, q)
  <2> SUFFICES ASSUME NEW q \in Requests
               PROVE  q \in Counted <=> q \in HeldRequests \/ \E p \in Counted : Holds(p, q)
    OBVIOUS
  <2>1. requestRefs[q] = Cardinality(Consumers(q)) + Cardinality(PlacesIn(Counted, q))
    <3>1. requestRefs[q] \in Nat
      BY DEF TypeOK
    <3>2. Cardinality(Consumers(q)) \in Nat /\ Cardinality(PlacesIn(Counted, q)) \in Nat
      <4>1. Consumers(q) \subseteq Owners /\ Counted \subseteq Requests
        BY DEF Consumers, Counted
      <4> QED
        BY <4>1, FS_Subset, FS_CardinalityType, PlacesFinite
    <3>3. Times(retaining, q) = 0 /\ Times(releasing, q) = 0
      BY TimesEmpty
    <3> QED
      BY <3>1, <3>2, <3>3 DEF RefsAccounted
  <2>2. Cardinality(Consumers(q)) \in Nat /\ (Cardinality(Consumers(q)) = 0 <=> q \notin HeldRequests)
    <3>1. Consumers(q) \subseteq Owners
      BY DEF Consumers
    <3>2. IsFiniteSet(Consumers(q)) /\ Cardinality(Consumers(q)) \in Nat
      BY <3>1, FS_Subset, FS_CardinalityType
    <3>3. Consumers(q) = {} <=> q \notin HeldRequests
      BY DEF Consumers, HeldRequests
    <3> QED
      BY <3>2, <3>3, FS_EmptySet
  <2>3. /\ Cardinality(PlacesIn(Counted, q)) \in Nat
        /\ Cardinality(PlacesIn(Counted, q)) = 0 <=> ~\E p \in Counted : Holds(p, q)
    <3>1. Counted \subseteq Requests
      BY DEF Counted
    <3>2. IsFiniteSet(PlacesIn(Counted, q)) /\ Cardinality(PlacesIn(Counted, q)) \in Nat
      BY <3>1, PlacesFinite
    <3>3. PlacesIn(Counted, q) = {} <=> ~\E p \in Counted : Holds(p, q)
      <4>1. ASSUME NEW p \in Counted, Holds(p, q) PROVE PlacesIn(Counted, q) # {}
        <5>1. PICK i \in DOMAIN Children[p] : Children[p][i] = q
          BY <4>1 DEF Holds
        <5>2. <<p, i>> \in PlacesIn(Counted, q)
          BY <5>1 DEF PlacesIn
        <5> QED
          BY <5>2
      <4>2. ASSUME NEW place \in PlacesIn(Counted, q)
            PROVE  \E p \in Counted : Holds(p, q)
        <5>1. PICK p \in Counted : place \in {p} \X DOMAIN Children[p]
          BY DEF PlacesIn
        <5>2. Children[p][place[2]] = q /\ place[2] \in DOMAIN Children[p]
          BY <5>1 DEF PlacesIn
        <5> QED
          BY <5>2 DEF Holds
      <4> QED
        BY <4>1, <4>2
    <3> QED
      BY <3>2, <3>3, FS_EmptySet
  <2>4. q \in Counted <=> requestRefs[q] # 0
    BY DEF Counted
  <2> QED
    BY <2>1, <2>2, <2>3, <2>4
<1>3. Counted \in ClosedSets
  BY <1>2 DEF ClosedSets, Counted
<1>4. Reached(HeldRequests) \subseteq Counted
  BY <1>1, <1>2, <1>3, ReachedProperties
<1>5. Counted \subseteq Reached(HeldRequests)
  <2> DEFINE stray == Counted \ Reached(HeldRequests)
  <2> SUFFICES ASSUME stray # {} PROVE FALSE
    OBVIOUS
  <2>1. stray \in (SUBSET Requests) \ {{}}
    BY DEF Counted
  <2>2. PICK q \in stray : \A p \in stray : ~Holds(p, q)
    <3> HIDE DEF stray
    <3> QED
      BY <2>1, AcyclicAssumption
  <2>3. q \in Requests
    BY DEF Counted
  <2>4. q \notin HeldRequests
    BY <1>1, ReachedProperties
  <2>5. PICK p \in Counted : Holds(p, q)
    BY <1>2, <2>3, <2>4
  <2>6. p \in Reached(HeldRequests)
    BY <2>2, <2>5
  <2>7. Reached(HeldRequests) \in ClosedSets
    BY <1>1, ReachedProperties
  <2>8. q \in Reached(HeldRequests)
    BY <2>3, <2>5, <2>6, <2>7 DEF ClosedSets
  <2> QED
    BY <2>8
<1> QED
  BY <1>4, <1>5

\* A requirement is counted exactly when the consumers demand it.
LEMMA CountedIsDemanded ==
  ASSUME TypeOK, RefsAccounted, RequirementsAccounted, retaining = <<>>, releasing = <<>>,
         NEW r \in Requirements
  PROVE  requirementRefs[r] # 0 <=> r \in Demanded(HeldRequests)
<1>1. HeldRequests \in SUBSET Requests
  BY SelectionsAssumption DEF HeldRequests, Held, TypeOK
<1>2. Carriers(Counted, r) = {} <=> r \notin Demanded(HeldRequests)
  <2>1. Demanded(HeldRequests) = {Demand[q] : q \in {n \in Counted : Leaf(n)}}
    BY <1>1, CountedIsReached, DemandedProperties
  <2> QED
    BY <2>1 DEF Carriers
<1>3. IsFiniteSet(Carriers(Counted, r))
  <2>1. Carriers(Counted, r) \subseteq Requests
    BY DEF Carriers, Counted
  <2> QED
    BY <2>1, FS_Subset
<1>4. requirementRefs[r] = Cardinality(Carriers(Counted, r))
  BY DEF RequirementsAccounted
<1> QED
  BY <1>2, <1>3, <1>4, FS_EmptySet

-----------------------------------------------------------------------------
(* The invariant is kept *)

\* A scheduler nobody called counts nothing.
LEMMA InitCountInv == Init => CountInv
<1> SUFFICES ASSUME Init PROVE CountInv
  OBVIOUS
<1>1. TypeOK
  BY SelectionsAssumption, EmptySeq DEF Init, TypeOK
<1>2. Counted = {}
  BY DEF Init, Counted
<1>3. RefsAccounted
  <2> SUFFICES ASSUME NEW q \in Requests
               PROVE  requestRefs[q] + Times(retaining, q)
                        = Cardinality(Consumers(q)) + Cardinality(PlacesIn(Counted, q))
                            + Times(releasing, q)
    BY DEF RefsAccounted
  <2>1. Consumers(q) = {}
    BY DEF Init, Consumers, Held
  <2>2. PlacesIn(Counted, q) = {}
    BY <1>2 DEF PlacesIn
  <2>3. Cardinality(Consumers(q)) = 0 /\ Cardinality(PlacesIn(Counted, q)) = 0
    BY <2>1, <2>2, FS_EmptySet
  <2>4. Times(retaining, q) = 0 /\ Times(releasing, q) = 0 /\ requestRefs[q] = 0
    BY TimesEmpty DEF Init
  <2> QED
    BY <2>3, <2>4
<1>4. RequirementsAccounted
  <2>1. \A r : Carriers(Counted, r) = {}
    BY <1>2 DEF Carriers
  <2>2. \A r : Cardinality(Carriers(Counted, r)) = 0
    BY <2>1, FS_EmptySet
  <2> QED
    BY <2>2 DEF RequirementsAccounted, Init
<1>5. LedgersAgree /\ AppliedIsActive /\ RemovedIsPending /\ CallInv
  BY DEF Init, LedgersAgree, AppliedIsActive, RemovedIsPending, CallInv
<1> QED
  BY <1>1, <1>3, <1>4, <1>5 DEF CountInv

\* What is held and counted depends on nothing but these variables.
LEMMA SameCounts ==
  ASSUME UNCHANGED <<byConsumer, caller, selected>>
  PROVE  /\ \A q : Consumers(q)' = Consumers(q)
         /\ HeldRequests' = HeldRequests
BY DEF Consumers, Held, HeldRequests

\* A call of retainRequest moves one reference from the calls to the counts,
\* and with the first reference come the calls for the children.
LEMMA RetainRefs ==
  ASSUME CountInv, RetainRequest
  PROVE  RefsAccounted' /\ retaining' \in Seq(Requests)
<1> DEFINE p == Head(retaining)
           first == requestRefs[p] = 0
<1>1. /\ retaining \in Seq(Requests) /\ retaining # <<>>
      /\ p \in Requests /\ Tail(retaining) \in Seq(Requests)
      /\ requestRefs \in [Requests -> Nat]
  BY HeadTailProperties DEF CountInv, TypeOK, RetainRequest
<1>2. /\ requestRefs' = [requestRefs EXCEPT ![p] = @ + 1]
      /\ retaining' = (IF first THEN Children[p] ELSE <<>>) \o Tail(retaining)
      /\ releasing' = releasing
  BY DEF RetainRequest
<1>3. Children[p] \in Seq(Requests) /\ <<>> \in Seq(Requests)
  BY <1>1
<1> HIDE DEF p, first
<1>4. retaining' \in Seq(Requests)
  BY <1>1, <1>2, <1>3, ConcatProperties
<1>5. Counted \subseteq Requests /\ Counted' = Counted \cup {p}
  BY <1>1, <1>2 DEF Counted
<1>6. p \notin Counted <=> first
  BY <1>1 DEF Counted, first
<1>7. ASSUME NEW q \in Requests
      PROVE  requestRefs'[q] + Times(retaining', q)
                 = Cardinality(Consumers(q)') + Cardinality(PlacesIn(Counted', q))
                     + Times(releasing', q)
  <2> DEFINE hit == IF q = p THEN 1 ELSE 0
  <2> hit \in Nat
    OBVIOUS
  <2>1. Consumers(q)' = Consumers(q)
    BY SameCounts DEF RetainRequest
  <2>2. requestRefs'[q] = requestRefs[q] + hit
    BY <1>1, <1>2
  <2>3. Times(retaining, q) = Times(Tail(retaining), q) + hit
    BY <1>1, TimesHead DEF p
  <2>4. requestRefs[q] + Times(retaining, q)
          = Cardinality(Consumers(q)) + Cardinality(PlacesIn(Counted, q))
              + Times(releasing, q)
    BY DEF CountInv, RefsAccounted
  <2>5. /\ requestRefs[q] \in Nat
        /\ Times(Tail(retaining), q) \in Nat /\ Times(Children[p], q) \in Nat
        /\ Cardinality(PlacesIn(Counted, q)) \in Nat
    BY <1>1, <1>3, <1>5, TimesIsNat, PlacesFinite
  <2>6. Cardinality(Consumers(q)) \in Nat
    <3>1. Consumers(q) \subseteq Owners
      BY DEF Consumers
    <3> QED
      BY <3>1, FS_Subset, FS_CardinalityType
  <2>7. releasing \in Seq(Requests) /\ Times(releasing, q) \in Nat
    BY TimesIsNat DEF CountInv, TypeOK
  <2> HIDE DEF hit
  <2>8. CASE first
    <3>1. Times(retaining', q) = Times(Children[p], q) + Times(Tail(retaining), q)
      <4>1. retaining' = Children[p] \o Tail(retaining)
        BY <1>2, <2>8
      <4> DEFINE s == Children[p]
                 t == Tail(retaining)
      <4>2. s \in Seq(Requests) /\ t \in Seq(Requests) /\ retaining' = s \o t
        BY <1>1, <1>3, <4>1
      <4> HIDE DEF s, t
      <4>3. Times(s \o t, q) = Times(s, q) + Times(t, q)
        BY <4>2, TimesConcat
      <4> QED
        BY <4>2, <4>3 DEF s, t
    <3>2. Cardinality(PlacesIn(Counted', q))
            = Cardinality(PlacesIn(Counted, q)) + Times(Children[p], q)
      BY <1>1, <1>5, <1>6, <2>8, PlacesAdd
    <3>3. Times(releasing', q) = Times(releasing, q)
      BY <1>2
    <3>4. requestRefs[q] + hit + Times(Tail(retaining), q)
            = Cardinality(Consumers(q)) + Cardinality(PlacesIn(Counted, q))
                + Times(releasing, q)
      BY <2>3, <2>4, <2>5, <2>6, <2>7
    <3>5. requestRefs'[q] + Times(retaining', q)
            = requestRefs[q] + hit + Times(Tail(retaining), q) + Times(Children[p], q)
      BY <2>2, <2>5, <3>1
    <3> QED
      BY <2>1, <2>5, <2>6, <2>7, <3>2, <3>3, <3>4, <3>5
  <2>9. CASE ~first
    <3>1. Times(retaining', q) = Times(Tail(retaining), q)
      BY <1>1, <1>2, <2>9, ConcatEmptySeq
    <3>2. Counted' = Counted
      BY <1>5, <1>6, <2>9
    <3>3. Times(releasing', q) = Times(releasing, q)
      BY <1>2
    <3> QED
      BY <2>1, <2>2, <2>3, <2>4, <2>5, <2>6, <2>7, <3>1, <3>2, <3>3
  <2> QED
    BY <2>8, <2>9
<1> QED
  BY <1>4, <1>7 DEF RefsAccounted

\* A call of releaseRequest finds a reference to drop, and with the last one
\* come the calls for the children.
LEMMA ReleaseRefs ==
  ASSUME CountInv, ReleaseRequest
  PROVE  /\ RefsAccounted' /\ releasing' \in Seq(Requests)
         /\ requestRefs[Head(releasing)] # 0
<1> DEFINE p == Head(releasing)
           last == requestRefs[p] = 1
<1>1. /\ releasing \in Seq(Requests) /\ releasing # <<>>
      /\ p \in Requests /\ Tail(releasing) \in Seq(Requests)
      /\ requestRefs \in [Requests -> Nat]
      /\ retaining = <<>> /\ retaining' = <<>>
  BY HeadTailProperties DEF CountInv, TypeOK, ReleaseRequest
<1>2. /\ requestRefs' = [requestRefs EXCEPT ![p] = IF @ = 0 THEN 0 ELSE @ - 1]
      /\ releasing' = (IF last THEN Children[p] ELSE <<>>) \o Tail(releasing)
  BY DEF ReleaseRequest
<1>3. Children[p] \in Seq(Requests) /\ <<>> \in Seq(Requests)
  BY <1>1
<1> HIDE DEF p, last
<1>4. releasing' \in Seq(Requests)
  BY <1>1, <1>2, <1>3, ConcatProperties
<1>5. ASSUME NEW q \in Requests
      PROVE  /\ requestRefs[q]
                  = Cardinality(Consumers(q)) + Cardinality(PlacesIn(Counted, q))
                      + Times(Tail(releasing), q) + (IF q = p THEN 1 ELSE 0)
             /\ requestRefs[q] \in Nat
             /\ Cardinality(Consumers(q)) \in Nat
             /\ Cardinality(PlacesIn(Counted, q)) \in Nat
             /\ Times(Tail(releasing), q) \in Nat
             /\ Times(Children[p], q) \in Nat
  <2>1. Times(releasing, q) = Times(Tail(releasing), q) + (IF q = p THEN 1 ELSE 0)
    BY <1>1, TimesHead DEF p
  <2>2. Times(retaining, q) = 0
    BY <1>1, TimesEmpty
  <2>3. requestRefs[q] + Times(retaining, q)
          = Cardinality(Consumers(q)) + Cardinality(PlacesIn(Counted, q))
              + Times(releasing, q)
    BY DEF CountInv, RefsAccounted
  <2>4. /\ requestRefs[q] \in Nat /\ Times(Tail(releasing), q) \in Nat
        /\ Times(Children[p], q) \in Nat
    BY <1>1, <1>3, TimesIsNat
  <2>5. Cardinality(Consumers(q)) \in Nat /\ Cardinality(PlacesIn(Counted, q)) \in Nat
    <3>1. Consumers(q) \subseteq Owners /\ Counted \subseteq Requests
      BY DEF Consumers, Counted
    <3> QED
      BY <3>1, FS_Subset, FS_CardinalityType, PlacesFinite
  <2> QED
    BY <2>1, <2>2, <2>3, <2>4, <2>5
<1>6. requestRefs[p] # 0
  BY <1>1, <1>5
<1>7. Counted \subseteq Requests /\ p \in Counted
  BY <1>1, <1>6 DEF Counted
<1>8. Counted' = IF last THEN Counted \ {p} ELSE Counted
  BY <1>1, <1>2, <1>6 DEF Counted, last
<1>9. ASSUME NEW q \in Requests
      PROVE  requestRefs'[q] + Times(retaining', q)
                 = Cardinality(Consumers(q)') + Cardinality(PlacesIn(Counted', q))
                     + Times(releasing', q)
  <2> DEFINE hit == IF q = p THEN 1 ELSE 0
  <2> hit \in {0, 1}
    OBVIOUS
  <2>0. /\ requestRefs[q]
             = Cardinality(Consumers(q)) + Cardinality(PlacesIn(Counted, q))
                 + Times(Tail(releasing), q) + hit
        /\ requestRefs[q] \in Nat
        /\ Cardinality(Consumers(q)) \in Nat
        /\ Cardinality(PlacesIn(Counted, q)) \in Nat
        /\ Times(Tail(releasing), q) \in Nat
        /\ Times(Children[p], q) \in Nat
    BY <1>5
  <2>1. Consumers(q)' = Consumers(q)
    BY SameCounts DEF ReleaseRequest
  <2>2. requestRefs'[q] = requestRefs[q] - hit
    BY <1>1, <1>2, <1>6
  <2>3. Times(retaining', q) = 0
    BY <1>1, TimesEmpty
  <2> HIDE DEF hit
  <2>4. CASE last
    <3>1. Times(releasing', q) = Times(Children[p], q) + Times(Tail(releasing), q)
      <4>1. releasing' = Children[p] \o Tail(releasing)
        BY <1>2, <2>4
      <4> DEFINE s == Children[p]
                 t == Tail(releasing)
      <4>2. s \in Seq(Requests) /\ t \in Seq(Requests) /\ releasing' = s \o t
        BY <1>1, <1>3, <4>1
      <4> HIDE DEF s, t
      <4>3. Times(s \o t, q) = Times(s, q) + Times(t, q)
        BY <4>2, TimesConcat
      <4> QED
        BY <4>2, <4>3 DEF s, t
    <3>2. Counted' \subseteq Requests /\ p \in Requests \ Counted' /\ Counted = Counted' \cup {p}
      BY <1>7, <1>8, <2>4
    <3>3. Cardinality(PlacesIn(Counted, q))
            = Cardinality(PlacesIn(Counted', q)) + Times(Children[p], q)
      BY <3>2, PlacesAdd
    <3>4. Cardinality(PlacesIn(Counted', q)) \in Nat
      BY <3>2, PlacesFinite
    <3>5. requestRefs'[q]
            = Cardinality(Consumers(q)) + Cardinality(PlacesIn(Counted, q))
                + Times(Tail(releasing), q)
      BY <2>0, <2>2
    <3>6. requestRefs'[q]
            = Cardinality(Consumers(q)) + Cardinality(PlacesIn(Counted', q))
                + Times(releasing', q)
      BY <2>0, <3>1, <3>3, <3>4, <3>5
    <3>7. requestRefs'[q] \in Nat
      BY <2>0, <3>5
    <3> QED
      BY <2>1, <2>3, <3>6, <3>7
  <2>5. CASE ~last
    <3>1. Times(releasing', q) = Times(Tail(releasing), q)
      BY <1>1, <1>2, <2>5, ConcatEmptySeq
    <3> QED
      BY <2>0, <1>8, <2>1, <2>2, <2>3, <2>5, <3>1
  <2> QED
    BY <2>4, <2>5
<1> QED
  BY <1>4, <1>6, <1>9 DEF RefsAccounted, p

\* A call of retainRequest keeps the invariant.
LEMMA RetainInv ==
  ASSUME CountInv, RetainRequest
  PROVE  CountInv'
<1> DEFINE p == Head(retaining)
           first == requestRefs[p] = 0
<1>1. /\ retaining \in Seq(Requests) /\ retaining # <<>>
      /\ p \in Requests /\ Tail(retaining) \in Seq(Requests)
      /\ requestRefs \in [Requests -> Nat]
      /\ Children[p] \in Seq(Requests)
  BY HeadTailProperties DEF CountInv, TypeOK, RetainRequest
<1>2. /\ requestRefs' = [requestRefs EXCEPT ![p] = @ + 1]
      /\ retaining' = (IF first THEN Children[p] ELSE <<>>) \o Tail(retaining)
      /\ IF first /\ Leaf(p) THEN RetainRequirement(Demand[p])
         ELSE UNCHANGED <<requirementRefs, orphaned, active, pending>>
      /\ UNCHANGED <<byConsumer, certified, roots, applied, removed, panicked,
                     caller, selected, releasing>>
  BY DEF RetainRequest
<1>3. RefsAccounted' /\ retaining' \in Seq(Requests)
  BY RetainRefs
<1>4. Leaf(p) => Demand[p] \in Requirements
  BY DEF Leaf
<1>5. Counted \subseteq Requests /\ Counted' = Counted \cup {p} /\ (p \notin Counted <=> first)
  BY <1>1, <1>2 DEF Counted
<1> HIDE DEF p, first
<1>6. TypeOK'
  <2>1. requestRefs' \in [Requests -> Nat]
    BY <1>1, <1>2
  <2>2. /\ requirementRefs' \in [Requirements -> Nat]
        /\ orphaned' \subseteq Requirements /\ active' \subseteq Requirements
        /\ pending' \subseteq Owners
    <3>1. CASE first /\ Leaf(p)
      <4> DEFINE d == Demand[p]
      <4>1. d \in Requirements /\ RetainRequirement(d) /\ OwnerOf[d] \in Owners
        BY <1>2, <1>4, <3>1
      <4> HIDE DEF d
      <4>2. requirementRefs' \in [Requirements -> Nat] /\ orphaned' \subseteq Requirements
        BY <4>1 DEF RetainRequirement, CountInv, TypeOK
      <4>3. active' \subseteq Requirements /\ pending' \subseteq Owners
        BY <4>1 DEF RetainRequirement, CountInv, TypeOK
      <4> QED
        BY <4>2, <4>3
    <3>2. CASE ~(first /\ Leaf(p))
      BY <1>2, <3>2 DEF CountInv, TypeOK
    <3> QED
      BY <3>1, <3>2
  <2> QED
    BY <1>2, <1>3, <2>1, <2>2 DEF CountInv, TypeOK
<1>7. RequirementsAccounted'
  <2> SUFFICES ASSUME NEW r \in Requirements
               PROVE  requirementRefs'[r] = Cardinality(Carriers(Counted', r))
    BY DEF RequirementsAccounted
  <2>1. requirementRefs[r] = Cardinality(Carriers(Counted, r)) /\ requirementRefs[r] \in Nat
    BY DEF CountInv, TypeOK, RequirementsAccounted
  <2>2. CASE first
    <3>1. Cardinality(Carriers(Counted', r))
            = Cardinality(Carriers(Counted, r)) + (IF Leaf(p) /\ Demand[p] = r THEN 1 ELSE 0)
      BY <1>1, <1>5, <2>2, CarriersAdd
    <3>2. requirementRefs'[r]
            = requirementRefs[r] + (IF Leaf(p) /\ Demand[p] = r THEN 1 ELSE 0)
      BY <1>2, <1>4, <2>1, <2>2 DEF RetainRequirement, CountInv, TypeOK
    <3> QED
      BY <2>1, <3>1, <3>2
  <2>3. CASE ~first
    BY <1>2, <1>5, <2>1, <2>3
  <2> QED
    BY <2>2, <2>3
<1>8. LedgersAgree' /\ AppliedIsActive' /\ RemovedIsPending'
  <2>1. CASE first /\ Leaf(p)
    <3> DEFINE d == Demand[p]
    <3>1. d \in Requirements /\ RetainRequirement(d)
      BY <1>2, <1>4, <2>1
    <3> HIDE DEF d
    <3>2. LedgersAgree'
      BY <1>2, <3>1 DEF RetainRequirement, CountInv, TypeOK, LedgersAgree
    <3>3. AppliedIsActive'
      BY <1>2, <3>1 DEF RetainRequirement, CountInv, AppliedIsActive
    <3>4. RemovedIsPending'
      BY <1>2, <3>1 DEF RetainRequirement, CountInv, RemovedIsPending
    <3> QED
      BY <3>2, <3>3, <3>4
  <2>2. CASE ~(first /\ Leaf(p))
    BY <1>2, <2>2 DEF CountInv, LedgersAgree, AppliedIsActive, RemovedIsPending
  <2> QED
    BY <2>1, <2>2
<1>9. CallInv'
  <2>1. ASSUME NEW i \in DOMAIN retaining' PROVE retaining'[i] \in Reached(selected)
    <3>1. /\ selected \in SUBSET Requests
          /\ Reached(selected) \in ClosedSets
      BY SelectionsAssumption, ReachedProperties DEF CountInv, TypeOK
    <3>2. p \in Reached(selected)
      BY <1>1 DEF CountInv, CallInv, p
    <3>3. \A k \in DOMAIN Children[p] : Children[p][k] \in Reached(selected)
      BY <1>1, <3>1, <3>2, ElementOfSeq DEF ClosedSets, Holds
    <3>4. \A k \in DOMAIN Tail(retaining) : Tail(retaining)[k] \in Reached(selected)
      BY <1>1, HeadTailProperties DEF CountInv, CallInv
    <3> DEFINE new == IF first THEN Children[p] ELSE <<>>
               old == Tail(retaining)
    <3>5. /\ new \in Seq(Requests) /\ old \in Seq(Requests)
          /\ retaining' = new \o old
          /\ \A k \in DOMAIN new : new[k] \in Reached(selected)
          /\ \A k \in DOMAIN old : old[k] \in Reached(selected)
      BY <1>1, <1>2, <3>3, <3>4
    <3> HIDE DEF new, old
    <3>6. /\ DOMAIN (new \o old) = 1..(Len(new) + Len(old))
          /\ \A k \in 1..(Len(new) + Len(old)) :
                (new \o old)[k] = IF k <= Len(new) THEN new[k] ELSE old[k - Len(new)]
      BY <3>5, ConcatProperties
    <3>7. DOMAIN new = 1..Len(new) /\ DOMAIN old = 1..Len(old) /\ Len(new) \in Nat /\ Len(old) \in Nat
      BY <3>5, LenProperties
    <3> QED
      BY <3>5, <3>6, <3>7
  <2>2. caller # Nobody
    BY <1>1 DEF CountInv, CallInv
  <2> QED
    BY <1>2, <2>1, <2>2 DEF CountInv, CallInv
<1> QED
  BY <1>3, <1>6, <1>7, <1>8, <1>9 DEF CountInv

\* A call of releaseRequest keeps the invariant: it never panics.
LEMMA ReleaseInv ==
  ASSUME CountInv, ReleaseRequest
  PROVE  CountInv'
<1> DEFINE p == Head(releasing)
           last == requestRefs[p] = 1
<1>1. /\ releasing \in Seq(Requests) /\ releasing # <<>>
      /\ p \in Requests
      /\ requestRefs \in [Requests -> Nat]
      /\ retaining = <<>>
  BY HeadTailProperties DEF CountInv, TypeOK, ReleaseRequest
<1>2. /\ requestRefs' = [requestRefs EXCEPT ![p] = IF @ = 0 THEN 0 ELSE @ - 1]
      /\ IF last /\ Leaf(p) THEN ReleaseRequirement(Demand[p])
         ELSE /\ panicked' = (requestRefs[p] = 0)
              /\ UNCHANGED <<requirementRefs, orphaned>>
      /\ UNCHANGED <<byConsumer, ledgers, pending, removed, caller, selected, retaining>>
  BY DEF ReleaseRequest
<1>3. RefsAccounted' /\ releasing' \in Seq(Requests) /\ requestRefs[p] # 0
  BY ReleaseRefs
<1>4. Leaf(p) => Demand[p] \in Requirements
  BY DEF Leaf
<1>5. /\ Counted' \subseteq Requests /\ p \in Counted
      /\ last => p \notin Counted' /\ Counted = Counted' \cup {p}
      /\ ~last => Counted' = Counted
  BY <1>1, <1>2, <1>3 DEF Counted
<1> HIDE DEF p, last
<1>6. ASSUME NEW r \in Requirements
      PROVE  /\ requirementRefs[r] = Cardinality(Carriers(Counted, r))
             /\ requirementRefs[r] \in Nat
             /\ last => /\ requirementRefs[r]
                             = Cardinality(Carriers(Counted', r))
                                 + (IF Leaf(p) /\ Demand[p] = r THEN 1 ELSE 0)
                        /\ Cardinality(Carriers(Counted', r)) \in Nat
  <2>1. requirementRefs[r] = Cardinality(Carriers(Counted, r)) /\ requirementRefs[r] \in Nat
    BY DEF CountInv, TypeOK, RequirementsAccounted
  <2>2. CASE last
    <3>1. p \in Requests \ Counted'
      BY <1>1, <1>5, <2>2
    <3>2. /\ Cardinality(Carriers(Counted', r)) \in Nat
          /\ Cardinality(Carriers(Counted' \cup {p}, r))
               = Cardinality(Carriers(Counted', r))
                   + (IF Leaf(p) /\ Demand[p] = r THEN 1 ELSE 0)
      BY <1>5, <3>1, CarriersAdd
    <3> QED
      BY <1>5, <2>1, <2>2, <3>2
  <2> QED
    BY <2>1, <2>2
<1>7. last /\ Leaf(p) => requirementRefs[Demand[p]] # 0
  <2> SUFFICES ASSUME last, Leaf(p) PROVE requirementRefs[Demand[p]] # 0
    OBVIOUS
  <2> DEFINE d == Demand[p]
  <2>1. /\ requirementRefs[d] = Cardinality(Carriers(Counted', d)) + 1
        /\ Cardinality(Carriers(Counted', d)) \in Nat
    BY <1>4, <1>6
  <2> QED
    BY <2>1
<1>8. ~panicked'
  BY <1>2, <1>3, <1>7 DEF ReleaseRequirement
<1>9. TypeOK'
  <2>1. requestRefs' \in [Requests -> Nat]
    BY <1>1, <1>2, <1>3
  <2>2. requirementRefs' \in [Requirements -> Nat] /\ orphaned' \subseteq Requirements
    <3>1. CASE last /\ Leaf(p)
      <4> DEFINE d == Demand[p]
      <4>1. d \in Requirements /\ ReleaseRequirement(d) /\ requirementRefs[d] # 0
        BY <1>2, <1>4, <1>7, <3>1
      <4> HIDE DEF d
      <4> QED
        BY <4>1 DEF ReleaseRequirement, CountInv, TypeOK
    <3>2. CASE ~(last /\ Leaf(p))
      BY <1>2, <3>2 DEF CountInv, TypeOK
    <3> QED
      BY <3>1, <3>2
  <2>3. /\ byConsumer' \in [Owners -> Selections]
        /\ certified' \subseteq Requirements /\ roots' \subseteq Requirements
        /\ active' \subseteq Requirements /\ applied' \subseteq Requirements
        /\ pending' \subseteq Owners /\ removed' \subseteq Owners
        /\ caller' \in Owners \cup {Nobody} /\ selected' \in Selections
        /\ retaining' \in Seq(Requests)
    BY <1>2 DEF CountInv, TypeOK, ledgers
  <2>4. panicked' \in BOOLEAN
    <3>1. CASE last /\ Leaf(p)
      BY <1>2, <3>1 DEF ReleaseRequirement
    <3>2. CASE ~(last /\ Leaf(p))
      BY <1>2, <3>2
    <3> QED
      BY <3>1, <3>2
  <2> QED
    BY <1>3, <2>1, <2>2, <2>3, <2>4 DEF TypeOK
<1>10. RequirementsAccounted'
  <2> SUFFICES ASSUME NEW r \in Requirements
               PROVE  requirementRefs'[r] = Cardinality(Carriers(Counted', r))
    BY DEF RequirementsAccounted
  <2>1. CASE last
    <3>1. requirementRefs'[r]
            = requirementRefs[r] - (IF Leaf(p) /\ Demand[p] = r THEN 1 ELSE 0)
      BY <1>2, <1>4, <1>6, <1>7, <2>1 DEF ReleaseRequirement, CountInv, TypeOK
    <3> QED
      BY <1>6, <2>1, <3>1
  <2>2. CASE ~last
    BY <1>2, <1>5, <1>6, <2>2
  <2> QED
    BY <2>1, <2>2
<1>11. LedgersAgree' /\ AppliedIsActive' /\ RemovedIsPending'
  <2>1. CASE last /\ Leaf(p)
    <3> DEFINE d == Demand[p]
    <3>1. d \in Requirements /\ ReleaseRequirement(d) /\ requirementRefs[d] # 0
      BY <1>2, <1>4, <1>7, <2>1
    <3> HIDE DEF d
    <3>2. LedgersAgree'
      BY <1>2, <3>1 DEF ReleaseRequirement, CountInv, TypeOK, LedgersAgree, ledgers
    <3>3. AppliedIsActive' /\ RemovedIsPending'
      BY <1>2 DEF CountInv, AppliedIsActive, RemovedIsPending, ledgers
    <3> QED
      BY <3>2, <3>3
  <2>2. CASE ~(last /\ Leaf(p))
    BY <1>2, <2>2 DEF CountInv, LedgersAgree, AppliedIsActive, RemovedIsPending, ledgers
  <2> QED
    BY <2>1, <2>2
<1>12. CallInv'
  <2>1. caller # Nobody
    BY <1>1 DEF CountInv, CallInv
  <2> QED
    BY <1>1, <1>2, <1>8, <2>1 DEF CountInv, CallInv
<1> QED
  BY <1>3, <1>9, <1>10, <1>11, <1>12 DEF CountInv

\* The call of Replace makes its consumer's new requests count, and leaves the
\* references it will add and drop to the calls it has to make.
LEMMA ReplaceInv ==
  ASSUME CountInv, NEW c \in Owners, NEW requests \in Selections, Replace(c, requests)
  PROVE  CountInv'
<1>1. /\ caller = Nobody /\ retaining = <<>> /\ releasing = <<>>
      /\ requests \in SUBSET Requests /\ byConsumer[c] \in SUBSET Requests
      /\ byConsumer \in [Owners -> Selections]
  BY SelectionsAssumption DEF CountInv, CallInv, TypeOK, Replace, Idle
<1>2. /\ caller' = c /\ selected' = requests
      /\ retaining' \in SetToSeqs(requests \ byConsumer[c])
      /\ releasing' \in SetToSeqs(byConsumer[c] \ requests)
      /\ UNCHANGED <<byConsumer, requestRefs, requirementRefs, orphaned, certified, roots,
                     active, applied, pending, removed, panicked>>
  BY DEF Replace, counts, ledgers
<1> DEFINE new == requests \ byConsumer[c]
           gone == byConsumer[c] \ requests
<1>3. new \in SUBSET Requests /\ gone \in SUBSET Requests
  BY <1>1
<1>4. /\ retaining' \in Seq(Requests) /\ releasing' \in Seq(Requests)
      /\ \A q : Times(retaining', q) = IF q \in new THEN 1 ELSE 0
      /\ \A q : Times(releasing', q) = IF q \in gone THEN 1 ELSE 0
  <2>1. retaining' \in SetToSeqs(new) /\ releasing' \in SetToSeqs(gone)
    BY <1>2
  <2> HIDE DEF new, gone
  <2> QED
    BY <1>3, <2>1, TimesOrdered
<1>5. \A i \in DOMAIN retaining' : retaining'[i] \in new
  BY <1>2 DEF SetToSeqs
<1> HIDE DEF new, gone
<1>6. TypeOK'
  BY <1>2, <1>4 DEF CountInv, TypeOK
<1>7. RefsAccounted'
  <2> SUFFICES ASSUME NEW q \in Requests
               PROVE  requestRefs'[q] + Times(retaining', q)
                        = Cardinality(Consumers(q)') + Cardinality(PlacesIn(Counted', q))
                            + Times(releasing', q)
    BY DEF RefsAccounted
  <2>1. /\ requestRefs'[q] = Cardinality(Consumers(q)) + Cardinality(PlacesIn(Counted', q))
        /\ Cardinality(PlacesIn(Counted', q)) \in Nat
    <3>1. /\ requestRefs[q] + Times(retaining, q)
               = Cardinality(Consumers(q)) + Cardinality(PlacesIn(Counted, q))
                   + Times(releasing, q)
          /\ requestRefs[q] \in Nat
      BY DEF CountInv, RefsAccounted, TypeOK
    <3>2. Times(retaining, q) = 0 /\ Times(releasing, q) = 0
      BY <1>1, TimesEmpty
    <3>3. Counted' = Counted /\ Counted \subseteq Requests
      BY <1>2 DEF Counted
    <3>4. Cardinality(PlacesIn(Counted, q)) \in Nat
      BY <3>3, PlacesFinite
    <3>5. Cardinality(Consumers(q)) \in Nat
      <4>1. Consumers(q) \subseteq Owners
        BY DEF Consumers
      <4> QED
        BY <4>1, FS_Subset, FS_CardinalityType
    <3> QED
      BY <1>2, <3>1, <3>2, <3>3, <3>4, <3>5
  <2>2. /\ Consumers(q) = {x \in Owners : q \in byConsumer[x]}
        /\ Consumers(q)' = {x \in Owners : q \in IF x = c THEN requests ELSE byConsumer[x]}
    BY <1>1, <1>2, OwnersAssumption DEF Consumers, Held
  <2>3. IsFiniteSet(Consumers(q)) /\ Cardinality(Consumers(q)) \in Nat
    BY <2>2, FS_Subset, FS_CardinalityType
  <2>4. CASE q \in new
    <3>1. Consumers(q)' = Consumers(q) \cup {c} /\ c \notin Consumers(q) /\ q \notin gone
      BY <2>2, <2>4 DEF new, gone
    <3>2. Cardinality(Consumers(q)') = Cardinality(Consumers(q)) + 1
      BY <2>3, <3>1, FS_AddElement
    <3>3. Times(retaining', q) = 1 /\ Times(releasing', q) = 0
      BY <1>4, <2>4, <3>1
    <3> QED
      BY <2>1, <2>3, <3>2, <3>3
  <2>5. CASE q \in gone
    <3>1. Consumers(q)' = Consumers(q) \ {c} /\ c \in Consumers(q) /\ q \notin new
      BY <2>2, <2>5 DEF new, gone
    <3>2. Cardinality(Consumers(q)') = Cardinality(Consumers(q)) - 1
      BY <2>3, <3>1, FS_RemoveElement
    <3>3. Times(retaining', q) = 0 /\ Times(releasing', q) = 1
      BY <1>4, <2>5, <3>1
    <3> QED
      BY <2>1, <2>3, <3>2, <3>3
  <2>6. CASE q \notin new /\ q \notin gone
    <3>1. Consumers(q)' = Consumers(q)
      BY <2>2, <2>6 DEF new, gone
    <3>2. Times(retaining', q) = 0 /\ Times(releasing', q) = 0
      BY <1>4, <2>6
    <3> QED
      BY <2>1, <2>3, <3>1, <3>2
  <2> QED
    BY <2>4, <2>5, <2>6
<1>8. CallInv'
  <2>1. requests \subseteq Reached(requests)
    BY <1>1, ReachedProperties
  <2>2. \A i \in DOMAIN retaining' : retaining'[i] \in Reached(selected')
    BY <1>2, <1>5, <2>1 DEF new
  <2>3. caller' # Nobody
    BY <1>2, OwnersAssumption
  <2>4. ~panicked'
    BY <1>2 DEF CountInv, CallInv
  <2> QED
    BY <2>2, <2>3, <2>4 DEF CallInv
<1>9. RequirementsAccounted' /\ LedgersAgree' /\ AppliedIsActive' /\ RemovedIsPending'
  BY <1>2 DEF CountInv, RequirementsAccounted, Counted, LedgersAgree, AppliedIsActive,
              RemovedIsPending
<1> QED
  BY <1>6, <1>7, <1>8, <1>9 DEF CountInv

\* The counts, and what they are counts of, are left alone by a step that
\* leaves these variables alone.
LEMMA SameRefs ==
  ASSUME CountInv, \A q : Consumers(q)' = Consumers(q),
         UNCHANGED <<requestRefs, requirementRefs, retaining, releasing>>
  PROVE  RefsAccounted' /\ RequirementsAccounted'
BY DEF CountInv, RefsAccounted, RequirementsAccounted, Counted

\* The return of Replace commits what was held already.
LEMMA ReplacedInv ==
  ASSUME CountInv, Replaced
  PROVE  CountInv'
<1>1. caller \in Owners /\ byConsumer \in [Owners -> Selections] /\ selected \in Selections
  BY DEF CountInv, TypeOK, Replaced
<1>2. /\ byConsumer' = [byConsumer EXCEPT ![caller] = selected]
      /\ caller' = Nobody /\ selected' = {}
      /\ retaining' = <<>> /\ releasing' = <<>>
      /\ UNCHANGED <<requestRefs, requirementRefs, orphaned, certified, roots, active,
                     applied, pending, removed, panicked, retaining, releasing>>
  BY DEF Replaced, counts, ledgers
<1>3. \A c \in Owners : Held(c)' = Held(c)
  BY <1>1, <1>2, OwnersAssumption DEF Held
<1>4. \A q : Consumers(q)' = Consumers(q)
  BY <1>3 DEF Consumers
<1>5. TypeOK'
  <2>1. byConsumer' \in [Owners -> Selections]
    BY <1>1, <1>2
  <2> QED
    BY <1>2, <2>1, SelectionsAssumption, EmptySeq DEF CountInv, TypeOK
<1>6. RefsAccounted' /\ RequirementsAccounted'
  BY <1>2, <1>4, SameRefs
<1>7. CallInv'
  BY <1>2 DEF CountInv, CallInv
<1>8. LedgersAgree' /\ AppliedIsActive' /\ RemovedIsPending'
  BY <1>2 DEF CountInv, LedgersAgree, AppliedIsActive, RemovedIsPending
<1> QED
  BY <1>5, <1>6, <1>7, <1>8 DEF CountInv

\* The operations that touch no request keep the counts.
LEMMA OperationInv ==
  ASSUME CountInv,
         \/ \E requirements \in CertifiedSets : InstallCertified(requirements)
         \/ \E r \in Requirements : Enqueue(r)
         \/ \E o \in Owners : NextBatch(o)
         \/ FinalizeRemovals
  PROVE  CountInv'
<1>1. UNCHANGED <<byConsumer, requestRefs, requirementRefs, panicked, caller, selected,
                  retaining, releasing>>
  BY DEF InstallCertified, Enqueue, NextBatch, FinalizeRemovals, counts, ledgers, call
<1>2. \A q : Consumers(q)' = Consumers(q)
  BY <1>1, SameCounts
<1>3. RefsAccounted' /\ RequirementsAccounted'
  BY <1>1, <1>2, SameRefs
<1>4. CallInv'
  BY <1>1 DEF CountInv, CallInv
<1>5. /\ orphaned \subseteq Requirements /\ certified \subseteq Requirements
      /\ roots \subseteq Requirements /\ active \subseteq Requirements
      /\ applied \subseteq Requirements
      /\ pending \subseteq Owners /\ removed \subseteq Owners
      /\ requirementRefs \in [Requirements -> Nat]
      /\ LedgersAgree /\ AppliedIsActive /\ RemovedIsPending
  BY DEF CountInv, TypeOK
<1>6. /\ orphaned' \subseteq Requirements /\ certified' \subseteq Requirements
      /\ roots' \subseteq Requirements /\ active' \subseteq Requirements
      /\ applied' \subseteq Requirements
      /\ pending' \subseteq Owners /\ removed' \subseteq Owners
      /\ LedgersAgree' /\ AppliedIsActive' /\ RemovedIsPending'
  <2>1. CASE \E requirements \in CertifiedSets : InstallCertified(requirements)
    BY <1>5, <2>1, CertifiedAssumption
    DEF InstallCertified, counts, LedgersAgree, AppliedIsActive, RemovedIsPending
  <2>2. CASE \E r \in Requirements : Enqueue(r)
    <3>1. PICK r \in Requirements : Enqueue(r)
      BY <2>2
    <3>2. OwnerOf[r] \in Owners
      OBVIOUS
    <3>3. LedgersAgree'
      BY <1>5, <3>1 DEF Enqueue, counts, LedgersAgree
    <3>4. AppliedIsActive' /\ RemovedIsPending'
      BY <1>5, <3>1 DEF Enqueue, counts, AppliedIsActive, RemovedIsPending
    <3> QED
      BY <1>5, <3>1, <3>2, <3>3, <3>4 DEF Enqueue, counts
  <2>3. CASE \E o \in Owners : NextBatch(o)
    <3>1. PICK o \in Owners : NextBatch(o)
      BY <2>3
    <3>2. LedgersAgree'
      BY <1>5, <3>1 DEF NextBatch, counts, LedgersAgree
    <3>3. AppliedIsActive' /\ RemovedIsPending'
      BY <1>5, <3>1 DEF NextBatch, OwnedBy, AppliedIsActive, RemovedIsPending
    <3> QED
      BY <1>5, <3>1, <3>2, <3>3 DEF NextBatch, counts, OwnedBy
  <2>4. CASE FinalizeRemovals
    <3>1. /\ orphaned' = {} /\ active' = active \ Withdrawn
          /\ pending' = {OwnerOf[r] : r \in Withdrawn}
          /\ removed' = removed \cup {OwnerOf[r] : r \in Withdrawn}
          /\ UNCHANGED <<requirementRefs, certified, roots, applied>>
          /\ pending = {}
      BY <2>4 DEF FinalizeRemovals
    <3>2. /\ Withdrawn \subseteq orphaned
          /\ \A r \in Withdrawn : r \notin roots /\ requirementRefs[r] = 0
          /\ \A r \in orphaned : r \in Withdrawn \/ r \in roots \/ requirementRefs[r] # 0
      BY DEF Withdrawn
    <3> HIDE DEF Withdrawn
    <3>3. LedgersAgree'
      BY <1>5, <3>1, <3>2 DEF LedgersAgree
    <3>4. AppliedIsActive' /\ RemovedIsPending'
      BY <1>5, <3>1, <3>2 DEF AppliedIsActive, RemovedIsPending
    <3>5. pending' \subseteq Owners /\ removed' \subseteq Owners
      BY <1>5, <3>1, <3>2
    <3> QED
      BY <1>5, <3>1, <3>3, <3>4, <3>5
  <2> QED
    BY <2>1, <2>2, <2>3, <2>4
<1>7. TypeOK'
  BY <1>1, <1>6 DEF CountInv, TypeOK
<1> QED
  BY <1>3, <1>4, <1>6, <1>7 DEF CountInv

\* Every step keeps the invariant.
LEMMA NextCountInv == CountInv /\ [Next]_vars => CountInv'
<1> SUFFICES ASSUME CountInv, [Next]_vars PROVE CountInv'
  OBVIOUS
<1>1. ASSUME NEW c \in Owners, NEW requests \in Selections, Replace(c, requests)
      PROVE  CountInv'
  BY <1>1, ReplaceInv
<1>2. CASE RetainRequest
  BY <1>2, RetainInv
<1>3. CASE ReleaseRequest
  BY <1>3, ReleaseInv
<1>4. CASE Replaced
  BY <1>4, ReplacedInv
<1>5. CASE \/ \E requirements \in CertifiedSets : InstallCertified(requirements)
           \/ \E r \in Requirements : Enqueue(r)
           \/ \E o \in Owners : NextBatch(o)
           \/ FinalizeRemovals
  BY <1>5, OperationInv
<1>6. CASE UNCHANGED vars
  <2>1. UNCHANGED <<byConsumer, requestRefs, requirementRefs, orphaned, certified, roots,
                    active, applied, pending, removed, panicked, caller, selected,
                    retaining, releasing>>
    BY <1>6 DEF vars, counts, ledgers, call
  <2> QED
    BY <2>1 DEF CountInv, TypeOK, RefsAccounted, RequirementsAccounted, LedgersAgree,
                AppliedIsActive, RemovedIsPending, CallInv, Counted, Consumers, Held
<1> QED
  BY <1>1, <1>2, <1>3, <1>4, <1>5, <1>6 DEF Next

\* The invariant holds throughout.
THEOREM CountInvariant == Spec => []CountInv
<1> QED
  BY InitCountInv, NextCountInv, PTL DEF Spec

-----------------------------------------------------------------------------
(* What the invariant says between calls *)

\* What the members of some sets demand is what the sets demand.
LEMMA DemandedUnion ==
  ASSUME NEW f, DOMAIN f = Owners
  PROVE  Demanded(UNION {f[c] : c \in Owners}) = UNION {Demanded(f[c]) : c \in Owners}
<1> HIDE DEF Carried
<1>1. \A set, r : r \in Demanded(set) <=> \E q \in set : r \in Carried[q]
  BY DEF Demanded
<1> HIDE DEF Demanded
<1>2. \A r : r \in Demanded(UNION {f[c] : c \in Owners})
               <=> \E c \in Owners : r \in Demanded(f[c])
  BY <1>1
<1>3. \A r : r \in UNION {Demanded(f[c]) : c \in Owners}
               <=> \E c \in Owners : r \in Demanded(f[c])
  OBVIOUS
<1> QED
  BY <1>2, <1>3

\* Nothing is demanded by nobody, only requirements are demanded, and a larger
\* set demands more.
LEMMA DemandedBounds ==
  /\ Demanded({}) = {}
  /\ \A set \in SUBSET Requests : Demanded(set) \subseteq Requirements
  /\ \A set, larger : set \subseteq larger => Demanded(set) \subseteq Demanded(larger)
<1>1. ASSUME NEW set \in SUBSET Requests PROVE Demanded(set) \subseteq Requirements
  BY DemandedProperties DEF Leaf
<1> HIDE DEF Carried
<1> QED
  BY <1>1 DEF Demanded

\* Between calls what is held is what is committed.
LEMMA IdleHeld ==
  ASSUME CountInv, Idle
  PROVE  /\ retaining = <<>> /\ releasing = <<>> /\ selected = {}
         /\ \A c \in Owners : Held(c) = byConsumer[c]
         /\ HeldRequests = UNION {byConsumer[c] : c \in Owners}
<1>1. retaining = <<>> /\ releasing = <<>> /\ selected = {} /\ caller = Nobody
  BY DEF CountInv, CallInv, Idle
<1>2. \A c \in Owners : Held(c) = byConsumer[c]
  BY <1>1, OwnersAssumption DEF Held
<1> QED
  BY <1>1, <1>2 DEF HeldRequests

\* Between calls the counted requests are the reached ones, and the counted
\* requirements the demanded ones.
LEMMA IdleCounts ==
  ASSUME CountInv, Idle
  PROVE  /\ Counted = LiveRequests
         /\ Live = roots \cup {r \in Requirements : requirementRefs[r] # 0}
<1>1. /\ retaining = <<>> /\ releasing = <<>>
      /\ HeldRequests = UNION {byConsumer[c] : c \in Owners}
  BY IdleHeld
<1>2. Counted = LiveRequests
  BY <1>1, CountedIsReached DEF CountInv, LiveRequests
<1>3. \A r \in Requirements : requirementRefs[r] # 0 <=> r \in Demanded(HeldRequests)
  BY <1>1, CountedIsDemanded DEF CountInv
<1>4. HeldRequests \in SUBSET Requests
  BY SelectionsAssumption DEF HeldRequests, Held, CountInv, TypeOK
<1>5. Demanded(HeldRequests) \subseteq Requirements
  BY <1>4, DemandedBounds
<1> QED
  BY <1>1, <1>2, <1>3, <1>5 DEF Live

\* The counts between calls.
LEMMA CountInvExact == CountInv => CountsExact
<1> SUFFICES ASSUME CountInv PROVE CountsExact
  OBVIOUS
<1>1. ~panicked
  BY DEF CountInv, CallInv
<1>2. ASSUME Idle, NEW q \in Requests
      PROVE  requestRefs[q] = Cardinality({c \in Owners : q \in byConsumer[c]})
                                  + Cardinality(LivePlaces(q))
  <2>1. Times(retaining, q) = 0 /\ Times(releasing, q) = 0
    BY <1>2, IdleHeld, TimesEmpty
  <2>2. Consumers(q) = {c \in Owners : q \in byConsumer[c]}
    BY <1>2, IdleHeld DEF Consumers
  <2>3. PlacesIn(Counted, q) = LivePlaces(q)
    BY <1>2, IdleCounts DEF PlacesIn, LivePlaces
  <2>4. requestRefs[q] + Times(retaining, q)
          = Cardinality(Consumers(q)) + Cardinality(PlacesIn(Counted, q))
              + Times(releasing, q)
    BY DEF CountInv, RefsAccounted
  <2>5. requestRefs[q] \in Nat
    BY DEF CountInv, TypeOK
  <2>6. Cardinality(Consumers(q)) \in Nat /\ Cardinality(PlacesIn(Counted, q)) \in Nat
    <3>1. Consumers(q) \subseteq Owners /\ Counted \subseteq Requests
      BY DEF Consumers, Counted
    <3> QED
      BY <3>1, FS_Subset, FS_CardinalityType, PlacesFinite
  <2> QED
    BY <2>1, <2>2, <2>3, <2>4, <2>5, <2>6
<1>3. ASSUME Idle, NEW r \in Requirements
      PROVE  requirementRefs[r] = Cardinality({q \in LiveRequests : Leaf(q) /\ Demand[q] = r})
  <2>1. Carriers(Counted, r) = {q \in LiveRequests : Leaf(q) /\ Demand[q] = r}
    BY <1>3, IdleCounts DEF Carriers
  <2> QED
    BY <2>1 DEF CountInv, RequirementsAccounted
<1> QED
  BY <1>1, <1>2, <1>3 DEF CountsExact

\* The ledgers between calls.
LEMMA CountInvLedgers ==
  CountInv => OrphansAreTheDead /\ LiveIsActive /\ SettledAppliesLive
<1> SUFFICES ASSUME CountInv, Idle
             PROVE  /\ orphaned \ roots = active \ Live
                    /\ Live \subseteq active
                    /\ pending = {} /\ orphaned = {} => applied = Live
  BY DEF OrphansAreTheDead, LiveIsActive, SettledAppliesLive
<1>1. Live = roots \cup {r \in Requirements : requirementRefs[r] # 0}
  BY IdleCounts
<1>2. /\ LedgersAgree /\ AppliedIsActive
      /\ active \subseteq Requirements /\ applied \subseteq Requirements
  BY DEF CountInv, TypeOK
<1>3. orphaned \ roots = active \ Live /\ Live \subseteq active
  BY <1>1, <1>2 DEF LedgersAgree
<1>4. ASSUME pending = {}, orphaned = {} PROVE applied = Live
  <2>1. active = Live
    BY <1>1, <1>2, <1>4 DEF LedgersAgree
  <2>2. applied = active
    BY <1>2, <1>4 DEF AppliedIsActive
  <2> QED
    BY <2>1, <2>2
<1> QED
  BY <1>3, <1>4

-----------------------------------------------------------------------------
(* The properties, whatever the requests and however they share each other *)

\* Every variable keeps its Go type: no count goes below zero.
THEOREM SchedulerTypeOK == Spec => []TypeOK
<1>1. CountInv => TypeOK
  BY DEF CountInv
<1> QED
  BY <1>1, CountInvariant, PTL

\* The counts kept on a shared graph are exact between calls, and the panic of
\* releaseRequest is never reached.
THEOREM ExactCounts == Spec => []CountsExact
BY CountInvExact, CountInvariant, PTL

\* The orphans are exactly what is in force and dead.
THEOREM ExactOrphans == Spec => []OrphansAreTheDead
BY CountInvLedgers, CountInvariant, PTL

\* What something still needs is in force.
THEOREM LiveInForce == Spec => []LiveIsActive
BY CountInvLedgers, CountInvariant, PTL

\* The mark of a removal leaves with its batch.
THEOREM RemovalMarks == Spec => []RemovedIsPending
<1>1. CountInv => RemovedIsPending
  BY DEF CountInv
<1> QED
  BY <1>1, CountInvariant, PTL

\* When nothing is left to do, exactly the live requirements are applied.
THEOREM SettledIsLive == Spec => []SettledAppliesLive
BY CountInvLedgers, CountInvariant, PTL

-----------------------------------------------------------------------------
(* The scheduler that counts is the scheduler that computes liveness.  A step
   is seen through three things: what the consumers demand, what is in force or
   about to be, and the owners due a batch or about to be. *)

InForce == active \cup Demanded(selected)

Due == pending \cup {OwnerOf[r] : r \in Demanded(selected) \ active}

\* Between calls nothing is about to be.
LEMMA IdleView ==
  ASSUME CountInv, Idle
  PROVE  /\ InForce = active /\ Due = pending /\ Demanded(selected) = {}
         /\ \A c \in Owners : Requested(c) = Demanded(byConsumer[c])
<1>1. selected = {} /\ \A c \in Owners : Held(c) = byConsumer[c]
  BY IdleHeld
<1>2. Demanded({}) = {}
  BY DemandedBounds
<1>3. \A c : Requested(c) = Demanded(Held(c))
  BY DEF Requested, Held
<1> QED
  BY <1>1, <1>2, <1>3 DEF InForce, Due

\* The view of a step that leaves calls and ledgers alone.
LEMMA SameView ==
  ASSUME UNCHANGED <<byConsumer, caller, selected, active, pending>>
  PROVE  /\ InForce' = InForce /\ Due' = Due
         /\ \A c : Requested(c)' = Requested(c)
BY DEF InForce, Due, Requested

\* The calls of retainRequest put in force what the call of Replace announced.
LEMMA RetainView ==
  ASSUME CountInv, RetainRequest
  PROVE  /\ InForce' = InForce /\ Due' = Due
         /\ \A c : Requested(c)' = Requested(c)
<1> DEFINE p == Head(retaining)
           first == requestRefs[p] = 0
<1>1. /\ p \in Requests /\ p \in Reached(selected)
      /\ selected \in SUBSET Requests
  BY HeadTailProperties, SelectionsAssumption DEF CountInv, TypeOK, CallInv, RetainRequest
<1>2. /\ IF first /\ Leaf(p) THEN RetainRequirement(Demand[p])
         ELSE UNCHANGED <<requirementRefs, orphaned, active, pending>>
      /\ UNCHANGED <<byConsumer, caller, selected>>
  BY DEF RetainRequest
<1> HIDE DEF p, first
<1>3. Leaf(p) => Demand[p] \in Demanded(selected)
  BY <1>1, DemandedProperties
<1>4. \A c : Requested(c)' = Requested(c)
  BY <1>2 DEF Requested
<1>5. InForce' = InForce /\ Due' = Due
  <2>1. CASE first /\ Leaf(p)
    <3> DEFINE d == Demand[p]
               wanted == Demanded(selected)
    <3>1. RetainRequirement(d) /\ d \in wanted /\ wanted' = wanted
      BY <1>2, <1>3, <2>1
    <3>2. /\ InForce = active \cup wanted /\ InForce' = active' \cup wanted'
          /\ Due = pending \cup {OwnerOf[r] : r \in wanted \ active}
          /\ Due' = pending' \cup {OwnerOf[r] : r \in wanted' \ active'}
      BY DEF InForce, Due
    <3> HIDE DEF d, wanted
    <3> QED
      BY <3>1, <3>2 DEF RetainRequirement
  <2>2. CASE ~(first /\ Leaf(p))
    BY <1>2, <2>2, SameView
  <2> QED
    BY <2>1, <2>2
<1> QED
  BY <1>4, <1>5

\* When Replace returns, all it announced is in force.
LEMMA ReplacedView ==
  ASSUME CountInv, Replaced
  PROVE  /\ InForce' = InForce /\ Due' = Due
         /\ \A c \in Owners : Requested(c)' = Requested(c)
<1>1. /\ caller \in Owners /\ retaining = <<>> /\ releasing = <<>>
      /\ byConsumer \in [Owners -> Selections] /\ selected \in SUBSET Requests
  BY SelectionsAssumption DEF CountInv, TypeOK, Replaced
<1>2. /\ byConsumer' = [byConsumer EXCEPT ![caller] = selected]
      /\ caller' = Nobody /\ selected' = {}
      /\ UNCHANGED <<active, pending>>
  BY DEF Replaced, counts, ledgers
<1>3. \A c \in Owners : Requested(c)' = Requested(c)
  BY <1>1, <1>2, OwnersAssumption DEF Requested
<1>4. Demanded(selected) \subseteq active
  <2>1. selected \subseteq HeldRequests
    BY <1>1 DEF HeldRequests, Held
  <2>2. Demanded(selected) \subseteq Demanded(HeldRequests)
    BY <2>1, DemandedBounds
  <2>3. Demanded(selected) \subseteq Requirements
    BY <1>1, DemandedBounds
  <2>4. \A r \in Requirements : requirementRefs[r] # 0 <=> r \in Demanded(HeldRequests)
    BY <1>1, CountedIsDemanded DEF CountInv
  <2> QED
    BY <2>2, <2>3, <2>4 DEF CountInv, LedgersAgree
<1>5. Demanded(selected') = {}
  BY <1>2, DemandedBounds
<1> HIDE DEF Carried
<1> QED
  BY <1>2, <1>3, <1>4, <1>5 DEF InForce, Due

\* A step that shows nothing.
LEMMA Shown ==
  ASSUME \A c \in Owners : Requested(c)' = Requested(c),
         InForce' = InForce, Due' = Due,
         UNCHANGED <<roots, applied, removed>>
  PROVE  UNCHANGED Liveness!vars
<1>1. [c \in Owners |-> Requested(c)]' = [c \in Owners |-> Requested(c)]
  OBVIOUS
<1> QED
  BY <1>1 DEF Liveness!vars, InForce, Due

\* The call of Replace is the promise's Replace.
LEMMA ReplaceRefines ==
  ASSUME CountInv, NEW c \in Owners, NEW requests \in Selections, Replace(c, requests)
  PROVE  Liveness!Replace(c, Demanded(requests)) /\ Demanded(requests) \in SUBSET Requirements
<1> DEFINE wanted == Demanded(requests)
           had == Demanded(byConsumer[c])
           view == [x \in Owners |-> Requested(x)]
<1>1. /\ Idle /\ caller' = c /\ selected' = requests
      /\ UNCHANGED <<byConsumer, roots, active, applied, pending, removed>>
  BY DEF Replace, ledgers
<1>2. /\ InForce = active /\ Due = pending
      /\ \A x \in Owners : Requested(x) = Demanded(byConsumer[x])
  BY <1>1, IdleView
<1>3. had \subseteq active
  <2>1. byConsumer[c] \subseteq UNION {byConsumer[x] : x \in Owners}
    OBVIOUS
  <2>2. had \subseteq Live
    BY <2>1, DemandedBounds DEF Live
  <2> QED
    BY <1>1, <2>2, CountInvLedgers DEF LiveIsActive
<1>4. wanted \in SUBSET Requirements
  BY SelectionsAssumption, DemandedBounds
<1>5. /\ InForce' = active \cup wanted
      /\ Due' = pending \cup {OwnerOf[r] : r \in wanted \ active}
  BY <1>1 DEF InForce, Due
<1>6. view' = [view EXCEPT ![c] = wanted]
  <2>1. \A x \in Owners : Requested(x)' = IF x = c THEN wanted ELSE Requested(x)
    <3> SUFFICES ASSUME NEW x \in Owners
                 PROVE  Requested(x)' = IF x = c THEN wanted ELSE Requested(x)
      OBVIOUS
    <3>1. CASE x = c
      BY <1>1, <3>1 DEF Requested
    <3>2. CASE x # c
      BY <1>1, <1>2, <3>2 DEF Requested
    <3> QED
      BY <3>1, <3>2
  <2> HIDE DEF wanted
  <2> QED
    BY <2>1
<1>7. view[c] = had
  BY <1>2
<1>8. /\ InForce' = InForce \cup (wanted \ view[c])
      /\ Due' = Due \cup {OwnerOf[r] : r \in (wanted \ view[c]) \ InForce}
  <2> HIDE DEF wanted, had, view
  <2> QED
    BY <1>2, <1>3, <1>5, <1>7
<1> HIDE DEF wanted
<1> QED
  BY <1>1, <1>4, <1>6, <1>8
  DEF Liveness!Replace, Liveness!Activate, Liveness!OwnersOf, InForce, Due, wanted

\* FinalizeRemovals, which looks at the orphans, withdraws what is dead.
LEMMA WithdrawnIsDead ==
  ASSUME CountInv, Idle
  PROVE  Withdrawn = Liveness!Dead
<1>1. Liveness!Dead = InForce \ (roots \cup UNION {Requested(c) : c \in Owners})
  <2>1. {[x \in Owners |-> Requested(x)][c] : c \in Owners} = {Requested(c) : c \in Owners}
    OBVIOUS
  <2> QED
    BY <2>1 DEF Liveness!Dead, Liveness!Live, InForce
<1>2. UNION {Requested(c) : c \in Owners} = Demanded(UNION {byConsumer[c] : c \in Owners})
  <2>1. DOMAIN byConsumer = Owners
    BY DEF CountInv, TypeOK
  <2>2. UNION {Requested(c) : c \in Owners} = UNION {Demanded(byConsumer[c]) : c \in Owners}
    <3>1. \A c \in Owners : Requested(c) = Demanded(byConsumer[c])
      BY IdleView
    <3> QED
      BY <3>1
  <2>3. Demanded(UNION {byConsumer[c] : c \in Owners})
          = UNION {Demanded(byConsumer[c]) : c \in Owners}
    BY <2>1, DemandedUnion
  <2> QED
    BY <2>2, <2>3
<1>3. Liveness!Dead = active \ Live
  BY <1>1, <1>2, IdleView DEF Live
<1>4. Live = roots \cup {r \in Requirements : requirementRefs[r] # 0}
  BY IdleCounts
<1>5. LedgersAgree /\ active \subseteq Requirements
  BY DEF CountInv, TypeOK
<1> QED
  BY <1>3, <1>4, <1>5 DEF LedgersAgree, Withdrawn

\* Every step of the scheduler is a step of its promise, or shows nothing.
LEMMA NextRefines == CountInv /\ [Next]_vars => [Liveness!Next]_Liveness!vars
<1> SUFFICES ASSUME CountInv, [Next]_vars PROVE [Liveness!Next]_Liveness!vars
  OBVIOUS
<1>1. ASSUME NEW c \in Owners, NEW requests \in Selections, Replace(c, requests)
      PROVE  Liveness!Next
  <2>1. PICK wanted \in SUBSET Requirements : Liveness!Replace(c, wanted)
    BY <1>1, ReplaceRefines
  <2> QED
    BY <2>1 DEF Liveness!Next
<1>2. ASSUME RetainRequest PROVE UNCHANGED Liveness!vars
  <2>1. UNCHANGED <<roots, applied, removed>>
    BY <1>2 DEF RetainRequest
  <2> QED
    BY <1>2, <2>1, RetainView, Shown
<1>3. ASSUME ReleaseRequest PROVE UNCHANGED Liveness!vars
  <2>1. UNCHANGED <<byConsumer, caller, selected, active, pending, roots, applied, removed>>
    BY <1>3 DEF ReleaseRequest, ledgers
  <2> QED
    BY <2>1, SameView, Shown
<1>4. ASSUME Replaced PROVE UNCHANGED Liveness!vars
  <2>1. UNCHANGED <<roots, applied, removed>>
    BY <1>4 DEF Replaced, ledgers
  <2> QED
    BY <1>4, <2>1, ReplacedView, Shown
<1>5. ASSUME NEW requirements \in CertifiedSets, InstallCertified(requirements)
      PROVE  UNCHANGED Liveness!vars
  <2>1. UNCHANGED <<byConsumer, caller, selected, active, pending, roots, applied, removed>>
    BY <1>5 DEF InstallCertified, call
  <2> QED
    BY <2>1, SameView, Shown
<1>6. ASSUME NEW r \in Requirements, Enqueue(r) PROVE Liveness!Next
  <2>1. /\ Idle
        /\ roots' = roots \cup {r} /\ active' = active \cup {r}
        /\ pending' = IF r \in active THEN pending ELSE pending \cup {OwnerOf[r]}
        /\ UNCHANGED <<byConsumer, applied, removed, caller, selected>>
    BY <1>6 DEF Enqueue, call
  <2>2. InForce = active /\ Due = pending /\ Demanded(selected) = {}
    BY <2>1, IdleView
  <2>3. InForce' = active' /\ Due' = pending'
    BY <2>1, <2>2 DEF InForce, Due
  <2>4. [c \in Owners |-> Requested(c)]' = [c \in Owners |-> Requested(c)]
    BY <2>1 DEF Requested
  <2>5. /\ InForce' = InForce \cup {r}
        /\ Due' = Due \cup {OwnerOf[x] : x \in {r} \ InForce}
    BY <2>1, <2>2, <2>3
  <2>6. Liveness!Enqueue({r})
    BY <2>1, <2>4, <2>5
    DEF Liveness!Enqueue, Liveness!Activate, Liveness!OwnersOf, InForce, Due
  <2>7. {r} \in SUBSET Requirements
    OBVIOUS
  <2> QED
    BY <2>6, <2>7 DEF Liveness!Next
<1>7. ASSUME NEW o \in Owners, NextBatch(o) PROVE Liveness!Next
  <2>1. /\ Idle /\ o \in pending
        /\ pending' = pending \ {o} /\ removed' = removed \ {o}
        /\ applied' = (applied \ OwnedBy(o)) \cup (active \cap OwnedBy(o))
        /\ UNCHANGED <<byConsumer, roots, active, caller, selected>>
    BY <1>7 DEF NextBatch, call
  <2>2. InForce = active /\ Due = pending /\ Demanded(selected) = {}
    BY <2>1, IdleView
  <2>3. InForce' = active' /\ Due' = pending'
    BY <2>1, <2>2 DEF InForce, Due
  <2>4. [c \in Owners |-> Requested(c)]' = [c \in Owners |-> Requested(c)]
    BY <2>1 DEF Requested
  <2>5. /\ InForce' = InForce /\ Due' = Due \ {o} /\ o \in Due
        /\ applied' = (applied \ OwnedBy(o)) \cup (InForce \cap OwnedBy(o))
    BY <2>1, <2>2, <2>3
  <2>6. Liveness!NextBatch(o)
    BY <2>1, <2>4, <2>5 DEF Liveness!NextBatch, Liveness!OwnedBy, OwnedBy, InForce, Due
  <2> QED
    BY <2>6 DEF Liveness!Next
<1>8. ASSUME FinalizeRemovals PROVE [Liveness!Next]_Liveness!vars
  <2>1. /\ Idle /\ pending = {}
        /\ active' = active \ Withdrawn
        /\ pending' = {OwnerOf[r] : r \in Withdrawn}
        /\ removed' = removed \cup {OwnerOf[r] : r \in Withdrawn}
        /\ UNCHANGED <<byConsumer, roots, applied, caller, selected>>
    BY <1>8 DEF FinalizeRemovals, call
  <2>2. InForce = active /\ Due = pending /\ Demanded(selected) = {}
    BY <2>1, IdleView
  <2>3. InForce' = active' /\ Due' = pending'
    BY <2>1, <2>2 DEF InForce, Due
  <2>4. \A c \in Owners : Requested(c)' = Requested(c)
    BY <2>1 DEF Requested
  <2>5. Withdrawn = Liveness!Dead
    BY <2>1, WithdrawnIsDead
  <2>6. CASE Withdrawn = {}
    <3>1. InForce' = InForce /\ Due' = Due /\ removed' = removed
      BY <2>1, <2>2, <2>3, <2>6
    <3> QED
      BY <2>1, <2>4, <3>1, Shown
  <2>7. CASE Withdrawn # {}
    <3>1. [c \in Owners |-> Requested(c)]' = [c \in Owners |-> Requested(c)]
      BY <2>4
    <3>2. /\ Due = {} /\ InForce' = InForce \ Withdrawn
          /\ Due' = {OwnerOf[r] : r \in Withdrawn}
      BY <2>1, <2>2, <2>3
    <3> HIDE DEF Withdrawn
    <3>3. Liveness!FinalizeRemovals
      BY <2>1, <2>5, <2>7, <3>1, <3>2
      DEF Liveness!FinalizeRemovals, Liveness!OwnersOf, InForce, Due
    <3> QED
      BY <3>3 DEF Liveness!Next
  <2> QED
    BY <2>6, <2>7
<1>9. ASSUME UNCHANGED vars PROVE UNCHANGED Liveness!vars
  <2>1. UNCHANGED <<byConsumer, caller, selected, active, pending, roots, applied, removed>>
    BY <1>9 DEF vars, ledgers, call
  <2> QED
    BY <2>1, SameView, Shown
<1> QED
  BY <1>1, <1>2, <1>3, <1>4, <1>5, <1>6, <1>7, <1>8, <1>9 DEF Next

\* The reference-counting scheduler implements its promise: a call of Replace
\* takes effect, as a whole, when it is made.
THEOREM SchedulerImplementsLiveness == Spec => ImplementsLiveness
<1>1. Init => Liveness!Init
  <2> SUFFICES ASSUME Init PROVE Liveness!Init
    OBVIOUS
  <2>1. /\ byConsumer = [c \in Owners |-> {}] /\ selected = {}
        /\ roots = {} /\ active = {} /\ applied = {} /\ pending = {} /\ removed = {}
    BY DEF Init
  <2>2. Demanded({}) = {}
    BY DemandedBounds
  <2>3. \A c \in Owners : Requested(c) = {}
    BY <2>1, <2>2 DEF Requested
  <2>4. [c \in Owners |-> Requested(c)] = [c \in Owners |-> {}]
    BY <2>3
  <2> QED
    BY <2>1, <2>2, <2>4 DEF Liveness!Init
<1> QED
  BY <1>1, NextRefines, CountInvariant, PTL DEF Spec, ImplementsLiveness, Liveness!Spec
=============================================================================
