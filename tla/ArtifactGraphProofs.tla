------------------------ MODULE ArtifactGraphProofs ------------------------
(***************************************************************************)
(* Proofs about the artifact graph, for any sets of owners, facets,        *)
(* contents and subscriptions, and about the structures it keeps them in,  *)
(* for any number of owners and of revisions.                              *)
(*                                                                         *)
(* The structures come first: the heap of dirty owners, the batch made     *)
(* from it and the history of contracts.  Their loops are recursive        *)
(* functions of the number of turns; what holds after each turn is shown   *)
(* by induction over the set of turns after which it holds.                *)
(*                                                                         *)
(* The invariants of the graph are proved together: that no invalidation   *)
(* is lost rests on the exactness of the reverse index.                    *)
(***************************************************************************)
EXTENDS ArtifactStorage, SequenceTheorems, FiniteSetTheorems, WellFoundedInduction, TLAPS

-----------------------------------------------------------------------------
(* Induction *)

\* The first n members of a sequence.
Firsts(s, n) == {s[i] : i \in 1..n}

\* The order of the natural numbers is well founded.
LEMMA OrderWellFounded ==
  \E R : IsWellFoundedOn(R, Nat) /\ \A m, n \in Nat : m < n => <<m, n>> \in R
<1>1. IsWellFoundedOn(OpToRel(<, Nat), Nat)
  BY NatLessThanWellFounded
<1>2. \A m, n \in Nat : m < n => <<m, n>> \in OpToRel(<, Nat)
  BY DEF OpToRel
<1> QED
  BY <1>1, <1>2

\* A set of natural numbers has a least member.
LEMMA LeastNumber ==
  ASSUME NEW T \in SUBSET Nat, T # {}
  PROVE  \E m \in T : \A n \in T : m <= n
<1>1. PICK R : IsWellFoundedOn(R, Nat) /\ \A m, n \in Nat : m < n => <<m, n>> \in R
  BY OrderWellFounded
<1>2. PICK m \in T : \A n \in T : ~(<<n, m>> \in R)
  <2>1. IsWellFoundedOn(R, Nat) /\ T \subseteq Nat /\ T # {}
    BY <1>1
  <2> QED
    BY <2>1, WFMin, Zenon
<1>3. ASSUME NEW n \in T PROVE m <= n
  <2>1. m \in Nat /\ n \in Nat
    OBVIOUS
  <2>2. ~(n < m)
    BY <1>1, <1>2, <2>1
  <2> QED
    BY <2>1, <2>2
<1> QED
  BY <1>3

\* A set with 0 and with the successor of each of its members has every number:
\* induction, over a set instead of a predicate.
LEMMA NumberInduction ==
  ASSUME NEW T \in SUBSET Nat, 0 \in T, \A n \in T : n + 1 \in T
  PROVE  T = Nat
<1>1. SUFFICES ASSUME Nat \ T # {} PROVE FALSE
  OBVIOUS
<1>2. PICK m \in Nat \ T : \A n \in Nat \ T : m <= n
  BY <1>1, LeastNumber
<1>3. m - 1 \in Nat /\ m - 1 \notin Nat \ T
  BY <1>2
<1> QED
  BY <1>2, <1>3

-----------------------------------------------------------------------------
(* The queue of dirty owners *)

\* The parent of an index comes before it, and has it as one of its two children.
LEMMA ParentBefore ==
  ASSUME NEW i \in Nat, i >= 2
  PROVE  /\ i \div 2 \in 1..(i - 1)
         /\ i = 2 * (i \div 2) \/ i = 2 * (i \div 2) + 1
OBVIOUS

\* The indices of the two children of an index.
LEMMA ChildrenAfter ==
  ASSUME NEW i \in Nat, i >= 1
  PROVE  /\ (2 * i) \div 2 = i /\ (2 * i + 1) \div 2 = i
         /\ 2 * i > i /\ 2 * i >= 2
OBVIOUS

\* Numbers at the indices up to n, no two of them the same.
Distinct(s, n) ==
    /\ \A i \in 1..n : s[i] \in Int
    /\ \A i, j \in 1..n : s[i] = s[j] => i = j

\* A heap, and one but for a member that may be too small, or too large.
Heap(s, n) == \A i \in 2..n : s[i \div 2] < s[i]

Skips(s, n, index) ==
    \A i \in 2..n : (i \div 2 = index /\ index > 1) => s[index \div 2] < s[i]

HeapUp(s, n, index) ==
    /\ \A i \in 2..n : i # index => s[i \div 2] < s[i]
    /\ Skips(s, n, index)

HeapDown(s, n, index) ==
    /\ \A i \in 2..n : i \div 2 # index => s[i \div 2] < s[i]
    /\ Skips(s, n, index)

\* What swapping two members makes of the numbers at the indices.
Swapped(s, t, n, i, j) ==
    /\ t[i] = s[j] /\ t[j] = s[i]
    /\ \A k \in 1..n : (k # i /\ k # j) => t[k] = s[k]

\* A member that is too small moves up: its parent is larger than all below it.
LEMMA RaiseKeeps ==
  ASSUME NEW n \in Nat, NEW s, NEW t, Distinct(s, n), Distinct(t, n),
         NEW index \in 2..n, HeapUp(s, n, index), s[index] < s[index \div 2],
         Swapped(s, t, n, index, index \div 2)
  PROVE  HeapUp(t, n, index \div 2)
<1> DEFINE p == index \div 2
<1>1. p \in 1..n /\ p < index /\ index \in 1..n
  BY ParentBefore
<1>2. ASSUME NEW i \in 2..n, i # p PROVE t[i \div 2] < t[i]
  <2>1. i \in 1..n /\ i \div 2 \in 1..n /\ i \div 2 < i
    BY ParentBefore
  <2>2. CASE i = index
    BY <1>1, <2>2 DEF Swapped
  <2>3. CASE i # index /\ i \div 2 = index
    BY <1>1, <1>2, <2>1, <2>3 DEF Swapped, HeapUp, Skips
  <2>4. CASE i # index /\ i \div 2 = p
    <3>1. t[i \div 2] = s[index] /\ t[i] = s[i] /\ s[p] < s[i]
      BY <1>1, <1>2, <2>1, <2>4 DEF Swapped, HeapUp
    <3>2. s[index] \in Int /\ s[i] \in Int /\ s[p] \in Int
      BY <1>1, <2>1 DEF Distinct
    <3> QED
      BY <3>1, <3>2
  <2>5. CASE i # index /\ i \div 2 # index /\ i \div 2 # p
    BY <1>1, <1>2, <2>1, <2>5 DEF Swapped, HeapUp
  <2> QED
    BY <2>2, <2>3, <2>4, <2>5
<1>3. ASSUME NEW i \in 2..n, i \div 2 = p, p > 1 PROVE t[p \div 2] < t[i]
  <2>1. i \in 1..n /\ p < i /\ p \div 2 \in 1..n /\ p \div 2 < p /\ p \in 2..n
    BY <1>1, <1>3, ParentBefore
  <2>2. t[p \div 2] = s[p \div 2] /\ s[p \div 2] < s[p]
    BY <1>1, <2>1 DEF Swapped, HeapUp
  <2>3. CASE i = index
    BY <1>1, <2>2, <2>3 DEF Swapped
  <2>4. CASE i # index
    <3>1. t[i] = s[i] /\ s[p] < s[i]
      BY <1>1, <1>3, <2>1, <2>4 DEF Swapped, HeapUp
    <3>2. s[p \div 2] \in Int /\ s[i] \in Int /\ s[p] \in Int
      BY <1>1, <2>1 DEF Distinct
    <3> QED
      BY <2>2, <3>1, <3>2
  <2> QED
    BY <2>3, <2>4
<1> QED
  BY <1>2, <1>3 DEF HeapUp, Skips

\* A member that is too large moves down: the smaller of its children is smaller
\* than all below it.
LEMMA LowerKeeps ==
  ASSUME NEW n \in Nat, NEW s, NEW t, Distinct(s, n), Distinct(t, n),
         NEW index \in 1..n, NEW c \in 2..n, c \div 2 = index,
         HeapDown(s, n, index), s[c] < s[index],
         \A i \in 2..n : (i \div 2 = index /\ i # c) => s[c] < s[i],
         Swapped(s, t, n, index, c)
  PROVE  HeapDown(t, n, c)
<1>1. c \in 1..n /\ index < c
  BY ParentBefore
<1>2. ASSUME NEW i \in 2..n, i \div 2 # c PROVE t[i \div 2] < t[i]
  <2>1. i \in 1..n /\ i \div 2 \in 1..n /\ i \div 2 < i
    BY ParentBefore
  <2>2. CASE i = c
    BY <1>1, <2>2 DEF Swapped
  <2>3. CASE i # c /\ i \div 2 = index
    BY <1>1, <2>1, <2>3 DEF Swapped
  <2>4. CASE i = index
    <3>1. t[i] = s[c] /\ t[i \div 2] = s[i \div 2]
      BY <1>1, <1>2, <2>1, <2>4 DEF Swapped
    <3>2. s[i \div 2] < s[c]
      BY <1>1, <2>1, <2>4 DEF HeapDown, Skips
    <3> QED
      BY <3>1, <3>2
  <2>5. CASE i # c /\ i \div 2 # index /\ i # index
    BY <1>1, <1>2, <2>1, <2>5 DEF Swapped, HeapDown
  <2> QED
    BY <2>2, <2>3, <2>4, <2>5
<1>3. ASSUME NEW i \in 2..n, i \div 2 = c PROVE t[c \div 2] < t[i]
  <2>1. i \in 1..n /\ c < i
    BY <1>1, <1>3, ParentBefore
  <2>2. t[c \div 2] = s[c] /\ t[i] = s[i]
    BY <1>1, <2>1 DEF Swapped
  <2> QED
    BY <1>1, <1>3, <2>2 DEF HeapDown
<1> QED
  BY <1>2, <1>3 DEF HeapDown, Skips

\* A queue of these n owners, each found at its index.
Stored(queue, O, n) ==
    /\ queue.owners \in Seq(O) /\ Len(queue.owners) = n
    /\ queue.indices \in [O -> 1..n]
    /\ \A i \in 1..n : queue.owners[i] \in O /\ queue.indices[queue.owners[i]] = i
    /\ \A o \in O : queue.owners[queue.indices[o]] = o

\* No owner is in a queue twice.
LEMMA StoredDistinct ==
  ASSUME NEW O \in SUBSET Int, NEW n \in Nat, NEW queue, Stored(queue, O, n)
  PROVE  Distinct(queue.owners, n)
<1>1. \A i \in 1..n : queue.owners[i] \in Int
  BY DEF Stored
<1>2. ASSUME NEW i \in 1..n, NEW j \in 1..n, queue.owners[i] = queue.owners[j] PROVE i = j
  <2>1. queue.indices[queue.owners[i]] = i /\ queue.indices[queue.owners[j]] = j
    BY DEF Stored
  <2> QED
    BY <1>2, <2>1
<1> QED
  BY <1>1, <1>2 DEF Distinct

\* Two owners that change places take their indices along.
LEMMA SwapStored ==
  ASSUME NEW O \in SUBSET Int, NEW n \in Nat, NEW queue, Stored(queue, O, n),
         NEW i \in 1..n, NEW j \in 1..n, i # j
  PROVE  /\ Stored(Swap(queue, i, j), O, n)
         /\ Swapped(queue.owners, Swap(queue, i, j).owners, n, i, j)
<1>1. PICK s : s = queue.owners
  OBVIOUS
<1>2. PICK x : x = queue.indices
  OBVIOUS
<1>3. /\ s \in Seq(O) /\ Len(s) = n /\ x \in [O -> 1..n]
      /\ \A k \in 1..n : s[k] \in O /\ x[s[k]] = k
      /\ \A o \in O : s[x[o]] = o
  BY <1>1, <1>2 DEF Stored
<1>4. PICK first \in O : first = s[i]
  BY <1>3
<1>5. PICK second \in O : second = s[j]
  BY <1>3
<1>6. first # second /\ x[first] = i /\ x[second] = j
  BY <1>3, <1>4, <1>5
<1>7. PICK t : t = [s EXCEPT ![i] = second, ![j] = first]
  OBVIOUS
<1>8. PICK y : y = [x EXCEPT ![second] = i, ![first] = j]
  OBVIOUS
<1>9. /\ t \in Seq(O) /\ Len(t) = n
      /\ \A k \in 1..n : t[k] = IF k = j THEN first ELSE IF k = i THEN second ELSE s[k]
  <2>1. PICK u : u = [s EXCEPT ![i] = second]
    OBVIOUS
  <2>2. /\ u \in Seq(O) /\ Len(u) = n
        /\ \A k \in 1..n : u[k] = IF k = i THEN second ELSE s[k]
    BY <1>3, <2>1, ExceptSeq
  <2>3. t = [u EXCEPT ![j] = first]
    BY <1>7, <2>1
  <2>4. /\ t \in Seq(O) /\ Len(t) = n
        /\ \A k \in 1..n : t[k] = IF k = j THEN first ELSE u[k]
    BY <2>2, <2>3, ExceptSeq
  <2> QED
    BY <2>2, <2>4
<1>10. /\ y \in [O -> 1..n]
       /\ \A o \in O : y[o] = IF o = first THEN j ELSE IF o = second THEN i ELSE x[o]
  BY <1>3, <1>8
<1>11. ASSUME NEW k \in 1..n PROVE t[k] \in O /\ y[t[k]] = k
  <2>1. CASE k = j
    BY <1>9, <1>10, <2>1
  <2>2. CASE k = i
    BY <1>6, <1>9, <1>10, <2>2
  <2>3. CASE k # i /\ k # j
    <3>1. t[k] = s[k] /\ s[k] \in O /\ x[s[k]] = k
      BY <1>3, <1>9, <2>3
    <3>2. s[k] # first /\ s[k] # second
      BY <1>6, <2>3, <3>1
    <3> QED
      BY <1>10, <3>1, <3>2
  <2> QED
    BY <2>1, <2>2, <2>3
<1>12. ASSUME NEW o \in O PROVE t[y[o]] = o
  <2>1. CASE o = first
    BY <1>9, <1>10, <2>1
  <2>2. CASE o = second
    BY <1>6, <1>9, <1>10, <2>2
  <2>3. CASE o # first /\ o # second
    <3>1. y[o] = x[o] /\ x[o] \in 1..n /\ s[x[o]] = o
      BY <1>3, <1>10, <2>3
    <3>2. x[o] # i /\ x[o] # j
      BY <1>4, <1>5, <2>3, <3>1
    <3> QED
      BY <1>9, <3>1, <3>2
  <2> QED
    BY <2>1, <2>2, <2>3
<1>13. Swap(queue, i, j).owners = t /\ Swap(queue, i, j).indices = y
  BY <1>1, <1>2, <1>4, <1>5, <1>7, <1>8 DEF Swap
<1>14. Stored(Swap(queue, i, j), O, n)
  BY <1>9, <1>10, <1>11, <1>12, <1>13 DEF Stored
<1>15. Swapped(queue.owners, Swap(queue, i, j).owners, n, i, j)
  BY <1>1, <1>4, <1>5, <1>9, <1>13 DEF Swapped
<1> QED
  BY <1>14, <1>15

-----------------------------------------------------------------------------
\* An owner on its way up.
Rising(at, O, n) ==
    /\ at.index \in 1..n
    /\ Stored(at.queue, O, n)
    /\ HeapUp(at.queue.owners, n, at.index)

\* A turn of the way up ends it or gets nearer to the top.
LEMMA RaisedOnce ==
  ASSUME NEW O \in SUBSET Int, NEW n \in Nat, NEW at, Rising(at, O, n)
  PROVE  /\ Rising(Raised(at), O, n)
         /\ Heap(Raised(at).queue.owners, n) \/ Raised(at).index < at.index
         /\ Heap(at.queue.owners, n) => Raised(at) = at
<1>1. PICK s : s = at.queue.owners
  OBVIOUS
<1>2. PICK index \in 1..n : index = at.index
  BY DEF Rising
<1>3. Distinct(s, n) /\ HeapUp(s, n, index) /\ Stored(at.queue, O, n)
  BY <1>1, <1>2, StoredDistinct DEF Rising
<1>4. CASE index = 1 \/ s[index \div 2] <= s[index]
  <2>1. Raised(at) = at
    BY <1>1, <1>2, <1>4 DEF Raised
  <2>2. Heap(s, n)
    <3>1. ASSUME NEW i \in 2..n PROVE s[i \div 2] < s[i]
      <4>1. CASE i # index
        BY <1>3, <4>1 DEF HeapUp
      <4>2. CASE i = index
        <5>1. i \div 2 \in 1..n /\ i \in 1..n /\ i \div 2 # i /\ s[i \div 2] <= s[i]
          BY <1>4, <4>2, ParentBefore
        <5> QED
          BY <1>3, <5>1 DEF Distinct
      <4> QED
        BY <4>1, <4>2
    <3> QED
      BY <3>1 DEF Heap
  <2> QED
    BY <1>1, <2>1, <2>2
<1>5. CASE ~(index = 1 \/ s[index \div 2] <= s[index])
  <2>1. index \in 2..n /\ index \div 2 \in 1..n /\ index \div 2 < index
    BY <1>5, ParentBefore
  <2>2. s[index \div 2] \in Int /\ s[index] \in Int
    BY <1>3, <2>1 DEF Distinct
  <2>3. s[index] < s[index \div 2]
    BY <1>5, <2>2
  <2>4. Raised(at) = [queue |-> Swap(at.queue, index, index \div 2), index |-> index \div 2]
    BY <1>1, <1>2, <1>5 DEF Raised
  <2>5. PICK after : after = Swap(at.queue, index, index \div 2)
    OBVIOUS
  <2>6. PICK t : t = after.owners
    OBVIOUS
  <2>7. Stored(after, O, n) /\ Swapped(s, t, n, index, index \div 2)
    BY <1>1, <1>3, <2>1, <2>5, <2>6, SwapStored
  <2>8. Distinct(t, n)
    BY <2>6, <2>7, StoredDistinct
  <2>9. HeapUp(t, n, index \div 2)
    BY <1>3, <2>1, <2>3, <2>7, <2>8, RaiseKeeps
  <2>10. ~Heap(s, n)
    BY <2>1, <2>2, <2>3 DEF Heap
  <2>11. Raised(at).queue = after /\ Raised(at).index = index \div 2
    BY <2>4, <2>5
  <2>12. Rising(Raised(at), O, n)
    BY <2>1, <2>6, <2>7, <2>9, <2>11 DEF Rising
  <2> QED
    BY <1>1, <1>2, <2>1, <2>10, <2>11, <2>12
<1> QED
  BY <1>4, <1>5

\* An owner on its way down.
Sinking(at, O, n) ==
    /\ at.index \in 1..n
    /\ Stored(at.queue, O, n)
    /\ HeapDown(at.queue.owners, n, at.index)

\* A turn of the way down ends it or gets further from the top.
LEMMA LoweredOnce ==
  ASSUME NEW O \in SUBSET Int, NEW n \in Nat, NEW at, Sinking(at, O, n)
  PROVE  /\ Sinking(Lowered(at), O, n)
         /\ Heap(Lowered(at).queue.owners, n) \/ Lowered(at).index > at.index
         /\ Heap(at.queue.owners, n) => Lowered(at) = at
<1>1. PICK s : s = at.queue.owners
  OBVIOUS
<1>2. PICK index \in 1..n : index = at.index
  BY DEF Sinking
<1>3. /\ Distinct(s, n) /\ HeapDown(s, n, index) /\ Stored(at.queue, O, n)
      /\ Len(s) = n
  BY <1>1, <1>2, StoredDistinct DEF Sinking, Stored
<1>4. PICK left \in Nat : left = 2 * index
  OBVIOUS
<1>5. PICK c : c = IF left + 1 <= n /\ s[left + 1] < s[left] THEN left + 1 ELSE left
  OBVIOUS
<1>6. /\ left \div 2 = index /\ (left + 1) \div 2 = index /\ left >= 2 /\ left > index
      /\ \A i \in 2..n : i \div 2 = index => i = left \/ i = left + 1
  <2>1. left \div 2 = index /\ (left + 1) \div 2 = index /\ left >= 2 /\ left > index
    BY <1>4, ChildrenAfter
  <2> QED
    BY <1>4, <2>1, ParentBefore
<1>7. Lowered(at) = IF left > n \/ s[index] <= s[c] THEN at
                    ELSE [queue |-> Swap(at.queue, index, c), index |-> c]
  BY <1>1, <1>2, <1>3, <1>4, <1>5 DEF Lowered
<1>8. ASSUME left <= n
      PROVE  /\ c \in 2..n /\ c \div 2 = index
             /\ \A i \in 2..n : (i \div 2 = index /\ i # c) => s[c] < s[i]
  <2>1. left \in 2..n /\ left \in 1..n
    BY <1>6, <1>8
  <2>2. c \in 2..n /\ c \div 2 = index
    BY <1>5, <1>6, <2>1
  <2>3. ASSUME NEW i \in 2..n, i \div 2 = index, i # c PROVE s[c] < s[i]
    <3>1. i \in 1..n /\ c \in 1..n
      BY <2>2
    <3>2. s[i] \in Int /\ s[c] \in Int /\ s[i] # s[c]
      BY <1>3, <2>3, <3>1 DEF Distinct
    <3>3. i = left \/ i = left + 1
      BY <1>6, <2>3
    <3>4. CASE c = left + 1
      BY <1>5, <2>3, <3>2, <3>3, <3>4
    <3>5. CASE c = left
      <4>1. i = left + 1 /\ ~(s[left + 1] < s[left])
        BY <1>5, <2>3, <3>3, <3>5
      <4> QED
        BY <3>2, <3>5, <4>1
    <3> QED
      BY <1>5, <3>4, <3>5
  <2> QED
    BY <2>2, <2>3
<1>9. CASE left > n
  <2>1. Lowered(at) = at
    BY <1>7, <1>9
  <2>2. \A i \in 2..n : i \div 2 # index
    BY <1>6, <1>9
  <2>3. Heap(s, n)
    BY <1>3, <2>2 DEF Heap, HeapDown
  <2> QED
    BY <1>1, <2>1, <2>3
<1>10. CASE left <= n /\ s[index] <= s[c]
  <2>1. Lowered(at) = at
    BY <1>7, <1>10
  <2>2. c \in 2..n /\ c \in 1..n /\ c \div 2 = index
    BY <1>8, <1>10
  <2>3. s[index] \in Int /\ s[c] \in Int
    BY <1>3, <2>2 DEF Distinct
  <2>4. c # index
    BY <2>2, ParentBefore
  <2>5. s[index] < s[c]
    BY <1>3, <1>10, <2>2, <2>3, <2>4 DEF Distinct
  <2>6. ASSUME NEW i \in 2..n PROVE s[i \div 2] < s[i]
    <3>1. CASE i \div 2 # index
      BY <1>3, <3>1 DEF HeapDown
    <3>2. CASE i = c
      BY <2>2, <2>5, <3>2
    <3>3. CASE i \div 2 = index /\ i # c
      <4>1. s[c] < s[i] /\ s[i] \in Int
        BY <1>3, <1>8, <1>10, <3>3 DEF Distinct
      <4> QED
        BY <2>3, <2>5, <3>3, <4>1
    <3> QED
      BY <3>1, <3>2, <3>3
  <2>7. Heap(s, n)
    BY <2>6 DEF Heap
  <2> QED
    BY <1>1, <2>1, <2>7
<1>11. CASE left <= n /\ ~(s[index] <= s[c])
  <2>1. c \in 2..n /\ c \in 1..n /\ c \div 2 = index
    BY <1>8, <1>11
  <2>2. s[index] \in Int /\ s[c] \in Int
    BY <1>3, <2>1 DEF Distinct
  <2>3. index < c /\ s[c] < s[index]
    BY <1>11, <2>1, <2>2, ParentBefore
  <2>4. PICK after : after = Swap(at.queue, index, c)
    OBVIOUS
  <2>5. PICK t : t = after.owners
    OBVIOUS
  <2>6. Stored(after, O, n) /\ Swapped(s, t, n, index, c)
    BY <1>1, <1>3, <2>1, <2>3, <2>4, <2>5, SwapStored
  <2>7. Distinct(t, n)
    BY <2>5, <2>6, StoredDistinct
  <2>8. HeapDown(t, n, c)
    BY <1>3, <1>8, <1>11, <2>1, <2>3, <2>6, <2>7, LowerKeeps
  <2>9. ~Heap(s, n)
    BY <2>1, <2>2, <2>3 DEF Heap
  <2>10. Lowered(at).queue = after /\ Lowered(at).index = c
    BY <1>7, <1>11, <2>4
  <2>11. Sinking(Lowered(at), O, n)
    BY <2>1, <2>5, <2>6, <2>8, <2>10 DEF Sinking
  <2> QED
    BY <1>1, <1>2, <2>3, <2>9, <2>10, <2>11
<1> QED
  BY <1>4, <1>9, <1>10, <1>11

\* moveUp, of a queue that is a heap but for an owner that may be before its
\* parent, leaves a heap of the same owners.
LEMMA MoveUpStored ==
  ASSUME NEW O \in SUBSET Int, NEW n \in Nat, NEW queue, NEW index \in 1..n,
         Stored(queue, O, n), HeapUp(queue.owners, n, index)
  PROVE  Stored(MoveUp(queue, index), O, n) /\ Heap(MoveUp(queue, index).owners, n)
<1> DEFINE Follows(after, m) ==
      after = [k \in 0..m |-> IF k = 0 THEN [queue |-> queue, index |-> index] ELSE Raised(after[k - 1])]
\* What so many turns of the loop make of it exists.
<1>1. \A m \in Nat : \E after : Follows(after, m)
  <2> DEFINE reached == {m \in Nat : \E after : Follows(after, m)}
  <2>1. 0 \in reached
    <3>1. PICK after : after = [k \in 0..0 |-> [queue |-> queue, index |-> index]]
      OBVIOUS
    <3>2. after = [k \in 0..0 |-> IF k = 0 THEN [queue |-> queue, index |-> index] ELSE Raised(after[k - 1])]
      BY <3>1
    <3> QED
      BY <3>2
  <2>2. ASSUME NEW m \in reached PROVE m + 1 \in reached
    <3>1. PICK after : Follows(after, m)
      OBVIOUS
    <3>2. PICK more : more = [k \in 0..(m + 1) |-> IF k <= m THEN after[k] ELSE Raised(after[m])]
      OBVIOUS
    <3>3. ASSUME NEW k \in 0..(m + 1)
          PROVE  more[k] = IF k = 0 THEN [queue |-> queue, index |-> index] ELSE Raised(more[k - 1])
      <4>1. CASE k = 0
        BY <3>1, <3>2, <4>1
      <4>2. CASE k # 0 /\ k <= m
        <5>1. k \in 0..m /\ k - 1 \in 0..(m + 1) /\ k - 1 <= m
          BY <4>2
        <5>2. more[k] = after[k] /\ more[k - 1] = after[k - 1]
          BY <3>2, <4>2, <5>1
        <5> QED
          BY <3>1, <4>2, <5>1, <5>2
      <4>3. CASE k = m + 1
        <5>1. m \in 0..(m + 1) /\ ~(m + 1 <= m) /\ (m + 1) - 1 = m /\ m + 1 # 0
          OBVIOUS
        <5>2. more[m] = after[m] /\ more[m + 1] = Raised(after[m])
          BY <3>2, <5>1
        <5> QED
          BY <4>3, <5>1, <5>2
      <4> QED
        BY <4>1, <4>2, <4>3
    <3>4. Follows(more, m + 1)
      <4>1. more = [k \in 0..(m + 1) |-> more[k]]
        BY <3>2
      <4> QED
        BY <3>3, <4>1
    <3> HIDE DEF Follows
    <3> QED
      BY <3>4
  <2> HIDE DEF reached
  <2>3. reached = Nat
    <3>1. reached \in SUBSET Nat
      BY DEF reached
    <3> QED
      BY <2>1, <2>2, <3>1, NumberInduction
  <2> QED
    BY <2>3 DEF reached
<1>2. PICK after : after = CHOOSE f : Follows(f, index)
  OBVIOUS
<1>3. Follows(after, index)
  <2> HIDE DEF Follows
  <2> QED
    BY <1>1, <1>2
<1>4. MoveUp(queue, index) = after[index].queue
  BY <1>2 DEF MoveUp
<1>5. after[0] = [queue |-> queue, index |-> index]
  BY <1>3
<1>6. \A k \in 1..index : after[k] = Raised(after[k - 1])
  BY <1>3
<1> HIDE DEF Follows
<1> DEFINE Good(m) ==
      /\ Rising(after[m], O, n)
      /\ Heap(after[m].queue.owners, n) \/ after[m].index <= index - m
<1>7. Good(0)
  <2>1. after[0].queue = queue /\ after[0].index = index
    BY <1>5
  <2> QED
    BY <2>1 DEF Rising
<1>8. ASSUME NEW m \in Nat, m + 1 <= index, Good(m) PROVE Good(m + 1)
  <2>1. PICK at : at = after[m]
    OBVIOUS
  <2>2. after[m + 1] = Raised(at)
    <3>1. m + 1 \in 1..index /\ (m + 1) - 1 = m
      BY <1>8
    <3> QED
      BY <1>6, <2>1, <3>1
  <2>3. Rising(at, O, n)
    BY <1>8, <2>1
  <2>4. /\ Rising(Raised(at), O, n)
        /\ Heap(Raised(at).queue.owners, n) \/ Raised(at).index < at.index
        /\ Heap(at.queue.owners, n) => Raised(at) = at
    BY <2>3, RaisedOnce
  <2>5. CASE Heap(at.queue.owners, n)
    BY <2>2, <2>4, <2>5
  <2>6. CASE at.index <= index - m /\ Raised(at).index < at.index
    <3>1. at.index \in Int /\ Raised(at).index \in Int
      BY <2>3, <2>4 DEF Rising
    <3>2. Raised(at).index <= index - (m + 1)
      BY <2>6, <3>1
    <3> QED
      BY <2>2, <2>4, <3>2
  <2>7. CASE Heap(Raised(at).queue.owners, n)
    BY <2>2, <2>4, <2>7
  <2> QED
    BY <1>8, <2>1, <2>4, <2>5, <2>6, <2>7
<1> DEFINE reached == {m \in Nat : m <= index => Good(m)}
<1>9. reached = Nat
  <2> HIDE DEF Good
  <2>1. 0 \in reached
    BY <1>7
  <2>2. ASSUME NEW m \in reached PROVE m + 1 \in reached
    BY <1>8
  <2> HIDE DEF reached
  <2>3. reached \in SUBSET Nat
    BY DEF reached
  <2> QED
    BY <2>1, <2>2, <2>3, NumberInduction
<1>10. Good(index)
  <2> HIDE DEF Good
  <2> QED
    BY <1>9
<1> QED
  <2>1. after[index].index \in 1..n
    BY <1>10 DEF Rising
  <2>2. ~(after[index].index <= index - index)
    BY <2>1
  <2> QED
    BY <1>4, <1>10, <2>2 DEF Rising

\* moveDown, of a queue that is a heap but for an owner that may be after a
\* child, leaves a heap of the same owners.
LEMMA MoveDownStored ==
  ASSUME NEW O \in SUBSET Int, NEW n \in Nat, NEW queue, NEW index \in 1..n,
         Stored(queue, O, n), HeapDown(queue.owners, n, index)
  PROVE  Stored(MoveDown(queue, index), O, n) /\ Heap(MoveDown(queue, index).owners, n)
<1>0. Size(queue) = n
  BY DEF Size, Stored
<1> DEFINE Follows(after, m) ==
      after = [k \in 0..m |-> IF k = 0 THEN [queue |-> queue, index |-> index] ELSE Lowered(after[k - 1])]
\* What so many turns of the loop make of it exists.
<1>1. \A m \in Nat : \E after : Follows(after, m)
  <2> DEFINE reached == {m \in Nat : \E after : Follows(after, m)}
  <2>1. 0 \in reached
    <3>1. PICK after : after = [k \in 0..0 |-> [queue |-> queue, index |-> index]]
      OBVIOUS
    <3>2. after = [k \in 0..0 |-> IF k = 0 THEN [queue |-> queue, index |-> index] ELSE Lowered(after[k - 1])]
      BY <3>1
    <3> QED
      BY <3>2
  <2>2. ASSUME NEW m \in reached PROVE m + 1 \in reached
    <3>1. PICK after : Follows(after, m)
      OBVIOUS
    <3>2. PICK more : more = [k \in 0..(m + 1) |-> IF k <= m THEN after[k] ELSE Lowered(after[m])]
      OBVIOUS
    <3>3. ASSUME NEW k \in 0..(m + 1)
          PROVE  more[k] = IF k = 0 THEN [queue |-> queue, index |-> index] ELSE Lowered(more[k - 1])
      <4>1. CASE k = 0
        BY <3>1, <3>2, <4>1
      <4>2. CASE k # 0 /\ k <= m
        <5>1. k \in 0..m /\ k - 1 \in 0..(m + 1) /\ k - 1 <= m
          BY <4>2
        <5>2. more[k] = after[k] /\ more[k - 1] = after[k - 1]
          BY <3>2, <4>2, <5>1
        <5> QED
          BY <3>1, <4>2, <5>1, <5>2
      <4>3. CASE k = m + 1
        <5>1. m \in 0..(m + 1) /\ ~(m + 1 <= m) /\ (m + 1) - 1 = m /\ m + 1 # 0
          OBVIOUS
        <5>2. more[m] = after[m] /\ more[m + 1] = Lowered(after[m])
          BY <3>2, <5>1
        <5> QED
          BY <4>3, <5>1, <5>2
      <4> QED
        BY <4>1, <4>2, <4>3
    <3>4. Follows(more, m + 1)
      <4>1. more = [k \in 0..(m + 1) |-> more[k]]
        BY <3>2
      <4> QED
        BY <3>3, <4>1
    <3> HIDE DEF Follows
    <3> QED
      BY <3>4
  <2> HIDE DEF reached
  <2>3. reached = Nat
    <3>1. reached \in SUBSET Nat
      BY DEF reached
    <3> QED
      BY <2>1, <2>2, <3>1, NumberInduction
  <2> QED
    BY <2>3 DEF reached
<1>2. PICK after : after = CHOOSE f : Follows(f, n)
  OBVIOUS
<1>3. Follows(after, n)
  <2> HIDE DEF Follows
  <2> QED
    BY <1>1, <1>2
<1>4. MoveDown(queue, index) = after[n].queue
  BY <1>0, <1>2 DEF MoveDown
<1>5. after[0] = [queue |-> queue, index |-> index]
  BY <1>3
<1>6. \A k \in 1..n : after[k] = Lowered(after[k - 1])
  BY <1>3
<1> HIDE DEF Follows
<1> DEFINE Good(m) ==
      /\ Sinking(after[m], O, n)
      /\ Heap(after[m].queue.owners, n) \/ after[m].index >= index + m
<1>7. Good(0)
  <2>1. after[0].queue = queue /\ after[0].index = index
    BY <1>5
  <2> QED
    BY <2>1 DEF Sinking
<1>8. ASSUME NEW m \in Nat, m + 1 <= n, Good(m) PROVE Good(m + 1)
  <2>1. PICK at : at = after[m]
    OBVIOUS
  <2>2. after[m + 1] = Lowered(at)
    <3>1. m + 1 \in 1..n /\ (m + 1) - 1 = m
      BY <1>8
    <3> QED
      BY <1>6, <2>1, <3>1
  <2>3. Sinking(at, O, n)
    BY <1>8, <2>1
  <2>4. /\ Sinking(Lowered(at), O, n)
        /\ Heap(Lowered(at).queue.owners, n) \/ Lowered(at).index > at.index
        /\ Heap(at.queue.owners, n) => Lowered(at) = at
    BY <2>3, LoweredOnce
  <2>5. CASE Heap(at.queue.owners, n)
    BY <2>2, <2>4, <2>5
  <2>6. CASE at.index >= index + m /\ Lowered(at).index > at.index
    <3>1. at.index \in Int /\ Lowered(at).index \in Int
      BY <2>3, <2>4 DEF Sinking
    <3>2. Lowered(at).index >= index + (m + 1)
      BY <2>6, <3>1
    <3> QED
      BY <2>2, <2>4, <3>2
  <2>7. CASE Heap(Lowered(at).queue.owners, n)
    BY <2>2, <2>4, <2>7
  <2> QED
    BY <1>8, <2>1, <2>4, <2>5, <2>6, <2>7
<1> DEFINE reached == {m \in Nat : m <= n => Good(m)}
<1>9. reached = Nat
  <2> HIDE DEF Good
  <2>1. 0 \in reached
    BY <1>7
  <2>2. ASSUME NEW m \in reached PROVE m + 1 \in reached
    BY <1>8
  <2> HIDE DEF reached
  <2>3. reached \in SUBSET Nat
    BY DEF reached
  <2> QED
    BY <2>1, <2>2, <2>3, NumberInduction
<1>10. Good(n)
  <2> HIDE DEF Good
  <2> QED
    BY <1>9
<1> QED
  <2>1. after[n].index \in 1..n
    BY <1>10 DEF Sinking
  <2>2. ~(after[n].index >= index + n)
    BY <2>1
  <2> QED
    BY <1>4, <1>10, <2>2 DEF Sinking

-----------------------------------------------------------------------------
\* A queue of exactly these owners, in the order of a heap.
HeapOf(queue, O) == \E n \in Nat : Stored(queue, O, n) /\ Heap(queue.owners, n)

\* A queue without owners is one.
LEMMA EmptyHeap == HeapOf(EmptyQueue, {})
<1>1. PICK s : s = EmptyQueue.owners
  OBVIOUS
<1>2. PICK x : x = EmptyQueue.indices
  OBVIOUS
<1>3. s = <<>> /\ x = <<>>
  BY <1>1, <1>2 DEF EmptyQueue
<1>4. s \in Seq({}) /\ Len(s) = 0
  BY <1>3, EmptySeq
<1>5. x \in [{} -> 1..0]
  BY <1>3
<1>6. Stored(EmptyQueue, {}, 0)
  BY <1>1, <1>2, <1>4, <1>5 DEF Stored
<1>7. Heap(EmptyQueue.owners, 0)
  BY DEF Heap
<1> QED
  BY <1>6, <1>7 DEF HeapOf

\* push leaves a heap of the owners and the one pushed.
LEMMA PushHeap ==
  ASSUME NEW O \in SUBSET Int, NEW queue, HeapOf(queue, O), NEW owner \in Int
  PROVE  HeapOf(Push(queue, owner), O \cup {owner})
<1>1. PICK n \in Nat : Stored(queue, O, n) /\ Heap(queue.owners, n)
  BY DEF HeapOf
<1>2. PICK s : s = queue.owners
  OBVIOUS
<1>3. PICK x : x = queue.indices
  OBVIOUS
<1>4. /\ s \in Seq(O) /\ Len(s) = n /\ x \in [O -> 1..n]
      /\ \A k \in 1..n : s[k] \in O /\ x[s[k]] = k
      /\ \A o \in O : s[x[o]] = o
  BY <1>1, <1>2, <1>3 DEF Stored
<1>5. Queued(queue) = O /\ Size(queue) = n
  BY <1>2, <1>3, <1>4 DEF Queued, Size
<1>6. CASE owner \in O
  <2>1. Push(queue, owner) = queue /\ O \cup {owner} = O
    BY <1>5, <1>6 DEF Push
  <2> QED
    BY <2>1
<1>7. CASE owner \notin O
  <2>1. PICK P \in SUBSET Int : P = O \cup {owner}
    OBVIOUS
  <2>2. PICK t : t = Append(s, owner)
    OBVIOUS
  <2>3. PICK y : y = [o \in P |-> IF o = owner THEN n + 1 ELSE x[o]]
    OBVIOUS
  <2>4. s \in Seq(P) /\ owner \in P
    BY <1>4, <2>1, SeqMonotonic
  <2>5. /\ t \in Seq(P) /\ Len(t) = n + 1
        /\ \A k \in 1..n : t[k] = s[k]
        /\ t[n + 1] = owner
    BY <1>4, <2>2, <2>4, AppendProperties
  <2>6. y \in [P -> 1..(n + 1)] /\ y[owner] = n + 1 /\ \A o \in O : y[o] = x[o]
    BY <1>4, <1>7, <2>1, <2>3
  <2>7. ASSUME NEW k \in 1..(n + 1) PROVE t[k] \in P /\ y[t[k]] = k
    <3>1. CASE k = n + 1
      BY <2>4, <2>5, <2>6, <3>1
    <3>2. CASE k # n + 1
      <4>1. k \in 1..n
        BY <3>2
      <4> QED
        BY <1>4, <2>1, <2>5, <2>6, <4>1
    <3> QED
      BY <3>1, <3>2
  <2>8. ASSUME NEW o \in P PROVE t[y[o]] = o
    <3>1. CASE o = owner
      BY <2>5, <2>6, <3>1
    <3>2. CASE o # owner
      <4>1. o \in O /\ y[o] = x[o] /\ x[o] \in 1..n
        BY <1>4, <2>1, <2>6, <3>2
      <4> QED
        BY <1>4, <2>5, <4>1
    <3> QED
      BY <3>1, <3>2
  <2>9. PICK more : more = [owners |-> t, indices |-> y]
    OBVIOUS
  <2>10. more.owners = t /\ more.indices = y
    BY <2>9
  <2>11. Stored(more, P, n + 1)
    BY <2>5, <2>6, <2>7, <2>8, <2>10 DEF Stored
  <2>12. HeapUp(t, n + 1, n + 1)
    <3>1. ASSUME NEW i \in 2..(n + 1), i # n + 1 PROVE t[i \div 2] < t[i]
      <4>1. i \in 1..n /\ i \div 2 \in 1..n /\ i \in 2..n
        BY <3>1, ParentBefore
      <4> QED
        BY <1>1, <1>2, <2>5, <4>1 DEF Heap
    <3>2. \A i \in 2..(n + 1) : i \div 2 # n + 1
      BY ParentBefore
    <3> QED
      BY <3>1, <3>2 DEF HeapUp, Skips
  <2>13. Push(queue, owner) = MoveUp(more, n + 1)
    BY <1>2, <1>3, <1>5, <1>7, <2>1, <2>2, <2>3, <2>9 DEF Push
  <2>14. n + 1 \in Nat /\ n + 1 \in 1..(n + 1) /\ HeapUp(more.owners, n + 1, n + 1)
    BY <2>10, <2>12
  <2>15. Stored(MoveUp(more, n + 1), P, n + 1) /\ Heap(MoveUp(more, n + 1).owners, n + 1)
    BY <2>11, <2>14, MoveUpStored
  <2> QED
    BY <2>1, <2>13, <2>14, <2>15 DEF HeapOf
<1> QED
  BY <1>6, <1>7

\* removeAt leaves a heap of the others, wherever the removed owner was.
LEMMA RemoveHeap ==
  ASSUME NEW O \in SUBSET Int, NEW queue, NEW n \in Nat,
         Stored(queue, O, n), Heap(queue.owners, n), NEW index \in 1..n
  PROVE  HeapOf(RemoveOwnerAt(queue, index), O \ {queue.owners[index]})
<1>2. PICK s : s = queue.owners
  OBVIOUS
<1>3. PICK x : x = queue.indices
  OBVIOUS
<1>4. /\ s \in Seq(O) /\ Len(s) = n /\ x \in [O -> 1..n]
      /\ \A k \in 1..n : s[k] \in O /\ x[s[k]] = k
      /\ \A o \in O : s[x[o]] = o
  BY <1>2, <1>3 DEF Stored
<1>5. Queued(queue) = O /\ Size(queue) = n
  BY <1>2, <1>3, <1>4 DEF Queued, Size
<1>6. PICK removed \in O : removed = s[index]
  BY <1>4
<1>7. PICK last \in O : last = s[n]
  BY <1>4
<1>8. PICK R \in SUBSET Int : R = O \ {removed}
  OBVIOUS
<1>9. PICK m \in Nat : m = n - 1
  OBVIOUS
<1>10. PICK front : front = Front(s)
  OBVIOUS
<1>11. front = SubSeq(s, 1, m)
  BY <1>4, <1>9, <1>10 DEF Front
<1>12. \A k \in 1..m : front[k] = s[k]
  <2>1. \A i \in 1..m : s[i] \in O
    BY <1>4, <1>9
  <2>2. \A i \in 1..(m - 1 + 1) : SubSeq(s, 1, m)[i] = s[1 + i - 1]
    BY <2>1, SubSeqProperties
  <2> QED
    BY <1>11, <2>2
<1>13. \A k \in 1..n : s[k] = removed <=> k = index
  BY <1>4, <1>6
<1>14. CASE index = n
  <2>1. \A i \in 1..m : s[i] \in R
    BY <1>4, <1>8, <1>9, <1>13, <1>14
  <2>2. front \in Seq(R) /\ Len(front) = m
    BY <1>9, <1>11, <2>1, SubSeqProperties
  <2>3. PICK y : y = [o \in R |-> x[o]]
    OBVIOUS
  <2>4. ASSUME NEW o \in R PROVE y[o] \in 1..m /\ front[y[o]] = o
    <3>1. y[o] = x[o] /\ x[o] \in 1..n /\ s[x[o]] = o /\ o # removed
      BY <1>4, <1>8, <2>3
    <3>2. x[o] # n
      BY <1>6, <1>14, <3>1
    <3>3. x[o] \in 1..m
      BY <1>9, <3>1, <3>2
    <3> QED
      BY <1>12, <3>1, <3>3
  <2>5. y \in [R -> 1..m]
    BY <2>3, <2>4
  <2>6. ASSUME NEW k \in 1..m PROVE front[k] \in R /\ y[front[k]] = k
    <3>1. k \in 1..n
      BY <1>9
    <3> QED
      BY <1>4, <1>12, <2>1, <2>3, <3>1
  <2>7. PICK left : left = [owners |-> front, indices |-> y]
    OBVIOUS
  <2>8. left.owners = front /\ left.indices = y
    BY <2>7
  <2>9. Stored(left, R, m)
    BY <2>2, <2>4, <2>5, <2>6, <2>8 DEF Stored
  <2>10. Heap(front, m)
    <3>1. ASSUME NEW i \in 2..m PROVE front[i \div 2] < front[i]
      <4>1. i \in 1..m /\ i \div 2 \in 1..m /\ i \in 2..n
        BY <1>9, ParentBefore
      <4> QED
        BY <1>2, <1>12, <4>1 DEF Heap
    <3> QED
      BY <3>1 DEF Heap
  <2>11. RemoveOwnerAt(queue, index) = left
    BY <1>2, <1>3, <1>5, <1>6, <1>8, <1>10, <1>14, <2>3, <2>7 DEF RemoveOwnerAt
  <2> QED
    BY <1>2, <1>6, <1>8, <2>8, <2>9, <2>10, <2>11 DEF HeapOf
<1>15. CASE index # n
  <2>1. index \in 1..m /\ last # removed /\ last \in R
    BY <1>4, <1>6, <1>7, <1>8, <1>9, <1>15
  <2>2. PICK t : t = [front EXCEPT ![index] = last]
    OBVIOUS
  <2>3. front \in Seq(O) /\ Len(front) = m
    <3>1. \A i \in 1..m : s[i] \in O
      BY <1>4, <1>9
    <3> QED
      BY <1>9, <1>11, <3>1, SubSeqProperties
  <2>4. /\ t \in Seq(O) /\ Len(t) = m
        /\ \A k \in 1..m : t[k] = IF k = index THEN last ELSE s[k]
    <3>1. /\ t \in Seq(O) /\ Len(t) = m
          /\ \A k \in 1..m : t[k] = IF k = index THEN last ELSE front[k]
      BY <2>1, <2>2, <2>3, ExceptSeq
    <3> QED
      BY <1>12, <3>1
  <2>5. \A k \in 1..m : t[k] \in R
    <3>1. \A k \in 1..m : k \in 1..n
      BY <1>9
    <3> QED
      BY <1>4, <1>8, <1>13, <2>1, <2>4, <3>1
  <2>6. t \in Seq(R)
    <3>1. t \in [1..m -> O]
      BY <2>4, LenProperties
    <3>2. t \in [1..m -> R]
      BY <2>5, <3>1
    <3> QED
      BY <3>2
  <2>7. PICK y : y = [o \in R |-> IF o = last THEN index ELSE x[o]]
    OBVIOUS
  <2>8. ASSUME NEW o \in R PROVE y[o] \in 1..m /\ t[y[o]] = o
    <3>1. CASE o = last
      BY <2>1, <2>4, <2>7, <3>1
    <3>2. CASE o # last
      <4>1. y[o] = x[o] /\ x[o] \in 1..n /\ s[x[o]] = o /\ o # removed
        BY <1>4, <1>8, <2>7, <3>2
      <4>2. x[o] # n /\ x[o] # index
        BY <1>6, <1>7, <3>2, <4>1
      <4>3. x[o] \in 1..m
        BY <1>9, <4>1, <4>2
      <4> QED
        BY <2>4, <4>1, <4>2, <4>3
    <3> QED
      BY <3>1, <3>2
  <2>9. y \in [R -> 1..m]
    BY <2>7, <2>8
  <2>10. ASSUME NEW k \in 1..m PROVE y[t[k]] = k
    <3>1. CASE k = index
      BY <2>1, <2>4, <2>7, <3>1
    <3>2. CASE k # index
      <4>1. k \in 1..n /\ k # n /\ t[k] = s[k] /\ t[k] \in R /\ x[s[k]] = k
        BY <1>4, <1>9, <2>4, <2>5, <3>2
      <4>2. s[k] # last
        BY <1>4, <1>7, <4>1
      <4> QED
        BY <2>7, <4>1, <4>2
    <3> QED
      BY <3>1, <3>2
  <2>11. PICK left : left = Replaced(queue, index)
    OBVIOUS
  <2>12. left.owners = t /\ left.indices = y
    BY <1>2, <1>3, <1>5, <1>6, <1>7, <1>8, <1>10, <2>2, <2>7, <2>11 DEF Replaced
  <2>13. Stored(left, R, m)
    BY <2>4, <2>5, <2>6, <2>8, <2>9, <2>10, <2>12 DEF Stored
  <2>14. Distinct(s, n) /\ Distinct(t, m)
    BY <1>2, <2>12, <2>13, StoredDistinct
  <2>15. ASSUME NEW i \in 2..m, i # index, i \div 2 # index PROVE t[i \div 2] < t[i]
    <3>1. i \in 1..m /\ i \div 2 \in 1..m /\ i \in 2..n
      BY <1>9, ParentBefore
    <3> QED
      BY <1>2, <2>4, <2>15, <3>1 DEF Heap
  <2>16. Skips(t, m, index)
    <3>1. ASSUME NEW i \in 2..m, i \div 2 = index, index > 1 PROVE t[index \div 2] < t[i]
      <4>1. /\ i \in 1..m /\ i \in 2..n /\ index < i
            /\ index \in 2..n /\ index \div 2 \in 1..m /\ index \div 2 < index
        BY <1>9, <3>1, ParentBefore
      <4>2. t[index \div 2] = s[index \div 2] /\ t[i] = s[i]
        BY <2>4, <4>1
      <4>3. s[index \div 2] < s[index] /\ s[index] < s[i]
        BY <1>2, <3>1, <4>1 DEF Heap
      <4>4. s[index \div 2] \in Int /\ s[index] \in Int /\ s[i] \in Int
        BY <1>9, <2>14, <4>1 DEF Distinct
      <4> QED
        BY <4>2, <4>3, <4>4
    <3> QED
      BY <3>1 DEF Skips
  <2>17. CASE index > 1 /\ t[index] < t[index \div 2]
    <3>1. /\ index \in 2..n /\ index \in 2..m
          /\ index \div 2 \in 1..m /\ index \div 2 < index
      BY <1>9, <2>1, <2>17, ParentBefore
    <3>2. ASSUME NEW i \in 2..m, i # index PROVE t[i \div 2] < t[i]
      <4>1. CASE i \div 2 # index
        BY <2>15, <3>2, <4>1
      <4>2. CASE i \div 2 = index
        <5>1. t[index \div 2] < t[i]
          BY <2>16, <2>17, <4>2 DEF Skips
        <5>2. t[index \div 2] \in Int /\ t[index] \in Int /\ t[i] \in Int
          BY <2>14, <3>1 DEF Distinct
        <5> QED
          BY <2>17, <4>2, <5>1, <5>2
      <4> QED
        BY <4>1, <4>2
    <3>3. HeapUp(t, m, index)
      BY <2>16, <3>2 DEF HeapUp
    <3>4. RemoveOwnerAt(queue, index) = MoveUp(left, index)
      BY <1>5, <1>15, <2>11, <2>12, <2>17 DEF RemoveOwnerAt
    <3>5. Stored(MoveUp(left, index), R, m) /\ Heap(MoveUp(left, index).owners, m)
      BY <2>1, <2>12, <2>13, <3>3, MoveUpStored
    <3> QED
      BY <1>2, <1>6, <1>8, <3>4, <3>5 DEF HeapOf
  <2>18. CASE ~(index > 1 /\ t[index] < t[index \div 2])
    <3>1. ASSUME NEW i \in 2..m, i \div 2 # index PROVE t[i \div 2] < t[i]
      <4>1. CASE i # index
        BY <2>15, <3>1, <4>1
      <4>2. CASE i = index
        <5>1. /\ index \in 1..m /\ index \div 2 \in 1..m /\ index \div 2 # index
              /\ ~(t[index] < t[index \div 2])
          BY <2>18, <4>2, ParentBefore
        <5>2. t[index \div 2] \in Int /\ t[index] \in Int /\ t[index \div 2] # t[index]
          BY <2>14, <5>1 DEF Distinct
        <5> QED
          BY <4>2, <5>1, <5>2
      <4> QED
        BY <4>1, <4>2
    <3>2. HeapDown(t, m, index)
      BY <2>16, <3>1 DEF HeapDown
    <3>3. RemoveOwnerAt(queue, index) = MoveDown(left, index)
      BY <1>5, <1>15, <2>11, <2>12, <2>18 DEF RemoveOwnerAt
    <3>4. Stored(MoveDown(left, index), R, m) /\ Heap(MoveDown(left, index).owners, m)
      BY <2>1, <2>12, <2>13, <3>2, MoveDownStored
    <3> QED
      BY <1>2, <1>6, <1>8, <3>3, <3>4 DEF HeapOf
  <2> QED
    BY <2>17, <2>18
<1> QED
  BY <1>14, <1>15

\* discard leaves a heap of the others.
LEMMA DiscardHeap ==
  ASSUME NEW O \in SUBSET Int, NEW queue, HeapOf(queue, O), NEW owner
  PROVE  HeapOf(Discard(queue, owner), O \ {owner})
<1>1. PICK n \in Nat : Stored(queue, O, n) /\ Heap(queue.owners, n)
  BY DEF HeapOf
<1>2. Queued(queue) = O
  BY <1>1 DEF Queued, Stored
<1>3. CASE owner \notin O
  BY <1>2, <1>3 DEF Discard
<1>4. CASE owner \in O
  <2>1. PICK index \in 1..n : index = queue.indices[owner]
    BY <1>1, <1>4 DEF Stored
  <2>2. queue.owners[index] = owner
    BY <1>1, <1>4, <2>1 DEF Stored
  <2>3. Discard(queue, owner) = RemoveOwnerAt(queue, index)
    BY <1>2, <1>4, <2>1 DEF Discard
  <2> QED
    BY <1>1, <2>2, <2>3, RemoveHeap
<1> QED
  BY <1>3, <1>4

\* The first of a heap is before all others.
LEMMA FirstOfHeap ==
  ASSUME NEW n \in Nat, NEW s, \A i \in 1..n : s[i] \in Int, Heap(s, n)
  PROVE  \A i \in 1..n : s[1] <= s[i]
<1> DEFINE reached == {m \in Nat : \A i \in 1..n : i <= m => s[1] <= s[i]}
<1>1. 0 \in reached
  OBVIOUS
<1>2. ASSUME NEW m \in reached PROVE m + 1 \in reached
  <2>1. ASSUME NEW i \in 1..n, i <= m + 1 PROVE s[1] <= s[i]
    <3>1. CASE i = 1
      BY <3>1
    <3>2. CASE i # 1
      <4>1. i \in 2..n /\ i \div 2 \in 1..n /\ i \div 2 <= m
        BY <2>1, <3>2, ParentBefore
      <4>2. s[1] <= s[i \div 2]
        BY <4>1
      <4>3. s[i \div 2] < s[i]
        BY <4>1 DEF Heap
      <4>4. s[1] \in Int /\ s[i \div 2] \in Int /\ s[i] \in Int
        BY <4>1
      <4> QED
        BY <4>2, <4>3, <4>4
    <3> QED
      BY <3>1, <3>2
  <2> QED
    BY <2>1
<1>3. reached = Nat
  <2> HIDE DEF reached
  <2>1. reached \in SUBSET Nat
    BY DEF reached
  <2> QED
    BY <1>1, <1>2, <2>1, NumberInduction
<1>4. n \in reached
  BY <1>3
<1> QED
  BY <1>4

\* pop returns the first of the owners and leaves a heap of the others.
LEMMA PopHeap ==
  ASSUME NEW O \in SUBSET Int, NEW queue, HeapOf(queue, O), O # {}
  PROVE  /\ Popped(queue).owner \in O
         /\ \A o \in O : Popped(queue).owner <= o
         /\ HeapOf(Popped(queue).queue, O \ {Popped(queue).owner})
         /\ Size(queue) # 0
<1>1. PICK n \in Nat : Stored(queue, O, n) /\ Heap(queue.owners, n)
  BY DEF HeapOf
<1>2. PICK s : s = queue.owners
  OBVIOUS
<1>3. /\ \A i \in 1..n : s[i] \in O
      /\ \A o \in O : \E i \in 1..n : s[i] = o
      /\ Len(s) = n
  BY <1>1, <1>2 DEF Stored
<1>4. 1 \in 1..n
  <2>1. PICK o \in O : TRUE
    OBVIOUS
  <2>2. PICK i \in 1..n : s[i] = o
    BY <1>3, <2>1
  <2> QED
    BY <2>2
<1>5. \A i \in 1..n : s[1] <= s[i]
  BY <1>1, <1>2, <1>3, FirstOfHeap
<1>6. \A o \in O : s[1] <= o
  BY <1>3, <1>5
<1>7. HeapOf(RemoveOwnerAt(queue, 1), O \ {s[1]})
  BY <1>1, <1>2, <1>4, RemoveHeap
<1>8. Popped(queue).owner = s[1] /\ Popped(queue).queue = RemoveOwnerAt(queue, 1)
  BY <1>2 DEF Popped
<1>9. Size(queue) # 0
  BY <1>2, <1>3, <1>4 DEF Size
<1> QED
  BY <1>3, <1>4, <1>6, <1>7, <1>8, <1>9

\* A queue has as many members as it has owners.
LEMMA HeapSize ==
  ASSUME NEW O \in SUBSET Int, NEW queue, HeapOf(queue, O)
  PROVE  /\ IsFiniteSet(O) /\ Size(queue) = Cardinality(O)
         /\ Queued(queue) = O
<1>1. PICK n \in Nat : Stored(queue, O, n) /\ Heap(queue.owners, n)
  BY DEF HeapOf
<1>2. PICK s : s = queue.owners
  OBVIOUS
<1>3. /\ s \in [1..n -> O]
      /\ \A i, j \in 1..n : s[i] = s[j] => i = j
      /\ \A o \in O : \E i \in 1..n : s[i] = o
  <2>1. s \in Seq(O) /\ Len(s) = n
    BY <1>1, <1>2 DEF Stored
  <2>2. s \in [1..n -> O]
    BY <2>1, LenProperties
  <2>3. \A i, j \in 1..n : s[i] = s[j] => i = j
    BY <1>1, <1>2, StoredDistinct DEF Distinct
  <2>4. \A o \in O : \E i \in 1..n : s[i] = o
    BY <1>1, <1>2 DEF Stored
  <2> QED
    BY <2>2, <2>3, <2>4
<1>4. s \in Bijection(1..n, O)
  BY <1>3 DEF Bijection, Injection, Surjection, IsInjective
<1>5. IsFiniteSet(1..n) /\ Cardinality(1..n) = n
  BY FS_Interval
<1>6. IsFiniteSet(O) /\ Cardinality(O) = n
  BY <1>4, <1>5, FS_Bijection DEF ExistsBijection
<1> QED
  BY <1>1, <1>6 DEF Stored, Size, Queued

\* Such a queue is what IsQueueOf asks for.
LEMMA HeapIsQueue ==
  ASSUME NEW O \in SUBSET Int, NEW queue, HeapOf(queue, O)
  PROVE  IsQueueOf(queue, O)
<1>1. PICK n \in Nat : Stored(queue, O, n) /\ Heap(queue.owners, n)
  BY DEF HeapOf
<1>2. Size(queue) = n
  BY <1>1 DEF Stored, Size
<1> QED
  BY <1>1, <1>2, HeapSize DEF IsQueueOf, Stored, Heap

\* Every queue the code can be in is a heap.
LEMMA QueuesAreHeaps ==
  ASSUME NEW O \in SUBSET Int, IsFiniteSet(O), NEW queue \in QueuesOf(O)
  PROVE  HeapOf(queue, O)
<1>1. PICK n \in Nat : n = Cardinality(O)
  BY FS_CardinalityType
<1>2. PICK s \in SetToSeqs(O) :
         /\ \A i \in 2..Len(s) : s[i \div 2] < s[i]
         /\ queue = [owners |-> s, indices |-> [o \in O |-> CHOOSE i \in DOMAIN s : s[i] = o]]
  BY DEF QueuesOf
<1>3. s \in [1..n -> O] /\ \A i, j \in 1..n : i # j => s[i] # s[j]
  BY <1>1 DEF SetToSeqs
<1>4. s \in Injection(1..n, O)
  BY <1>3 DEF Injection, IsInjective
<1>5. IsFiniteSet(1..n) /\ Cardinality(1..n) = n
  BY FS_Interval
<1>6. s \in Surjection(1..n, O)
  BY <1>1, <1>4, <1>5, FS_Injection
<1>7. \A o \in O : \E i \in 1..n : s[i] = o
  BY <1>6 DEF Surjection
<1>8. s \in Seq(O) /\ Len(s) = n /\ DOMAIN s = 1..n
  BY <1>3
<1>9. PICK x : x = [o \in O |-> CHOOSE i \in 1..n : s[i] = o]
  OBVIOUS
<1>10. \A o \in O : x[o] \in 1..n /\ s[x[o]] = o
  BY <1>7, <1>9
<1>11. x \in [O -> 1..n]
  BY <1>9, <1>10
<1>12. \A k \in 1..n : s[k] \in O /\ x[s[k]] = k
  BY <1>3, <1>10
<1>13. queue.owners = s /\ queue.indices = x
  BY <1>2, <1>8, <1>9
<1>14. Stored(queue, O, n)
  BY <1>8, <1>10, <1>11, <1>12, <1>13 DEF Stored
<1>15. Heap(queue.owners, n)
  BY <1>2, <1>8, <1>13 DEF Heap
<1> QED
  BY <1>14, <1>15 DEF HeapOf

\* For any finite set of owners, whatever is pushed, discarded and popped, the
\* queue is a heap with an index of each of its owners, and the first comes out.
THEOREM HeapOrdered ==
  ASSUME NEW all \in SUBSET Int, IsFiniteSet(all)
  PROVE  QueueIsOrdered(all)
<1>1. SUFFICES ASSUME NEW owners \in SUBSET all, NEW queue \in QueuesOf(owners)
      PROVE  /\ \A o \in all : IsQueueOf(Push(queue, o), owners \cup {o})
             /\ \A o \in all : IsQueueOf(Discard(queue, o), owners \ {o})
             /\ owners # {} =>
                   /\ \A o \in owners : Popped(queue).owner <= o
                   /\ IsQueueOf(Popped(queue).queue, owners \ {Popped(queue).owner})
  BY DEF QueueIsOrdered
<1>2. owners \in SUBSET Int /\ IsFiniteSet(owners)
  BY FS_Subset
<1>3. HeapOf(queue, owners)
  BY <1>2, QueuesAreHeaps
<1>4. ASSUME NEW o \in all PROVE IsQueueOf(Push(queue, o), owners \cup {o})
  <2>1. PICK P \in SUBSET Int : P = owners \cup {o}
    BY <1>2
  <2>2. HeapOf(Push(queue, o), P)
    BY <1>2, <1>3, <2>1, PushHeap
  <2> QED
    BY <2>1, <2>2, HeapIsQueue
<1>5. ASSUME NEW o \in all PROVE IsQueueOf(Discard(queue, o), owners \ {o})
  <2>1. PICK P \in SUBSET Int : P = owners \ {o}
    BY <1>2
  <2>2. HeapOf(Discard(queue, o), P)
    BY <1>2, <1>3, <2>1, DiscardHeap
  <2> QED
    BY <2>1, <2>2, HeapIsQueue
<1>6. ASSUME owners # {}
      PROVE  /\ \A o \in owners : Popped(queue).owner <= o
             /\ IsQueueOf(Popped(queue).queue, owners \ {Popped(queue).owner})
  <2>1. PICK P \in SUBSET Int : P = owners \ {Popped(queue).owner}
    BY <1>2
  <2>2. HeapOf(Popped(queue).queue, P) /\ \A o \in owners : Popped(queue).owner <= o
    BY <1>2, <1>3, <1>6, <2>1, PopHeap
  <2> QED
    BY <2>1, <2>2, HeapIsQueue
<1> QED
  BY <1>4, <1>5, <1>6

-----------------------------------------------------------------------------
\* Pushing a set of owners adds them.
LEMMA PushAllHeap ==
  ASSUME NEW O \in SUBSET Int, NEW queue, HeapOf(queue, O),
         NEW owners \in SUBSET Int, IsFiniteSet(owners)
  PROVE  HeapOf(PushAll(queue, owners), O \cup owners)
<1>0. PICK n \in Nat : n = Cardinality(owners)
  BY FS_CardinalityType
<1> DEFINE Follows(after, m) ==
      after = [k \in 0..m |-> IF k = 0 THEN [queue |-> queue, owners |-> owners] ELSE PushedOne(after[k - 1])]
\* What so many turns of the loop make of it exists.
<1>1. \A m \in Nat : \E after : Follows(after, m)
  <2> DEFINE reached == {m \in Nat : \E after : Follows(after, m)}
  <2>1. 0 \in reached
    <3>1. PICK after : after = [k \in 0..0 |-> [queue |-> queue, owners |-> owners]]
      OBVIOUS
    <3>2. after = [k \in 0..0 |-> IF k = 0 THEN [queue |-> queue, owners |-> owners] ELSE PushedOne(after[k - 1])]
      BY <3>1
    <3> QED
      BY <3>2
  <2>2. ASSUME NEW m \in reached PROVE m + 1 \in reached
    <3>1. PICK after : Follows(after, m)
      OBVIOUS
    <3>2. PICK more : more = [k \in 0..(m + 1) |-> IF k <= m THEN after[k] ELSE PushedOne(after[m])]
      OBVIOUS
    <3>3. ASSUME NEW k \in 0..(m + 1)
          PROVE  more[k] = IF k = 0 THEN [queue |-> queue, owners |-> owners] ELSE PushedOne(more[k - 1])
      <4>1. CASE k = 0
        BY <3>1, <3>2, <4>1
      <4>2. CASE k # 0 /\ k <= m
        <5>1. k \in 0..m /\ k - 1 \in 0..(m + 1) /\ k - 1 <= m
          BY <4>2
        <5>2. more[k] = after[k] /\ more[k - 1] = after[k - 1]
          BY <3>2, <4>2, <5>1
        <5> QED
          BY <3>1, <4>2, <5>1, <5>2
      <4>3. CASE k = m + 1
        <5>1. m \in 0..(m + 1) /\ ~(m + 1 <= m) /\ (m + 1) - 1 = m /\ m + 1 # 0
          OBVIOUS
        <5>2. more[m] = after[m] /\ more[m + 1] = PushedOne(after[m])
          BY <3>2, <5>1
        <5> QED
          BY <4>3, <5>1, <5>2
      <4> QED
        BY <4>1, <4>2, <4>3
    <3>4. Follows(more, m + 1)
      <4>1. more = [k \in 0..(m + 1) |-> more[k]]
        BY <3>2
      <4> QED
        BY <3>3, <4>1
    <3> HIDE DEF Follows
    <3> QED
      BY <3>4
  <2> HIDE DEF reached
  <2>3. reached = Nat
    <3>1. reached \in SUBSET Nat
      BY DEF reached
    <3> QED
      BY <2>1, <2>2, <3>1, NumberInduction
  <2> QED
    BY <2>3 DEF reached
<1>2. PICK after : after = CHOOSE f : Follows(f, n)
  OBVIOUS
<1>3. Follows(after, n)
  <2> HIDE DEF Follows
  <2> QED
    BY <1>1, <1>2
<1>4. PushAll(queue, owners) = after[n].queue
  BY <1>0, <1>2 DEF PushAll
<1>5. after[0] = [queue |-> queue, owners |-> owners]
  BY <1>3
<1>6. \A k \in 1..n : after[k] = PushedOne(after[k - 1])
  BY <1>3
<1> HIDE DEF Follows
<1> DEFINE Good(m) ==
      \E left \in SUBSET owners :
         /\ after[m].owners = left
         /\ Cardinality(left) = n - m
         /\ HeapOf(after[m].queue, O \cup (owners \ left))
<1>7. Good(0)
  <2>1. after[0].queue = queue /\ after[0].owners = owners /\ O \cup (owners \ owners) = O
    BY <1>5
  <2>2. Cardinality(owners) = n - 0
    BY <1>0
  <2> QED
    BY <2>1, <2>2
<1>8. ASSUME NEW m \in Nat, m + 1 <= n, Good(m) PROVE Good(m + 1)
  <2>1. PICK at : at = after[m]
    OBVIOUS
  <2>2. after[m + 1] = PushedOne(at)
    <3>1. m + 1 \in 1..n /\ (m + 1) - 1 = m
      BY <1>8
    <3> QED
      BY <1>6, <2>1, <3>1
  <2>3. PICK left \in SUBSET owners :
           /\ at.owners = left
           /\ Cardinality(left) = n - m
           /\ HeapOf(at.queue, O \cup (owners \ left))
    BY <1>8, <2>1
  <2>4. left # {} /\ IsFiniteSet(left)
    <3>1. IsFiniteSet(left)
      BY FS_Subset
    <3>2. Cardinality(left) # 0
      BY <1>8, <2>3
    <3> QED
      BY <3>1, <3>2, FS_EmptySet
  <2>5. PICK owner \in left : owner = CHOOSE o \in left : TRUE
    BY <2>4
  <2>6. PICK next \in SUBSET owners : next = left \ {owner}
    OBVIOUS
  <2>7. after[m + 1].queue = Push(at.queue, owner) /\ after[m + 1].owners = next
    BY <2>2, <2>3, <2>5, <2>6 DEF PushedOne
  <2>8. Cardinality(next) = n - (m + 1)
    <3>1. Cardinality(next) = Cardinality(left) - 1
      BY <2>4, <2>5, <2>6, FS_RemoveElement
    <3> QED
      BY <2>3, <3>1
  <2>9. PICK P \in SUBSET Int : P = O \cup (owners \ left)
    OBVIOUS
  <2>10. owner \in Int /\ P \cup {owner} = O \cup (owners \ next)
    BY <2>5, <2>6, <2>9
  <2>11. HeapOf(Push(at.queue, owner), P \cup {owner})
    BY <2>3, <2>9, <2>10, PushHeap
  <2> QED
    BY <2>7, <2>8, <2>10, <2>11
<1> DEFINE reached == {m \in Nat : m <= n => Good(m)}
<1>9. reached = Nat
  <2> HIDE DEF Good
  <2>1. 0 \in reached
    BY <1>7
  <2>2. ASSUME NEW m \in reached PROVE m + 1 \in reached
    BY <1>8
  <2> HIDE DEF reached
  <2>3. reached \in SUBSET Nat
    BY DEF reached
  <2> QED
    BY <2>1, <2>2, <2>3, NumberInduction
<1>10. Good(n)
  <2> HIDE DEF Good
  <2> QED
    BY <1>9
<1> QED
  <2>1. PICK left \in SUBSET owners :
           /\ after[n].owners = left
           /\ Cardinality(left) = n - n
           /\ HeapOf(after[n].queue, O \cup (owners \ left))
    BY <1>10
  <2>2. IsFiniteSet(left) /\ Cardinality(left) = 0
    <3>1. IsFiniteSet(left)
      BY FS_Subset
    <3>2. n - n = 0
      OBVIOUS
    <3> QED
      BY <2>1, <3>1, <3>2
  <2>3. left = {}
    BY <2>2, FS_EmptySet
  <2>4. O \cup (owners \ left) = O \cup owners
    BY <2>3
  <2> QED
    BY <1>4, <2>1, <2>4

\* A queue from which popPendingOwner takes no more: empty, or the first is pending.
Settled(queue, pending) == Size(queue) = 0 \/ Popped(queue).owner \in pending

\* A turn of popPendingOwner ends it or passes over an owner that is not pending.
LEMMA PassedOnce ==
  ASSUME NEW O \in SUBSET Int, NEW queue, HeapOf(queue, O), NEW pending
  PROVE  \/ Settled(queue, pending) /\ Passed(queue, pending) = queue
         \/ \E o \in O : o \notin pending /\ HeapOf(Passed(queue, pending), O \ {o})
<1>1. CASE Settled(queue, pending)
  BY <1>1 DEF Settled, Passed
<1>2. CASE ~Settled(queue, pending)
  <2>1. O # {}
    BY <1>2, HeapSize, FS_EmptySet DEF Settled
  <2>2. Passed(queue, pending) = Popped(queue).queue /\ Popped(queue).owner \notin pending
    BY <1>2 DEF Settled, Passed
  <2>3. /\ Popped(queue).owner \in O
        /\ HeapOf(Popped(queue).queue, O \ {Popped(queue).owner})
    BY <2>1, PopHeap
  <2> QED
    BY <2>2, <2>3
<1> QED
  BY <1>1, <1>2

\* The first pending owner of a queue, if it has one, and a queue that has all
\* the others of them.
Takes(taken, O, pending) ==
    /\ O \cap pending = {} => taken.found = FALSE
    /\ O \cap pending # {} =>
          /\ taken.found = TRUE
          /\ taken.owner \in O \cap pending
          /\ \A o \in O \cap pending : taken.owner <= o
          /\ \E P \in SUBSET O :
                /\ HeapOf(taken.queue, P)
                /\ P \cap pending = (O \cap pending) \ {taken.owner}

\* popPendingOwner takes that one.
LEMMA PopPending ==
  ASSUME NEW O \in SUBSET Int, NEW queue, HeapOf(queue, O), NEW pending
  PROVE  Takes(PopPendingOwner(queue, pending), O, pending)
<1>0. PICK n \in Nat : n = Size(queue) /\ n = Cardinality(O) /\ IsFiniteSet(O)
  BY HeapSize, FS_CardinalityType
<1> DEFINE Follows(after, m) ==
      after = [k \in 0..m |-> IF k = 0 THEN queue ELSE Passed(after[k - 1], pending)]
\* What so many turns of the loop make of it exists.
<1>1. \A m \in Nat : \E after : Follows(after, m)
  <2> DEFINE reached == {m \in Nat : \E after : Follows(after, m)}
  <2>1. 0 \in reached
    <3>1. PICK after : after = [k \in 0..0 |-> queue]
      OBVIOUS
    <3>2. after = [k \in 0..0 |-> IF k = 0 THEN queue ELSE Passed(after[k - 1], pending)]
      BY <3>1
    <3> QED
      BY <3>2
  <2>2. ASSUME NEW m \in reached PROVE m + 1 \in reached
    <3>1. PICK after : Follows(after, m)
      OBVIOUS
    <3>2. PICK more : more = [k \in 0..(m + 1) |-> IF k <= m THEN after[k] ELSE Passed(after[m], pending)]
      OBVIOUS
    <3>3. ASSUME NEW k \in 0..(m + 1)
          PROVE  more[k] = IF k = 0 THEN queue ELSE Passed(more[k - 1], pending)
      <4>1. CASE k = 0
        BY <3>1, <3>2, <4>1
      <4>2. CASE k # 0 /\ k <= m
        <5>1. k \in 0..m /\ k - 1 \in 0..(m + 1) /\ k - 1 <= m
          BY <4>2
        <5>2. more[k] = after[k] /\ more[k - 1] = after[k - 1]
          BY <3>2, <4>2, <5>1
        <5> QED
          BY <3>1, <4>2, <5>1, <5>2
      <4>3. CASE k = m + 1
        <5>1. m \in 0..(m + 1) /\ ~(m + 1 <= m) /\ (m + 1) - 1 = m /\ m + 1 # 0
          OBVIOUS
        <5>2. more[m] = after[m] /\ more[m + 1] = Passed(after[m], pending)
          BY <3>2, <5>1
        <5> QED
          BY <4>3, <5>1, <5>2
      <4> QED
        BY <4>1, <4>2, <4>3
    <3>4. Follows(more, m + 1)
      <4>1. more = [k \in 0..(m + 1) |-> more[k]]
        BY <3>2
      <4> QED
        BY <3>3, <4>1
    <3> HIDE DEF Follows
    <3> QED
      BY <3>4
  <2> HIDE DEF reached
  <2>3. reached = Nat
    <3>1. reached \in SUBSET Nat
      BY DEF reached
    <3> QED
      BY <2>1, <2>2, <3>1, NumberInduction
  <2> QED
    BY <2>3 DEF reached
<1>2. PICK after : after = CHOOSE f : Follows(f, n)
  OBVIOUS
<1>3. Follows(after, n)
  <2> HIDE DEF Follows
  <2> QED
    BY <1>1, <1>2
<1>4. PICK left : left = after[n]
  OBVIOUS
<1>5. PopPendingOwner(queue, pending) =
        IF Size(left) = 0 THEN [found |-> FALSE]
        ELSE [found |-> TRUE, owner |-> Popped(left).owner, queue |-> Popped(left).queue]
  BY <1>0, <1>2, <1>4 DEF PopPendingOwner
<1>6. after[0] = queue /\ \A k \in 1..n : after[k] = Passed(after[k - 1], pending)
  BY <1>3
<1> HIDE DEF Follows
<1> DEFINE Good(m) ==
      \E P \in SUBSET O :
         /\ HeapOf(after[m], P)
         /\ P \cap pending = O \cap pending
         /\ Settled(after[m], pending) \/ Cardinality(P) <= n - m
<1>7. Good(0)
  BY <1>0, <1>6
<1>8. ASSUME NEW m \in Nat, m + 1 <= n, Good(m) PROVE Good(m + 1)
  <2>1. PICK at : at = after[m]
    OBVIOUS
  <2>2. after[m + 1] = Passed(at, pending)
    <3>1. m + 1 \in 1..n /\ (m + 1) - 1 = m
      BY <1>8
    <3> QED
      BY <1>6, <2>1, <3>1
  <2>3. PICK P \in SUBSET O :
           /\ HeapOf(at, P)
           /\ P \cap pending = O \cap pending
           /\ Settled(at, pending) \/ Cardinality(P) <= n - m
    BY <1>8, <2>1
  <2>4. CASE Settled(at, pending)
    <3>1. Passed(at, pending) = at
      BY <2>4 DEF Settled, Passed
    <3> QED
      BY <2>2, <2>3, <2>4, <3>1
  <2>5. CASE ~Settled(at, pending)
    <3>1. PICK o \in P : o \notin pending /\ HeapOf(Passed(at, pending), P \ {o})
      BY <2>3, <2>5, PassedOnce
    <3>2. IsFiniteSet(P) /\ Cardinality(P) \in Nat
      BY <1>0, FS_Subset, FS_CardinalityType
    <3>3. Cardinality(P \ {o}) = Cardinality(P) - 1
      BY <3>2, FS_RemoveElement
    <3>4. Cardinality(P \ {o}) <= n - (m + 1)
      BY <2>3, <2>5, <3>2, <3>3
    <3>5. (P \ {o}) \in SUBSET O /\ (P \ {o}) \cap pending = O \cap pending
      BY <2>3, <3>1
    <3> QED
      BY <2>2, <3>1, <3>4, <3>5
  <2> QED
    BY <2>4, <2>5
<1> DEFINE reached == {m \in Nat : m <= n => Good(m)}
<1>9. reached = Nat
  <2> HIDE DEF Good
  <2>1. 0 \in reached
    BY <1>7
  <2>2. ASSUME NEW m \in reached PROVE m + 1 \in reached
    BY <1>8
  <2> HIDE DEF reached
  <2>3. reached \in SUBSET Nat
    BY DEF reached
  <2> QED
    BY <2>1, <2>2, <2>3, NumberInduction
<1>10. Good(n)
  <2> HIDE DEF Good
  <2> QED
    BY <1>9
<1>11. PICK P \in SUBSET O :
         /\ HeapOf(left, P)
         /\ P \cap pending = O \cap pending
         /\ Settled(left, pending) \/ Cardinality(P) <= n - n
  BY <1>4, <1>10
<1>12. IsFiniteSet(P) /\ Cardinality(P) \in Nat /\ Size(left) = Cardinality(P)
  BY <1>11, HeapSize, FS_CardinalityType
<1>13. Settled(left, pending)
  BY <1>11, <1>12 DEF Settled
<1>14. CASE Size(left) = 0
  <2>1. P = {}
    BY <1>12, <1>14, FS_EmptySet
  <2>2. O \cap pending = {}
    BY <1>11, <2>1
  <2> QED
    BY <1>5, <1>14, <2>2 DEF Takes
<1>15. CASE Size(left) # 0
  <2>1. P # {}
    BY <1>12, <1>15, FS_EmptySet
  <2>2. PICK owner : owner = Popped(left).owner
    OBVIOUS
  <2>3. PICK rest : rest = Popped(left).queue
    OBVIOUS
  <2>4. owner \in P /\ \A o \in P : owner <= o
    BY <1>11, <2>1, <2>2, PopHeap
  <2>5. HeapOf(rest, P \ {owner})
    BY <1>11, <2>1, <2>2, <2>3, PopHeap
  <2>6. owner \in pending
    BY <1>13, <1>15, <2>2 DEF Settled
  <2>7. /\ PopPendingOwner(queue, pending).found = TRUE
        /\ PopPendingOwner(queue, pending).owner = owner
        /\ PopPendingOwner(queue, pending).queue = rest
    BY <1>5, <1>15, <2>2, <2>3
  <2>8. /\ owner \in O \cap pending
        /\ \A o \in O \cap pending : owner <= o
        /\ (P \ {owner}) \in SUBSET O
        /\ (P \ {owner}) \cap pending = (O \cap pending) \ {owner}
    BY <1>11, <2>4, <2>6
  <2> QED
    BY <2>5, <2>7, <2>8 DEF Takes
<1> QED
  BY <1>14, <1>15

-----------------------------------------------------------------------------
\* The owners left that wait for none of the others, and whom the rule of the
\* batch lets go next.
Free(left, providers) == {c \in left : providers[c] \cap left = {}}

GoesNext(owner, left, providers) ==
    LET next == IF Free(left, providers) # {} THEN Free(left, providers) ELSE left
    IN  owner \in next /\ \A o \in next : owner <= o

\* What DirtyBatch knows of the owners left: how many each of them waits for,
\* those that wait for none in one queue and all of them in the other.
Waiting(batch, members, providers) ==
    /\ batch.pending \in SUBSET members
    /\ batch.indegree \in [members -> Int]
    /\ \A c \in batch.pending :
          batch.indegree[c] = Cardinality(providers[c] \cap batch.pending)
    /\ \E R \in SUBSET members :
          HeapOf(batch.ready, R) /\ R \cap batch.pending = Free(batch.pending, providers)
    /\ \E M \in SUBSET members : HeapOf(batch.remaining, M) /\ batch.pending \subseteq M

\* What DirtyBatch has put in order: the owners that are not left, each in its turn.
Lined(result, pending, members, providers) ==
    /\ result \in Seq(members)
    /\ \A i, j \in 1..Len(result) : result[i] = result[j] => i = j
    /\ Firsts(result, Len(result)) = members \ pending
    /\ \A i \in 1..Len(result) : GoesNext(result[i], members \ Firsts(result, i - 1), providers)

\* An owner with one provider less among those left waits for one less.
LEMMA OneLess ==
  ASSUME NEW pending, IsFiniteSet(pending), NEW owner \in pending, NEW providers
  PROVE  Cardinality(providers \cap (pending \ {owner})) =
            IF owner \in providers THEN Cardinality(providers \cap pending) - 1
            ELSE Cardinality(providers \cap pending)
<1>1. PICK T : T = providers \cap pending
  OBVIOUS
<1>2. IsFiniteSet(T)
  BY <1>1, FS_Intersection
<1>3. Cardinality(T \ {owner}) = IF owner \in T THEN Cardinality(T) - 1 ELSE Cardinality(T)
  BY <1>2, FS_RemoveElement
<1>4. T \ {owner} = providers \cap (pending \ {owner}) /\ (owner \in T <=> owner \in providers)
  BY <1>1
<1> QED
  BY <1>1, <1>3, <1>4

\* An owner waits for none when it counts none.
LEMMA CountsNone ==
  ASSUME NEW pending, IsFiniteSet(pending), NEW providers
  PROVE  /\ Cardinality(providers \cap pending) \in Int
         /\ Cardinality(providers \cap pending) = 0 <=> providers \cap pending = {}
<1>1. PICK T : T = providers \cap pending
  OBVIOUS
<1>2. IsFiniteSet(T)
  BY <1>1, FS_Intersection
<1>3. Cardinality(T) \in Nat /\ (Cardinality(T) = 0 <=> T = {})
  BY <1>2, FS_CardinalityType, FS_EmptySet
<1> QED
  BY <1>1, <1>3

\* A turn that selects an owner, and the queues it leaves before those that wait
\* for nobody any more are pushed.
Selects(batch, members, providers, owner, ready, remaining) ==
    /\ GoesNext(owner, batch.pending, providers)
    /\ \E R \in SUBSET members :
          /\ HeapOf(ready, R)
          /\ R \cap batch.pending = Free(batch.pending, providers) \ {owner}
    /\ \E M \in SUBSET members :
          HeapOf(remaining, M) /\ batch.pending \ {owner} \subseteq M
    /\ LET pending == batch.pending \ {owner}
           consumers == {c \in pending : owner \in providers[c]}
           indegree == [c \in DOMAIN batch.indegree |->
                           IF c \in consumers THEN batch.indegree[c] - 1
                                              ELSE batch.indegree[c]]
       IN  Selected(batch, providers) =
             [pending |-> pending, indegree |-> indegree,
              ready |-> PushAll(ready, {c \in consumers : indegree[c] = 0}),
              remaining |-> remaining,
              result |-> Append(batch.result, owner)]

\* Every turn is of that kind.
LEMMA SelectedOwner ==
  ASSUME NEW members \in SUBSET Int, NEW batch, NEW providers,
         Waiting(batch, members, providers), batch.pending # {}
  PROVE  \E owner \in batch.pending : \E ready, remaining :
            Selects(batch, members, providers, owner, ready, remaining)
<1>1. PICK pending \in SUBSET members : pending = batch.pending
  BY DEF Waiting
<1>2. PICK R \in SUBSET members : HeapOf(batch.ready, R) /\ R \cap pending = Free(pending, providers)
  BY <1>1 DEF Waiting
<1>3. PICK M \in SUBSET members : HeapOf(batch.remaining, M) /\ pending \subseteq M
  BY <1>1 DEF Waiting
<1>4. PICK first : first = PopPendingOwner(batch.ready, pending)
  OBVIOUS
<1>5. PICK any : any = PopPendingOwner(batch.remaining, pending)
  OBVIOUS
<1>6. R \in SUBSET Int /\ M \in SUBSET Int /\ M \cap pending = pending
  BY <1>3
<1>7. Takes(first, R, pending) /\ Takes(any, M, pending)
  BY <1>2, <1>3, <1>4, <1>5, <1>6, PopPending
<1>8. CASE Free(pending, providers) # {}
  <2>1. R \cap pending # {}
    BY <1>2, <1>8
  <2>2. /\ first.found = TRUE
        /\ first.owner \in R \cap pending
        /\ \A o \in R \cap pending : first.owner <= o
    BY <1>7, <2>1 DEF Takes
  <2>3. PICK P \in SUBSET R :
           HeapOf(first.queue, P) /\ P \cap pending = (R \cap pending) \ {first.owner}
    BY <1>7, <2>1 DEF Takes
  <2>4. PICK owner \in pending : owner = first.owner
    BY <2>2
  <2>5. GoesNext(owner, pending, providers)
    BY <1>2, <1>8, <2>2, <2>4 DEF GoesNext
  <2>6. P \in SUBSET members /\ P \cap pending = Free(pending, providers) \ {owner}
    BY <1>2, <2>3, <2>4
  <2>7. pending \ {owner} \subseteq M
    BY <1>3
  <2>8. LET left == pending \ {owner}
            consumers == {c \in left : owner \in providers[c]}
            indegree == [c \in DOMAIN batch.indegree |->
                            IF c \in consumers THEN batch.indegree[c] - 1
                                               ELSE batch.indegree[c]]
        IN  Selected(batch, providers) =
              [pending |-> left, indegree |-> indegree,
               ready |-> PushAll(first.queue, {c \in consumers : indegree[c] = 0}),
               remaining |-> batch.remaining,
               result |-> Append(batch.result, owner)]
    BY <1>1, <1>4, <2>2, <2>4 DEF Selected
  <2> QED
    BY <1>1, <1>3, <2>3, <2>5, <2>6, <2>7, <2>8 DEF Selects
<1>9. CASE Free(pending, providers) = {}
  <2>1. first.found = FALSE
    BY <1>2, <1>9, <1>7 DEF Takes
  <2>2. M \cap pending # {}
    BY <1>1, <1>6
  <2>3. /\ any.found = TRUE
        /\ any.owner \in M \cap pending
        /\ \A o \in M \cap pending : any.owner <= o
    BY <1>7, <2>2 DEF Takes
  <2>4. PICK P \in SUBSET M :
           HeapOf(any.queue, P) /\ P \cap pending = (M \cap pending) \ {any.owner}
    BY <1>7, <2>2 DEF Takes
  <2>5. PICK owner \in pending : owner = any.owner
    BY <2>3
  <2>6. GoesNext(owner, pending, providers)
    BY <1>6, <1>9, <2>3, <2>5 DEF GoesNext
  <2>7. {} \in SUBSET members /\ {} \cap pending = Free(pending, providers) \ {owner}
    BY <1>9
  <2>8. P \in SUBSET members /\ pending \ {owner} \subseteq P
    BY <1>6, <2>4, <2>5
  <2>9. LET left == pending \ {owner}
            consumers == {c \in left : owner \in providers[c]}
            indegree == [c \in DOMAIN batch.indegree |->
                            IF c \in consumers THEN batch.indegree[c] - 1
                                               ELSE batch.indegree[c]]
        IN  Selected(batch, providers) =
              [pending |-> left, indegree |-> indegree,
               ready |-> PushAll(EmptyQueue, {c \in consumers : indegree[c] = 0}),
               remaining |-> any.queue,
               result |-> Append(batch.result, owner)]
    BY <1>1, <1>4, <1>5, <2>1, <2>5 DEF Selected
  <2> QED
    BY <1>1, <2>4, <2>6, <2>7, <2>8, <2>9, EmptyHeap DEF Selects
<1> QED
  BY <1>8, <1>9

\* A turn of DirtyBatch lets the next owner go and knows of the others what it
\* has to.
LEMMA SelectedOnce ==
  ASSUME NEW members \in SUBSET Int, IsFiniteSet(members), NEW batch, NEW providers,
         Waiting(batch, members, providers), batch.pending # {}
  PROVE  \E owner \in batch.pending :
            /\ GoesNext(owner, batch.pending, providers)
            /\ Selected(batch, providers).pending = batch.pending \ {owner}
            /\ Selected(batch, providers).result = Append(batch.result, owner)
            /\ Waiting(Selected(batch, providers), members, providers)
<1>1. PICK pending \in SUBSET members : pending = batch.pending
  BY DEF Waiting
<1>2. PICK counts \in [members -> Int] : counts = batch.indegree
  BY DEF Waiting
<1>3. PICK owner \in batch.pending : \E ready, remaining :
         Selects(batch, members, providers, owner, ready, remaining)
  BY SelectedOwner
<1>4. PICK ready : \E remaining :
         /\ GoesNext(owner, pending, providers)
         /\ \E R \in SUBSET members :
               /\ HeapOf(ready, R)
               /\ R \cap pending = Free(pending, providers) \ {owner}
         /\ \E M \in SUBSET members :
               HeapOf(remaining, M) /\ pending \ {owner} \subseteq M
         /\ LET left == pending \ {owner}
                consumers == {c \in left : owner \in providers[c]}
                indegree == [c \in members |->
                                IF c \in consumers THEN counts[c] - 1
                                                   ELSE counts[c]]
            IN  Selected(batch, providers) =
                  [pending |-> left, indegree |-> indegree,
                   ready |-> PushAll(ready, {c \in consumers : indegree[c] = 0}),
                   remaining |-> remaining,
                   result |-> Append(batch.result, owner)]
  BY <1>1, <1>2, <1>3 DEF Selects
<1>5. PICK left \in SUBSET members : left = pending \ {owner}
  OBVIOUS
<1>6. PICK indegree : indegree = [c \in members |->
                        IF c \in left /\ owner \in providers[c] THEN counts[c] - 1 ELSE counts[c]]
  OBVIOUS
<1>7. PICK freed : freed = {c \in left : owner \in providers[c] /\ indegree[c] = 0}
  OBVIOUS
<1>8. PICK after : after = Selected(batch, providers)
  OBVIOUS
<1>9. PICK remaining :
         /\ \E M \in SUBSET members : HeapOf(remaining, M) /\ left \subseteq M
         /\ after = [pending |-> left, indegree |-> indegree,
                     ready |-> PushAll(ready, freed),
                     remaining |-> remaining,
                     result |-> Append(batch.result, owner)]
  <2>1. {c \in {c \in left : owner \in providers[c]} : indegree[c] = 0} = freed
    BY <1>7
  <2>2. indegree = [c \in members |-> IF c \in {d \in left : owner \in providers[d]}
                                    THEN counts[c] - 1 ELSE counts[c]]
    BY <1>6
  <2> QED
    BY <1>4, <1>5, <1>8, <2>1, <2>2
<1>10. PICK R \in SUBSET members :
          HeapOf(ready, R) /\ R \cap pending = Free(pending, providers) \ {owner}
  BY <1>4
<1>11. /\ after.pending = left /\ after.indegree = indegree
       /\ after.ready = PushAll(ready, freed) /\ after.remaining = remaining
       /\ after.result = Append(batch.result, owner)
  BY <1>9
<1>12. IsFiniteSet(pending) /\ IsFiniteSet(left) /\ IsFiniteSet(freed)
  <2>1. freed \in SUBSET members
    BY <1>7
  <2>2. IsFiniteSet(pending)
    BY FS_Subset
  <2>3. IsFiniteSet(left)
    BY FS_Subset
  <2>4. IsFiniteSet(freed)
    BY <2>1, FS_Subset
  <2> QED
    BY <2>2, <2>3, <2>4
<1>13. indegree \in [members -> Int]
  <2>1. ASSUME NEW c \in members PROVE counts[c] \in Int /\ counts[c] - 1 \in Int
    <3>1. counts[c] \in Int
      BY <1>2
    <3> QED
      BY <3>1
  <2> QED
    BY <1>6, <2>1
<1>14. ASSUME NEW c \in left PROVE indegree[c] = Cardinality(providers[c] \cap left)
  <2>1. counts[c] = Cardinality(providers[c] \cap pending)
    BY <1>1, <1>2, <1>5 DEF Waiting
  <2>2. Cardinality(providers[c] \cap left) =
           IF owner \in providers[c] THEN Cardinality(providers[c] \cap pending) - 1
           ELSE Cardinality(providers[c] \cap pending)
    <3>1. PICK T : T = providers[c]
      OBVIOUS
    <3>2. owner \in pending
      BY <1>1
    <3>3. Cardinality(T \cap (pending \ {owner})) =
             IF owner \in T THEN Cardinality(T \cap pending) - 1 ELSE Cardinality(T \cap pending)
      BY <1>12, <3>2, OneLess
    <3> QED
      BY <1>5, <3>1, <3>3
  <2> QED
    BY <1>6, <2>1, <2>2
<1>15. ASSUME NEW c \in left PROVE indegree[c] = 0 <=> providers[c] \cap left = {}
  <2>1. Cardinality(providers[c] \cap left) = 0 <=> providers[c] \cap left = {}
    BY <1>12, CountsNone
  <2> QED
    BY <1>14, <2>1
<1>16. (R \cup freed) \cap left = Free(left, providers)
  <2>1. ASSUME NEW c \in left PROVE (c \in R \/ c \in freed) <=> providers[c] \cap left = {}
    <3>1. c \in R <=> providers[c] \cap pending = {}
      BY <1>5, <1>10 DEF Free
    <3>2. c \in freed <=> owner \in providers[c] /\ providers[c] \cap left = {}
      BY <1>7, <1>15
    <3> QED
      BY <1>5, <3>1, <3>2
  <2> QED
    BY <2>1 DEF Free
<1>17. HeapOf(PushAll(ready, freed), R \cup freed) /\ R \cup freed \in SUBSET members
  <2>1. freed \in SUBSET Int /\ R \in SUBSET Int /\ R \cup freed \in SUBSET members
    BY <1>7
  <2> QED
    BY <1>10, <1>12, <2>1, PushAllHeap
<1>18. Waiting(after, members, providers)
  BY <1>9, <1>11, <1>13, <1>14, <1>16, <1>17 DEF Waiting
<1> QED
  BY <1>1, <1>4, <1>5, <1>8, <1>11, <1>18

\* The order stays that of the rule when the next owner is put at its end.
LEMMA LinedOnce ==
  ASSUME NEW members, NEW pending \in SUBSET members, NEW providers, NEW result,
         Lined(result, pending, members, providers),
         NEW owner \in pending, GoesNext(owner, pending, providers)
  PROVE  /\ Lined(Append(result, owner), pending \ {owner}, members, providers)
         /\ Len(Append(result, owner)) = Len(result) + 1
<1>1. PICK n \in Nat : n = Len(result)
  BY LenProperties DEF Lined
<1>2. PICK more : more = Append(result, owner)
  OBVIOUS
<1>3. /\ more \in Seq(members) /\ Len(more) = n + 1
      /\ \A i \in 1..n : more[i] = result[i]
      /\ more[n + 1] = owner
  BY <1>1, <1>2, AppendProperties DEF Lined
<1>4. Firsts(result, n) = members \ pending
  BY <1>1 DEF Lined
<1>5. \A k \in 0..n : Firsts(more, k) = Firsts(result, k)
  <2>1. \A k \in 0..n : \A i \in 1..k : i \in 1..n
    OBVIOUS
  <2> QED
    BY <1>3, <2>1 DEF Firsts
<1>6. Firsts(more, n + 1) = members \ (pending \ {owner})
  <2>1. \A i \in 1..(n + 1) : i = n + 1 \/ i \in 1..n
    OBVIOUS
  <2>2. n + 1 \in 1..(n + 1) /\ \A i \in 1..n : i \in 1..(n + 1)
    OBVIOUS
  <2>3. Firsts(more, n + 1) = Firsts(result, n) \cup {owner}
    BY <1>3, <2>1, <2>2 DEF Firsts
  <2> QED
    BY <1>4, <2>3
<1>7. ASSUME NEW i \in 1..(n + 1), NEW j \in 1..(n + 1), more[i] = more[j] PROVE i = j
  <2>1. \A k \in 1..n : result[k] \in Firsts(result, n)
    BY DEF Firsts
  <2>2. \A k \in 1..n : more[k] # owner
    BY <1>3, <1>4, <2>1
  <2>3. CASE i = n + 1 \/ j = n + 1
    BY <1>3, <1>7, <2>2, <2>3
  <2>4. CASE i # n + 1 /\ j # n + 1
    <3>1. i \in 1..n /\ j \in 1..n
      BY <2>4
    <3> QED
      BY <1>1, <1>3, <1>7, <3>1 DEF Lined
  <2> QED
    BY <2>3, <2>4
<1>8. ASSUME NEW i \in 1..(n + 1)
      PROVE  GoesNext(more[i], members \ Firsts(more, i - 1), providers)
  <2>1. i - 1 \in 0..n
    OBVIOUS
  <2>2. Firsts(more, i - 1) = Firsts(result, i - 1)
    BY <1>5, <2>1
  <2>3. CASE i = n + 1
    <3>1. i - 1 = n /\ members \ Firsts(result, n) = pending
      BY <1>4, <2>3
    <3> QED
      BY <1>3, <2>2, <2>3, <3>1
  <2>4. CASE i # n + 1
    <3>1. i \in 1..n
      BY <2>4
    <3> QED
      BY <1>1, <1>3, <2>2, <3>1 DEF Lined
  <2> QED
    BY <2>3, <2>4
<1> QED
  BY <1>1, <1>2, <1>3, <1>6, <1>7, <1>8 DEF Lined

\* What DirtyBatch starts from.
LEMMA WaitingAtFirst ==
  ASSUME NEW members \in SUBSET Int, IsFiniteSet(members), NEW providers, NEW batch,
         NEW indegree, indegree = [c \in members |-> Cardinality(providers[c] \cap members)],
         batch = [pending |-> members,
                  indegree |-> indegree,
                  ready |-> PushAll(EmptyQueue, {c \in members : indegree[c] = 0}),
                  remaining |-> PushAll(EmptyQueue, members),
                  result |-> <<>>]
  PROVE  Waiting(batch, members, providers) /\ Lined(batch.result, members, members, providers)
<1>1. ASSUME NEW c \in members
      PROVE  /\ indegree[c] = Cardinality(providers[c] \cap members)
             /\ indegree[c] \in Int
             /\ indegree[c] = 0 <=> providers[c] \cap members = {}
  <2>1. /\ Cardinality(providers[c] \cap members) \in Int
        /\ Cardinality(providers[c] \cap members) = 0 <=> providers[c] \cap members = {}
    BY CountsNone
  <2>2. indegree[c] = Cardinality(providers[c] \cap members)
    OBVIOUS
  <2> QED
    BY <2>1, <2>2
<1>2. indegree \in [members -> Int]
  BY <1>1
<1>3. PICK free \in SUBSET members : free = {c \in members : indegree[c] = 0}
  OBVIOUS
<1>4. free = Free(members, providers)
  BY <1>1, <1>3 DEF Free
<1>5. IsFiniteSet(free) /\ free \in SUBSET Int /\ {} \in SUBSET Int
  BY FS_Subset
<1>6. HeapOf(PushAll(EmptyQueue, free), {} \cup free)
  BY <1>5, EmptyHeap, PushAllHeap
<1>7. HeapOf(PushAll(EmptyQueue, members), {} \cup members)
  BY <1>5, EmptyHeap, PushAllHeap
<1>8. PICK ready : ready = PushAll(EmptyQueue, free)
  OBVIOUS
<1>9. PICK remaining : remaining = PushAll(EmptyQueue, members)
  OBVIOUS
<1>10. HeapOf(ready, free) /\ HeapOf(remaining, members)
  <2>1. {} \cup free = free /\ {} \cup members = members
    OBVIOUS
  <2> QED
    BY <1>6, <1>7, <1>8, <1>9, <2>1
<1>11. /\ batch.pending = members /\ batch.indegree = indegree
       /\ batch.ready = ready /\ batch.remaining = remaining /\ batch.result = <<>>
  BY <1>3, <1>8, <1>9
<1>12. free \cap members = Free(members, providers)
  BY <1>4
<1>13. Waiting(batch, members, providers)
  BY <1>1, <1>2, <1>10, <1>11, <1>12 DEF Waiting
<1>14. Lined(<<>>, members, members, providers)
  <2>1. <<>> \in Seq(members) /\ Len(<<>>) = 0
    BY EmptySeq
  <2>2. Firsts(<<>>, 0) = {}
    BY DEF Firsts
  <2> QED
    BY <2>1, <2>2 DEF Lined
<1> QED
  BY <1>11, <1>13, <1>14

\* DirtyBatch lets its owners go one after the other, each the next by the rule.
LEMMA BatchIsLined ==
  ASSUME NEW members \in SUBSET Int, IsFiniteSet(members), NEW providers
  PROVE  /\ Lined(DirtyBatch(members, providers), {}, members, providers)
         /\ Len(DirtyBatch(members, providers)) = Cardinality(members)
<1> DEFINE indegree == [c \in members |-> Cardinality(providers[c] \cap members)]
           start == [pending |-> members,
                     indegree |-> indegree,
                     ready |-> PushAll(EmptyQueue, {c \in members : indegree[c] = 0}),
                     remaining |-> PushAll(EmptyQueue, members),
                     result |-> <<>>]
<1> HIDE DEF indegree, start
<1>0. PICK n \in Nat : n = Cardinality(members)
  BY FS_CardinalityType
<1> DEFINE Follows(after, m) ==
      after = [k \in 0..m |-> IF k = 0 THEN start ELSE Selected(after[k - 1], providers)]
\* What so many turns of the loop make of it exists.
<1>1. \A m \in Nat : \E after : Follows(after, m)
  <2> DEFINE reached == {m \in Nat : \E after : Follows(after, m)}
  <2>1. 0 \in reached
    <3>1. PICK after : after = [k \in 0..0 |-> start]
      OBVIOUS
    <3>2. after = [k \in 0..0 |-> IF k = 0 THEN start ELSE Selected(after[k - 1], providers)]
      BY <3>1
    <3> QED
      BY <3>2
  <2>2. ASSUME NEW m \in reached PROVE m + 1 \in reached
    <3>1. PICK after : Follows(after, m)
      OBVIOUS
    <3>2. PICK more : more = [k \in 0..(m + 1) |-> IF k <= m THEN after[k] ELSE Selected(after[m], providers)]
      OBVIOUS
    <3>3. ASSUME NEW k \in 0..(m + 1)
          PROVE  more[k] = IF k = 0 THEN start ELSE Selected(more[k - 1], providers)
      <4>1. CASE k = 0
        BY <3>1, <3>2, <4>1
      <4>2. CASE k # 0 /\ k <= m
        <5>1. k \in 0..m /\ k - 1 \in 0..(m + 1) /\ k - 1 <= m
          BY <4>2
        <5>2. more[k] = after[k] /\ more[k - 1] = after[k - 1]
          BY <3>2, <4>2, <5>1
        <5> QED
          BY <3>1, <4>2, <5>1, <5>2
      <4>3. CASE k = m + 1
        <5>1. m \in 0..(m + 1) /\ ~(m + 1 <= m) /\ (m + 1) - 1 = m /\ m + 1 # 0
          OBVIOUS
        <5>2. more[m] = after[m] /\ more[m + 1] = Selected(after[m], providers)
          BY <3>2, <5>1
        <5> QED
          BY <4>3, <5>1, <5>2
      <4> QED
        BY <4>1, <4>2, <4>3
    <3>4. Follows(more, m + 1)
      <4>1. more = [k \in 0..(m + 1) |-> more[k]]
        BY <3>2
      <4> QED
        BY <3>3, <4>1
    <3> HIDE DEF Follows
    <3> QED
      BY <3>4
  <2> HIDE DEF reached
  <2>3. reached = Nat
    <3>1. reached \in SUBSET Nat
      BY DEF reached
    <3> QED
      BY <2>1, <2>2, <3>1, NumberInduction
  <2> QED
    BY <2>3 DEF reached
<1>2. PICK after : after = CHOOSE f : Follows(f, n)
  OBVIOUS
<1>3. Follows(after, n)
  <2> HIDE DEF Follows
  <2> QED
    BY <1>1, <1>2
<1>4. DirtyBatch(members, providers) = after[n].result
  BY <1>0, <1>2 DEF DirtyBatch, start, indegree
<1>5. after[0] = start
  BY <1>3
<1>6. \A k \in 1..n : after[k] = Selected(after[k - 1], providers)
  BY <1>3
<1> HIDE DEF Follows
<1> DEFINE Good(m) ==
      /\ Waiting(after[m], members, providers)
      /\ Lined(after[m].result, after[m].pending, members, providers)
      /\ Len(after[m].result) = m
      /\ Cardinality(after[m].pending) = n - m
<1>7. Good(0)
  <2>1. PICK counts : counts = indegree
    OBVIOUS
  <2>2. PICK batch : batch = start
    OBVIOUS
  <2>3. /\ counts = [c \in members |-> Cardinality(providers[c] \cap members)]
        /\ batch = [pending |-> members,
                    indegree |-> counts,
                    ready |-> PushAll(EmptyQueue, {c \in members : counts[c] = 0}),
                    remaining |-> PushAll(EmptyQueue, members),
                    result |-> <<>>]
    BY <2>1, <2>2 DEF start, indegree
  <2>4. Waiting(batch, members, providers) /\ Lined(batch.result, members, members, providers)
    BY <2>3, WaitingAtFirst
  <2>5. batch.pending = members /\ Len(batch.result) = 0 /\ n - 0 = n
    BY <2>3
  <2> QED
    BY <1>0, <1>5, <2>2, <2>4, <2>5
<1>8. ASSUME NEW m \in Nat, m + 1 <= n, Good(m) PROVE Good(m + 1)
  <2>1. PICK batch : batch = after[m]
    OBVIOUS
  <2>2. PICK next : next = Selected(batch, providers)
    OBVIOUS
  <2>3. after[m + 1] = next
    <3>1. m + 1 \in 1..n /\ (m + 1) - 1 = m
      BY <1>8
    <3> QED
      BY <1>6, <2>1, <2>2, <3>1
  <2>4. /\ Waiting(batch, members, providers)
        /\ Lined(batch.result, batch.pending, members, providers)
        /\ Len(batch.result) = m
        /\ Cardinality(batch.pending) = n - m
    BY <1>8, <2>1
  <2>5. PICK pending \in SUBSET members : pending = batch.pending
    BY <2>4 DEF Waiting
  <2>6. PICK result : result = batch.result
    OBVIOUS
  <2>7. IsFiniteSet(pending) /\ pending # {}
    <3>1. IsFiniteSet(pending)
      BY FS_Subset
    <3>2. Cardinality(pending) # 0
      BY <1>8, <2>4, <2>5
    <3> QED
      BY <3>1, <3>2, FS_EmptySet
  <2>8. PICK owner \in pending :
           /\ GoesNext(owner, pending, providers)
           /\ next.pending = pending \ {owner}
           /\ next.result = Append(result, owner)
           /\ Waiting(next, members, providers)
    BY <2>2, <2>4, <2>5, <2>6, <2>7, SelectedOnce
  <2>9. /\ Lined(Append(result, owner), pending \ {owner}, members, providers)
        /\ Len(Append(result, owner)) = Len(result) + 1
    BY <2>4, <2>5, <2>6, <2>8, LinedOnce
  <2>10. Cardinality(pending \ {owner}) = Cardinality(pending) - 1
    BY <2>7, FS_RemoveElement
  <2>11. Len(next.result) = m + 1 /\ Cardinality(next.pending) = n - (m + 1)
    BY <2>4, <2>5, <2>6, <2>8, <2>9, <2>10
  <2> QED
    BY <2>3, <2>8, <2>9, <2>11
<1> DEFINE reached == {m \in Nat : m <= n => Good(m)}
<1>9. reached = Nat
  <2> HIDE DEF Good
  <2>1. 0 \in reached
    BY <1>7
  <2>2. ASSUME NEW m \in reached PROVE m + 1 \in reached
    BY <1>8
  <2> HIDE DEF reached
  <2>3. reached \in SUBSET Nat
    BY DEF reached
  <2> QED
    BY <2>1, <2>2, <2>3, NumberInduction
<1>10. Good(n)
  <2> HIDE DEF Good
  <2> QED
    BY <1>9
<1>11. PICK left \in SUBSET members : left = after[n].pending
  BY <1>10 DEF Waiting
<1>12. left = {}
  <2>1. IsFiniteSet(left)
    BY FS_Subset
  <2>2. Cardinality(left) = 0
    BY <1>10, <1>11
  <2> QED
    BY <2>1, <2>2, FS_EmptySet
<1> QED
  BY <1>0, <1>4, <1>10, <1>11, <1>12

\* For any finite set of dirty owners and whatever depends on what, the batch
\* comes in the order of the rule.
THEOREM BatchOrdered ==
  ASSUME NEW all \in SUBSET Int, IsFiniteSet(all)
  PROVE  BatchFollowsRule(all)
<1>1. SUFFICES ASSUME NEW members \in SUBSET all, NEW providers
      PROVE  FollowsRule(DirtyBatch(members, providers), members, providers)
  BY DEF BatchFollowsRule
<1>2. members \in SUBSET Int /\ IsFiniteSet(members)
  BY FS_Subset
<1>3. PICK batch : batch = DirtyBatch(members, providers)
  OBVIOUS
<1>4. Lined(batch, {}, members, providers) /\ Len(batch) = Cardinality(members)
  BY <1>2, <1>3, BatchIsLined
<1>5. PICK n \in Nat : n = Len(batch) /\ DOMAIN batch = 1..n
  BY <1>4, LenProperties DEF Lined
<1>6. Firsts(batch, n) = members
  BY <1>4, <1>5 DEF Lined
<1>7. {batch[i] : i \in DOMAIN batch} = members
  BY <1>5, <1>6 DEF Firsts
<1>8. ASSUME NEW i \in 1..n, NEW left, left = {batch[j] : j \in i..n}
      PROVE  LET ready == {c \in left : providers[c] \cap left = {}}
                 next == IF ready # {} THEN ready ELSE left
             IN  batch[i] \in next /\ \A o \in next : batch[i] <= o
  <2>1. left = members \ Firsts(batch, i - 1)
    <3>1. \A j \in 1..n : j \in i..n <=> j \notin 1..(i - 1)
      OBVIOUS
    <3>2. \A j \in i..n : j \in 1..n
      OBVIOUS
    <3>3. \A j \in 1..(i - 1) : j \in 1..n
      OBVIOUS
    <3>4. \A j, k \in 1..n : batch[j] = batch[k] => j = k
      BY <1>4, <1>5 DEF Lined
    <3>5. ASSUME NEW o PROVE o \in left <=> o \in members /\ o \notin Firsts(batch, i - 1)
      <4>1. o \in left <=> \E j \in i..n : batch[j] = o
        BY <1>8
      <4>2. o \in members <=> \E j \in 1..n : batch[j] = o
        BY <1>6 DEF Firsts
      <4>3. o \in Firsts(batch, i - 1) <=> \E j \in 1..(i - 1) : batch[j] = o
        BY DEF Firsts
      <4> QED
        BY <3>1, <3>2, <3>3, <3>4, <4>1, <4>2, <4>3
    <3> QED
      BY <3>5
  <2>2. GoesNext(batch[i], left, providers)
    BY <1>4, <1>5, <2>1 DEF Lined
  <2> QED
    BY <2>2 DEF GoesNext, Free
<1>9. ASSUME NEW i \in DOMAIN batch
      PROVE  LET left == {batch[j] : j \in i..Len(batch)}
                 ready == {c \in left : providers[c] \cap left = {}}
                 next == IF ready # {} THEN ready ELSE left
             IN  batch[i] \in next /\ \A o \in next : batch[i] <= o
  <2>1. PICK left : left = {batch[j] : j \in i..n}
    OBVIOUS
  <2>2. i \in 1..n /\ Len(batch) = n
    BY <1>5
  <2> QED
    BY <1>8, <2>1, <2>2
<1>10. FollowsRule(batch, members, providers)
  BY <1>4, <1>7, <1>9 DEF FollowsRule
<1> QED
  BY <1>3, <1>10

-----------------------------------------------------------------------------
(* The history of contracts *)

\* Part of a sequence.
LEMMA PartOf ==
  ASSUME NEW S, NEW s \in Seq(S), NEW m \in 1..(Len(s) + 1), NEW n \in 0..Len(s), m <= n + 1
  PROVE  /\ SubSeq(s, m, n) \in Seq(S)
         /\ Len(SubSeq(s, m, n)) = n - m + 1
         /\ \A i \in 1..(n - m + 1) : SubSeq(s, m, n)[i] = s[m + i - 1]
<1>1. Len(s) \in Nat /\ \A i \in 1..Len(s) : s[i] \in S
  BY LenProperties, ElementOfSeq
<1>2. m \in Int /\ n \in Int /\ \A i \in m..n : s[i] \in S
  BY <1>1
<1>3. /\ SubSeq(s, m, n) \in Seq(S)
      /\ Len(SubSeq(s, m, n)) = IF m <= n THEN n - m + 1 ELSE 0
      /\ \A i \in 1..(n - m + 1) : SubSeq(s, m, n)[i] = s[m + i - 1]
  BY <1>2, SubSeqProperties
<1>4. Len(SubSeq(s, m, n)) = n - m + 1
  BY <1>2, <1>3
<1> QED
  BY <1>3, <1>4

\* The rest of a sequence after its first n members.
LEMMA RestOf ==
  ASSUME NEW S, NEW s \in Seq(S), NEW n \in 0..Len(s)
  PROVE  /\ From(s, n) \in Seq(S)
         /\ Len(From(s, n)) = Len(s) - n
         /\ \A i \in 1..(Len(s) - n) : From(s, n)[i] = s[n + i]
<1>1. PICK l \in Nat : l = Len(s)
  BY LenProperties
<1>2. n + 1 \in 1..(Len(s) + 1) /\ Len(s) \in 0..Len(s) /\ n + 1 <= Len(s) + 1
  BY <1>1
<1>3. /\ From(s, n) \in Seq(S)
      /\ Len(From(s, n)) = Len(s) - (n + 1) + 1
      /\ \A i \in 1..(Len(s) - (n + 1) + 1) : From(s, n)[i] = s[(n + 1) + i - 1]
  BY <1>2, PartOf DEF From
<1>4. l - (n + 1) + 1 = l - n /\ \A i \in 1..(l - n) : (n + 1) + i - 1 = n + i
  BY <1>1
<1> QED
  BY <1>1, <1>3, <1>4

\* What the loops of commonPrefixLength and commonSuffixLength stop at.
LEMMA CommonPrefix ==
  ASSUME NEW S, NEW left \in Seq(S), NEW right \in Seq(S)
  PROVE  LET n == CommonPrefixLength(left, right) IN
         /\ n \in 0..Len(left) /\ n \in 0..Len(right)
         /\ \A i \in 1..n : left[i] = right[i]
<1>1. PICK most \in Nat : /\ most = Shorter(left, right)
                          /\ most <= Len(left) /\ most <= Len(right)
  BY LenProperties DEF Shorter
<1> DEFINE stops == {n \in Nat : n = most \/ left[n + 1] # right[n + 1]}
<1>2. PICK n \in stops : \A k \in stops : n <= k
  <2>1. most \in stops
    OBVIOUS
  <2> HIDE DEF stops
  <2>2. stops \in SUBSET Nat
    BY DEF stops
  <2> QED
    BY <2>1, <2>2, LeastNumber
<1>3. n \in 0..most /\ (n = most \/ left[n + 1] # right[n + 1])
  BY <1>2
<1>4. ASSUME NEW i \in 1..n PROVE left[i] = right[i]
  <2>1. i - 1 \in Nat /\ ~(n <= i - 1) /\ (i - 1) + 1 = i
    BY <1>3
  <2>2. i - 1 \notin stops
    BY <1>2, <2>1
  <2> QED
    BY <2>1, <2>2
<1>5. \E k \in 0..Shorter(left, right) :
         /\ \A i \in 1..k : left[i] = right[i]
         /\ k = Shorter(left, right) \/ left[k + 1] # right[k + 1]
  BY <1>1, <1>3, <1>4
<1>6. LET k == CommonPrefixLength(left, right) IN
      k \in 0..Shorter(left, right) /\ \A i \in 1..k : left[i] = right[i]
  BY <1>5 DEF CommonPrefixLength
<1>7. CommonPrefixLength(left, right) \in 0..most
  BY <1>1, <1>6
<1> QED
  BY <1>1, <1>6, <1>7, LenProperties

LEMMA CommonSuffix ==
  ASSUME NEW S, NEW left \in Seq(S), NEW right \in Seq(S)
  PROVE  LET n == CommonSuffixLength(left, right) IN
         /\ n \in 0..Len(left) /\ n \in 0..Len(right)
         /\ \A i \in 0..(n - 1) : left[Len(left) - i] = right[Len(right) - i]
<1>1. PICK most \in Nat : /\ most = Shorter(left, right)
                          /\ most <= Len(left) /\ most <= Len(right)
  BY LenProperties DEF Shorter
<1> DEFINE stops == {n \in Nat : n = most \/ left[Len(left) - n] # right[Len(right) - n]}
<1>2. PICK n \in stops : \A k \in stops : n <= k
  <2>1. most \in stops
    OBVIOUS
  <2> HIDE DEF stops
  <2>2. stops \in SUBSET Nat
    BY DEF stops
  <2> QED
    BY <2>1, <2>2, LeastNumber
<1>3. n \in 0..most /\ (n = most \/ left[Len(left) - n] # right[Len(right) - n])
  BY <1>2
<1>4. ASSUME NEW i \in 0..(n - 1) PROVE left[Len(left) - i] = right[Len(right) - i]
  <2>1. i \in Nat /\ ~(n <= i)
    BY <1>3
  <2>2. i \notin stops
    BY <1>2, <2>1
  <2> QED
    BY <2>1, <2>2
<1>5. \E k \in 0..Shorter(left, right) :
         /\ \A i \in 0..(k - 1) : left[Len(left) - i] = right[Len(right) - i]
         /\ k = Shorter(left, right) \/ left[Len(left) - k] # right[Len(right) - k]
  BY <1>1, <1>3, <1>4
<1>6. LET k == CommonSuffixLength(left, right) IN
      /\ k \in 0..Shorter(left, right)
      /\ \A i \in 0..(k - 1) : left[Len(left) - i] = right[Len(right) - i]
  BY <1>5 DEF CommonSuffixLength
<1>7. CommonSuffixLength(left, right) \in 0..most
  BY <1>1, <1>6
<1> QED
  BY <1>1, <1>6, <1>7, LenProperties

-----------------------------------------------------------------------------
\* What a contract says of a facet: no content unless it is present.
Contents(S) == {c \in [present : BOOLEAN, value : Seq(S)] : c.present \/ c.value = <<>>}

\* The contracts with these facets and bytes.
ContractsOver(F, S) == [F -> Contents(S)]

\* The ends that are kept and the middle that is stored make up the old content.
LEMMA EndsAndMiddle ==
  ASSUME NEW S, NEW p \in Seq(S), NEW q \in Seq(S), NEW pre \in Nat, NEW suf \in Nat,
         pre + suf <= Len(p), pre + suf <= Len(q),
         \A i \in 1..pre : p[i] = q[i],
         \A i \in 0..(suf - 1) : p[Len(p) - i] = q[Len(q) - i]
  PROVE  SubSeq(q, 1, pre) \o SubSeq(p, pre + 1, Len(p) - suf)
            \o From(q, Len(q) - suf) = p
<1>1. Len(p) \in Nat /\ Len(q) \in Nat
  BY LenProperties
<1>2. PICK n \in Nat : n = Len(p)
  BY <1>1
<1>3. PICK l \in Nat : l = Len(q)
  BY <1>1
<1>4. PICK first \in Seq(S) : first = SubSeq(q, 1, pre)
  <2>1. 1 \in 1..(Len(q) + 1) /\ pre \in 0..Len(q) /\ 1 <= pre + 1
    BY <1>1
  <2> QED
    BY <2>1, PartOf
<1>5. Len(first) = pre /\ \A i \in 1..pre : first[i] = q[i]
  <2>1. 1 \in 1..(Len(q) + 1) /\ pre \in 0..Len(q) /\ 1 <= pre + 1
    BY <1>1
  <2>2. /\ Len(SubSeq(q, 1, pre)) = pre - 1 + 1
        /\ \A i \in 1..(pre - 1 + 1) : SubSeq(q, 1, pre)[i] = q[1 + i - 1]
    BY <2>1, PartOf
  <2>3. pre - 1 + 1 = pre /\ \A i \in 1..pre : 1 + i - 1 = i
    OBVIOUS
  <2> QED
    BY <1>4, <2>2, <2>3
<1>6. PICK middle \in Seq(S) : middle = SubSeq(p, pre + 1, Len(p) - suf)
  <2>1. pre + 1 \in 1..(Len(p) + 1) /\ Len(p) - suf \in 0..Len(p) /\ pre + 1 <= Len(p) - suf + 1
    BY <1>1
  <2> QED
    BY <2>1, PartOf
<1>7. Len(middle) = n - suf - pre /\ \A i \in 1..(n - suf - pre) : middle[i] = p[pre + i]
  <2>1. pre + 1 \in 1..(Len(p) + 1) /\ Len(p) - suf \in 0..Len(p) /\ pre + 1 <= Len(p) - suf + 1
    BY <1>1
  <2>2. /\ Len(SubSeq(p, pre + 1, Len(p) - suf)) = (Len(p) - suf) - (pre + 1) + 1
        /\ \A i \in 1..((Len(p) - suf) - (pre + 1) + 1) :
              SubSeq(p, pre + 1, Len(p) - suf)[i] = p[(pre + 1) + i - 1]
    BY <2>1, PartOf
  <2>3. /\ (Len(p) - suf) - (pre + 1) + 1 = n - suf - pre
        /\ \A i \in 1..(n - suf - pre) : (pre + 1) + i - 1 = pre + i
    BY <1>2
  <2> QED
    BY <1>6, <2>2, <2>3
<1>8. PICK last \in Seq(S) : last = From(q, Len(q) - suf)
  <2>1. Len(q) - suf \in 0..Len(q)
    BY <1>1
  <2> QED
    BY <2>1, RestOf
<1>9. Len(last) = suf /\ \A i \in 1..suf : last[i] = q[l - suf + i]
  <2>1. l - suf \in 0..Len(q) /\ Len(q) - (l - suf) = suf
    BY <1>3
  <2>2. /\ Len(From(q, l - suf)) = Len(q) - (l - suf)
        /\ \A i \in 1..(Len(q) - (l - suf)) : From(q, l - suf)[i] = q[l - suf + i]
    BY <2>1, RestOf
  <2> QED
    BY <1>3, <1>8, <2>1, <2>2
<1>10. PICK front \in Seq(S) : front = first \o middle
  BY ConcatProperties
<1>11. /\ Len(front) = n - suf
       /\ \A i \in 1..(n - suf) : front[i] = p[i]
  <2>1. /\ Len(front) = Len(first) + Len(middle)
        /\ \A i \in 1..(Len(first) + Len(middle)) :
              front[i] = IF i <= Len(first) THEN first[i] ELSE middle[i - Len(first)]
    BY <1>10, ConcatProperties
  <2>2. Len(front) = n - suf
    BY <1>5, <1>7, <2>1
  <2>3. ASSUME NEW i \in 1..(n - suf) PROVE front[i] = p[i]
    <3>1. CASE i <= pre
      <4>1. i \in 1..pre /\ i \in 1..(Len(first) + Len(middle)) /\ i <= Len(first)
        BY <1>5, <2>1, <2>2, <3>1
      <4> QED
        BY <1>5, <2>1, <4>1
    <3>2. CASE ~(i <= pre)
      <4>1. i - pre \in 1..(n - suf - pre) /\ pre + (i - pre) = i
        BY <3>2
      <4>2. front[i] = middle[i - pre]
        BY <1>5, <2>1, <2>2, <3>2
      <4> QED
        BY <1>7, <4>1, <4>2
    <3> QED
      BY <3>1, <3>2
  <2> QED
    BY <2>2, <2>3
<1>12. PICK whole \in Seq(S) : whole = front \o last
  BY ConcatProperties
<1>13. Len(whole) = n /\ \A i \in 1..n : whole[i] = p[i]
  <2>1. /\ Len(whole) = Len(front) + Len(last)
        /\ \A i \in 1..(Len(front) + Len(last)) :
              whole[i] = IF i <= Len(front) THEN front[i] ELSE last[i - Len(front)]
    BY <1>12, ConcatProperties
  <2>2. Len(whole) = n
    BY <1>9, <1>11, <2>1
  <2>3. ASSUME NEW i \in 1..n PROVE whole[i] = p[i]
    <3>1. CASE i <= n - suf
      <4>1. i \in 1..(n - suf) /\ i \in 1..(Len(front) + Len(last)) /\ i <= Len(front)
        BY <1>11, <2>1, <2>2, <3>1
      <4> QED
        BY <1>11, <2>1, <4>1
    <3>2. CASE ~(i <= n - suf)
      <4>1. /\ i - (n - suf) \in 1..suf
            /\ l - suf + (i - (n - suf)) = l - (n - i)
            /\ n - i \in 0..(suf - 1) /\ n - (n - i) = i
        BY <1>3, <3>2
      <4>2. whole[i] = last[i - (n - suf)]
        BY <1>11, <2>1, <2>2, <3>2
      <4>3. last[i - (n - suf)] = q[l - (n - i)]
        BY <1>9, <4>1
      <4>4. p[n - (n - i)] = q[l - (n - i)]
        BY <1>2, <1>3, <4>1
      <4> QED
        BY <4>1, <4>2, <4>3, <4>4
    <3> QED
      BY <3>1, <3>2
  <2> QED
    BY <2>2, <2>3
<1>14. whole = p
  BY <1>2, <1>13, SeqEqual
<1> QED
  BY <1>4, <1>6, <1>8, <1>10, <1>12, <1>14

\* What a revision of one facet stores undoes it.
LEMMA FacetUndone ==
  ASSUME NEW S, NEW p \in Contents(S), NEW n \in Contents(S)
  PROVE  RestoreFacet(ReverseFacetDelta(p, n), n) = p
<1> DEFINE pre == CommonPrefixLength(p.value, n.value)
           suf == CommonSuffixLength(From(p.value, pre), From(n.value, pre))
<1>1. /\ p \in [present : BOOLEAN, value : Seq(S)]
      /\ n \in [present : BOOLEAN, value : Seq(S)]
      /\ p.present \/ p.value = <<>>
      /\ n.present \/ n.value = <<>>
  BY DEF Contents
<1>2. PICK v \in Seq(S) : v = p.value
  BY <1>1
<1>3. PICK w \in Seq(S) : w = n.value
  BY <1>1
<1>4. Len(v) \in Nat /\ Len(w) \in Nat
  BY LenProperties
<1>5. pre \in 0..Len(v) /\ pre \in 0..Len(w) /\ \A i \in 1..pre : v[i] = w[i]
  <2>1. LET k == CommonPrefixLength(v, w) IN
         /\ k \in 0..Len(v) /\ k \in 0..Len(w) /\ \A i \in 1..k : v[i] = w[i]
    BY CommonPrefix
  <2> QED
    BY <1>2, <1>3, <2>1
<1>6. PICK a \in Seq(S) : a = From(v, pre)
  BY <1>5, RestOf
<1>7. PICK b \in Seq(S) : b = From(w, pre)
  BY <1>5, RestOf
<1>8. Len(a) = Len(v) - pre /\ \A i \in 1..(Len(v) - pre) : a[i] = v[pre + i]
  BY <1>5, <1>6, RestOf
<1>9. Len(b) = Len(w) - pre /\ \A i \in 1..(Len(w) - pre) : b[i] = w[pre + i]
  BY <1>5, <1>7, RestOf
<1>10. /\ suf \in 0..Len(a) /\ suf \in 0..Len(b)
       /\ \A i \in 0..(suf - 1) : a[Len(a) - i] = b[Len(b) - i]
  <2>1. LET k == CommonSuffixLength(a, b) IN
         /\ k \in 0..Len(a) /\ k \in 0..Len(b)
         /\ \A i \in 0..(k - 1) : a[Len(a) - i] = b[Len(b) - i]
    BY CommonSuffix
  <2>2. suf = CommonSuffixLength(a, b)
    BY <1>2, <1>3, <1>6, <1>7
  <2> QED
    BY <2>1, <2>2
<1>11. /\ ReverseFacetDelta(p, n).present = p.present
       /\ ReverseFacetDelta(p, n).prefix = IF n.present THEN pre ELSE 0
       /\ ReverseFacetDelta(p, n).suffix = IF n.present THEN suf ELSE 0
       /\ ReverseFacetDelta(p, n).middle = SubSeq(v, pre + 1, Len(v) - suf)
  BY <1>2 DEF ReverseFacetDelta
<1> HIDE DEF pre, suf
<1>12. \A i \in 0..(suf - 1) : v[Len(v) - i] = w[Len(w) - i]
  <2>1. ASSUME NEW i \in 0..(suf - 1) PROVE v[Len(v) - i] = w[Len(w) - i]
    <3>1. /\ Len(a) - i \in 1..(Len(v) - pre) /\ pre + (Len(a) - i) = Len(v) - i
          /\ Len(b) - i \in 1..(Len(w) - pre) /\ pre + (Len(b) - i) = Len(w) - i
      BY <1>4, <1>5, <1>8, <1>9, <1>10
    <3>2. a[Len(a) - i] = b[Len(b) - i]
      BY <1>10
    <3>3. a[Len(a) - i] = v[Len(v) - i]
      BY <1>8, <3>1
    <3>4. b[Len(b) - i] = w[Len(w) - i]
      BY <1>9, <3>1
    <3> QED
      BY <3>2, <3>3, <3>4
  <2> QED
    BY <2>1
<1>13. pre \in Nat /\ suf \in Nat /\ pre + suf <= Len(v) /\ pre + suf <= Len(w)
  BY <1>4, <1>5, <1>8, <1>9, <1>10
\* A facet that is absent afterwards keeps no ends, for it has no content.
<1>14. /\ ReverseFacetDelta(p, n).prefix = pre
       /\ ReverseFacetDelta(p, n).suffix = suf
  <2>1. CASE n.present
    BY <1>11, <2>1
  <2>2. CASE ~n.present
    <3>1. w = <<>> /\ Len(w) = 0
      BY <1>1, <1>3, <2>2, EmptySeq
    <3>2. pre = 0 /\ suf = 0
      BY <1>13, <3>1
    <3> QED
      BY <1>11, <2>2, <3>2
  <2> QED
    BY <2>1, <2>2
<1>15. SubSeq(w, 1, pre) \o SubSeq(v, pre + 1, Len(v) - suf) \o From(w, Len(w) - suf) = v
  BY <1>5, <1>12, <1>13, EndsAndMiddle
<1>16. RestoreFacet(ReverseFacetDelta(p, n), n)
          = [present |-> p.present, value |-> IF p.present THEN v ELSE <<>>]
  BY <1>3, <1>11, <1>14, <1>15 DEF RestoreFacet
<1> QED
  BY <1>1, <1>2, <1>16

\* What a revision of a contract stores undoes it.
LEMMA ContractUndone ==
  ASSUME NEW S, NEW F, NEW p \in [F -> Contents(S)], NEW n \in [F -> Contents(S)]
  PROVE  Restore(ReverseContractDelta(p, n), n) = p
<1> DEFINE delta == ReverseContractDelta(p, n)
<1>1. /\ DOMAIN p = F /\ DOMAIN n = F
      /\ DOMAIN delta = {f \in F : p[f] # n[f]}
      /\ \A f \in DOMAIN delta : delta[f] = ReverseFacetDelta(p[f], n[f])
  BY DEF ReverseContractDelta, ChangedFacets
<1>2. ASSUME NEW f \in F
      PROVE  (IF f \in DOMAIN delta THEN RestoreFacet(delta[f], n[f]) ELSE n[f]) = p[f]
  BY <1>1, FacetUndone
<1> HIDE DEF delta
<1>3. Restore(delta, n) = [f \in F |-> p[f]]
  BY <1>1, <1>2 DEF Restore
<1> QED
  BY <1>3 DEF delta

-----------------------------------------------------------------------------
\* past is what the record has been through: its last contract is the current
\* one, every entry has the fingerprint of its own, and what it stores undoes it.
Traces(record, past) ==
    /\ \E E : record.history \in Seq(E)
    /\ Len(record.history) >= 1
    /\ past[Len(record.history)] = record.contract
    /\ \A i \in 1..Len(record.history) :
          record.history[i].fingerprint = Fingerprint(past[i])
    /\ \A i \in 1..(Len(record.history) - 1) :
          Restore(record.history[i + 1].previous, past[i + 1]) = past[i]

\* The contracts it has been through.
Past(record, past) == Firsts(past, Len(record.history))

\* Undoing the changes after an entry, one by one from the last contract, gives
\* the contract of that entry.
LEMMA HistoricalIsPast ==
  ASSUME NEW record, NEW past, Traces(record, past),
         NEW index \in 1..Len(record.history)
  PROVE  Historical(record.history, record.contract, index) = past[index]
<1>1. PICK entries : entries = record.history
  OBVIOUS
<1>2. PICK current : current = record.contract
  OBVIOUS
<1>3. PICK n \in Nat : n = Len(entries)
  BY <1>1, LenProperties DEF Traces
<1>4. /\ index \in 1..n /\ past[n] = current
      /\ \A i \in 1..(n - 1) : Restore(entries[i + 1].previous, past[i + 1]) = past[i]
  BY <1>1, <1>2, <1>3 DEF Traces
<1> DEFINE Undone(at) ==
      at = [i \in index..Len(entries) |->
               IF i = Len(entries) THEN current
               ELSE Restore(entries[i + 1].previous, at[i + 1])]
<1>5. Undone([i \in index..n |-> past[i]])
  <2> DEFINE at == [i \in index..n |-> past[i]]
  <2>1. ASSUME NEW i \in index..n
        PROVE  at[i] = IF i = n THEN current ELSE Restore(entries[i + 1].previous, at[i + 1])
    <3>1. CASE i = n
      BY <1>4, <3>1
    <3>2. CASE i # n
      <4>1. i \in 1..(n - 1) /\ i + 1 \in index..n
        BY <1>4, <3>2
      <4> QED
        BY <1>4, <3>2, <4>1
    <3> QED
      BY <3>1, <3>2
  <2>2. at = [i \in index..n |-> at[i]]
    OBVIOUS
  <2> HIDE DEF at
  <2>3. at = [i \in index..n |->
                IF i = n THEN current ELSE Restore(entries[i + 1].previous, at[i + 1])]
    BY <2>1, <2>2
  <2> QED
    BY <1>3, <2>3 DEF at
<1>6. PICK at : at = CHOOSE f : Undone(f)
  OBVIOUS
<1>7. Undone(at)
  <2> HIDE DEF Undone
  <2> QED
    BY <1>5, <1>6
<1>8. Historical(entries, current, index) = at[index]
  BY <1>6 DEF Historical
\* From the last entry back to this one.
<1> DEFINE known == {k \in Nat : n - k < index \/ at[n - k] = past[n - k]}
<1>9. known = Nat
  <2>1. 0 \in known
    <3>1. n \in index..n
      BY <1>4
    <3>2. at[n] = current
      BY <1>3, <1>7, <3>1
    <3> QED
      BY <1>4, <3>2
  <2>2. ASSUME NEW k \in known PROVE k + 1 \in known
    <3>1. CASE n - (k + 1) < index
      BY <3>1
    <3>2. CASE ~(n - (k + 1) < index)
      <4>1. PICK i \in index..(n - 1) : i = n - (k + 1)
        BY <3>2
      <4>2. n - k = i + 1 /\ i # n /\ i \in 1..(n - 1) /\ i \in index..n /\ ~(n - k < index)
        BY <1>4, <4>1
      <4>3. at[i + 1] = past[i + 1]
        BY <4>2
      <4>4. at[i] = Restore(entries[i + 1].previous, at[i + 1])
        BY <1>3, <1>7, <4>2
      <4>5. at[i] = past[i]
        BY <1>4, <4>2, <4>3, <4>4
      <4> QED
        BY <4>1, <4>5
    <3> QED
      BY <3>1, <3>2
  <2> HIDE DEF known
  <2>3. known \in SUBSET Nat
    BY DEF known
  <2> QED
    BY <2>1, <2>2, <2>3, NumberInduction
<1>10. n - index \in Nat /\ n - (n - index) = index /\ ~(index < index)
  BY <1>4
<1>11. n - index \in known
  BY <1>9, <1>10
<1>12. at[index] = past[index]
  BY <1>10, <1>11
<1> QED
  BY <1>1, <1>2, <1>8, <1>12

\* A record contains the contracts of its past, however often fingerprints
\* collide, and no other.
LEMMA ContainsPast ==
  ASSUME NEW record, NEW past, Traces(record, past)
  PROVE  \A candidate :
            ContainsContract(record.history, record.contract, candidate)
               <=> candidate \in Past(record, past)
<1>1. DOMAIN record.history = 1..Len(record.history)
  BY LenProperties DEF Traces
<1>2. \A i \in 1..Len(record.history) :
         /\ Historical(record.history, record.contract, i) = past[i]
         /\ record.history[i].fingerprint = Fingerprint(past[i])
  BY HistoricalIsPast DEF Traces
<1> QED
  BY <1>1, <1>2 DEF ContainsContract, Past, Firsts

\* A sequence takes any new last member.
LEMMA AppendAny ==
  ASSUME NEW S, NEW s \in Seq(S), NEW e
  PROVE  /\ Append(s, e) \in Seq(S \cup {e})
         /\ Len(Append(s, e)) = Len(s) + 1
         /\ \A i \in 1..Len(s) : Append(s, e)[i] = s[i]
         /\ Append(s, e)[Len(s) + 1] = e
<1>1. PICK T : T = S \cup {e}
  OBVIOUS
<1>2. s \in Seq(T) /\ e \in T
  BY <1>1
<1>3. /\ Append(s, e) \in Seq(T)
      /\ Len(Append(s, e)) = Len(s) + 1
      /\ \A i \in 1..Len(s) : Append(s, e)[i] = s[i]
      /\ Append(s, e)[Len(s) + 1] = e
  BY <1>2, AppendProperties
<1> QED
  BY <1>1, <1>3

\* A record of a graph: its last contract, which is of the facets, and its history.
RecordOver(record, contracts) ==
    /\ record = [contract |-> record.contract, history |-> record.history]
    /\ record.contract \in contracts

\* What recording a contract makes of a record.
Remembers(record, past, next) ==
    \E more, longer :
        /\ Recorded(record, next) = [contract |-> next, history |-> longer]
        /\ Traces(Recorded(record, next), more)
        /\ Past(Recorded(record, next), more) = Past(record, past) \cup {next}

\* Recording a contract adds it to the past.
LEMMA RecordedTraces ==
  ASSUME NEW S, NEW F, NEW record, NEW past,
         RecordOver(record, ContractsOver(F, S)), Traces(record, past),
         NEW next \in ContractsOver(F, S)
  PROVE  Remembers(record, past, next)
<1> SUFFICES
       \E more, longer :
            /\ Recorded(record, next) = [contract |-> next, history |-> longer]
            /\ Traces(Recorded(record, next), more)
            /\ Past(Recorded(record, next), more) = Past(record, past) \cup {next}
  BY DEF Remembers
<1> USE DEF RecordOver
<1>0. PICK after : after = Recorded(record, next)
  OBVIOUS
<1>1. PICK entries : entries = record.history
  OBVIOUS
<1>2. PICK current \in ContractsOver(F, S) : current = record.contract
  OBVIOUS
<1>3. PICK E : entries \in Seq(E)
  BY <1>1 DEF Traces
<1>4. PICK n \in Nat : n = Len(entries) /\ DOMAIN entries = 1..n
  BY <1>3, LenProperties
<1>5. /\ n >= 1 /\ past[n] = current
      /\ \A i \in 1..n : entries[i].fingerprint = Fingerprint(past[i])
      /\ \A i \in 1..(n - 1) : Restore(entries[i + 1].previous, past[i + 1]) = past[i]
  BY <1>1, <1>2, <1>4 DEF Traces
<1>6. entries # <<>>
  BY <1>4, <1>5, EmptySeq
<1>7. CASE ChangedFacets(current, next) = {}
  <2>1. next = current
    BY <1>7 DEF ChangedFacets, ContractsOver
  <2>2. after = record
    BY <1>0, <1>1, <1>2, <1>6, <1>7, <2>1 DEF Recorded
  <2>3. after = [contract |-> next, history |-> entries]
    BY <1>1, <1>2, <2>1, <2>2
  <2>4. next \in Past(record, past)
    <3>1. n \in 1..Len(record.history) /\ past[n] = next
      BY <1>1, <1>4, <1>5, <2>1
    <3> QED
      BY <3>1 DEF Past, Firsts
  <2>5. Traces(after, past) /\ Past(after, past) = Past(record, past) \cup {next}
    BY <2>2, <2>4
  <2> QED
    BY <1>0, <2>3, <2>5
<1>8. CASE ChangedFacets(current, next) # {}
  <2>1. PICK e : e = Entry(next, ReverseContractDelta(current, next))
    OBVIOUS
  <2>2. PICK longer : longer = Append(entries, e)
    OBVIOUS
  <2>3. after = [contract |-> next, history |-> longer]
    BY <1>0, <1>1, <1>2, <1>6, <1>8, <2>1, <2>2 DEF Recorded
  <2>4. /\ longer \in Seq(E \cup {e}) /\ Len(longer) = n + 1
        /\ \A i \in 1..n : longer[i] = entries[i]
        /\ longer[n + 1] = e
    BY <1>3, <1>4, <2>2, AppendAny
  <2>5. e.fingerprint = Fingerprint(next) /\ Restore(e.previous, next) = current
    BY <2>1, ContractUndone DEF Entry, ContractsOver
  <2>6. PICK more : more = [i \in 1..(n + 1) |-> IF i <= n THEN past[i] ELSE next]
    OBVIOUS
  <2>7. more[n + 1] = next /\ \A i \in 1..n : more[i] = past[i]
    BY <1>4, <2>6
  <2>8. ASSUME NEW i \in 1..(n + 1)
        PROVE  longer[i].fingerprint = Fingerprint(more[i])
    <3>1. CASE i = n + 1
      BY <2>4, <2>5, <2>7, <3>1
    <3>2. CASE i # n + 1
      <4>1. i \in 1..n
        BY <3>2
      <4> QED
        BY <1>5, <2>4, <2>7, <4>1
    <3> QED
      BY <3>1, <3>2
  <2>9. ASSUME NEW i \in 1..n
        PROVE  Restore(longer[i + 1].previous, more[i + 1]) = more[i]
    <3>1. CASE i = n
      BY <1>5, <2>4, <2>5, <2>7, <3>1
    <3>2. CASE i # n
      <4>1. i \in 1..(n - 1) /\ i + 1 \in 1..n
        BY <3>2
      <4>2. longer[i + 1] = entries[i + 1] /\ more[i + 1] = past[i + 1] /\ more[i] = past[i]
        BY <2>4, <2>7, <4>1
      <4> QED
        BY <1>5, <4>1, <4>2
    <3> QED
      BY <3>1, <3>2
  <2>10. Traces(after, more)
    <3>1. after.history = longer /\ after.contract = next
      BY <2>3
    <3>2. Len(longer) = n + 1 /\ (n + 1) - 1 = n /\ n + 1 >= 1
      BY <2>4
    <3> QED
      BY <2>4, <2>7, <2>8, <2>9, <3>1, <3>2 DEF Traces
  <2>11. Firsts(more, n + 1) = Firsts(past, n) \cup {next}
    <3>1. \A i \in 1..(n + 1) : i = n + 1 \/ i \in 1..n
      OBVIOUS
    <3>2. n + 1 \in 1..(n + 1) /\ \A i \in 1..n : i \in 1..(n + 1)
      OBVIOUS
    <3> QED
      BY <2>7, <3>1, <3>2 DEF Firsts
  <2>12. Past(after, more) = Past(record, past) \cup {next}
    <3>1. after.history = longer
      BY <2>3
    <3> QED
      BY <1>1, <1>4, <2>4, <2>11, <3>1 DEF Past, Firsts
  <2> QED
    BY <1>0, <2>3, <2>10, <2>12
<1> QED
  BY <1>2, <1>7, <1>8

\* After a first revision, the record of any number of them is of this shape.
LEMMA RecordOfTraces ==
  ASSUME NEW S, NEW F, NEW most \in Nat \ {0},
         NEW revisions \in [1..most -> ContractsOver(F, S)]
  PROVE  \E past :
            /\ Traces(RecordOf(revisions), past)
            /\ Past(RecordOf(revisions), past) = Firsts(revisions, most)
<1>1. Len(revisions) = most
  BY LenProperties
<1> DEFINE Follows(after, n) ==
      after = [k \in 0..n |-> IF k = 0 THEN NoRecord ELSE Recorded(after[k - 1], revisions[k])]
\* The records after so many revisions exist.
<1>2. \A n \in Nat : \E after : Follows(after, n)
  <2> DEFINE reached == {n \in Nat : \E after : Follows(after, n)}
  <2>1. 0 \in reached
    <3>1. PICK after : after = [k \in 0..0 |-> NoRecord]
      OBVIOUS
    <3>2. after = [k \in 0..0 |->
                     IF k = 0 THEN NoRecord ELSE Recorded(after[k - 1], revisions[k])]
      BY <3>1
    <3> QED
      BY <3>2
  <2>2. ASSUME NEW n \in reached PROVE n + 1 \in reached
    <3>1. PICK after : Follows(after, n)
      OBVIOUS
    <3>2. PICK more : more = [k \in 0..(n + 1) |->
                                IF k <= n THEN after[k] ELSE Recorded(after[n], revisions[n + 1])]
      OBVIOUS
    <3>3. ASSUME NEW k \in 0..(n + 1)
          PROVE  more[k] = IF k = 0 THEN NoRecord ELSE Recorded(more[k - 1], revisions[k])
      <4>1. CASE k = 0
        BY <3>1, <3>2, <4>1
      <4>2. CASE k # 0 /\ k <= n
        <5>1. k \in 0..n /\ k - 1 \in 0..(n + 1) /\ k - 1 <= n
          BY <4>2
        <5>2. more[k] = after[k] /\ more[k - 1] = after[k - 1]
          BY <3>2, <4>2, <5>1
        <5> QED
          BY <3>1, <4>2, <5>1, <5>2
      <4>3. CASE k = n + 1
        <5>1. n \in 0..(n + 1) /\ ~(n + 1 <= n) /\ (n + 1) - 1 = n /\ n + 1 # 0
          OBVIOUS
        <5>2. more[n] = after[n] /\ more[n + 1] = Recorded(after[n], revisions[n + 1])
          BY <3>2, <5>1
        <5> QED
          BY <4>3, <5>1, <5>2
      <4> QED
        BY <4>1, <4>2, <4>3
    <3>4. Follows(more, n + 1)
      <4>1. more = [k \in 0..(n + 1) |-> more[k]]
        BY <3>2
      <4> QED
        BY <3>3, <4>1
    <3> HIDE DEF Follows
    <3> QED
      BY <3>4
  <2> HIDE DEF reached
  <2>3. reached = Nat
    <3>1. reached \in SUBSET Nat
      BY DEF reached
    <3> QED
      BY <2>1, <2>2, <3>1, NumberInduction
  <2> QED
    BY <2>3 DEF reached
<1>3. PICK after : after = CHOOSE f : Follows(f, most)
  OBVIOUS
<1>4. Follows(after, most)
  <2> HIDE DEF Follows
  <2> QED
    BY <1>2, <1>3
<1>5. RecordOf(revisions) = after[most]
  BY <1>1, <1>3 DEF RecordOf
<1>6. \A k \in 1..most : after[k] = Recorded(after[k - 1], revisions[k])
  BY <1>4
<1>7. after[0] = NoRecord
  BY <1>4
<1> HIDE DEF Follows
<1> DEFINE Good(n) ==
      \E past, entries :
         /\ after[n] = [contract |-> revisions[n], history |-> entries]
         /\ Traces(after[n], past)
         /\ Past(after[n], past) = Firsts(revisions, n)
<1>8. Good(1)
  <2>1. PICK first \in ContractsOver(F, S) : first = revisions[1]
    OBVIOUS
  <2>2. after[1] = [contract |-> first, history |-> <<Entry(first, <<>>)>>]
    <3>1. 1 \in 1..most /\ 1 - 1 = 0
      OBVIOUS
    <3>2. after[1] = Recorded(NoRecord, first)
      BY <1>6, <1>7, <2>1, <3>1
    <3>3. NoRecord.history = <<>>
      BY DEF NoRecord
    <3> QED
      BY <3>2, <3>3 DEF Recorded
  <2>3. PICK entries : entries = <<Entry(first, <<>>)>>
    OBVIOUS
  <2>4. /\ entries \in Seq({Entry(first, <<>>)}) /\ Len(entries) = 1
        /\ entries[1] = Entry(first, <<>>)
    BY <2>3
  <2>5. PICK past : past = [i \in 1..1 |-> first]
    OBVIOUS
  <2>6. PICK record : record = after[1]
    OBVIOUS
  <2>7. record.history = entries /\ record.contract = first /\ past[1] = first
    BY <2>2, <2>3, <2>5, <2>6
  <2>8. \A i \in 1..1 : i = 1
    OBVIOUS
  <2>9. Traces(record, past)
    <3>1. entries[1].fingerprint = Fingerprint(first)
      BY <2>4 DEF Entry
    <3>2. \A i \in 1..Len(entries) : entries[i].fingerprint = Fingerprint(past[i])
      BY <2>4, <2>7, <2>8, <3>1
    <3>3. \A i \in 1..(Len(entries) - 1) :
             Restore(entries[i + 1].previous, past[i + 1]) = past[i]
      BY <2>4
    <3>4. \E E : entries \in Seq(E)
      BY <2>4
    <3>5. Len(entries) >= 1 /\ past[Len(entries)] = record.contract
      BY <2>4, <2>7
    <3> QED
      BY <2>7, <3>2, <3>3, <3>4, <3>5 DEF Traces
  <2>10. Past(record, past) = Firsts(revisions, 1)
    BY <2>1, <2>4, <2>7, <2>8 DEF Past, Firsts
  <2> QED
    BY <2>1, <2>2, <2>6, <2>9, <2>10
<1>9. ASSUME NEW n \in 1..(most - 1), Good(n) PROVE Good(n + 1)
  <2>1. PICK record : record = after[n]
    OBVIOUS
  <2>2. PICK past : \E entries :
           /\ record = [contract |-> revisions[n], history |-> entries]
           /\ Traces(record, past)
           /\ Past(record, past) = Firsts(revisions, n)
    BY <1>9, <2>1
  <2>3. PICK next \in ContractsOver(F, S) : next = revisions[n + 1]
    OBVIOUS
  <2>4. /\ record = [contract |-> record.contract, history |-> record.history]
        /\ record.contract \in ContractsOver(F, S)
    BY <2>2
  <2>5. PICK last : last = Recorded(record, next)
    OBVIOUS
  <2>6. after[n + 1] = last
    <3>1. n + 1 \in 1..most /\ (n + 1) - 1 = n
      OBVIOUS
    <3> QED
      BY <1>6, <2>1, <2>3, <2>5, <3>1
  <2>7. \E more, longer :
           /\ Recorded(record, next) = [contract |-> next, history |-> longer]
           /\ Traces(Recorded(record, next), more)
           /\ Past(Recorded(record, next), more) = Past(record, past) \cup {next}
    <3>1. Traces(record, past)
      BY <2>2
    <3>2. RecordOver(record, ContractsOver(F, S))
      BY <2>4 DEF RecordOver
    <3>3. Remembers(record, past, next)
      BY <3>1, <3>2, RecordedTraces
    <3> QED
      BY <3>3 DEF Remembers
  <2>8. Firsts(revisions, n + 1) = Firsts(revisions, n) \cup {next}
    <3>1. \A i \in 1..(n + 1) : i = n + 1 \/ i \in 1..n
      OBVIOUS
    <3>2. n + 1 \in 1..(n + 1) /\ \A i \in 1..n : i \in 1..(n + 1)
      OBVIOUS
    <3> QED
      BY <2>3, <3>1, <3>2 DEF Firsts
  <2>9. Past(record, past) = Firsts(revisions, n)
    BY <2>2
  <2> QED
    BY <2>3, <2>5, <2>6, <2>7, <2>8, <2>9
<1> DEFINE reached == {n \in Nat : n + 1 > most \/ Good(n + 1)}
<1>10. reached = Nat
  <2>1. 0 \in reached
    <3>1. 0 + 1 = 1
      OBVIOUS
    <3> HIDE DEF Good
    <3> QED
      BY <1>8, <3>1
  <2>2. ASSUME NEW n \in reached PROVE n + 1 \in reached
    <3> HIDE DEF Good
    <3>1. CASE (n + 1) + 1 > most
      BY <3>1
    <3>2. CASE ~((n + 1) + 1 > most)
      <4>1. n + 1 \in 1..(most - 1)
        BY <3>2
      <4>2. Good(n + 1)
        BY <4>1
      <4> QED
        BY <1>9, <4>1, <4>2
    <3> QED
      BY <3>1, <3>2
  <2> HIDE DEF reached
  <2>3. reached \in SUBSET Nat
    BY DEF reached
  <2> QED
    BY <2>1, <2>2, <2>3, NumberInduction
<1>11. Good(most)
  <2> HIDE DEF Good
  <2>1. most - 1 \in Nat /\ (most - 1) + 1 = most
    OBVIOUS
  <2>2. most - 1 \in reached
    BY <1>10, <2>1
  <2> QED
    BY <2>1, <2>2
<1> QED
  <2> HIDE DEF reached
  <2>1. \E past :
           /\ Traces(after[most], past)
           /\ Past(after[most], past) = Firsts(revisions, most)
    BY <1>11
  <2> QED
    BY <1>5, <2>1

\* For any facets and contents of any length and any number of revisions, the
\* history of an artifact contains the contracts it has had and no other.
THEOREM HistoryExact ==
  ASSUME NEW S, NEW F, NEW contracts \in SUBSET ContractsOver(F, S), NEW most \in Nat
  PROVE  HistoryIsExact(contracts, most)
<1>1. ASSUME NEW n \in 1..most, NEW revisions \in [1..n -> contracts],
             NEW candidate \in contracts
      PROVE  ContainsContract(RecordOf(revisions).history, RecordOf(revisions).contract, candidate)
                <=> \E i \in 1..n : revisions[i] = candidate
  <2>1. PICK k \in Nat \ {0} : k = n
    OBVIOUS
  <2>2. PICK given \in [1..k -> ContractsOver(F, S)] : given = revisions
    BY <2>1
  <2>3. PICK record : record = RecordOf(given)
    OBVIOUS
  <2>4. \E past :
           /\ Traces(RecordOf(given), past)
           /\ Past(RecordOf(given), past) = Firsts(given, k)
    BY RecordOfTraces
  <2>5. PICK past :
           /\ Traces(record, past)
           /\ Past(record, past) = Firsts(given, k)
    BY <2>3, <2>4
  <2>6. ContainsContract(record.history, record.contract, candidate)
            <=> candidate \in Past(record, past)
    BY <2>5, ContainsPast
  <2> QED
    BY <2>1, <2>2, <2>3, <2>5, <2>6 DEF Firsts
<1> QED
  BY <1>1 DEF HistoryIsExact

-----------------------------------------------------------------------------
(* The graph *)

\* The inductive invariant.
GraphInv ==
    /\ TypeOK
    /\ ReverseIndexExact
    /\ HistoryHasCurrent
    /\ CleanConsumersAreCurrent
    /\ AuthorityOnlyWhileDirty

USE AbsentAssumption, CertifiedAssumption, SubscribableAssumption

\* A graph without records satisfies the invariant.
LEMMA InitGraphInv == Init => GraphInv
<1> SUFFICES ASSUME Init PROVE GraphInv
  OBVIOUS
<1> USE DEF Init
<1>1. TypeOK
  BY DEF TypeOK, Contracts, NoContract
<1>2. ReverseIndexExact
  BY DEF ReverseIndexExact
<1>3. HistoryHasCurrent
  BY DEF HistoryHasCurrent, Published
<1>4. CleanConsumersAreCurrent
  BY DEF CleanConsumersAreCurrent
<1>5. AuthorityOnlyWhileDirty
  BY DEF AuthorityOnlyWhileDirty
<1> QED
  BY <1>1, <1>2, <1>3, <1>4, <1>5 DEF GraphInv

\* Where the edges of an owner are after it subscribed anew: the index stays
\* the inverse of the dependency sets.
LEMMA ResubscribedExact ==
  ASSUME TypeOK, ReverseIndexExact,
         NEW o \in Owners, NEW deps \in SUBSET Dependencies
  PROVE  /\ Resubscribed(o, deps) \in [Dependencies -> SUBSET Owners]
         /\ \A d \in Dependencies : o \in Resubscribed(o, deps)[d] <=> d \in deps
         /\ \A d \in Dependencies, c \in Owners \ {o} :
               c \in Resubscribed(o, deps)[d] <=> d \in dependencies[c]
BY DEF TypeOK, ReverseIndexExact, Resubscribed, AddReverseEdges,
       RemoveReverseEdges

\* The owners a commit invalidates are the ones subscribed to a facet whose
\* content it changes.
LEMMA InvalidatedExact ==
  ASSUME TypeOK, ReverseIndexExact,
         NEW o \in Owners, NEW next \in Contracts,
         NEW deps \in SUBSET Dependencies
  PROVE  /\ Invalidated(o, next, deps) \subseteq Owners
         /\ \A c \in Owners \ {o} : c \in Invalidated(o, next, deps) <=>
               \E f \in Changed(contract[o], next) : <<o, f>> \in dependencies[c]
         /\ o \in Invalidated(o, next, deps) =>
               \E f \in Changed(contract[o], next) : <<o, f>> \in deps
<1> DEFINE rev == Resubscribed(o, deps)
<1>1. \A f \in Facets : <<o, f>> \in Dependencies
  BY DEF Dependencies
<1>2. Changed(contract[o], next) \subseteq Facets
  BY DEF Changed
<1>3. /\ rev \in [Dependencies -> SUBSET Owners]
      /\ \A d \in Dependencies : o \in rev[d] <=> d \in deps
      /\ \A d \in Dependencies, c \in Owners \ {o} :
            c \in rev[d] <=> d \in dependencies[c]
  BY ResubscribedExact
<1>4. Invalidated(o, next, deps) =
         UNION {rev[<<o, f>>] : f \in Changed(contract[o], next)}
  BY DEF Invalidated, Consumers
<1> DEFINE facets == Changed(contract[o], next)
<1> HIDE DEF rev, facets
<1>5. \A c : c \in Invalidated(o, next, deps) <=>
         \E f \in facets : c \in rev[<<o, f>>]
  <2>1. Invalidated(o, next, deps) = UNION {rev[<<o, f>>] : f \in facets}
    BY <1>4 DEF facets
  <2> QED
    BY <2>1, Z3
<1>6. \A f \in facets : <<o, f>> \in Dependencies
  BY <1>1, <1>2 DEF facets
<1>7. Invalidated(o, next, deps) \subseteq Owners
  BY <1>3, <1>5, <1>6
<1>8. \A c \in Owners \ {o} : c \in Invalidated(o, next, deps) <=>
         \E f \in facets : <<o, f>> \in dependencies[c]
  BY <1>3, <1>5, <1>6
<1>9. o \in Invalidated(o, next, deps) => \E f \in facets : <<o, f>> \in deps
  BY <1>3, <1>5, <1>6
<1> QED
  BY <1>7, <1>8, <1>9 DEF facets

\* The commit of a revision keeps the record and the index well formed.
LEMMA CommitRecordInv ==
  ASSUME GraphInv,
         NEW o \in Owners, NEW next \in Contracts,
         NEW deps \in SUBSET Dependencies,
         CommitRecord(o, next, deps)
  PROVE  /\ contract' \in [Owners -> Contracts]
         /\ history' \in [Owners -> SUBSET Contracts]
         /\ dependencies' \in [Owners -> SUBSET Dependencies]
         /\ reverse' \in [Dependencies -> SUBSET Owners]
         /\ ReverseIndexExact'
         /\ HistoryHasCurrent'
<1> USE DEF GraphInv, CommitRecord
<1>1. /\ contract' \in [Owners -> Contracts]
      /\ history' \in [Owners -> SUBSET Contracts]
      /\ dependencies' \in [Owners -> SUBSET Dependencies]
  BY DEF TypeOK
<1>2. reverse' \in [Dependencies -> SUBSET Owners]
  BY ResubscribedExact
<1>3. ReverseIndexExact'
  <2> SUFFICES ASSUME NEW d \in Dependencies, NEW c \in Owners
               PROVE  c \in reverse'[d] <=> d \in dependencies'[c]
    BY DEF ReverseIndexExact
  <2>1. CASE c = o
    BY <2>1, ResubscribedExact DEF TypeOK
  <2>2. CASE c # o
    BY <2>2, ResubscribedExact DEF TypeOK
  <2> QED
    BY <2>1, <2>2
<1>4. HistoryHasCurrent'
  BY DEF HistoryHasCurrent, Published, TypeOK
<1> QED
  BY <1>1, <1>2, <1>3, <1>4

\* The commit of a revision, with the owner's own entry discarded or not,
\* leaves no stale owner outside the dirty set.
LEMMA CommitClean ==
  ASSUME GraphInv,
         NEW o \in Owners, NEW next \in Contracts,
         NEW deps \in SUBSET Dependencies,
         CommitRecord(o, next, deps),
         observed' = [observed EXCEPT ![o] = Observation(deps)],
         CommitDirty(o, next, deps) \ {o} \subseteq dirty'
  PROVE  /\ CleanConsumersAreCurrent'
         /\ \A c \in Owners :
               observed'[c] \in [dependencies'[c] -> Values \cup {Absent}]
         /\ DOMAIN observed' = Owners
<1> USE DEF GraphInv
<1>1. /\ DOMAIN observed' = Owners
      /\ observed'[o] = Observation(deps)
      /\ \A c \in Owners \ {o} : observed'[c] = observed[c]
  BY DEF TypeOK
<1>2. /\ contract'[o] = next
      /\ dependencies'[o] = deps
      /\ \A c \in Owners \ {o} : /\ contract'[c] = contract[c]
                                 /\ dependencies'[c] = dependencies[c]
  BY DEF TypeOK, CommitRecord
<1>3. \A d \in deps : /\ d[1] \in Owners
                      /\ d[2] \in Facets
                      /\ contract[d[1]][d[2]] \in Values \cup {Absent}
  BY DEF TypeOK, Contracts, Dependencies
<1>4. \A c \in Owners :
         observed'[c] \in [dependencies'[c] -> Values \cup {Absent}]
  BY <1>1, <1>2, <1>3 DEF TypeOK, Observation
<1>5. CleanConsumersAreCurrent'
  <2> SUFFICES ASSUME NEW c \in Owners \ Certified, c \notin dirty',
                      NEW d \in dependencies'[c], d[1] # c
               PROVE  observed'[c][d] = contract'[d[1]][d[2]]
    BY DEF CleanConsumersAreCurrent
  <2>1. CASE c = o
    BY <2>1, <1>1, <1>2, <1>3 DEF Observation
  <2>2. CASE c # o
    <3>1. /\ c \notin dirty
          /\ c \notin Invalidated(o, next, deps)
      BY <2>2 DEF CommitDirty
    <3>2. /\ d \in dependencies[c]
          /\ d \in Dependencies
          /\ d = <<d[1], d[2]>> /\ d[1] \in Owners /\ d[2] \in Facets
      BY <2>2, <1>2 DEF TypeOK, Dependencies
    <3>3. observed'[c][d] = contract[d[1]][d[2]]
      BY <2>2, <3>1, <3>2, <1>1 DEF CleanConsumersAreCurrent
    <3>4. CASE d[1] = o
      <4>1. d[2] \notin Changed(contract[o], next)
        BY <3>1, <3>2, <3>4, <2>2, InvalidatedExact
      <4> QED
        BY <4>1, <3>2, <3>3, <3>4, <1>2 DEF Changed
    <3>5. CASE d[1] # o
      BY <3>2, <3>3, <3>5, <1>2
    <3> QED
      BY <3>4, <3>5
  <2> QED
    BY <2>1, <2>2
<1> QED
  BY <1>1, <1>4, <1>5

\* The first revision of an owner keeps the invariant.
LEMMA EmitInv ==
  ASSUME GraphInv, NEW o \in Owners, NEW next \in Contracts,
         NEW deps \in Subscribable, Emit(o, next, deps)
  PROVE  GraphInv'
<1> USE DEF Emit
<1>0. deps \in SUBSET Dependencies
  OBVIOUS
<1>1. Invalidated(o, next, deps) \subseteq Owners
  BY <1>0, InvalidatedExact DEF GraphInv
<1>2. CommitDirty(o, next, deps) \ {o} \subseteq dirty'
  OBVIOUS
<1>3. CleanConsumersAreCurrent'
  BY <1>0, <1>2, CommitClean
<1>4. TypeOK'
  BY <1>0, <1>1, <1>2, CommitRecordInv, CommitClean
     DEF TypeOK, GraphInv, CommitDirty, CommitRemovalDirty
<1>5. AuthorityOnlyWhileDirty'
  BY DEF GraphInv, AuthorityOnlyWhileDirty, CommitDirty, CommitRemovalDirty
<1> QED
  BY <1>0, <1>3, <1>4, <1>5, CommitRecordInv DEF GraphInv

\* A reconstruction, authorised or not, keeps the invariant.
LEMMA ReconstructInv ==
  ASSUME GraphInv, NEW o \in Owners, NEW next \in Contracts,
         NEW deps \in Subscribable, NEW historical \in BOOLEAN,
         Reconstruct(o, next, deps, historical)
  PROVE  GraphInv'
<1> USE DEF Reconstruct, DiscardDirty
<1>0. deps \in SUBSET Dependencies
  OBVIOUS
<1>1. Invalidated(o, next, deps) \subseteq Owners
  BY <1>0, InvalidatedExact DEF GraphInv
<1>2. CommitDirty(o, next, deps) \ {o} \subseteq dirty'
  OBVIOUS
<1>3. CleanConsumersAreCurrent'
  BY <1>0, <1>2, CommitClean
<1>4. TypeOK'
  BY <1>0, <1>1, <1>2, CommitRecordInv, CommitClean
     DEF TypeOK, GraphInv, CommitDirty, CommitRemovalDirty
<1>5. AuthorityOnlyWhileDirty'
  BY DEF GraphInv, AuthorityOnlyWhileDirty, CommitDirty, CommitRemovalDirty
<1> QED
  BY <1>0, <1>3, <1>4, <1>5, CommitRecordInv DEF GraphInv

\* A rejected revision and the discarded entry of a certified owner keep it.
LEMMA OtherStepsInv ==
  ASSUME GraphInv, NEW o \in Owners,
         \/ AcceptCertified(o)
         \/ \E next \in Contracts, historical \in BOOLEAN :
               RejectOscillation(o, next, historical)
  PROVE  GraphInv'
<1>1. CASE AcceptCertified(o)
  <2> USE <1>1 DEF AcceptCertified, DiscardDirty
  <2>1. TypeOK' /\ ReverseIndexExact' /\ HistoryHasCurrent'
    BY DEF GraphInv, TypeOK, ReverseIndexExact, HistoryHasCurrent, Published
  <2>2. CleanConsumersAreCurrent'
    BY DEF GraphInv, CleanConsumersAreCurrent
  <2>3. AuthorityOnlyWhileDirty'
    BY DEF GraphInv, AuthorityOnlyWhileDirty
  <2> QED
    BY <2>1, <2>2, <2>3 DEF GraphInv
<1>2. CASE \E next \in Contracts, historical \in BOOLEAN :
              RejectOscillation(o, next, historical)
  BY <1>2 DEF RejectOscillation, graphVars, GraphInv, TypeOK,
       ReverseIndexExact, HistoryHasCurrent, Published,
       CleanConsumersAreCurrent, AuthorityOnlyWhileDirty
<1> QED
  BY <1>1, <1>2

\* Every step keeps the invariant.
LEMMA NextGraphInv == GraphInv /\ [Next]_vars => GraphInv'
<1> SUFFICES ASSUME GraphInv, [Next]_vars PROVE GraphInv'
  OBVIOUS
<1>1. CASE UNCHANGED vars
  BY <1>1 DEF vars, graphVars, GraphInv, TypeOK, ReverseIndexExact,
       HistoryHasCurrent, Published, CleanConsumersAreCurrent,
       AuthorityOnlyWhileDirty
<1>2. ASSUME NEW o \in Owners, NEW next \in Contracts,
             NEW deps \in Subscribable, Emit(o, next, deps)
      PROVE  GraphInv'
  BY <1>2, EmitInv
<1>3. ASSUME NEW o \in Owners, NEW next \in Contracts,
             NEW deps \in Subscribable, NEW historical \in BOOLEAN,
             Reconstruct(o, next, deps, historical)
      PROVE  GraphInv'
  BY <1>3, ReconstructInv
<1>4. ASSUME NEW o \in Owners, NEW next \in Contracts,
             NEW historical \in BOOLEAN, RejectOscillation(o, next, historical)
      PROVE  GraphInv'
  BY <1>4, OtherStepsInv
<1>5. ASSUME NEW o \in Owners, AcceptCertified(o) PROVE GraphInv'
  BY <1>5, OtherStepsInv
<1> QED
  BY <1>1, <1>2, <1>3, <1>4, <1>5 DEF Next

\* The invariant holds of every reachable graph.
THEOREM GraphInvariant == Spec => []GraphInv
<1> QED
  BY InitGraphInv, NextGraphInv, PTL DEF Spec

\* Every variable keeps its type.
THEOREM TypeCorrect == Spec => []TypeOK
<1>1. GraphInv => TypeOK
  BY DEF GraphInv
<1> QED
  BY <1>1, GraphInvariant, PTL

\* The reverse index is the inverse of the dependency sets.
THEOREM ReverseIndexIsExact == Spec => []ReverseIndexExact
<1>1. GraphInv => ReverseIndexExact
  BY DEF GraphInv
<1> QED
  BY <1>1, GraphInvariant, PTL

\* No invalidation is lost, whatever the builds produce.
THEOREM NoLostInvalidation == Spec => []CleanConsumersAreCurrent
<1>1. GraphInv => CleanConsumersAreCurrent
  BY DEF GraphInv
<1> QED
  BY <1>1, GraphInvariant, PTL

\* Removal authority never outlives its dirty entry.
THEOREM AuthorityIsScoped == Spec => []AuthorityOnlyWhileDirty
<1>1. GraphInv => AuthorityOnlyWhileDirty
  BY DEF GraphInv
<1> QED
  BY <1>1, GraphInvariant, PTL

\* The step formula of OnlySubscribersInvalidated.
DirtiesOnlySubscribers ==
    \A o \in dirty' \ dirty : \E d \in dependencies'[o] :
        contract'[d[1]][d[2]] # contract[d[1]][d[2]]

\* What a commit adds to the dirty set is subscribed to what it changed.
LEMMA CommitDirtiesSubscribers ==
  ASSUME GraphInv, NEW o \in Owners, NEW next \in Contracts,
         NEW deps \in SUBSET Dependencies,
         CommitRecord(o, next, deps),
         dirty' \subseteq CommitDirty(o, next, deps)
  PROVE  DirtiesOnlySubscribers
<1> SUFFICES ASSUME NEW c \in dirty' \ dirty
             PROVE  \E d \in dependencies'[c] :
                       contract'[d[1]][d[2]] # contract[d[1]][d[2]]
  BY DEF DirtiesOnlySubscribers
<1>1. /\ c \in Invalidated(o, next, deps)
      /\ c \in Owners
  BY InvalidatedExact DEF GraphInv, CommitDirty
<1>2. /\ contract'[o] = next
      /\ dependencies'[o] = deps
      /\ \A x \in Owners \ {o} : dependencies'[x] = dependencies[x]
  BY DEF GraphInv, TypeOK, CommitRecord
<1>3. PICK f \in Changed(contract[o], next) : <<o, f>> \in dependencies'[c]
  <2>1. CASE c = o
    BY <2>1, <1>1, <1>2, InvalidatedExact DEF GraphInv
  <2>2. CASE c # o
    BY <2>2, <1>1, <1>2, InvalidatedExact DEF GraphInv
  <2> QED
    BY <2>1, <2>2
<1>4. contract'[o][f] # contract[o][f]
  BY <1>2 DEF Changed
<1> QED
  BY <1>3, <1>4

\* A step dirties only owners subscribed to a facet whose content it changes.
THEOREM InvalidationIsExact == Spec => OnlySubscribersInvalidated
<1>1. GraphInv /\ [Next]_vars => [DirtiesOnlySubscribers]_vars
  <2> SUFFICES ASSUME GraphInv, Next PROVE DirtiesOnlySubscribers
    OBVIOUS
  <2>1. ASSUME NEW o \in Owners, NEW next \in Contracts,
               NEW deps \in Subscribable, Emit(o, next, deps)
        PROVE  DirtiesOnlySubscribers
    BY <2>1, CommitDirtiesSubscribers DEF Emit
  <2>2. ASSUME NEW o \in Owners, NEW next \in Contracts,
               NEW deps \in Subscribable, NEW historical \in BOOLEAN,
               Reconstruct(o, next, deps, historical)
        PROVE  DirtiesOnlySubscribers
    BY <2>2, CommitDirtiesSubscribers DEF Reconstruct, DiscardDirty
  <2>3. ASSUME NEW o \in Owners, NEW next \in Contracts,
               NEW historical \in BOOLEAN,
               RejectOscillation(o, next, historical)
        PROVE  DirtiesOnlySubscribers
    BY <2>3 DEF RejectOscillation, graphVars, DirtiesOnlySubscribers
  <2>4. ASSUME NEW o \in Owners, AcceptCertified(o)
        PROVE  DirtiesOnlySubscribers
    BY <2>4 DEF AcceptCertified, DiscardDirty, DirtiesOnlySubscribers
  <2> QED
    BY <2>1, <2>2, <2>3, <2>4 DEF Next
<1> QED
  BY <1>1, GraphInvariant, PTL
     DEF Spec, OnlySubscribersInvalidated, DirtiesOnlySubscribers

\* The step formula of RevisitsHandAuthorityOn.
HandsAuthorityOn ==
    \A p \in Owners :
        (contract'[p] # contract[p] /\ contract'[p] \in history[p]) =>
            \A o \in Owners \ {p}, f \in Changed(contract[p], contract'[p]) :
                <<p, f>> \in dependencies'[o] => o \in removalDirty'

\* A commit that returns to an old contract with the authority to do so gives
\* it to every other subscriber of what it changes.
LEMMA AuthorizedCommitHandsOn ==
  ASSUME GraphInv, NEW p \in Owners, NEW next \in Contracts,
         NEW deps \in SUBSET Dependencies, NEW historical \in BOOLEAN,
         CommitRecord(p, next, deps),
         next # contract[p] /\ next \in history[p] => Authorized(p, historical),
         CommitRemovalDirty(p, next, deps, historical) \ {p} \subseteq removalDirty'
  PROVE  HandsAuthorityOn
<1>1. /\ contract'[p] = next
      /\ \A o \in Owners \ {p} : /\ contract'[o] = contract[o]
                                 /\ dependencies'[o] = dependencies[o]
  BY DEF GraphInv, TypeOK, CommitRecord
<1>2. SUFFICES ASSUME next # contract[p], next \in history[p],
                      NEW o \in Owners \ {p}, NEW f \in Changed(contract[p], next),
                      <<p, f>> \in dependencies[o]
               PROVE  o \in removalDirty'
  BY <1>1 DEF HandsAuthorityOn
<1>3. o \in Invalidated(p, next, deps)
  BY <1>2, InvalidatedExact DEF GraphInv
<1>4. o \in CommitRemovalDirty(p, next, deps, historical)
  BY <1>2, <1>3 DEF CommitRemovalDirty
<1> QED
  BY <1>4

\* A contract comes back only with the authority to do so, which reaches every
\* other subscriber of what the return changed.
THEOREM AuthorityIsHandedOn == Spec => RevisitsHandAuthorityOn
<1>1. GraphInv /\ [Next]_vars => [HandsAuthorityOn]_vars
  <2> SUFFICES ASSUME GraphInv, Next PROVE HandsAuthorityOn
    OBVIOUS
  <2>1. ASSUME NEW p \in Owners, NEW next \in Contracts,
               NEW deps \in Subscribable, Emit(p, next, deps)
        PROVE  HandsAuthorityOn
    <3>1. next # contract[p] /\ next \in history[p] => Authorized(p, FALSE)
      BY <2>1 DEF Emit, GraphInv, HistoryHasCurrent, Published
    <3> QED
      BY <2>1, <3>1, AuthorizedCommitHandsOn DEF Emit
  <2>2. ASSUME NEW p \in Owners, NEW next \in Contracts,
               NEW deps \in Subscribable, NEW historical \in BOOLEAN,
               Reconstruct(p, next, deps, historical)
        PROVE  HandsAuthorityOn
    <3>1. next # contract[p] /\ next \in history[p] => Authorized(p, historical)
      BY <2>2 DEF Reconstruct, Oscillates, Published, ContainsHistory
    <3> QED
      BY <2>2, <3>1, AuthorizedCommitHandsOn DEF Reconstruct, DiscardDirty
  <2>3. ASSUME NEW p \in Owners, NEW next \in Contracts,
               NEW historical \in BOOLEAN, RejectOscillation(p, next, historical)
        PROVE  HandsAuthorityOn
    BY <2>3 DEF RejectOscillation, graphVars, HandsAuthorityOn
  <2>4. ASSUME NEW p \in Owners, AcceptCertified(p)
        PROVE  HandsAuthorityOn
    BY <2>4 DEF AcceptCertified, HandsAuthorityOn
  <2> QED
    BY <2>1, <2>2, <2>3, <2>4 DEF Next
<1> QED
  BY <1>1, GraphInvariant, PTL
     DEF Spec, RevisitsHandAuthorityOn, HandsAuthorityOn

-----------------------------------------------------------------------------
(* What the runs check of the structures, on inputs up to a size *)

\* The queue of dirty owners stays a heap with right indices.
THEOREM QueueOrdered == Spec => []QueueStaysOrdered
<1>1. 1..8 \in SUBSET Int /\ IsFiniteSet(1..8)
  <2>1. PICK n \in Int : n = 8
    OBVIOUS
  <2>2. IsFiniteSet(1..n)
    BY FS_Interval
  <2> QED
    BY <2>1, <2>2
<1>2. QueueStaysOrdered
  BY <1>1, HeapOrdered DEF QueueStaysOrdered
<1> QED
  BY <1>2, PTL

\* The batch of dirty owners comes in the order of the rule of Settle.
THEOREM BatchesInOrder == Spec => []BatchesComeInOrder
<1>1. 1..4 \in SUBSET Int /\ IsFiniteSet(1..4)
  <2>1. PICK n \in Int : n = 4
    OBVIOUS
  <2>2. IsFiniteSet(1..n)
    BY FS_Interval
  <2> QED
    BY <2>1, <2>2
<1>2. BatchesComeInOrder
  BY <1>1, BatchOrdered DEF BatchesComeInOrder
<1> QED
  BY <1>2, PTL

\* The history of a record tells the contracts it has had from new ones.
THEOREM OldContractsKnown == Spec => []OldContractsAreKnown
<1>1. ASSUME NEW value \in Seq(Int) PROVE Content(value) \in Contents(Int)
  BY DEF Content, Contents
<1>2. SmallContracts \in SUBSET ContractsOver(1..2, Int)
  <2>1. ASSUME NEW first \in FirstValues, NEW second \in SecondValues
        PROVE  <<Content(first), Content(second)>> \in ContractsOver(1..2, Int)
    <3>1. first \in Seq(Int) /\ second \in Seq(Int)
      <4>1. /\ <<>> \in Seq(Int) /\ <<0>> \in Seq(Int) /\ <<0, 0>> \in Seq(Int)
            /\ <<0, 1>> \in Seq(Int)
        OBVIOUS
      <4>2. <<0, 0, 0>> \in Seq(Int) /\ <<0, 1, 0>> \in Seq(Int)
        OBVIOUS
      <4> QED
        BY <4>1, <4>2 DEF FirstValues, SecondValues
    <3>2. PICK left \in Contents(Int) : left = Content(first)
      BY <1>1, <3>1
    <3>3. PICK right \in Contents(Int) : right = Content(second)
      BY <1>1, <3>1
    <3>4. <<left, right>> \in [1..2 -> Contents(Int)]
      OBVIOUS
    <3> QED
      BY <3>2, <3>3, <3>4 DEF ContractsOver
  <2> QED
    BY <2>1 DEF SmallContracts
<1>3. HistoryIsExact(SmallContracts, 4)
  BY <1>2, HistoryExact
<1>4. OldContractsAreKnown
  BY <1>3 DEF OldContractsAreKnown
<1> QED
  BY <1>4, PTL
=============================================================================
