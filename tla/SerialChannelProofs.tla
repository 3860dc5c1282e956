------------------------ MODULE SerialChannelProofs ------------------------
(***************************************************************************)
(* Proofs about SerialChannel, for any channels, capacities, values and    *)
(* compaction limit.  That a channel is the queue of GoChannel rests on    *)
(* what the operations do to the values not received, Pending.             *)
(***************************************************************************)
EXTENDS SerialChannel, SequenceTheorems, TLAPS

USE ChannelsAssumption, CompactAtAssumption

\* The part of the state that is about buffers.
BuffersOK ==
    /\ buffer \in [Channels -> Seq(Values)]
    /\ head \in [Channels -> Nat]
    /\ \A c \in Channels : head[c] <= Len(buffer[c])
    /\ \A c \in Providers : head[c] = 0
    /\ closed \in [Channels -> BOOLEAN]

\* The inductive invariant of the refinement.
ChannelInv == BuffersOK /\ RetentionIsBounded /\ cases \in Seq(Usable)

\* The queues GoChannel sees.
Queues == [c \in Channels |-> Pending(buffer[c], head[c])]

-----------------------------------------------------------------------------
\* What is not received is a sequence of values, of the length Live counts.
LEMMA PendingType ==
  ASSUME NEW S, NEW b \in Seq(S), NEW h \in 0..Len(b)
  PROVE  /\ Pending(b, h) \in Seq(S)
         /\ Len(Pending(b, h)) = Len(b) - h
         /\ \A i \in 1..(Len(b) - h) : Pending(b, h)[i] = b[h + i]
         /\ Pending(b, h) = <<>> <=> h = Len(b)
<1>1. Len(b) \in Nat /\ \A i \in 1..Len(b) : b[i] \in S
  BY LenProperties, ElementOfSeq
<1>2. h + 1 \in Int /\ \A i \in (h + 1)..Len(b) : b[i] \in S
  BY <1>1
<1>3. /\ Pending(b, h) \in Seq(S)
      /\ Len(Pending(b, h)) = IF h + 1 <= Len(b) THEN Len(b) - (h + 1) + 1 ELSE 0
      /\ \A i \in 1..(Len(b) - (h + 1) + 1) : Pending(b, h)[i] = b[(h + 1) + i - 1]
  BY <1>1, <1>2, SubSeqProperties DEF Pending
<1>4. Len(Pending(b, h)) = Len(b) - h
  BY <1>1, <1>3
<1>5. \A i \in 1..(Len(b) - h) : Pending(b, h)[i] = b[h + i]
  BY <1>1, <1>3
<1>6. Pending(b, h) = <<>> <=> h = Len(b)
  BY <1>1, <1>3, <1>4, EmptySeq
<1> QED
  BY <1>3, <1>4, <1>5, <1>6

\* What is not received of a sequence with one more value at its end.
LEMMA PendingLast ==
  ASSUME NEW S, NEW b \in Seq(S), NEW h \in 0..Len(b), NEW v \in S,
         NEW a \in Seq(S), Len(a) = Len(b) + 1, a[Len(b) + 1] = v
  PROVE  Pending(a, h) = SubSeq(a, h + 1, Len(b)) \o <<v>>
<1>1. /\ h + 1 \in 1..Len(a) /\ Len(a) \in (h + 1)..Len(a)
      /\ Len(a) - 1 = Len(b)
  BY LenProperties
<1>2. SubSeq(a, h + 1, Len(a)) = SubSeq(a, h + 1, Len(a) - 1) \o <<a[Len(a)]>>
  BY <1>1, SubSeqRecursiveSecond
<1> QED
  BY <1>1, <1>2 DEF Pending

\* A send appends to what is not received.
LEMMA PendingPush ==
  ASSUME NEW S, NEW b \in Seq(S), NEW h \in 0..Len(b), NEW v \in S
  PROVE  /\ Append(b, v) \in Seq(S)
         /\ Len(Append(b, v)) = Len(b) + 1
         /\ Pending(Append(b, v), h) = Append(Pending(b, h), v)
<1>1. /\ Len(b) \in Nat
      /\ Append(b, v) \in Seq(S) /\ Len(Append(b, v)) = Len(b) + 1
      /\ Append(b, v)[Len(b) + 1] = v
  BY AppendProperties, LenProperties
<1>2. PICK a \in Seq(S) : a = Append(b, v)
  BY <1>1
<1>3. Len(a) = Len(b) + 1 /\ a[Len(b) + 1] = v
  BY <1>1, <1>2
<1>4. a = b \o <<v>> /\ <<v>> \in Seq(S)
  BY <1>2, AppendIsConcat
<1>5. Pending(a, h) = SubSeq(a, h + 1, Len(b)) \o <<v>>
  BY <1>3, PendingLast
<1>6. SubSeq(a, h + 1, Len(b)) = Pending(b, h)
  <2>1. CASE h = Len(b)
    <3>1. h + 1 \in Int /\ Len(b) \in Int /\ Len(b) < h + 1
      BY <1>1, <2>1
    <3> QED
      BY <3>1, SubSeqEmpty DEF Pending
  <2>2. CASE h # Len(b)
    <3>1. h + 1 \in 1..Len(b) /\ Len(b) \in 1..Len(b)
      BY <1>1, <2>2
    <3>2. SubSeq(b \o <<v>>, h + 1, Len(b)) = SubSeq(b, h + 1, Len(b))
      BY <1>4, <3>1, SubSeqOfConcat1
    <3> QED
      BY <1>4, <3>2 DEF Pending
  <2> QED
    BY <2>1, <2>2
<1>7. Append(Pending(b, h), v) = Pending(b, h) \o <<v>>
  BY PendingType, AppendIsConcat
<1>8. Pending(a, h) = Append(Pending(b, h), v)
  BY <1>5, <1>6, <1>7
<1> QED
  BY <1>1, <1>2, <1>8

\* A receive takes the first of them.
LEMMA PendingTake ==
  ASSUME NEW S, NEW b \in Seq(S), NEW h \in 0..Len(b), h < Len(b)
  PROVE  /\ Pending(b, h) # <<>>
         /\ Head(Pending(b, h)) = b[h + 1]
         /\ Tail(Pending(b, h)) = Pending(b, h + 1)
         /\ b[h + 1] \in S
<1>1. Len(b) \in Nat /\ h + 1 \in 1..Len(b) /\ Len(b) \in (h + 1)..Len(b)
  BY LenProperties
<1>2. /\ Head(SubSeq(b, h + 1, Len(b))) = b[h + 1]
      /\ Tail(SubSeq(b, h + 1, Len(b))) = SubSeq(b, (h + 1) + 1, Len(b))
  BY <1>1, HeadTailOfSubSeq
<1>3. Pending(b, h) # <<>>
  BY <1>1, PendingType
<1>4. b[h + 1] \in S
  BY <1>1, ElementOfSeq
<1> QED
  BY <1>2, <1>3, <1>4 DEF Pending

\* Compaction changes neither what is not received nor its order, and leaves
\* a head within the limit or within the length of what is not received.
LEMMA CompactedKeepsPending ==
  ASSUME NEW S, NEW b \in Seq(S), NEW h \in 0..Len(b)
  PROVE  LET after == Compacted(b, h) IN
         /\ after.values \in Seq(S)
         /\ after.head \in 0..Len(after.values)
         /\ Len(after.values) - after.head = Len(b) - h
         /\ Pending(after.values, after.head) = Pending(b, h)
         /\ after.head <= CompactAt \/ after.head <= Len(b) - h
<1>1. Len(b) \in Nat
  BY LenProperties
<1>2. /\ Pending(b, h) \in Seq(S) /\ Len(Pending(b, h)) = Len(b) - h
      /\ Pending(b, h) = <<>> <=> h = Len(b)
  BY PendingType
<1>3. ASSUME NEW s \in Seq(S) PROVE Pending(s, 0) = s
  <2>1. 0 + 1 = 1
    OBVIOUS
  <2>2. Pending(s, 0) = SubSeq(s, 1, Len(s))
    BY <2>1 DEF Pending
  <2> QED
    BY <2>2, SubSeqFull
<1>4. <<>> \in Seq(S) /\ Len(<<>>) = 0
  BY EmptySeq
<1>5. CASE h = Len(b)
  <2>1. Compacted(b, h) = [values |-> <<>>, head |-> 0]
    BY <1>5 DEF Compacted
  <2>2. Pending(<<>>, 0) = Pending(b, h)
    BY <1>2, <1>3, <1>4, <1>5
  <2> QED
    BY <1>1, <1>4, <1>5, <2>1, <2>2
<1>6. CASE h # Len(b) /\ CompactionNeeded(b, h)
  <2>1. Compacted(b, h) = [values |-> Pending(b, h), head |-> 0]
    BY <1>6 DEF Compacted, Pending
  <2> QED
    BY <1>1, <1>2, <1>3, <1>6, <2>1
<1>7. CASE h # Len(b) /\ ~CompactionNeeded(b, h)
  <2>1. Compacted(b, h) = [values |-> b, head |-> h]
    BY <1>7 DEF Compacted
  <2>2. h <= CompactAt \/ h <= Len(b) - h
    BY <1>1, <1>7 DEF CompactionNeeded
  <2> QED
    BY <1>1, <2>1, <2>2
<1> QED
  BY <1>5, <1>6, <1>7

-----------------------------------------------------------------------------
\* Live counts what is not received.
LEMMA LiveIsLength ==
  ASSUME BuffersOK, NEW c \in Channels
  PROVE  /\ buffer[c] \in Seq(Values) /\ head[c] \in 0..Len(buffer[c])
         /\ Len(buffer[c]) \in Nat /\ Live(c) \in Nat
         /\ Queues[c] \in Seq(Values)
         /\ Len(Queues[c]) = Live(c)
         /\ Queues[c] = <<>> <=> Live(c) = 0
<1>1. /\ buffer[c] \in Seq(Values) /\ head[c] \in 0..Len(buffer[c])
      /\ Len(buffer[c]) \in Nat
  BY LenProperties DEF BuffersOK
<1>2. Queues[c] = Pending(buffer[c], head[c])
  BY DEF Queues
<1>3. /\ Pending(buffer[c], head[c]) \in Seq(Values)
      /\ Len(Pending(buffer[c], head[c])) = Len(buffer[c]) - head[c]
      /\ Pending(buffer[c], head[c]) = <<>> <=> head[c] = Len(buffer[c])
  <2>1. PICK b \in Seq(Values) : b = buffer[c]
    BY <1>1
  <2>2. PICK h \in 0..Len(b) : h = head[c]
    BY <1>1, <2>1
  <2>3. /\ Pending(b, h) \in Seq(Values)
        /\ Len(Pending(b, h)) = Len(b) - h
        /\ Pending(b, h) = <<>> <=> h = Len(b)
    BY PendingType
  <2> QED
    BY <2>1, <2>2, <2>3
<1> QED
  BY <1>1, <1>2, <1>3 DEF Live

\* An alternative the program uses names a channel or nil, and a value when
\* it sends.
LEMMA AlternativeType ==
  ASSUME NEW a \in Usable
  PROVE  /\ a \in Promise!Alternatives
         /\ a.op \in {"send", "receive"}
         /\ a.on # Nil => a.on \in Channels
         /\ a.op = "send" => a.value \in Values
         /\ a.op = "send" /\ a.on # Nil => a.on \notin Providers
<1>1. a \in Promise!Alternatives
  BY UsableAssumption
<1>2. CASE a \in Promise!Sends
  BY <1>1, <1>2 DEF Promise!Sends
<1>3. CASE a \in Promise!Receives
  BY <1>1, <1>3 DEF Promise!Receives
<1> QED
  BY <1>1, <1>2, <1>3 DEF Promise!Alternatives

\* A case is ready, and its commit succeeds, exactly when Go would let the
\* alternative proceed: a select that tests and commits in one go never
\* declines.
LEMMA ReadyIffProceeds ==
  ASSUME BuffersOK, NEW a \in Usable
  PROVE  /\ Ready(a) <=> Promise!Proceeds(a)
         /\ a.on # Nil => (Commits(a) <=> Promise!Proceeds(a))
<1>1. CASE a.on = Nil
  BY <1>1 DEF Ready, Promise!Proceeds
<1>2. CASE a.on # Nil
  <2>1. a.on \in Channels
    BY <1>2, AlternativeType
  <2>2. /\ Live(a.on) \in Nat /\ Len(Queues[a.on]) = Live(a.on)
        /\ Queues[a.on] = <<>> <=> Live(a.on) = 0
    BY <2>1, LiveIsLength
  <2>3. Ready(a) <=> Commits(a)
    BY <1>2 DEF Ready, Commits
  <2>4. Promise!Proceeds(a) <=> Commits(a)
    BY <1>2, <2>2 DEF Promise!Proceeds, Commits, Queues
  <2> QED
    BY <2>3, <2>4
<1> QED
  BY <1>1, <1>2

\* What taking the first value leaves.
LEMMA TakenKeepsOrder ==
  ASSUME BuffersOK, NEW c \in Channels, Live(c) <= Capacity[c], Live(c) > 0
  PROVE  /\ Taken(c).values \in Seq(Values)
         /\ Taken(c).head \in Nat /\ Taken(c).head <= Len(Taken(c).values)
         /\ Len(Taken(c).values) - Taken(c).head = Live(c) - 1
         /\ Pending(Taken(c).values, Taken(c).head) = Tail(Queues[c])
         /\ Queues[c] # <<>> /\ Head(Queues[c]) = buffer[c][head[c] + 1]
         /\ c \in Providers => Taken(c).head = 0
         /\ Taken(c).head <= CompactAt \/ Taken(c).head <= Capacity[c]
<1> DEFINE b == buffer[c]
           h == head[c]
<1>1. b \in Seq(Values) /\ h \in 0..Len(b) /\ Len(b) \in Nat /\ h < Len(b)
  BY LiveIsLength DEF Live
<1>2. /\ Queues[c] # <<>> /\ Head(Queues[c]) = b[h + 1]
      /\ Tail(Queues[c]) = Pending(b, h + 1)
  BY <1>1, PendingTake DEF Queues
<1>3. CASE c \in Providers
  <2>1. Taken(c) = [values |-> Tail(b), head |-> 0] /\ h = 0
    BY <1>3 DEF Taken, BuffersOK
  <2>2. b # <<>> /\ Pending(b, 0) = b
    <3>1. b # <<>>
      BY <1>1, EmptySeq
    <3>2. 0 + 1 = 1
      OBVIOUS
    <3>3. Pending(b, 0) = SubSeq(b, 1, Len(b))
      BY <3>2 DEF Pending
    <3> QED
      BY <1>1, <3>1, <3>3, SubSeqFull
  <2>3. Tail(b) \in Seq(Values) /\ Len(Tail(b)) = Len(b) - 1
    BY <1>1, <2>2, HeadTailProperties
  <2>4. Pending(Tail(b), 0) = Tail(b)
    <3>2. 0 + 1 = 1
      OBVIOUS
    <3>3. Pending(Tail(b), 0) = SubSeq(Tail(b), 1, Len(Tail(b)))
      BY <3>2 DEF Pending
    <3> QED
      BY <2>3, <3>3, SubSeqFull
  <2>5. Queues[c] = b
    BY <2>1, <2>2 DEF Queues
  <2> QED
    BY <1>1, <1>2, <2>1, <2>3, <2>4, <2>5 DEF Live
<1>4. CASE c \notin Providers
  <2>1. Taken(c) = Compacted(b, h + 1)
    BY <1>4 DEF Taken
  <2>2. h + 1 \in 0..Len(b)
    BY <1>1
  <2>3. LET after == Compacted(b, h + 1) IN
         /\ after.values \in Seq(Values)
         /\ after.head \in 0..Len(after.values)
         /\ Len(after.values) - after.head = Len(b) - (h + 1)
         /\ Pending(after.values, after.head) = Pending(b, h + 1)
         /\ after.head <= CompactAt \/ after.head <= Len(b) - (h + 1)
    BY <1>1, <2>2, CompactedKeepsPending
  <2>4. /\ Taken(c).values \in Seq(Values)
        /\ Taken(c).head \in 0..Len(Taken(c).values)
        /\ Len(Taken(c).values) - Taken(c).head = Len(b) - (h + 1)
        /\ Pending(Taken(c).values, Taken(c).head) = Pending(b, h + 1)
        /\ Taken(c).head <= CompactAt \/ Taken(c).head <= Len(b) - (h + 1)
    BY <2>1, <2>3
  <2>5. Len(Taken(c).values) \in Nat /\ Capacity[c] \in Nat
    BY <2>4, LenProperties
  <2> QED
    BY <1>1, <1>2, <1>4, <2>4, <2>5 DEF Live
<1> QED
  BY <1>3, <1>4

-----------------------------------------------------------------------------
\* A step that leaves the buffers alone leaves the queues alone.
LEMMA SameQueues ==
  ASSUME BuffersOK, RetentionIsBounded, UNCHANGED <<buffer, head>>,
         closed' \in [Channels -> BOOLEAN]
  PROVE  BuffersOK' /\ RetentionIsBounded' /\ Queues' = Queues
<1>1. BuffersOK'
  BY DEF BuffersOK
<1>2. RetentionIsBounded'
  BY DEF RetentionIsBounded, Live
<1>3. Queues' = Queues
  BY DEF Queues
<1> QED
  BY <1>1, <1>2, <1>3

\* A value put in a buffer with room is the last of its queue.
LEMMA PushStep ==
  ASSUME BuffersOK, RetentionIsBounded, NEW c \in Channels, NEW v \in Values,
         Live(c) < Capacity[c],
         buffer' = [buffer EXCEPT ![c] = Append(@, v)],
         UNCHANGED <<head, closed>>
  PROVE  /\ BuffersOK' /\ RetentionIsBounded'
         /\ Queues' = [Queues EXCEPT ![c] = Append(@, v)]
<1>1. PICK b \in Seq(Values) : b = buffer[c]
  BY DEF BuffersOK
<1>2. PICK h \in 0..Len(b) : h = head[c]
  BY <1>1, LiveIsLength
<1>3. /\ Append(b, v) \in Seq(Values)
      /\ Len(Append(b, v)) = Len(b) + 1
      /\ Pending(Append(b, v), h) = Append(Pending(b, h), v)
  BY PendingPush
<1>4. Len(b) \in Nat /\ Capacity[c] \in Nat
  BY LenProperties
<1>5. /\ buffer' \in [Channels -> Seq(Values)]
      /\ buffer'[c] = Append(b, v)
      /\ \A d \in Channels : d # c => buffer'[d] = buffer[d]
  BY <1>1, <1>3 DEF BuffersOK
<1>6. BuffersOK'
  BY <1>1, <1>2, <1>3, <1>4, <1>5 DEF BuffersOK
<1>7. RetentionIsBounded'
  BY <1>1, <1>2, <1>3, <1>4, <1>5 DEF RetentionIsBounded, Live
<1>8. \A d \in Channels : Queues'[d] = IF d = c THEN Append(Queues[c], v) ELSE Queues[d]
  BY <1>1, <1>2, <1>3, <1>5 DEF Queues
<1>9. Queues' = [Queues EXCEPT ![c] = Append(@, v)]
  BY <1>8 DEF Queues
<1> QED
  BY <1>6, <1>7, <1>9

\* The first value taken from a buffer is the first of its queue.
LEMMA TakeStep ==
  ASSUME BuffersOK, RetentionIsBounded, NEW c \in Channels, Live(c) > 0,
         buffer' = [buffer EXCEPT ![c] = Taken(c).values],
         head' = [head EXCEPT ![c] = Taken(c).head],
         UNCHANGED closed
  PROVE  /\ BuffersOK' /\ RetentionIsBounded'
         /\ Queues[c] # <<>> /\ Head(Queues[c]) = buffer[c][head[c] + 1]
         /\ Queues' = [Queues EXCEPT ![c] = Tail(@)]
<1>1. Live(c) <= Capacity[c] /\ Capacity[c] \in Nat /\ Live(c) \in Nat
  BY LiveIsLength DEF RetentionIsBounded
<1>2. /\ Taken(c).values \in Seq(Values)
      /\ Taken(c).head \in Nat /\ Taken(c).head <= Len(Taken(c).values)
      /\ Len(Taken(c).values) - Taken(c).head = Live(c) - 1
      /\ Pending(Taken(c).values, Taken(c).head) = Tail(Queues[c])
      /\ Queues[c] # <<>> /\ Head(Queues[c]) = buffer[c][head[c] + 1]
      /\ c \in Providers => Taken(c).head = 0
      /\ Taken(c).head <= CompactAt \/ Taken(c).head <= Capacity[c]
  BY <1>1, TakenKeepsOrder
<1>3. /\ buffer' \in [Channels -> Seq(Values)] /\ head' \in [Channels -> Nat]
      /\ buffer'[c] = Taken(c).values /\ head'[c] = Taken(c).head
      /\ \A d \in Channels : d # c => buffer'[d] = buffer[d] /\ head'[d] = head[d]
  BY <1>2 DEF BuffersOK
<1>4. BuffersOK'
  BY <1>2, <1>3 DEF BuffersOK
<1>5. Live(c)' = Live(c) - 1 /\ \A d \in Channels : d # c => Live(d)' = Live(d)
  BY <1>2, <1>3 DEF Live
<1>6. RetentionIsBounded'
  BY <1>1, <1>2, <1>3, <1>5 DEF RetentionIsBounded
<1>7. \A d \in Channels : Queues'[d] = IF d = c THEN Tail(Queues[c]) ELSE Queues[d]
  BY <1>2, <1>3 DEF Queues
<1>8. Queues' = [Queues EXCEPT ![c] = Tail(@)]
  BY <1>7 DEF Queues
<1> QED
  BY <1>2, <1>4, <1>6, <1>8

\* The commit of an alternative that Go would let proceed is its transfer.
LEMMA CommitStep ==
  ASSUME BuffersOK, RetentionIsBounded, NEW asked \in SUBSET Usable,
         NEW a \in asked, a.on # Nil, Commits(a), Commit(asked, a)
  PROVE  BuffersOK' /\ RetentionIsBounded' /\ Promise!Communicate
<1> DEFINE c == a.on
<1>1. /\ a \in Usable /\ c \in Channels /\ a.op \in {"send", "receive"}
      /\ a.op = "send" => a.value \in Values
  BY AlternativeType
<1>2. /\ Live(c) \in Nat /\ Len(Queues[c]) = Live(c)
      /\ Queues[c] = <<>> <=> Live(c) = 0
  BY <1>1, LiveIsLength
<1>3. asked \subseteq Promise!Alternatives /\ Promise!Proceeds(a)
  BY <1>1, ReadyIffProceeds, AlternativeType
<1>4. ASSUME Promise!Transfer(asked, a), UNCHANGED closed, outcome'.asked = asked
      PROVE  Promise!Communicate
  BY <1>3, <1>4 DEF Promise!Communicate
<1>5. CASE a.op = "send"
  <2>1. CASE /\ closed[c]
             /\ outcome' = Promise!Result(asked, a, "send on closed channel")
             /\ UNCHANGED channelVars
    <3>1. BuffersOK' /\ RetentionIsBounded' /\ Queues' = Queues
      BY <2>1, SameQueues DEF channelVars, BuffersOK
    <3>2. Promise!Transfer(asked, a)
      BY <1>5, <2>1, <3>1 DEF Promise!Transfer, Queues
    <3> QED
      BY <1>4, <2>1, <3>1, <3>2 DEF channelVars, Promise!Result
  <2>2. CASE /\ ~closed[c] /\ Live(c) < Capacity[c]
             /\ outcome' = Promise!Result(asked, a, "sent")
             /\ buffer' = [buffer EXCEPT ![c] = Append(@, a.value)]
             /\ UNCHANGED <<head, closed>>
    <3>1. PICK v \in Values : v = a.value
      BY <1>1, <1>5
    <3>2. /\ BuffersOK' /\ RetentionIsBounded'
          /\ Queues' = [Queues EXCEPT ![c] = Append(@, v)]
      BY <1>1, <2>2, <3>1, PushStep
    <3>3. Promise!Transfer(asked, a)
      BY <1>5, <2>2, <3>1, <3>2 DEF Promise!Transfer, Queues
    <3> QED
      BY <1>4, <2>2, <3>2, <3>3 DEF Promise!Result
  <2> QED
    BY <1>5, <2>1, <2>2 DEF Commit
<1>6. CASE a.op = "receive"
  <2>1. CASE /\ Live(c) > 0
             /\ outcome' = Promise!Result(asked, a, buffer[c][head[c] + 1])
             /\ buffer' = [buffer EXCEPT ![c] = Taken(c).values]
             /\ head' = [head EXCEPT ![c] = Taken(c).head]
             /\ UNCHANGED closed
    <3>1. /\ BuffersOK' /\ RetentionIsBounded'
          /\ Queues[c] # <<>> /\ Head(Queues[c]) = buffer[c][head[c] + 1]
          /\ Queues' = [Queues EXCEPT ![c] = Tail(@)]
      BY <1>1, <2>1, TakeStep
    <3>2. Promise!Transfer(asked, a)
      BY <1>6, <2>1, <3>1 DEF Promise!Transfer, Queues
    <3> QED
      BY <1>4, <2>1, <3>1, <3>2 DEF Promise!Result
  <2>2. CASE /\ Live(c) <= 0 /\ closed[c]
             /\ outcome' = Promise!Result(asked, a, "zero")
             /\ UNCHANGED channelVars
    <3>1. BuffersOK' /\ RetentionIsBounded' /\ Queues' = Queues
      BY <2>2, SameQueues DEF channelVars, BuffersOK
    <3>2. Queues[c] = <<>>
      BY <1>2, <2>2
    <3>3. Promise!Transfer(asked, a)
      BY <1>6, <2>2, <3>1, <3>2 DEF Promise!Transfer, Queues
    <3> QED
      BY <1>4, <2>2, <3>1, <3>3 DEF channelVars, Promise!Result
  <2> QED
    BY <1>6, <2>1, <2>2 DEF Commit
<1> QED
  BY <1>1, <1>5, <1>6

\* An operation that would block does so only when Go would block it.
LEMMA BlockStep ==
  ASSUME BuffersOK, RetentionIsBounded, NEW asked \in SUBSET Usable,
         \A a \in asked : ~Promise!Proceeds(a), WouldBlock(asked)
  PROVE  BuffersOK' /\ RetentionIsBounded' /\ Promise!Communicate
<1>1. BuffersOK' /\ RetentionIsBounded' /\ Queues' = Queues
  BY SameQueues DEF WouldBlock, channelVars, BuffersOK
<1>2. /\ outcome' = Promise!Result(asked, Nothing, "would block")
      /\ outcome'.asked = asked /\ UNCHANGED closed
  BY DEF WouldBlock, channelVars, Promise!Result
<1>3. asked \subseteq Promise!Alternatives
  BY UsableAssumption
<1>4. Promise!Communicate
  BY <1>1, <1>2, <1>3 DEF Promise!Communicate, Queues
<1> QED
  BY <1>1, <1>4

-----------------------------------------------------------------------------
\* A channel starts empty and open.
LEMMA InitChannelInv == Init => ChannelInv /\ Promise!Init
<1> SUFFICES ASSUME Init PROVE ChannelInv /\ Promise!Init
  OBVIOUS
<1>1. <<>> \in Seq(Values) /\ <<>> \in Seq(Usable) /\ Len(<<>>) = 0
  BY EmptySeq
<1>2. BuffersOK
  BY <1>1 DEF Init, BuffersOK
<1>3. RetentionIsBounded
  BY <1>1 DEF Init, RetentionIsBounded, Live
<1>4. \A c \in Channels : Pending(buffer[c], head[c]) = <<>>
  <2>1. PICK b \in Seq(Values) : b = <<>>
    BY <1>1
  <2>2. Pending(b, 0) = <<>>
    <3>1. 0 \in 0..Len(b) /\ 0 = Len(b)
      BY <1>1, <2>1
    <3>2. PICK h \in 0..Len(b) : h = 0
      BY <3>1
    <3>3. Pending(b, h) = <<>> <=> h = Len(b)
      BY PendingType
    <3> QED
      BY <3>1, <3>2, <3>3
  <2> QED
    BY <2>1, <2>2 DEF Init
<1> QED
  BY <1>1, <1>2, <1>3, <1>4 DEF Init, ChannelInv, Promise!Init

\* Every step keeps the invariant and is a step of the promise.
LEMMA ChannelStep ==
  ASSUME ChannelInv, Next
  PROVE  ChannelInv' /\ Promise!Next
<1> USE DEF ChannelInv
<1>1. ASSUME NEW a \in Usable, Communicate(a)
      PROVE  ChannelInv' /\ Promise!Next
  <2>1. {a} \in SUBSET Usable /\ a \in {a} /\ cases' = cases
    BY <1>1 DEF Communicate
  <2>2. CASE a.on # Nil /\ Commits(a)
    BY <1>1, <2>1, <2>2, CommitStep DEF Communicate, Promise!Next
  <2>3. CASE ~(a.on # Nil /\ Commits(a))
    <3>1. ~Promise!Proceeds(a)
      BY <2>3, ReadyIffProceeds DEF Promise!Proceeds
    <3> QED
      BY <1>1, <2>1, <2>3, <3>1, BlockStep DEF Communicate, Promise!Next
  <2> QED
    BY <2>2, <2>3
<1>2. ASSUME NEW a \in Usable, Prepare(a)
      PROVE  ChannelInv' /\ Promise!Next
  <2>1. cases' \in Seq(Usable)
    BY <1>2, AppendProperties DEF Prepare
  <2>2. BuffersOK' /\ RetentionIsBounded' /\ Queues' = Queues
    BY <1>2, SameQueues DEF Prepare, channelVars, BuffersOK
  <2>3. Promise!Continue
    BY <1>2, <2>2 DEF Prepare, channelVars, Promise!Continue, Queues
  <2> QED
    BY <2>1, <2>2, <2>3 DEF Promise!Next
<1>3. ASSUME Select
      PROVE  ChannelInv' /\ Promise!Next
  <2> DEFINE asked == {cases[i] : i \in DOMAIN cases}
  <2>1. asked \in SUBSET Usable
    BY ElementOfSeq, LenProperties
  <2>2. cases' \in Seq(Usable)
    BY <1>3, EmptySeq DEF Select
  <2>3. CASE \E a \in asked :
               /\ Ready(a)
               /\ IF Commits(a) THEN Commit(asked, a) ELSE WouldBlock(asked)
    <3>1. PICK a \in asked :
             /\ Ready(a)
             /\ IF Commits(a) THEN Commit(asked, a) ELSE WouldBlock(asked)
      BY <2>3
    <3>2. a.on # Nil /\ Commits(a)
      BY <3>1 DEF Ready, Commits
    <3> QED
      BY <2>1, <2>2, <3>1, <3>2, CommitStep DEF Promise!Next
  <2>4. CASE (\A a \in asked : ~Ready(a)) /\ WouldBlock(asked)
    BY <2>1, <2>2, <2>4, ReadyIffProceeds, BlockStep DEF Promise!Next
  <2> QED
    BY <1>3, <2>3, <2>4 DEF Select
<1>4. ASSUME NEW c \in Channels, Close(c)
      PROVE  ChannelInv' /\ Promise!Next
  <2>1. BuffersOK' /\ RetentionIsBounded' /\ Queues' = Queues
    BY <1>4, SameQueues DEF Close, BuffersOK
  <2>2. Promise!Close(c)
    BY <1>4, <2>1 DEF Close, Promise!Close, Queues
  <2> QED
    BY <1>4, <2>1, <2>2 DEF Close, Promise!Next
<1>5. ASSUME CloseNil
      PROVE  ChannelInv' /\ Promise!Next
  <2>1. BuffersOK' /\ RetentionIsBounded' /\ Queues' = Queues
    BY <1>5, SameQueues DEF CloseNil, channelVars, BuffersOK
  <2>2. Promise!CloseNil
    BY <1>5, <2>1 DEF CloseNil, channelVars, Promise!CloseNil, Queues
  <2> QED
    BY <1>5, <2>1, <2>2 DEF CloseNil, Promise!Next
<1>6. ASSUME NEW c \in Providers, NEW v \in Values, Offer(c, v)
      PROVE  ChannelInv' /\ Promise!Next
  <2>1. /\ c \in Channels /\ head[c] = 0 /\ Len(buffer[c]) = Live(c)
        /\ Len(Queues[c]) = Live(c)
    BY LiveIsLength DEF Live, BuffersOK
  <2>2. CASE closed[c] \/ Len(buffer[c]) >= Capacity[c]
    <3>1. BuffersOK' /\ RetentionIsBounded' /\ Queues' = Queues
      BY <1>6, <2>2, SameQueues DEF Offer, BuffersOK
    <3>2. Promise!Offer(c, v)
      BY <1>6, <2>1, <2>2, <3>1 DEF Offer, Promise!Offer, Queues
    <3> QED
      BY <1>6, <3>1, <3>2 DEF Offer, Promise!Next
  <2>3. CASE ~(closed[c] \/ Len(buffer[c]) >= Capacity[c])
    <3>1. Live(c) < Capacity[c]
      BY <2>1, <2>3, LiveIsLength
    <3>2. /\ BuffersOK' /\ RetentionIsBounded'
          /\ Queues' = [Queues EXCEPT ![c] = Append(@, v)]
      BY <1>6, <2>1, <2>3, <3>1, PushStep DEF Offer
    <3>3. Promise!Offer(c, v)
      BY <1>6, <2>1, <2>3, <3>2 DEF Offer, Promise!Offer, Queues
    <3> QED
      BY <1>6, <3>2, <3>3 DEF Offer, Promise!Next
  <2> QED
    BY <2>2, <2>3
<1>7. ASSUME NEW c \in Providers, Discard(c)
      PROVE  ChannelInv' /\ Promise!Next
  <2>1. <<>> \in Seq(Values) /\ Len(<<>>) = 0
    BY EmptySeq
  <2>2. /\ c \in Channels /\ head'[c] = 0 /\ buffer'[c] = <<>>
        /\ buffer' \in [Channels -> Seq(Values)]
        /\ \A d \in Channels : d # c => buffer'[d] = buffer[d]
    BY <1>7, <2>1 DEF Discard, BuffersOK
  <2>3. BuffersOK'
    BY <1>7, <2>1, <2>2 DEF Discard, BuffersOK
  <2>4. RetentionIsBounded'
    BY <1>7, <2>1, <2>2 DEF Discard, RetentionIsBounded, Live
  <2>5. Pending(buffer'[c], head'[c]) = <<>>
    <3>1. PICK b \in Seq(Values) : b = <<>>
      BY <2>1
    <3>2. Pending(b, 0) = <<>>
      BY <2>1, <3>1, PendingType
    <3> QED
      BY <2>2, <3>1, <3>2
  <2>6. Queues' = [Queues EXCEPT ![c] = <<>>]
    BY <1>7, <2>2, <2>5 DEF Queues, Discard
  <2>7. Promise!Discard(c)
    BY <1>7, <2>6 DEF Discard, Promise!Discard, Queues
  <2> QED
    BY <1>7, <2>3, <2>4, <2>7 DEF Discard, Promise!Next
<1>8. ASSUME UNCHANGED channelVars, outcome' = Promise!NoOutcome,
             cases' \in Seq(Usable)
      PROVE  ChannelInv' /\ Promise!Next
  <2>1. BuffersOK' /\ RetentionIsBounded' /\ Queues' = Queues
    BY <1>8, SameQueues DEF channelVars, BuffersOK
  <2>2. Promise!Continue
    BY <1>8, <2>1 DEF channelVars, Promise!Continue, Queues
  <2> QED
    BY <1>8, <2>1, <2>2 DEF Promise!Next
<1>9. ASSUME NEW o \in Observers, NEW c \in Channels, ObserveClose(o, c)
      PROVE  ChannelInv' /\ Promise!Next
  BY <1>8, <1>9 DEF ObserveClose
<1>10. ASSUME NEW o \in Observers, Unobserve(o)
       PROVE  ChannelInv' /\ Promise!Next
  BY <1>8, <1>10 DEF Unobserve
<1>11. ASSUME CallObserver
       PROVE  ChannelInv' /\ Promise!Next
  BY <1>8, <1>11 DEF CallObserver
<1>12. ASSUME CloseReturns
       PROVE  ChannelInv' /\ Promise!Next
  BY <1>8, <1>12 DEF CloseReturns
<1>13. ASSUME NEW n, Panic(n)
       PROVE  ChannelInv' /\ Promise!Next
  BY <1>8, <1>13, EmptySeq DEF Panic
<1> QED
  BY <1>1, <1>2, <1>3, <1>4, <1>5, <1>6, <1>7, <1>9, <1>10, <1>11, <1>12, <1>13
     DEF Next

\* A stuttering step of the runtime is one of the promise.
LEMMA ChannelStutter ==
  ASSUME ChannelInv, UNCHANGED vars
  PROVE  ChannelInv' /\ UNCHANGED Promise!vars
<1>1. UNCHANGED <<buffer, head, closed, outcome, cases>>
  BY DEF vars, channelVars
<1>2. BuffersOK' /\ RetentionIsBounded' /\ Queues' = Queues
  BY <1>1, SameQueues DEF ChannelInv, BuffersOK
<1> QED
  BY <1>1, <1>2 DEF ChannelInv, Promise!vars, Queues

\* The invariant holds throughout.
LEMMA ChannelInvariant == Spec => []ChannelInv
<1>1. Init => ChannelInv
  BY InitChannelInv
<1>2. ChannelInv /\ [Next]_vars => ChannelInv'
  BY ChannelStep, ChannelStutter
<1> QED
  BY <1>1, <1>2, PTL DEF Spec

\* A buffer keeps no more values already received than the compaction limit or
\* its capacity allows, and never more unreceived ones than its capacity.
THEOREM RetentionBounded == Spec => []RetentionIsBounded
<1>1. ChannelInv => RetentionIsBounded
  BY DEF ChannelInv
<1> QED
  BY <1>1, ChannelInvariant, PTL

\* The channels of the runtime and of the library are the queues of GoChannel,
\* for any capacities and compaction limit: no value is lost, repeated or
\* overtaken, and a select proceeds exactly when Go would let it.
THEOREM RefinesGoChannel == Spec => ImplementsGoChannel
<1>1. Init => Promise!Init
  BY InitChannelInv
<1>2. ChannelInv /\ [Next]_vars => [Promise!Next]_(Promise!vars)
  BY ChannelStep, ChannelStutter
<1> QED
  BY <1>1, <1>2, ChannelInvariant, PTL DEF Spec, ImplementsGoChannel, Promise!Spec

-----------------------------------------------------------------------------
(* Closes and their observers *)

\* o occurs in the sequence s.
Among(o, s) == \E i \in DOMAIN s : s[i] = o

\* The part of the state that is about closes.
ObserverTypes ==
    /\ closed \in [Channels -> BOOLEAN]
    /\ observers \in [Channels -> Seq(Observers)]
    /\ watched \in [Observers -> Channels \cup {Nowhere}]
    /\ told \in [Observers -> Nat]
    /\ withdrawn \subseteq Observers
    /\ closing \in Seq([on : Channels, called : SUBSET Observers])
    /\ cut \subseteq Channels

\* A channel is closed once, so no two closes under way are of one channel, and
\* none is of a channel whose close was cut short.
ClosesDiffer ==
    /\ \A c \in cut : closed[c]
    /\ \A i \in DOMAIN closing : closed[closing[i].on] /\ closing[i].on \notin cut
    /\ \A i, j \in DOMAIN closing : closing[i].on = closing[j].on => i = j

\* Who is registered watches that channel, once, and did not withdraw; who was
\* neither called nor withdrawn is registered.
WatchersInv ==
    /\ \A c \in Channels, o \in Observers :
          Among(o, observers[c]) => watched[o] = c /\ o \notin withdrawn
    /\ \A c \in Channels : \A i, j \in DOMAIN observers[c] :
          observers[c][i] = observers[c][j] => i = j
    /\ \A o \in Observers : watched[o] = Nowhere => told[o] = 0 /\ o \notin withdrawn
    /\ \A o \in Observers : watched[o] # Nowhere =>
          /\ told[o] = 0 /\ o \notin withdrawn => Among(o, observers[watched[o]])
          /\ told[o] \in {0, 1}
          /\ told[o] = 1 => closed[watched[o]] /\ o \notin withdrawn

\* A close remembers whom it called: a registered observer that was called is
\* remembered by the close of its channel, unless that close was cut short, and
\* a close that returned leaves nobody registered.
CallsInv ==
    /\ \A i \in DOMAIN closing : \A o \in closing[i].called : told[o] = 1
    /\ \A c \in Channels, o \in Observers :
          Among(o, observers[c]) /\ told[o] = 1 =>
             c \in cut \/ \E i \in DOMAIN closing : closing[i].on = c /\ o \in closing[i].called
    /\ \A c \in Channels :
          closed[c] /\ (\A i \in DOMAIN closing : closing[i].on # c) =>
              c \in cut \/ observers[c] = <<>>

\* The inductive invariant of the observers.
ObserverInv == ObserverTypes /\ ClosesDiffer /\ WatchersInv /\ CallsInv

\* Taking out one place of a sequence moves the later ones down.
LEMMA RemoveAtProperties ==
  ASSUME NEW S, NEW s \in Seq(S), NEW i \in 1..Len(s)
  PROVE  /\ RemoveAt(s, i) \in Seq(S)
         /\ DOMAIN RemoveAt(s, i) = 1..(Len(s) - 1)
         /\ \A j \in 1..(Len(s) - 1) : RemoveAt(s, i)[j] = s[IF j < i THEN j ELSE j + 1]
<1>1. Len(s) \in Nat /\ \A j \in 1..Len(s) : s[j] \in S
  BY LenProperties, ElementOfSeq
<1>2. PICK n \in Nat : n = Len(s)
  BY <1>1
<1>3. PICK p : p = SubSeq(s, 1, i - 1)
  OBVIOUS
<1>4. PICK q : q = SubSeq(s, i + 1, n)
  OBVIOUS
<1>5. p \in Seq(S) /\ Len(p) = i - 1 /\ \A j \in 1..(i - 1) : p[j] = s[j]
  <2>1. 1 \in Int /\ i - 1 \in Int /\ \A j \in 1..(i - 1) : s[j] \in S
    BY <1>1
  <2>2. /\ SubSeq(s, 1, i - 1) \in Seq(S)
        /\ Len(SubSeq(s, 1, i - 1)) = IF 1 <= i - 1 THEN (i - 1) - 1 + 1 ELSE 0
        /\ \A j \in 1..((i - 1) - 1 + 1) : SubSeq(s, 1, i - 1)[j] = s[1 + j - 1]
    BY <2>1, SubSeqProperties
  <2> QED
    BY <1>1, <1>3, <2>2
<1>6. q \in Seq(S) /\ Len(q) = n - i /\ \A j \in 1..(n - i) : q[j] = s[i + j]
  <2>1. i + 1 \in Int /\ n \in Int /\ \A j \in (i + 1)..n : s[j] \in S
    BY <1>1, <1>2
  <2>2. /\ SubSeq(s, i + 1, n) \in Seq(S)
        /\ Len(SubSeq(s, i + 1, n)) = IF i + 1 <= n THEN n - (i + 1) + 1 ELSE 0
        /\ \A j \in 1..(n - (i + 1) + 1) : SubSeq(s, i + 1, n)[j] = s[(i + 1) + j - 1]
    BY <2>1, SubSeqProperties
  <2> QED
    BY <1>1, <1>2, <1>4, <2>2
<1>7. RemoveAt(s, i) = p \o q
  BY <1>2, <1>3, <1>4 DEF RemoveAt
<1>8. /\ p \o q \in Seq(S) /\ Len(p \o q) = n - 1
      /\ \A j \in 1..(n - 1) : (p \o q)[j] = IF j <= i - 1 THEN p[j] ELSE q[j - (i - 1)]
  <2>1. /\ p \o q \in Seq(S) /\ Len(p \o q) = Len(p) + Len(q)
        /\ \A j \in 1..(Len(p) + Len(q)) :
              (p \o q)[j] = IF j <= Len(p) THEN p[j] ELSE q[j - Len(p)]
    <3>1. p \in Seq(S) /\ q \in Seq(S)
      BY <1>5, <1>6
    <3> QED
      BY <3>1, ConcatProperties
  <2>2. Len(p) = i - 1 /\ Len(p) + Len(q) = n - 1
    BY <1>2, <1>5, <1>6
  <2> QED
    BY <2>1, <2>2
<1>9. ASSUME NEW j \in 1..(n - 1)
      PROVE  (p \o q)[j] = s[IF j < i THEN j ELSE j + 1]
  <2>1. CASE j < i
    BY <1>1, <1>2, <1>5, <1>8, <2>1
  <2>2. CASE ~(j < i)
    <3>1. j - (i - 1) \in 1..(n - i) /\ i + (j - (i - 1)) = j + 1
      BY <1>2, <2>2
    <3> QED
      BY <1>2, <1>6, <1>8, <2>2, <3>1
  <2> QED
    BY <2>1, <2>2
<1>10. DOMAIN (p \o q) = 1..(n - 1)
  BY <1>8, LenProperties
<1> QED
  BY <1>2, <1>7, <1>8, <1>9, <1>10

\* An observer taken out of a Set is gone and the others stay, each once.
LEMMA AmongRemoved ==
  ASSUME NEW S, NEW s \in Seq(S), NEW i \in DOMAIN s,
         \A j, k \in DOMAIN s : s[j] = s[k] => j = k
  PROVE  /\ RemoveAt(s, i) \in Seq(S)
         /\ \A o \in S : Among(o, RemoveAt(s, i)) <=> Among(o, s) /\ o # s[i]
         /\ \A j, k \in DOMAIN RemoveAt(s, i) :
               RemoveAt(s, i)[j] = RemoveAt(s, i)[k] => j = k
<1>1. PICK n \in Nat : n = Len(s) /\ DOMAIN s = 1..n
  BY LenProperties
<1>2. PICK r : r = RemoveAt(s, i)
  OBVIOUS
<1>3. /\ i \in 1..n /\ r \in Seq(S) /\ DOMAIN r = 1..(n - 1)
      /\ \A j \in 1..(n - 1) : r[j] = s[IF j < i THEN j ELSE j + 1]
  BY <1>1, <1>2, RemoveAtProperties
<1>4. ASSUME NEW j \in DOMAIN r, NEW k \in DOMAIN r, r[j] = r[k]
      PROVE  j = k
  <2>1. /\ (IF j < i THEN j ELSE j + 1) \in DOMAIN s
        /\ (IF k < i THEN k ELSE k + 1) \in DOMAIN s
    BY <1>1, <1>3
  <2>2. (IF j < i THEN j ELSE j + 1) = (IF k < i THEN k ELSE k + 1)
    BY <1>3, <1>4, <2>1
  <2> QED
    BY <1>1, <1>3, <2>2
<1>5. ASSUME NEW o \in S, Among(o, r)
      PROVE  Among(o, s) /\ o # s[i]
  <2>1. PICK j \in DOMAIN r : r[j] = o
    BY <1>5 DEF Among
  <2>2. (IF j < i THEN j ELSE j + 1) \in DOMAIN s /\ (IF j < i THEN j ELSE j + 1) # i
    BY <1>1, <1>3
  <2>3. s[IF j < i THEN j ELSE j + 1] = o
    BY <1>3, <2>1
  <2> QED
    BY <2>2, <2>3 DEF Among
<1>6. ASSUME NEW o \in S, Among(o, s), o # s[i]
      PROVE  Among(o, r)
  <2>1. PICK j \in DOMAIN s : s[j] = o
    BY <1>6 DEF Among
  <2>2. j \in 1..n /\ j # i
    BY <1>1, <1>6, <2>1
  <2>3. CASE j < i
    <3>1. j \in DOMAIN r /\ r[j] = s[j]
      BY <1>1, <1>3, <2>2, <2>3
    <3> QED
      BY <2>1, <3>1 DEF Among
  <2>4. CASE ~(j < i)
    <3>1. j - 1 \in DOMAIN r /\ ~(j - 1 < i) /\ (j - 1) + 1 = j
      BY <1>1, <1>3, <2>2, <2>4
    <3>2. r[j - 1] = s[j]
      BY <1>3, <3>1
    <3> QED
      BY <2>1, <3>1, <3>2 DEF Among
  <2> QED
    BY <2>3, <2>4
<1> QED
  BY <1>2, <1>3, <1>4, <1>5, <1>6

\* An observer added to a Set comes last.
LEMMA AmongAdded ==
  ASSUME NEW S, NEW s \in Seq(S), NEW e \in S, ~Among(e, s),
         \A j, k \in DOMAIN s : s[j] = s[k] => j = k
  PROVE  /\ Append(s, e) \in Seq(S)
         /\ \A o \in S : Among(o, Append(s, e)) <=> Among(o, s) \/ o = e
         /\ \A j, k \in DOMAIN Append(s, e) :
               Append(s, e)[j] = Append(s, e)[k] => j = k
<1>1. PICK n \in Nat : n = Len(s) /\ DOMAIN s = 1..n
  BY LenProperties
<1>2. PICK r : r = Append(s, e)
  OBVIOUS
<1>3. /\ r \in Seq(S) /\ Len(r) = n + 1
      /\ \A j \in 1..n : r[j] = s[j]
      /\ r[n + 1] = e
  BY <1>1, <1>2, AppendProperties
<1>4. DOMAIN r = 1..(n + 1)
  BY <1>3, LenProperties
<1>5. ASSUME NEW o \in S PROVE Among(o, r) <=> Among(o, s) \/ o = e
  BY <1>1, <1>3, <1>4 DEF Among
<1>6. ASSUME NEW j \in DOMAIN r, NEW k \in DOMAIN r, r[j] = r[k] PROVE j = k
  <2>1. \A m \in 1..n : r[m] # e
    BY <1>1, <1>3 DEF Among
  <2> QED
    BY <1>1, <1>3, <1>4, <1>6, <2>1
<1> QED
  BY <1>2, <1>3, <1>5, <1>6

\* The frame of a close that begins is put before the others.
LEMMA FramePushed ==
  ASSUME NEW S, NEW s \in Seq(S), NEW f \in S
  PROVE  /\ <<f>> \o s \in Seq(S)
         /\ DOMAIN (<<f>> \o s) = 1..(Len(s) + 1)
         /\ (<<f>> \o s)[1] = f
         /\ \A i \in 1..Len(s) : (<<f>> \o s)[i + 1] = s[i]
<1>1. PICK p \in Seq(S) : p = <<f>>
  <2>1. <<f>> \in Seq(S)
    OBVIOUS
  <2> QED
    BY <2>1
<1>2. Len(p) = 1 /\ p[1] = f /\ Len(s) \in Nat
  BY <1>1, LenProperties
<1>3. /\ p \o s \in Seq(S) /\ Len(p \o s) = 1 + Len(s)
      /\ \A i \in 1..(1 + Len(s)) : (p \o s)[i] = IF i <= 1 THEN p[i] ELSE s[i - 1]
  <2>1. /\ p \o s \in Seq(S) /\ Len(p \o s) = Len(p) + Len(s)
        /\ \A i \in 1..(Len(p) + Len(s)) :
              (p \o s)[i] = IF i <= Len(p) THEN p[i] ELSE s[i - Len(p)]
    BY ConcatProperties
  <2> QED
    BY <1>2, <2>1
<1>4. DOMAIN (p \o s) = 1..(Len(s) + 1)
  BY <1>2, <1>3, LenProperties
<1>5. (p \o s)[1] = f
  BY <1>2, <1>3
<1>6. ASSUME NEW i \in 1..Len(s) PROVE (p \o s)[i + 1] = s[i]
  <2>1. i + 1 \in 1..(1 + Len(s)) /\ ~(i + 1 <= 1) /\ (i + 1) - 1 = i
    BY <1>2
  <2> QED
    BY <1>3, <2>1
<1> QED
  BY <1>1, <1>3, <1>4, <1>5, <1>6

\* Dropping the n innermost frames leaves the others in order.
LEMMA FramesDropped ==
  ASSUME NEW S, NEW s \in Seq(S), NEW n \in 0..Len(s)
  PROVE  /\ SubSeq(s, n + 1, Len(s)) \in Seq(S)
         /\ DOMAIN SubSeq(s, n + 1, Len(s)) = 1..(Len(s) - n)
         /\ \A i \in 1..(Len(s) - n) : SubSeq(s, n + 1, Len(s))[i] = s[n + i]
<1>1. PICK r : r = Pending(s, n)
  OBVIOUS
<1>2. r \in Seq(S) /\ Len(r) = Len(s) - n /\ \A i \in 1..(Len(s) - n) : r[i] = s[n + i]
  <2>1. /\ Pending(s, n) \in Seq(S)
        /\ Len(Pending(s, n)) = Len(s) - n
        /\ \A i \in 1..(Len(s) - n) : Pending(s, n)[i] = s[n + i]
    BY PendingType
  <2> QED
    BY <1>1, <2>1
<1>3. DOMAIN r = 1..(Len(s) - n)
  BY <1>2, LenProperties
<1> QED
  BY <1>1, <1>2, <1>3 DEF Pending

-----------------------------------------------------------------------------
\* The closes under way.
LEMMA FramesTyped ==
  ASSUME ObserverTypes
  PROVE  /\ Len(closing) \in Nat /\ DOMAIN closing = 1..Len(closing)
         /\ \A i \in DOMAIN closing :
               /\ closing[i] \in [on : Channels, called : SUBSET Observers]
               /\ closing[i].on \in Channels /\ closing[i].called \subseteq Observers
<1>1. closing \in Seq([on : Channels, called : SUBSET Observers])
  BY DEF ObserverTypes
<1>2. Len(closing) \in Nat /\ DOMAIN closing = 1..Len(closing)
  BY <1>1, LenProperties
<1>3. \A i \in DOMAIN closing : closing[i] \in [on : Channels, called : SUBSET Observers]
  BY <1>1, <1>2, ElementOfSeq
<1> QED
  BY <1>2, <1>3

\* Nothing is closed or observed at the start.
LEMMA InitObserverInv == Init => ObserverInv
<1> SUFFICES ASSUME Init PROVE ObserverInv
  OBVIOUS
<1>1. /\ <<>> \in Seq(Observers) /\ <<>> \in Seq([on : Channels, called : SUBSET Observers])
      /\ DOMAIN <<>> = {}
  BY EmptySeq
<1>2. ObserverTypes
  BY <1>1 DEF Init, ObserverTypes
<1>3. ClosesDiffer
  BY <1>1 DEF Init, ClosesDiffer
<1>4. \A c \in Channels, o \in Observers : ~Among(o, observers[c])
  BY <1>1 DEF Init, Among
<1>5. WatchersInv
  BY <1>1, <1>4 DEF Init, WatchersInv
<1>6. CallsInv
  BY <1>1, <1>4 DEF Init, CallsInv
<1> QED
  BY <1>2, <1>3, <1>5, <1>6 DEF ObserverInv

\* An operation that is not about closing leaves the observers as they are.
LEMMA ObserversUndisturbed ==
  ASSUME ObserverInv, UNCHANGED <<closed, observerVars>>
  PROVE  ObserverInv'
<1>1. /\ closed' = closed /\ observers' = observers /\ watched' = watched
      /\ told' = told /\ withdrawn' = withdrawn /\ closing' = closing /\ cut' = cut
  BY DEF observerVars
<1>2. ObserverTypes'
  BY <1>1 DEF ObserverInv, ObserverTypes
<1>3. ClosesDiffer'
  BY <1>1 DEF ObserverInv, ClosesDiffer
<1>4. WatchersInv'
  BY <1>1 DEF ObserverInv, WatchersInv
<1>5. CallsInv'
  BY <1>1 DEF ObserverInv, CallsInv
<1> QED
  BY <1>2, <1>3, <1>4, <1>5 DEF ObserverInv

\* close of an open channel: its frame is new, and whoever is registered was
\* not called.
LEMMA CloseServes ==
  ASSUME ObserverInv, NEW c \in Channels, Close(c)
  PROVE  ObserverInv'
<1> USE DEF ObserverInv
<1>1. CASE closed[c]
  <2>1. closed' = closed
    BY <1>1 DEF Close, ObserverTypes
  <2> QED
    BY <1>1, <2>1, ObserversUndisturbed DEF Close, observerVars
<1>2. CASE ~closed[c]
  <2> DEFINE f == [on |-> c, called |-> {}]
  <2>1. /\ UNCHANGED <<observers, watched, told, withdrawn, cut>>
        /\ closed' = [closed EXCEPT ![c] = TRUE] /\ closing' = <<f>> \o closing
    BY <1>2 DEF Close
  <2>2. /\ closed' \in [Channels -> BOOLEAN] /\ closed'[c]
        /\ \A d \in Channels : d # c => closed'[d] = closed[d]
    BY <2>1 DEF ObserverTypes
  <2>3. closing \in Seq([on : Channels, called : SUBSET Observers])
    BY DEF ObserverTypes
  <2>4. PICK n \in Nat : n = Len(closing) /\ DOMAIN closing = 1..n
    BY <2>3, LenProperties
  <2>5. /\ closing' \in Seq([on : Channels, called : SUBSET Observers])
        /\ DOMAIN closing' = 1..(n + 1) /\ closing'[1] = f
        /\ \A i \in 1..n : closing'[i + 1] = closing[i]
    <3>1. f \in [on : Channels, called : SUBSET Observers]
      OBVIOUS
    <3> HIDE DEF f
    <3> QED
      BY <2>1, <2>3, <2>4, <3>1, FramePushed
  <2>6. \A i \in DOMAIN closing' : i = 1 \/ \E j \in DOMAIN closing : i = j + 1 /\ closing'[i] = closing[j]
    <3>1. ASSUME NEW i \in DOMAIN closing', i # 1
          PROVE  i - 1 \in DOMAIN closing /\ i = (i - 1) + 1
      BY <2>4, <2>5, <3>1
    <3> QED
      BY <2>4, <2>5, <3>1
  <2>7. \A i \in DOMAIN closing : closing[i].on \in Channels /\ closing[i].on # c
    BY <1>2, FramesTyped DEF ClosesDiffer
  <2>8. c \notin cut /\ cut \subseteq Channels
    BY <1>2 DEF ClosesDiffer, ObserverTypes
  <2>9. ObserverTypes'
    BY <2>1, <2>2, <2>5 DEF ObserverTypes
  <2>10. ClosesDiffer'
    <3>1. \A d \in cut' : closed'[d]
      BY <2>1, <2>2, <2>8 DEF ClosesDiffer
    <3>2. ASSUME NEW i \in DOMAIN closing'
          PROVE  closed'[closing'[i].on] /\ closing'[i].on \notin cut'
      BY <2>1, <2>2, <2>5, <2>6, <2>7, <2>8 DEF ClosesDiffer
    <3>3. ASSUME NEW i \in DOMAIN closing', NEW j \in DOMAIN closing',
                 closing'[i].on = closing'[j].on
          PROVE  i = j
      BY <2>5, <2>6, <2>7, <3>3 DEF ClosesDiffer
    <3> QED
      BY <3>1, <3>2, <3>3 DEF ClosesDiffer
  <2>11. WatchersInv'
    <3>1. \A o \in Observers : watched[o] # Nowhere => watched[o] \in Channels
      BY DEF ObserverTypes
    <3> QED
      BY <2>1, <2>2, <3>1 DEF WatchersInv
  <2>12. CallsInv'
    <3>1. \A i \in DOMAIN closing' : \A o \in closing'[i].called : told'[o] = 1
      BY <2>1, <2>5, <2>6 DEF CallsInv
    <3>2. ASSUME NEW d \in Channels, NEW o \in Observers,
                 Among(o, observers'[d]), told'[o] = 1
          PROVE  d \in cut' \/ \E i \in DOMAIN closing' :
                    closing'[i].on = d /\ o \in closing'[i].called
      <4>1. CASE d \in cut
        BY <2>1, <4>1
      <4>2. CASE \E i \in DOMAIN closing : closing[i].on = d /\ o \in closing[i].called
        <5>1. PICK i \in DOMAIN closing : closing[i].on = d /\ o \in closing[i].called
          BY <4>2
        <5>2. i + 1 \in DOMAIN closing' /\ closing'[i + 1] = closing[i]
          BY <2>4, <2>5
        <5> QED
          BY <5>1, <5>2
      <4> QED
        BY <2>1, <3>2, <4>1, <4>2 DEF CallsInv
    <3>3. ASSUME NEW d \in Channels, closed'[d], \A i \in DOMAIN closing' : closing'[i].on # d
          PROVE  d \in cut' \/ observers'[d] = <<>>
      <4>1. d # c
        <5>1. 1 \in DOMAIN closing' /\ closing'[1].on = c
          BY <2>5
        <5> QED
          BY <3>3, <5>1
      <4>2. \A i \in DOMAIN closing : closing[i].on # d
        <5>1. ASSUME NEW i \in DOMAIN closing
              PROVE  i + 1 \in DOMAIN closing' /\ closing'[i + 1] = closing[i]
          BY <2>4, <2>5
        <5> QED
          BY <3>3, <5>1
      <4> QED
        BY <2>1, <2>2, <3>3, <4>1, <4>2 DEF CallsInv
    <3> QED
      BY <3>1, <3>2, <3>3 DEF CallsInv
  <2> QED
    BY <2>9, <2>10, <2>11, <2>12
<1> QED
  BY <1>1, <1>2

\* $observeClose: of a closed channel, the observer is called and not
\* registered; of an open one, it is registered last.
LEMMA ObserveCloseServes ==
  ASSUME ObserverInv, NEW o \in Observers, NEW c \in Channels, ObserveClose(o, c)
  PROVE  ObserverInv'
<1> USE DEF ObserverInv
<1>1. /\ watched[o] = Nowhere /\ c # Nowhere /\ told[o] = 0 /\ o \notin withdrawn
      /\ \A d \in Channels : ~Among(o, observers[d])
  BY DEF ObserveClose, WatchersInv
<1>2. /\ UNCHANGED <<closed, withdrawn, closing, cut>>
      /\ watched' \in [Observers -> Channels \cup {Nowhere}] /\ watched'[o] = c
      /\ \A x \in Observers : x # o => watched'[x] = watched[x]
  BY DEF ObserveClose, channelVars, ObserverTypes
<1>3. ClosesDiffer'
  BY <1>2 DEF ClosesDiffer
<1>4. CASE closed[c]
  <2>1. /\ observers' = observers
        /\ told' \in [Observers -> Nat] /\ told'[o] = 1
        /\ \A x \in Observers : x # o => told'[x] = told[x]
    BY <1>1, <1>4 DEF ObserveClose, ObserverTypes
  <2>2. ObserverTypes'
    BY <1>2, <2>1 DEF ObserverTypes
  <2>3. WatchersInv'
    BY <1>1, <1>2, <1>4, <2>1 DEF WatchersInv
  <2>4. CallsInv'
    <3>1. \A i \in DOMAIN closing' : \A x \in closing'[i].called : told'[x] = 1
      <4>1. \A i \in DOMAIN closing : closing[i].called \subseteq Observers
        BY FramesTyped
      <4> QED
        BY <1>2, <2>1, <4>1 DEF CallsInv
    <3>2. \A d \in Channels, x \in Observers :
             Among(x, observers'[d]) /\ told'[x] = 1 =>
               d \in cut' \/ \E i \in DOMAIN closing' :
                  closing'[i].on = d /\ x \in closing'[i].called
      BY <1>1, <1>2, <2>1 DEF CallsInv
    <3>3. \A d \in Channels :
             closed'[d] /\ (\A i \in DOMAIN closing' : closing'[i].on # d) =>
               d \in cut' \/ observers'[d] = <<>>
      BY <1>2, <2>1 DEF CallsInv
    <3> QED
      BY <3>1, <3>2, <3>3 DEF CallsInv
  <2> QED
    BY <1>3, <2>2, <2>3, <2>4
<1>5. CASE ~closed[c]
  <2>1. told' = told /\ observers' = [observers EXCEPT ![c] = Append(@, o)]
    BY <1>5 DEF ObserveClose
  <2>2. PICK s \in Seq(Observers) : s = observers[c]
    BY DEF ObserverTypes
  <2>3. ~Among(o, s) /\ \A i, j \in DOMAIN s : s[i] = s[j] => i = j
    BY <1>1, <2>2 DEF WatchersInv
  <2>4. /\ Append(s, o) \in Seq(Observers)
        /\ \A x \in Observers : Among(x, Append(s, o)) <=> Among(x, s) \/ x = o
        /\ \A j, k \in DOMAIN Append(s, o) : Append(s, o)[j] = Append(s, o)[k] => j = k
    BY <2>3, AmongAdded
  <2>5. /\ observers' \in [Channels -> Seq(Observers)] /\ observers'[c] = Append(s, o)
        /\ \A d \in Channels : d # c => observers'[d] = observers[d]
    BY <2>1, <2>2, <2>4 DEF ObserverTypes
  <2>6. \A d \in Channels, x \in Observers :
           Among(x, observers'[d]) <=> Among(x, observers[d]) \/ (d = c /\ x = o)
    BY <2>2, <2>4, <2>5
  <2>7. ObserverTypes'
    BY <1>2, <2>1, <2>5 DEF ObserverTypes
  <2>8. WatchersInv'
    <3>1. \A d \in Channels, x \in Observers :
             Among(x, observers'[d]) => watched'[x] = d /\ x \notin withdrawn'
      BY <1>1, <1>2, <2>6 DEF WatchersInv
    <3>2. \A d \in Channels : \A i, j \in DOMAIN observers'[d] :
             observers'[d][i] = observers'[d][j] => i = j
      <4>1. \A i, j \in DOMAIN observers'[c] :
               observers'[c][i] = observers'[c][j] => i = j
        BY <2>4, <2>5
      <4>2. \A d \in Channels : d # c =>
               \A i, j \in DOMAIN observers'[d] :
                  observers'[d][i] = observers'[d][j] => i = j
        <5>1. ASSUME NEW d \in Channels, d # c
              PROVE  observers'[d] = observers[d]
          BY <2>5, <5>1
        <5>2. \A d \in Channels : \A i, j \in DOMAIN observers[d] :
                 observers[d][i] = observers[d][j] => i = j
          BY DEF WatchersInv
        <5> QED
          BY <5>1, <5>2
      <4> QED
        BY <4>1, <4>2
    <3>3. \A x \in Observers : watched'[x] = Nowhere => told'[x] = 0 /\ x \notin withdrawn'
      BY <1>1, <1>2, <2>1 DEF WatchersInv
    <3>4. \A x \in Observers : watched'[x] # Nowhere =>
             /\ told'[x] = 0 /\ x \notin withdrawn' => Among(x, observers'[watched'[x]])
             /\ told'[x] \in {0, 1}
             /\ told'[x] = 1 => closed'[watched'[x]] /\ x \notin withdrawn'
      <4>1. ASSUME NEW x \in Observers, x # o, watched[x] # Nowhere
            PROVE  /\ told'[x] = 0 /\ x \notin withdrawn' => Among(x, observers'[watched'[x]])
                   /\ told'[x] \in {0, 1}
                   /\ told'[x] = 1 => closed'[watched'[x]] /\ x \notin withdrawn'
        <5>1. watched[x] \in Channels /\ watched'[x] = watched[x]
          BY <1>2, <4>1 DEF ObserverTypes
        <5> QED
          BY <1>2, <2>1, <2>6, <4>1, <5>1 DEF WatchersInv
      <4>2. Among(o, observers'[c]) /\ told'[o] = 0
        BY <1>1, <2>1, <2>6
      <4> QED
        BY <1>2, <4>1, <4>2
    <3> QED
      BY <3>1, <3>2, <3>3, <3>4 DEF WatchersInv
  <2>9. CallsInv'
    <3>1. \A i \in DOMAIN closing' : \A x \in closing'[i].called : told'[x] = 1
      BY <1>2, <2>1 DEF CallsInv
    <3>2. \A d \in Channels, x \in Observers :
             Among(x, observers'[d]) /\ told'[x] = 1 =>
               d \in cut' \/ \E i \in DOMAIN closing' :
                  closing'[i].on = d /\ x \in closing'[i].called
      BY <1>1, <1>2, <2>1, <2>6 DEF CallsInv
    <3>3. \A d \in Channels :
             closed'[d] /\ (\A i \in DOMAIN closing' : closing'[i].on # d) =>
               d \in cut' \/ observers'[d] = <<>>
      BY <1>2, <1>5, <2>5 DEF CallsInv
    <3> QED
      BY <3>1, <3>2, <3>3 DEF CallsInv
  <2> QED
    BY <1>3, <2>7, <2>8, <2>9
<1> QED
  BY <1>4, <1>5

\* Unregistering takes one observer out of the Set of its channel, if it is
\* there; who was not called will not be.
LEMMA UnobserveServes ==
  ASSUME ObserverInv, NEW o \in Observers, Unobserve(o)
  PROVE  ObserverInv'
<1> USE DEF ObserverInv
<1> DEFINE c == watched[o]
<1>1. /\ c # Nowhere /\ c \in Channels
      /\ UNCHANGED <<closed, watched, told, closing, cut>>
  BY DEF Unobserve, channelVars, ObserverTypes
<1>2. /\ withdrawn' \subseteq Observers
      /\ \A x \in Observers : x \in withdrawn' <=> x \in withdrawn \/ (x = o /\ told[o] = 0)
  BY DEF Unobserve, ObserverTypes
<1>3. ClosesDiffer'
  BY <1>1 DEF ClosesDiffer
\* What the Set of the channel is afterwards, however o was found.
<1>4. /\ observers' \in [Channels -> Seq(Observers)]
      /\ \A d \in Channels, x \in Observers :
            Among(x, observers'[d]) <=> Among(x, observers[d]) /\ x # o
      /\ \A d \in Channels : \A i, j \in DOMAIN observers'[d] :
            observers'[d][i] = observers'[d][j] => i = j
      /\ \A d \in Channels : observers[d] = <<>> => observers'[d] = <<>>
  <2>1. \A d \in Channels : Among(o, observers[d]) => d = c
    BY DEF WatchersInv
  <2>2. \A d \in Channels : \A i, j \in DOMAIN observers[d] :
           observers[d][i] = observers[d][j] => i = j
    BY DEF WatchersInv
  <2>3. CASE \E i \in DOMAIN observers[c] :
                /\ observers[c][i] = o
                /\ observers' = [observers EXCEPT ![c] = RemoveAt(@, i)]
    <3>1. PICK i \in DOMAIN observers[c] :
                /\ observers[c][i] = o
                /\ observers' = [observers EXCEPT ![c] = RemoveAt(@, i)]
      BY <2>3
    <3>2. PICK s \in Seq(Observers) : s = observers[c]
      BY <1>1 DEF ObserverTypes
    <3>3. i \in DOMAIN s /\ s[i] = o /\ \A j, k \in DOMAIN s : s[j] = s[k] => j = k
      BY <1>1, <2>2, <3>1, <3>2
    <3>4. /\ RemoveAt(s, i) \in Seq(Observers)
          /\ \A x \in Observers : Among(x, RemoveAt(s, i)) <=> Among(x, s) /\ x # s[i]
          /\ \A j, k \in DOMAIN RemoveAt(s, i) :
                RemoveAt(s, i)[j] = RemoveAt(s, i)[k] => j = k
      BY <3>3, AmongRemoved
    <3>5. PICK r \in Seq(Observers) : r = RemoveAt(s, i)
      BY <3>4
    <3>6. observers' = [observers EXCEPT ![c] = r]
      BY <3>1, <3>2, <3>5
    <3>7. /\ observers' \in [Channels -> Seq(Observers)] /\ observers'[c] = r
          /\ \A d \in Channels : d # c => observers'[d] = observers[d]
      BY <1>1, <3>6 DEF ObserverTypes
    <3>8. \A x \in Observers : Among(x, r) <=> Among(x, s) /\ x # o
      BY <3>3, <3>4, <3>5
    <3>9. \A d \in Channels, x \in Observers :
             Among(x, observers'[d]) <=> Among(x, observers[d]) /\ x # o
      <4>1. ASSUME NEW d \in Channels, NEW x \in Observers
            PROVE  Among(x, observers'[d]) <=> Among(x, observers[d]) /\ x # o
        <5>1. CASE d = c
          BY <3>2, <3>7, <3>8, <5>1
        <5>2. CASE d # c
          BY <2>1, <3>7, <5>2
        <5> QED
          BY <5>1, <5>2
      <4> QED
        BY <4>1
    <3>10. ASSUME NEW d \in Channels,
                  NEW j \in DOMAIN observers'[d], NEW k \in DOMAIN observers'[d],
                  observers'[d][j] = observers'[d][k]
           PROVE  j = k
      <4>1. CASE d = c
        BY <3>4, <3>5, <3>7, <3>10, <4>1
      <4>2. CASE d # c
        <5>1. observers'[d] = observers[d]
          BY <3>7, <4>2
        <5> QED
          BY <2>2, <3>10, <5>1
      <4> QED
        BY <4>1, <4>2
    <3>11. observers[c] # <<>>
      BY <3>2, <3>3, EmptySeq, LenProperties
    <3> QED
      BY <3>7, <3>9, <3>10, <3>11
  <2>4. CASE (\A i \in DOMAIN observers[c] : observers[c][i] # o) /\ UNCHANGED observers
    <3>1. \A d \in Channels : ~Among(o, observers[d])
      BY <1>1, <2>1, <2>4 DEF Among
    <3>2. observers' = observers
      BY <2>4
    <3> QED
      BY <2>2, <3>1, <3>2 DEF ObserverTypes
  <2> QED
    BY <2>3, <2>4 DEF Unobserve
<1> HIDE DEF c
<1>5. ObserverTypes'
  BY <1>1, <1>2, <1>4 DEF ObserverTypes
<1>6. WatchersInv'
  <2>1. \A d \in Channels, x \in Observers :
           Among(x, observers'[d]) => watched'[x] = d /\ x \notin withdrawn'
    BY <1>1, <1>2, <1>4 DEF WatchersInv
  <2>2. \A x \in Observers : watched'[x] = Nowhere => told'[x] = 0 /\ x \notin withdrawn'
    BY <1>1, <1>2 DEF WatchersInv, c
  <2>3. ASSUME NEW x \in Observers, watched'[x] # Nowhere
        PROVE  /\ told'[x] = 0 /\ x \notin withdrawn' => Among(x, observers'[watched'[x]])
               /\ told'[x] \in {0, 1}
               /\ told'[x] = 1 => closed'[watched'[x]] /\ x \notin withdrawn'
    <3>1. watched[x] \in Channels /\ watched'[x] = watched[x] /\ told'[x] = told[x]
      BY <1>1, <2>3 DEF ObserverTypes
    <3>2. /\ told[x] = 0 /\ x \notin withdrawn => Among(x, observers[watched[x]])
          /\ told[x] \in {0, 1}
          /\ told[x] = 1 => closed[watched[x]] /\ x \notin withdrawn
      BY <2>3, <3>1 DEF WatchersInv
    <3>3. told'[x] = 0 /\ x \notin withdrawn' => Among(x, observers'[watched'[x]])
      BY <1>2, <1>4, <3>1, <3>2
    <3>4. told'[x] = 1 => closed'[watched'[x]] /\ x \notin withdrawn'
      BY <1>1, <1>2, <3>1, <3>2
    <3> QED
      BY <3>1, <3>2, <3>3, <3>4
  <2> QED
    BY <1>4, <2>1, <2>2, <2>3 DEF WatchersInv
<1>7. CallsInv'
  BY <1>1, <1>4 DEF CallsInv
<1> QED
  BY <1>3, <1>5, <1>6, <1>7

\* The next observer a close calls was not called before: its close would
\* remember it.
LEMMA CallObserverServes ==
  ASSUME ObserverInv, CallObserver
  PROVE  ObserverInv'
<1> USE DEF ObserverInv
<1>1. /\ closing # <<>>
      /\ UNCHANGED <<closed, observers, watched, withdrawn, cut>>
  BY DEF CallObserver, channelVars
<1>2. PICK k \in Uncalled :
         /\ told' = [told EXCEPT ![observers[Head(closing).on][k]] = @ + 1]
         /\ closing' = [closing EXCEPT ![1].called = @ \cup {observers[Head(closing).on][k]}]
  BY DEF CallObserver
<1>3. /\ 1 \in DOMAIN closing /\ Head(closing) = closing[1]
      /\ closing \in Seq([on : Channels, called : SUBSET Observers])
  <2>1. closing \in Seq([on : Channels, called : SUBSET Observers])
    BY DEF ObserverTypes
  <2>2. Len(closing) \in Nat \ {0} /\ DOMAIN closing = 1..Len(closing)
    BY <1>1, <2>1, EmptySeq, LenProperties
  <2> QED
    BY <2>1, <2>2
<1>4. PICK c \in Channels : c = closing[1].on
  BY <1>3, FramesTyped
<1>5. k \in DOMAIN observers[c] /\ observers[c][k] \notin closing[1].called
  BY <1>2, <1>3, <1>4 DEF Uncalled
<1>6. PICK o \in Observers : o = observers[c][k]
  <2>1. PICK s \in Seq(Observers) : s = observers[c]
    BY DEF ObserverTypes
  <2>2. \A i \in DOMAIN s : s[i] \in Observers
    BY ElementOfSeq, LenProperties
  <2> QED
    BY <1>5, <2>1, <2>2
<1>7. Among(o, observers[c]) /\ o \notin closing[1].called
  BY <1>5, <1>6 DEF Among
<1>8. watched[o] = c /\ c # Nowhere /\ o \notin withdrawn /\ closed[c] /\ c \notin cut
  BY <1>3, <1>4, <1>7 DEF WatchersInv, ClosesDiffer
<1>9. told[o] = 0
  <2>1. told[o] \in {0, 1}
    BY <1>8 DEF WatchersInv
  <2>2. ASSUME told[o] = 1 PROVE FALSE
    <3>1. PICK i \in DOMAIN closing : closing[i].on = c /\ o \in closing[i].called
      BY <1>7, <1>8, <2>2 DEF CallsInv
    <3>2. i = 1
      BY <1>3, <1>4, <3>1 DEF ClosesDiffer
    <3> QED
      BY <1>7, <3>1, <3>2
  <2> QED
    BY <2>1, <2>2
<1>10. /\ told' \in [Observers -> Nat] /\ told'[o] = 1
       /\ \A x \in Observers : x # o => told'[x] = told[x]
  <2>1. told' = [told EXCEPT ![o] = @ + 1]
    BY <1>2, <1>3, <1>4, <1>6
  <2> QED
    BY <1>9, <2>1 DEF ObserverTypes
<1>11. /\ closing' \in Seq([on : Channels, called : SUBSET Observers])
       /\ DOMAIN closing' = DOMAIN closing
       /\ \A i \in DOMAIN closing :
             /\ closing'[i].on = closing[i].on
             /\ closing'[i].called = IF i = 1 THEN closing[1].called \cup {o}
                                     ELSE closing[i].called
  <2>1. closing' = [closing EXCEPT ![1].called = @ \cup {o}]
    BY <1>2, <1>3, <1>4, <1>6
  <2> DEFINE f == [closing[1] EXCEPT !.called = @ \cup {o}]
  <2>2. /\ f \in [on : Channels, called : SUBSET Observers]
        /\ f.on = closing[1].on /\ f.called = closing[1].called \cup {o}
    <3>1. closing[1] \in [on : Channels, called : SUBSET Observers]
      BY <1>3, FramesTyped
    <3> QED
      BY <3>1
  <2>3. closing' = [closing EXCEPT ![1] = f]
    BY <2>1
  <2> HIDE DEF f
  <2>4. 1 \in 1..Len(closing)
    BY <1>3, LenProperties
  <2>5. /\ [closing EXCEPT ![1] = f] \in Seq([on : Channels, called : SUBSET Observers])
        /\ \A i \in 1..Len(closing) :
              [closing EXCEPT ![1] = f][i] = IF i = 1 THEN f ELSE closing[i]
    BY <1>3, <2>2, <2>4, ExceptSeq
  <2>6. DOMAIN closing = 1..Len(closing) /\ DOMAIN closing' = DOMAIN closing
    BY <1>3, <2>3, LenProperties
  <2> QED
    BY <2>2, <2>3, <2>5, <2>6
<1>12. ObserverTypes'
  BY <1>1, <1>10, <1>11 DEF ObserverTypes
<1>13. ClosesDiffer'
  BY <1>1, <1>11 DEF ClosesDiffer
<1>14. WatchersInv'
  <2>1. \A x \in Observers : watched'[x] = Nowhere => told'[x] = 0 /\ x \notin withdrawn'
    BY <1>1, <1>8, <1>10 DEF WatchersInv
  <2>2. ASSUME NEW x \in Observers, watched'[x] # Nowhere
        PROVE  /\ told'[x] = 0 /\ x \notin withdrawn' => Among(x, observers'[watched'[x]])
               /\ told'[x] \in {0, 1}
               /\ told'[x] = 1 => closed'[watched'[x]] /\ x \notin withdrawn'
    <3>1. CASE x = o
      BY <1>1, <1>8, <1>10, <3>1
    <3>2. CASE x # o
      BY <1>1, <1>10, <2>2, <3>2 DEF WatchersInv
    <3> QED
      BY <3>1, <3>2
  <2>3. \A d \in Channels, x \in Observers :
           Among(x, observers'[d]) => watched'[x] = d /\ x \notin withdrawn'
    BY <1>1 DEF WatchersInv
  <2>4. \A d \in Channels : \A i, j \in DOMAIN observers'[d] :
           observers'[d][i] = observers'[d][j] => i = j
    BY <1>1 DEF WatchersInv
  <2> QED
    BY <2>1, <2>2, <2>3, <2>4 DEF WatchersInv
<1>15. CallsInv'
  <2>1. ASSUME NEW i \in DOMAIN closing', NEW x \in closing'[i].called
        PROVE  told'[x] = 1
    <3>1. x \in Observers /\ (x = o \/ x \in closing[i].called)
      <4>1. closing[i].called \subseteq Observers
        BY <1>11, FramesTyped
      <4> QED
        BY <1>11, <2>1, <4>1
    <3>2. CASE x = o
      BY <1>10, <3>2
    <3>3. CASE x # o
      <4>1. told[x] = 1
        BY <1>11, <3>1, <3>3 DEF CallsInv
      <4> QED
        BY <1>10, <3>1, <3>3, <4>1
    <3> QED
      BY <3>2, <3>3
  <2>2. ASSUME NEW d \in Channels, NEW x \in Observers,
               Among(x, observers'[d]), told'[x] = 1
        PROVE  d \in cut' \/ \E i \in DOMAIN closing' :
                  closing'[i].on = d /\ x \in closing'[i].called
    <3>1. CASE x = o
      <4>1. d = c
        BY <1>1, <1>8, <2>2, <3>1 DEF WatchersInv
      <4> QED
        BY <1>3, <1>4, <1>11, <3>1, <4>1
    <3>2. CASE x # o
      <4>1. d \in cut \/ \E i \in DOMAIN closing :
               closing[i].on = d /\ x \in closing[i].called
        BY <1>1, <1>10, <2>2, <3>2 DEF CallsInv
      <4>2. ASSUME NEW i \in DOMAIN closing, closing[i].on = d, x \in closing[i].called
            PROVE  i \in DOMAIN closing' /\ closing'[i].on = d /\ x \in closing'[i].called
        BY <1>11, <4>2
      <4> QED
        BY <1>1, <4>1, <4>2
    <3> QED
      BY <3>1, <3>2
  <2>3. \A d \in Channels :
           closed'[d] /\ (\A i \in DOMAIN closing' : closing'[i].on # d) =>
             d \in cut' \/ observers'[d] = <<>>
    <3>1. ASSUME NEW d \in Channels, \A i \in DOMAIN closing' : closing'[i].on # d
          PROVE  \A i \in DOMAIN closing : closing[i].on # d
      BY <1>11, <3>1
    <3>2. \A d \in Channels :
             closed[d] /\ (\A i \in DOMAIN closing : closing[i].on # d) =>
               d \in cut \/ observers[d] = <<>>
      BY DEF CallsInv
    <3> QED
      BY <1>1, <3>1, <3>2
  <2> QED
    BY <2>1, <2>2, <2>3 DEF CallsInv
<1> QED
  BY <1>12, <1>13, <1>14, <1>15

\* The n innermost closes end, cut short or returned: of a channel whose close
\* is not cut short, nobody is registered any more, and everybody was called.
LEMMA ClosesEnd ==
  ASSUME ObserverInv, NEW n \in 0..Len(closing),
         UNCHANGED <<closed, watched, told, withdrawn>>,
         closing' = SubSeq(closing, n + 1, Len(closing)),
         cut \subseteq cut', cut' \subseteq cut \cup {closing[i].on : i \in 1..n},
         observers' \in [Channels -> Seq(Observers)],
         \A c \in Channels :
            observers'[c] = observers[c]
            \/ /\ observers'[c] = <<>>
               /\ \A o \in Observers : Among(o, observers[c]) => told[o] = 1,
         \A i \in 1..n : closing[i].on \in cut' \/ observers'[closing[i].on] = <<>>
  PROVE  ObserverInv'
<1> USE DEF ObserverInv
<1>1. /\ closing \in Seq([on : Channels, called : SUBSET Observers])
      /\ Len(closing) \in Nat /\ DOMAIN closing = 1..Len(closing)
      /\ \A i \in DOMAIN closing : closing[i].on \in Channels
  BY FramesTyped DEF ObserverTypes
<1>2. PICK m \in Nat : m = Len(closing)
  BY <1>1
<1>3. /\ closing' \in Seq([on : Channels, called : SUBSET Observers])
      /\ DOMAIN closing' = 1..(m - n)
      /\ \A i \in 1..(m - n) : closing'[i] = closing[n + i]
  <2>1. PICK Frames : Frames = [on : Channels, called : SUBSET Observers]
    OBVIOUS
  <2>2. PICK s \in Seq(Frames) : s = closing
    BY <1>1, <2>1
  <2>3. n \in 0..Len(s) /\ m = Len(s)
    BY <1>2, <2>2
  <2>4. /\ SubSeq(s, n + 1, Len(s)) \in Seq(Frames)
        /\ DOMAIN SubSeq(s, n + 1, Len(s)) = 1..(Len(s) - n)
        /\ \A i \in 1..(Len(s) - n) : SubSeq(s, n + 1, Len(s))[i] = s[n + i]
    BY <2>3, FramesDropped
  <2>5. closing' = SubSeq(s, n + 1, Len(s))
    BY <2>2
  <2> QED
    BY <2>2, <2>1, <2>3, <2>4, <2>5
\* A close still under way was one, further in by n.
<1>4. \A i \in DOMAIN closing' :
         n + i \in DOMAIN closing /\ closing'[i] = closing[n + i]
  <2>1. ASSUME NEW i \in 1..(m - n) PROVE n + i \in 1..m
    <3>1. n \in 0..m /\ n \in Nat
      BY <1>2
    <3> QED
      BY <3>1
  <2> QED
    BY <1>1, <1>2, <1>3, <2>1
\* A close under way ended or still is.
<1>5. \A i \in DOMAIN closing :
         i \in 1..n \/ \E j \in DOMAIN closing' : closing'[j] = closing[i]
  <2>1. ASSUME NEW i \in DOMAIN closing, i \notin 1..n
        PROVE  i - n \in DOMAIN closing' /\ closing'[i - n] = closing[i]
    <3>1. i - n \in 1..(m - n) /\ n + (i - n) = i
      BY <1>1, <1>2, <2>1
    <3> QED
      BY <1>3, <3>1
  <2> QED
    BY <2>1
<1>6. 1..n \subseteq DOMAIN closing /\ cut' \subseteq Channels
  <2>1. 1..n \subseteq DOMAIN closing
    BY <1>1
  <2>2. \A i \in 1..n : closing[i].on \in Channels
    BY <1>1, <2>1
  <2>3. cut \subseteq Channels
    BY DEF ObserverTypes
  <2> QED
    BY <2>1, <2>2, <2>3
\* Among those left, who was among the registered.
<1>7. \A c \in Channels, o \in Observers :
         Among(o, observers'[c]) => observers'[c] = observers[c] /\ Among(o, observers[c])
  <2>1. \A o \in Observers : ~Among(o, <<>>)
    BY EmptySeq DEF Among
  <2> QED
    BY <2>1
<1>8. ObserverTypes'
  BY <1>3, <1>6 DEF ObserverTypes
<1>9. ClosesDiffer'
  <2>1. \A c \in cut' : closed'[c]
    BY <1>6 DEF ClosesDiffer
  <2>2. ASSUME NEW i \in DOMAIN closing'
        PROVE  closed'[closing'[i].on] /\ closing'[i].on \notin cut'
    <3>1. n + i \in DOMAIN closing /\ closing'[i] = closing[n + i]
      BY <1>4
    <3>2. \A j \in 1..n : j # n + i
      BY <1>3
    <3>3. \A j \in 1..n : closing[j].on # closing[n + i].on
      BY <1>6, <3>1, <3>2 DEF ClosesDiffer
    <3>4. closed[closing[n + i].on] /\ closing[n + i].on \notin cut
      BY <3>1 DEF ClosesDiffer
    <3>5. closing[n + i].on \notin cut'
      BY <3>3, <3>4
    <3> QED
      BY <3>1, <3>4, <3>5
  <2>3. ASSUME NEW i \in DOMAIN closing', NEW j \in DOMAIN closing',
               closing'[i].on = closing'[j].on
        PROVE  i = j
    <3>1. n + i = n + j
      BY <1>4, <2>3 DEF ClosesDiffer
    <3> QED
      BY <1>3, <3>1
  <2> QED
    BY <2>1, <2>2, <2>3 DEF ClosesDiffer
<1>10. WatchersInv'
  <2>1. \A c \in Channels, o \in Observers :
           Among(o, observers'[c]) => watched'[o] = c /\ o \notin withdrawn'
    BY <1>7 DEF WatchersInv
  <2>2. ASSUME NEW c \in Channels,
               NEW i \in DOMAIN observers'[c], NEW j \in DOMAIN observers'[c],
               observers'[c][i] = observers'[c][j]
        PROVE  i = j
    <3>1. CASE observers'[c] = observers[c]
      <4>1. \A k, l \in DOMAIN observers[c] : observers[c][k] = observers[c][l] => k = l
        BY DEF WatchersInv
      <4> QED
        BY <2>2, <3>1, <4>1
    <3>2. CASE observers'[c] = <<>>
      BY <3>2, EmptySeq
    <3> QED
      BY <3>1, <3>2
  <2>3. \A o \in Observers : watched'[o] = Nowhere => told'[o] = 0 /\ o \notin withdrawn'
    BY DEF WatchersInv
  <2>4. ASSUME NEW o \in Observers, watched'[o] # Nowhere
        PROVE  /\ told'[o] = 0 /\ o \notin withdrawn' => Among(o, observers'[watched'[o]])
               /\ told'[o] \in {0, 1}
               /\ told'[o] = 1 => closed'[watched'[o]] /\ o \notin withdrawn'
    <3>1. watched[o] \in Channels /\ watched'[o] = watched[o] /\ told'[o] = told[o]
      BY <2>4 DEF ObserverTypes
    <3>2. /\ told[o] = 0 /\ o \notin withdrawn => Among(o, observers[watched[o]])
          /\ told[o] \in {0, 1}
          /\ told[o] = 1 => closed[watched[o]] /\ o \notin withdrawn
      BY <2>4, <3>1 DEF WatchersInv
    <3>3. ASSUME told[o] = 0, o \notin withdrawn
          PROVE  Among(o, observers'[watched[o]])
      <4>1. PICK c \in Channels : c = watched[o]
        BY <3>1
      <4>2. Among(o, observers[c]) /\ told[o] # 1
        BY <3>2, <3>3, <4>1
      <4>3. observers'[c] = observers[c]
        BY <4>2
      <4> QED
        BY <4>1, <4>2, <4>3
    <3> QED
      BY <3>1, <3>2, <3>3
  <2> QED
    BY <2>1, <2>2, <2>3, <2>4 DEF WatchersInv
<1>11. CallsInv'
  <2>1. \A i \in DOMAIN closing' : \A o \in closing'[i].called : told'[o] = 1
    BY <1>4 DEF CallsInv
  <2>2. ASSUME NEW c \in Channels, NEW o \in Observers,
               Among(o, observers'[c]), told'[o] = 1
        PROVE  c \in cut' \/ \E i \in DOMAIN closing' :
                  closing'[i].on = c /\ o \in closing'[i].called
    <3>1. observers'[c] # <<>> /\ Among(o, observers[c]) /\ told[o] = 1
      BY <1>7, <2>2, EmptySeq DEF Among
    <3>2. CASE c \in cut
      BY <3>2
    <3>3. CASE \E i \in DOMAIN closing : closing[i].on = c /\ o \in closing[i].called
      <4>1. PICK i \in DOMAIN closing : closing[i].on = c /\ o \in closing[i].called
        BY <3>3
      <4>2. i \in 1..n => c \in cut'
        BY <3>1, <4>1
      <4> QED
        BY <1>5, <4>1, <4>2
    <3> QED
      BY <3>1, <3>2, <3>3 DEF CallsInv
  <2>3. ASSUME NEW c \in Channels, closed'[c],
               \A i \in DOMAIN closing' : closing'[i].on # c
        PROVE  c \in cut' \/ observers'[c] = <<>>
    <3>1. CASE \E i \in DOMAIN closing : closing[i].on = c
      <4>1. PICK i \in DOMAIN closing : closing[i].on = c
        BY <3>1
      <4>2. i \in 1..n
        BY <1>5, <2>3, <4>1
      <4> QED
        BY <4>1, <4>2
    <3>2. CASE \A i \in DOMAIN closing : closing[i].on # c
      <4>1. c \in cut \/ observers[c] = <<>>
        BY <2>3, <3>2 DEF CallsInv
      <4> QED
        BY <4>1
    <3> QED
      BY <3>1, <3>2
  <2> QED
    BY <2>1, <2>2, <2>3 DEF CallsInv
<1> QED
  BY <1>8, <1>9, <1>10, <1>11

\* A close returns when it called everybody registered, and empties the Set.
LEMMA CloseReturnsServes ==
  ASSUME ObserverInv, CloseReturns
  PROVE  ObserverInv'
<1>1. /\ closing # <<>> /\ Uncalled = {}
      /\ UNCHANGED <<closed, watched, told, withdrawn, cut>>
      /\ closing' = Tail(closing)
      /\ observers' = [observers EXCEPT ![Head(closing).on] = <<>>]
  BY DEF CloseReturns, channelVars
<1>2. ObserverTypes /\ closing \in Seq([on : Channels, called : SUBSET Observers])
  BY DEF ObserverInv, ObserverTypes
<1>3. Len(closing) \in Nat \ {0} /\ 1 \in DOMAIN closing /\ Head(closing) = closing[1]
  <2>1. Len(closing) \in Nat \ {0} /\ DOMAIN closing = 1..Len(closing)
    BY <1>1, <1>2, EmptySeq, LenProperties
  <2> QED
    BY <1>2, <2>1
<1>4. PICK c \in Channels : c = closing[1].on
  BY <1>2, <1>3, FramesTyped
<1>5. closing' = SubSeq(closing, 1 + 1, Len(closing))
  <2>1. 1 + 1 = 2
    OBVIOUS
  <2>2. Tail(closing) = SubSeq(closing, 2, Len(closing))
    BY <1>1, <1>2, <1>3
  <2> QED
    BY <1>1, <2>1, <2>2
<1>6. /\ observers' \in [Channels -> Seq(Observers)] /\ observers'[c] = <<>>
      /\ \A d \in Channels : d # c => observers'[d] = observers[d]
  <2>1. <<>> \in Seq(Observers)
    BY EmptySeq
  <2> QED
    BY <1>1, <1>2, <1>3, <1>4, <2>1 DEF ObserverTypes
<1>7. ASSUME NEW o \in Observers, Among(o, observers[c])
      PROVE  told[o] = 1
  <2>1. PICK i \in DOMAIN observers[c] : observers[c][i] = o
    BY <1>7 DEF Among
  <2>2. o \in closing[1].called
    BY <1>1, <1>3, <1>4, <2>1 DEF Uncalled
  <2> QED
    BY <1>3, <2>2 DEF ObserverInv, CallsInv
<1>8. 1 \in 0..Len(closing)
  BY <1>3
<1>9. \A d \in Channels :
         \/ observers'[d] = observers[d]
         \/ /\ observers'[d] = <<>>
            /\ \A o \in Observers : Among(o, observers[d]) => told[o] = 1
  <2>1. ASSUME NEW d \in Channels, d = c
        PROVE  observers'[d] = <<>> /\ \A o \in Observers : Among(o, observers[d]) => told[o] = 1
    BY <1>6, <1>7, <2>1
  <2>2. ASSUME NEW d \in Channels, d # c
        PROVE  observers'[d] = observers[d]
    BY <1>6, <2>2
  <2>3. ASSUME NEW d \in Channels
        PROVE  \/ observers'[d] = observers[d]
               \/ /\ observers'[d] = <<>>
                  /\ \A o \in Observers : Among(o, observers[d]) => told[o] = 1
    <3>1. CASE d = c
      BY <2>1, <3>1
    <3>2. CASE d # c
      BY <2>2, <3>2
    <3> QED
      BY <3>1, <3>2
  <2> QED
    BY <2>3
<1>10. \A i \in 1..1 : closing[i].on \in cut' \/ observers'[closing[i].on] = <<>>
  BY <1>4, <1>6
<1> QED
  BY <1>1, <1>5, <1>6, <1>8, <1>9, <1>10, ClosesEnd

\* A panic cuts the innermost closes short.
LEMMA PanicServes ==
  ASSUME ObserverInv, NEW n \in 0..Len(closing), Panic(n)
  PROVE  ObserverInv'
<1>1. /\ UNCHANGED <<closed, observers, watched, told, withdrawn>>
      /\ closing' = SubSeq(closing, n + 1, Len(closing))
      /\ cut' = cut \cup {closing[i].on : i \in 1..n}
  BY DEF Panic, channelVars
<1>2. observers' \in [Channels -> Seq(Observers)]
  BY <1>1 DEF ObserverInv, ObserverTypes
<1>3. cut \subseteq cut' /\ \A i \in 1..n : closing[i].on \in cut'
  BY <1>1
<1> QED
  BY <1>1, <1>2, <1>3, ClosesEnd

\* Every step keeps the invariant of the observers.
LEMMA ObserverStep ==
  ASSUME ObserverInv, Next
  PROVE  ObserverInv'
<1>1. ASSUME UNCHANGED <<closed, observerVars>>
      PROVE  ObserverInv'
  BY <1>1, ObserversUndisturbed
<1>2. ASSUME NEW a \in Usable, Communicate(a)
      PROVE  ObserverInv'
  BY <1>1, <1>2 DEF Communicate, Commit, WouldBlock, channelVars
<1>3. ASSUME NEW a \in Usable, Prepare(a)
      PROVE  ObserverInv'
  BY <1>1, <1>3 DEF Prepare, channelVars
<1>4. ASSUME Select
      PROVE  ObserverInv'
  BY <1>1, <1>4 DEF Select, Commit, WouldBlock, channelVars
<1>5. ASSUME CloseNil
      PROVE  ObserverInv'
  BY <1>1, <1>5 DEF CloseNil, channelVars
<1>6. ASSUME NEW c \in Providers, NEW v \in Values, Offer(c, v)
      PROVE  ObserverInv'
  BY <1>1, <1>6 DEF Offer
<1>7. ASSUME NEW c \in Providers, Discard(c)
      PROVE  ObserverInv'
  BY <1>1, <1>7 DEF Discard
<1> QED
  BY <1>2, <1>3, <1>4, <1>5, <1>6, <1>7, CloseServes, ObserveCloseServes,
     UnobserveServes, CallObserverServes, CloseReturnsServes, PanicServes
     DEF Next

\* The invariant of the observers holds throughout.
LEMMA ObserverInvariant == Spec => []ObserverInv
<1>1. Init => ObserverInv
  BY InitObserverInv
<1>2. ObserverInv /\ [Next]_vars => ObserverInv'
  BY ObserverStep, ObserversUndisturbed DEF vars, channelVars
<1> QED
  BY <1>1, <1>2, PTL DEF Spec

\* Whoever observes the close of a channel is called when it is closed, once,
\* unless it unregistered before or a panic cut the close short, whatever
\* observers do in between: register, unregister, close other channels.
THEOREM ObserversServed == Spec => []ObserversAreServed
<1>1. ASSUME ObserverInv, NEW o \in Observers, watched[o] # Nowhere
      PROVE  LET c == watched[o] IN
             /\ told[o] <= 1
             /\ told[o] = 1 => closed[c] /\ o \notin withdrawn
             /\ (closed[c] /\ c \notin cut /\ \A i \in DOMAIN closing : closing[i].on # c)
                   => told[o] = 1 \/ o \in withdrawn
  <2>1. PICK c \in Channels : c = watched[o]
    BY <1>1 DEF ObserverInv, ObserverTypes
  <2>2. /\ told[o] = 0 /\ o \notin withdrawn => Among(o, observers[c])
        /\ told[o] \in {0, 1}
        /\ told[o] = 1 => closed[c] /\ o \notin withdrawn
    BY <1>1, <2>1 DEF ObserverInv, WatchersInv
  <2>3. ASSUME closed[c], c \notin cut, \A i \in DOMAIN closing : closing[i].on # c
        PROVE  told[o] = 1 \/ o \in withdrawn
    <3>1. observers[c] = <<>>
      BY <1>1, <2>3 DEF ObserverInv, CallsInv
    <3>2. ~Among(o, <<>>)
      BY EmptySeq DEF Among
    <3> QED
      BY <2>2, <3>1, <3>2
  <2> QED
    BY <2>1, <2>2, <2>3
<1>2. ObserverInv => ObserversAreServed
  BY <1>1 DEF ObserversAreServed
<1> QED
  BY <1>2, ObserverInvariant, PTL

\* Every variable keeps its type, for any channels and observers.
THEOREM ChannelTypeOK == Spec => []TypeOK
<1>1. ChannelInv /\ ObserverInv => TypeOK
  BY DEF ChannelInv, BuffersOK, ObserverInv, ObserverTypes, TypeOK
<1> QED
  BY <1>1, ChannelInvariant, ObserverInvariant, PTL
=============================================================================
