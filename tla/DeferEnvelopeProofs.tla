------------------------ MODULE DeferEnvelopeProofs ------------------------
(***************************************************************************)
(* Proofs about DeferEnvelope, for every set of functions, storage and     *)
(* bound: frames keep their shape and the panic they were run for, host    *)
(* exceptions pass, and the envelope implements GoUnwinding.               *)
(***************************************************************************)
EXTENDS DeferEnvelope, SequenceTheorems, TLAPS

-----------------------------------------------------------------------------
(* Lists of frames *)

LEMMA Popped ==
    ASSUME NEW S, NEW s \in Seq(S), s # <<>>
    PROVE  /\ Len(s) \in Nat \ {0}
           /\ s[Len(s)] \in S
           /\ SubSeq(s, 1, Len(s) - 1) \in Seq(S)
           /\ Len(SubSeq(s, 1, Len(s) - 1)) = Len(s) - 1
           /\ \A i \in 1..(Len(s) - 1) : SubSeq(s, 1, Len(s) - 1)[i] = s[i]
<1>1. Len(s) \in Nat \ {0}
  BY EmptySeq
<1>2. s[Len(s)] \in S
  BY <1>1, ElementOfSeq
<1> QED
  BY <1>1, <1>2, SubSeqProperties

LEMMA Pushed ==
    ASSUME NEW S, NEW s \in Seq(S), NEW x \in S
    PROVE  /\ Append(s, x) \in Seq(S)
           /\ Append(s, x) # <<>>
           /\ Len(s) \in Nat
           /\ Len(Append(s, x)) = Len(s) + 1
           /\ \A i \in 1..Len(s) : Append(s, x)[i] = s[i]
           /\ Append(s, x)[Len(s) + 1] = x
  BY AppendProperties

LEMMA Replaced ==
    ASSUME NEW S, NEW s \in Seq(S), NEW n \in 1..Len(s), NEW x \in S
    PROVE  /\ [s EXCEPT ![n] = x] \in Seq(S)
           /\ [s EXCEPT ![n] = x] # <<>>
           /\ Len([s EXCEPT ![n] = x]) = Len(s)
           /\ \A i \in 1..Len(s) : [s EXCEPT ![n] = x][i] = IF i = n THEN x ELSE s[i]
  BY ExceptSeq

-----------------------------------------------------------------------------
(* Frames keep their shape, and each the panic it was run for *)

Chain(list) ==
    \A i \in 1..Len(list) :
        /\ FrameOK(list[i])
        /\ IF i = 1 THEN Ordinary(list[i]) ELSE Linked(list[i - 1], list[i])

LEMMA ChainPopped ==
    ASSUME NEW list \in Seq(Frames), list # <<>>, Chain(list)
    PROVE  Chain(SubSeq(list, 1, Len(list) - 1))
<1> DEFINE rest == SubSeq(list, 1, Len(list) - 1)
<1>1. /\ Len(list) \in Nat \ {0}
      /\ Len(rest) = Len(list) - 1
      /\ \A i \in 1..(Len(list) - 1) : rest[i] = list[i]
  BY Popped
<1> HIDE DEF rest
<1>2. Chain(rest)
  <2> SUFFICES ASSUME NEW i \in 1..Len(rest)
               PROVE  /\ FrameOK(rest[i])
                      /\ IF i = 1 THEN Ordinary(rest[i])
                                  ELSE Linked(rest[i - 1], rest[i])
    BY DEF Chain
  <2>1. i \in 1..Len(list) /\ rest[i] = list[i]
    BY <1>1
  <2>2. i # 1 => rest[i - 1] = list[i - 1]
    BY <1>1
  <2> QED
    BY <2>1, <2>2 DEF Chain
<1> QED
  BY <1>2 DEF rest

LEMMA ChainPushed ==
    ASSUME NEW list \in Seq(Frames), Chain(list), NEW frame \in Frames,
           FrameOK(frame),
           IF list = <<>> THEN Ordinary(frame) ELSE Linked(list[Len(list)], frame)
    PROVE  Chain(Append(list, frame))
<1> DEFINE longer == Append(list, frame)
<1>1. /\ Len(list) \in Nat
      /\ Len(longer) = Len(list) + 1
      /\ \A i \in 1..Len(list) : longer[i] = list[i]
      /\ longer[Len(list) + 1] = frame
  BY Pushed
<1>2. list = <<>> <=> Len(list) = 0
  BY EmptySeq
<1> HIDE DEF longer
<1>3. Chain(longer)
  <2> SUFFICES ASSUME NEW i \in 1..Len(longer)
               PROVE  /\ FrameOK(longer[i])
                      /\ IF i = 1 THEN Ordinary(longer[i])
                                  ELSE Linked(longer[i - 1], longer[i])
    BY DEF Chain
  <2>1. CASE i = Len(list) + 1
    BY <2>1, <1>1, <1>2
  <2>2. CASE i # Len(list) + 1
    <3>1. i \in 1..Len(list) /\ longer[i] = list[i]
      BY <2>2, <1>1
    <3>2. i # 1 => longer[i - 1] = list[i - 1]
      BY <3>1, <1>1
    <3> QED
      BY <3>1, <3>2 DEF Chain
  <2> QED
    BY <2>1, <2>2
<1> QED
  BY <1>3 DEF longer

\* The innermost frame goes on: it is the same call, and may have recovered.
SameCall(frame, next) ==
    /\ next.fn = frame.fn
    /\ next.entry = frame.entry
    /\ \/ next.pending = frame.pending
       \/ next.entry = "deferred" /\ next.pending = None

LEMMA ChainReplaced ==
    ASSUME NEW list \in Seq(Frames), list # <<>>, Chain(list), NEW frame \in Frames,
           FrameOK(frame), SameCall(list[Len(list)], frame)
    PROVE  Chain([list EXCEPT ![Len(list)] = frame])
<1> DEFINE other == [list EXCEPT ![Len(list)] = frame]
<1>1. Len(list) \in Nat \ {0}
  BY EmptySeq
<1>2. /\ Len(other) = Len(list)
      /\ \A i \in 1..Len(list) : other[i] = IF i = Len(list) THEN frame ELSE list[i]
  <2>1. Len(list) \in 1..Len(list)
    BY <1>1
  <2> QED
    BY <2>1, Replaced
<1> HIDE DEF other
<1>3. Chain(other)
  <2> SUFFICES ASSUME NEW i \in 1..Len(other)
               PROVE  /\ FrameOK(other[i])
                      /\ IF i = 1 THEN Ordinary(other[i])
                                  ELSE Linked(other[i - 1], other[i])
    BY DEF Chain
  <2>1. FrameOK(list[i]) /\ (IF i = 1 THEN Ordinary(list[i])
                                      ELSE Linked(list[i - 1], list[i]))
    BY <1>2 DEF Chain
  <2>2. i # 1 => other[i - 1] = list[i - 1]
    BY <1>1, <1>2
  <2>3. CASE i = Len(list)
    BY <2>1, <2>2, <2>3, <1>2 DEF SameCall, Linked, Ordinary
  <2>4. CASE i # Len(list)
    BY <2>1, <2>2, <2>4, <1>2
  <2> QED
    BY <2>3, <2>4
<1> QED
  BY <1>3 DEF other

-----------------------------------------------------------------------------
(* The inductive invariant *)

IInv == TypeOK /\ FramesAreLinked /\ ReportsAreFresh

LEMMA Innermost ==
    ASSUME IInv, frames # <<>>
    PROVE  /\ Top \in Nat \ {0} /\ Top \in 1..Top
           /\ frames[Top] \in Frames
           /\ FrameOK(frames[Top])
           /\ Chain(frames)
<1>1. Top \in Nat \ {0} /\ frames[Top] \in Frames
  BY Popped DEF IInv, TypeOK, Top
<1> QED
  BY <1>1 DEF IInv, FramesAreLinked, Chain, Top

LEMMA FreshFrame ==
    ASSUME StorageAssumption, DistinctAssumption,
           NEW f \in Functions, NEW entry \in {"ordinary", "deferred"},
           NEW pending \in Panics \cup {None}
    PROVE  /\ NewFrame(f, entry, pending) \in Frames
           /\ FrameOK(NewFrame(f, entry, pending))
           /\ Deferred(NewFrame(f, entry, pending)) = <<>>
<1> DEFINE slots == NewFrame(f, entry, pending).slots
<1>1. CASE Storage[f] = "static"
  <2>1. slots = [i \in 1..Slots[f] |-> Unset] /\ Slots[f] \in Nat
    BY <1>1 DEF NewFrame, StorageAssumption
  <2>2. /\ slots \in Seq(Functions \cup {Unset}) /\ Len(slots) \in Nat
        /\ \A i \in 1..Len(slots) : slots[i] = Unset
    BY <2>1
  <2>3. SubSeq(slots, 1, 0) = <<>>
    BY <2>2
  <2>4. slots = <<>> <=> Len(slots) = 0
    BY <2>2, EmptySeq
  <2> QED
    BY <1>1, <2>2, <2>3, <2>4 DEF NewFrame, Frames, FrameOK, Deferred
<1>2. CASE Storage[f] # "static"
  <2>1. slots = <<>>
    BY <1>2 DEF NewFrame
  <2>2. slots \in Seq(Functions \cup {Unset}) /\ Len(slots) = 0
    BY <2>1
  <2> QED
    BY <1>2, <2>1, <2>2 DEF NewFrame, Frames, FrameOK, PlainFrame, Deferred
<1> QED
  BY <1>1, <1>2

LEMMA IInvPushed ==
    ASSUME IInv, NEW frame \in Frames, FrameOK(frame),
           IF frames = <<>> THEN Ordinary(frame) ELSE Linked(frames[Top], frame),
           frames' = Append(frames, frame),
           flight' = None, got' = None, exit' = "none"
    PROVE  IInv'
<1>1. Chain(frames')
  BY ChainPushed DEF IInv, TypeOK, FramesAreLinked, Chain, Top
<1>2. frames' \in Seq(Frames) /\ frames' # <<>>
  BY Pushed DEF IInv, TypeOK
<1> QED
  BY <1>1, <1>2 DEF IInv, TypeOK, FramesAreLinked, Chain, Top, ReportsAreFresh

LEMMA IInvReplaced ==
    ASSUME IInv, frames # <<>>, NEW frame \in Frames, FrameOK(frame),
           SameCall(frames[Top], frame),
           frames' = [frames EXCEPT ![Top] = frame],
           flight' \in Panics \cup {Host, None},
           got' \in Panics \cup {None}, exit' = "none",
           got' # None => frame.phase = "body" /\ flight' = None
    PROVE  IInv'
<1>1. Chain(frames')
  BY ChainReplaced DEF IInv, TypeOK, FramesAreLinked, Chain, Top
<1>2. /\ frames' \in Seq(Frames) /\ frames' # <<>> /\ Len(frames') = Top
      /\ frames'[Top] = frame
  BY Innermost, Replaced DEF IInv, TypeOK, Top
<1> QED
  BY <1>1, <1>2 DEF IInv, TypeOK, FramesAreLinked, Chain, Top, ReportsAreFresh,
     Running

LEMMA IInvPopped ==
    ASSUME IInv, frames # <<>>, frames' = Outer,
           flight' \in Panics \cup {Host, None}, got' = None,
           IF Top = 1
           THEN exit' \in Panics \cup {Host, "none", "returned"} /\ flight' = None
           ELSE exit' = "none"
    PROVE  IInv'
<1>1. Chain(frames')
  BY ChainPopped DEF IInv, TypeOK, FramesAreLinked, Chain, Top, Outer
<1>2. frames' \in Seq(Frames) /\ Len(frames') = Top - 1 /\ Top \in Nat \ {0}
  BY Popped DEF IInv, TypeOK, Top, Outer
<1>3. frames' = <<>> <=> Top = 1
  BY <1>2, EmptySeq
<1> QED
  BY <1>1, <1>2, <1>3 DEF IInv, TypeOK, FramesAreLinked, Chain, Top, ReportsAreFresh,
     Running

LEMMA SlotTaken ==
    ASSUME NEW frame \in Frames, NEW slots \in Seq(Functions \cup {Unset}),
           NEW passed \in Nat
    PROVE  [frame EXCEPT !.slots = slots, !.passed = passed] \in Frames
  BY DEF Frames

LEMMA DeferKeepsIInv ==
    ASSUME StorageAssumption, DistinctAssumption, IInv, NEW f \in Functions, Defer(f)
    PROVE  IInv'
<1> DEFINE top == frames[Top]
           next == top.passed + 1
<1>1. /\ frames # <<>> /\ top \in Frames /\ FrameOK(top) /\ Top \in 1..Top
      /\ top.phase = "body" /\ flight' = None /\ got' = None /\ exit' = "none"
  BY Innermost DEF Defer, Running, Silent
<1>2. PICK slots : slots = top.slots
  OBVIOUS
<1>3. /\ slots \in Seq(Functions \cup {Unset}) /\ top.passed \in Nat
      /\ Len(slots) \in Nat /\ f \in Functions \cup {Unset}
      /\ \A s \in 1..Len(slots) : slots[s] = Unset <=> s > top.passed
  BY <1>1, <1>2 DEF Frames, FrameOK
<1>4. f # Unset
  BY DEF DistinctAssumption
<1>5. CASE /\ Storage[top.fn] = "static" /\ next <= Len(slots)
           /\ frames' = [frames EXCEPT ![Top].slots[next] = f, ![Top].passed = next]
  <2> DEFINE frame == [top EXCEPT !.slots = [slots EXCEPT ![next] = f], !.passed = next]
  <2>1. frames' = [frames EXCEPT ![Top] = frame]
    BY <1>1, <1>2, <1>5
  <2>2. /\ [slots EXCEPT ![next] = f] \in Seq(Functions \cup {Unset})
        /\ Len([slots EXCEPT ![next] = f]) = Len(slots)
        /\ \A s \in 1..Len(slots) :
              [slots EXCEPT ![next] = f][s] = IF s = next THEN f ELSE slots[s]
    BY <1>3, <1>5, Replaced
  <2>3. frame \in Frames
    <3>1. PICK filled : filled = [slots EXCEPT ![next] = f]
      OBVIOUS
    <3>2. PICK passed : passed = next
      OBVIOUS
    <3>3. [top EXCEPT !.slots = filled, !.passed = passed] \in Frames
      <4>1. filled \in Seq(Functions \cup {Unset}) /\ passed \in Nat
        BY <1>3, <2>2, <3>1, <3>2
      <4> QED
        BY <1>1, <4>1, SlotTaken
    <3> QED
      BY <3>1, <3>2, <3>3
  <2>4. FrameOK(frame)
    BY <1>1, <1>3, <1>4, <1>5, <2>2 DEF FrameOK, Frames
  <2>5. SameCall(top, frame)
    BY <1>1 DEF SameCall, Frames
  <2> QED
    BY <1>1, <2>1, <2>3, <2>4, <2>5, IInvReplaced
<1>6. CASE /\ Storage[top.fn] = "dynamic"
           /\ frames' = [frames EXCEPT ![Top].slots = Append(slots, f),
                                       ![Top].passed = next]
  <2> DEFINE frame == [top EXCEPT !.slots = Append(slots, f), !.passed = next]
  <2>1. frames' = [frames EXCEPT ![Top] = frame]
    BY <1>1, <1>6
  <2>2. /\ Append(slots, f) \in Seq(Functions \cup {Unset})
        /\ Len(Append(slots, f)) = Len(slots) + 1
        /\ \A s \in 1..Len(slots) : Append(slots, f)[s] = slots[s]
        /\ Append(slots, f)[Len(slots) + 1] = f
    BY <1>3, Pushed
  <2>3. frame \in Frames
    <3>1. PICK longer : longer = Append(slots, f)
      OBVIOUS
    <3>2. PICK passed : passed = next
      OBVIOUS
    <3>3. [top EXCEPT !.slots = longer, !.passed = passed] \in Frames
      <4>1. longer \in Seq(Functions \cup {Unset}) /\ passed \in Nat
        BY <1>3, <2>2, <3>1, <3>2
      <4> QED
        BY <1>1, <4>1, SlotTaken
    <3> QED
      BY <3>1, <3>2, <3>3
  <2>4. top.passed = Len(slots)
    BY <1>1, <1>2, <1>6 DEF FrameOK
  <2>5. \A s \in 1..(Len(slots) + 1) : Append(slots, f)[s] # Unset
    <3> SUFFICES ASSUME NEW s \in 1..(Len(slots) + 1)
                 PROVE  Append(slots, f)[s] # Unset
      OBVIOUS
    <3>1. s = Len(slots) + 1 \/ s \in 1..Len(slots)
      BY <1>3
    <3> QED
      BY <3>1, <1>3, <1>4, <2>2, <2>4
  <2>6. FrameOK(frame)
    BY <1>1, <1>3, <1>6, <2>2, <2>4, <2>5 DEF FrameOK, Frames
  <2>7. SameCall(top, frame)
    BY <1>1 DEF SameCall, Frames
  <2> QED
    BY <1>1, <2>1, <2>3, <2>6, <2>7, IInvReplaced
<1> QED
  BY <1>2, <1>5, <1>6 DEF Defer

LEMMA RecoverKeepsIInv ==
    ASSUME DistinctAssumption, IInv, Recover
    PROVE  IInv'
<1> DEFINE top == frames[Top]
           frame == [top EXCEPT !.pending = None]
<1>1. /\ frames # <<>> /\ top \in Frames /\ FrameOK(top) /\ Top \in 1..Top
      /\ top.phase = "body" /\ flight = None /\ flight' = None /\ exit' = "none"
  BY Innermost DEF Recover, Running
<1>2. CASE top.entry = "deferred"
  <2>1. got' = top.pending /\ frames' = [frames EXCEPT ![Top] = frame]
    BY <1>2 DEF Recover
  <2>2. frame \in Frames /\ FrameOK(frame) /\ SameCall(top, frame)
    BY <1>1, <1>2 DEF Frames, FrameOK, PlainFrame, SameCall
  <2>3. got' \in Panics \cup {None} /\ frame.phase = "body"
    BY <1>1, <2>1 DEF Frames
  <2> QED
    BY <1>1, <2>1, <2>2, <2>3, IInvReplaced
<1>3. CASE top.entry # "deferred"
  <2>1. got' = None /\ frames' = frames
    BY <1>3 DEF Recover
  <2> QED
    BY <1>1, <2>1 DEF IInv, TypeOK, FramesAreLinked, Top, ReportsAreFresh, Running
<1> QED
  BY <1>2, <1>3

LEMMA EndingKeepsIInv ==
    ASSUME DistinctAssumption, IInv,
           Return \/ Catch \/ Suspend
    PROVE  IInv'
<1> DEFINE top == frames[Top]
<1>1. ASSUME Return PROVE IInv'
  <2> DEFINE frame == [top EXCEPT !.phase = "ending"]
  <2>1. /\ frames # <<>> /\ top \in Frames /\ FrameOK(top) /\ flight' = None
        /\ got' = None /\ exit' = "none" /\ frames' = [frames EXCEPT ![Top] = frame]
    BY <1>1, Innermost DEF Return, Running, Silent
  <2>2. frame \in Frames /\ FrameOK(frame) /\ SameCall(top, frame)
    BY <2>1 DEF Frames, FrameOK, PlainFrame, SameCall
  <2> QED
    BY <2>1, <2>2, IInvReplaced
<1>2. ASSUME Catch PROVE IInv'
  <2> DEFINE frame == [top EXCEPT !.phase = "ending", !.active = flight]
  <2>1. /\ frames # <<>> /\ top \in Frames /\ FrameOK(top) /\ Top \in 1..Top
        /\ flight' = None /\ flight \in Panics /\ Storage[top.fn] # "none"
        /\ got' = None /\ exit' = "none"
    BY <1>2, Innermost DEF Catch, Silent
  <2>2. frames' = [frames EXCEPT ![Top] = frame]
    BY <1>2, <2>1 DEF Catch
  <2>3. frame \in Frames /\ FrameOK(frame) /\ SameCall(top, frame)
    BY <2>1 DEF Frames, FrameOK, PlainFrame, SameCall
  <2> QED
    BY <2>1, <2>2, <2>3, IInvReplaced
<1>3. ASSUME Suspend PROVE IInv'
  <2> DEFINE frame == [top EXCEPT !.phase = "ending", !.suspended = TRUE]
  <2>1. /\ frames # <<>> /\ top \in Frames /\ FrameOK(top) /\ Top \in 1..Top
        /\ flight' = None /\ Storage[top.fn] # "none"
        /\ got' = None /\ exit' = "none"
    BY <1>3, Innermost DEF Suspend, Silent
  <2>2. frames' = [frames EXCEPT ![Top] = frame]
    BY <1>3, <2>1 DEF Suspend
  <2>3. frame \in Frames /\ FrameOK(frame) /\ SameCall(top, frame)
    BY <2>1 DEF Frames, FrameOK, PlainFrame, SameCall
  <2> QED
    BY <2>1, <2>2, <2>3, IInvReplaced
<1> QED
  BY <1>1, <1>2, <1>3

LEMMA RunDeferredKeepsIInv ==
    ASSUME StorageAssumption, DistinctAssumption, IInv, RunDeferred
    PROVE  IInv'
<1> DEFINE top == frames[Top]
<1>1. /\ frames # <<>> /\ top \in Frames /\ FrameOK(top) /\ Top \in 1..Top
      /\ top.phase = "ending" /\ top.slots # <<>>
      /\ flight' = None /\ got' = None /\ exit' = "none"
  BY Innermost DEF RunDeferred, Ending, Silent
<1>2. PICK slots : slots = top.slots
  OBVIOUS
<1>3. PICK fewer : fewer = SubSeq(slots, 1, Len(slots) - 1)
  OBVIOUS
<1>4. PICK last : last = slots[Len(slots)]
  OBVIOUS
<1>5. PICK frame : frame = [top EXCEPT !.slots = fewer]
  OBVIOUS
<1>6. PICK rest : rest = [frames EXCEPT ![Top] = frame]
  OBVIOUS
<1>7. frames' = IF last = Unset THEN rest
                ELSE Append(rest, NewFrame(last,
                       IF last \in Recovering THEN "deferred" ELSE "ordinary",
                       top.active))
  BY <1>2, <1>3, <1>4, <1>5, <1>6 DEF RunDeferred
<1>8. slots \in Seq(Functions \cup {Unset}) /\ slots # <<>>
  BY <1>1, <1>2 DEF Frames
<1>9. /\ Len(slots) \in Nat \ {0}
      /\ last \in Functions \cup {Unset}
      /\ fewer \in Seq(Functions \cup {Unset})
      /\ Len(fewer) = Len(slots) - 1
      /\ \A s \in 1..(Len(slots) - 1) : fewer[s] = slots[s]
  BY <1>3, <1>4, <1>8, Popped
<1>10. frame \in Frames
  BY <1>1, <1>5, <1>9 DEF Frames
<1>11. FrameOK(frame)
  <2>1. /\ frame.fn = top.fn /\ frame.slots = fewer /\ frame.passed = top.passed
        /\ frame.phase = "ending" /\ top.passed \in Nat
    BY <1>1, <1>5 DEF Frames
  <2>2. \A s \in 1..Len(slots) : slots[s] = Unset <=> s > top.passed
    BY <1>1, <1>2 DEF FrameOK
  <2>3. Storage[top.fn] # "none"
    BY <1>1 DEF FrameOK, PlainFrame
  <2>4. \A s \in 1..Len(fewer) : s \in 1..Len(slots) /\ fewer[s] = slots[s]
    BY <1>9
  <2> QED
    BY <2>1, <2>2, <2>3, <2>4 DEF FrameOK
<1>12. SameCall(top, frame)
  BY <1>1, <1>5 DEF SameCall, Frames
<1>13. CASE last = Unset
  BY <1>1, <1>6, <1>7, <1>10, <1>11, <1>12, <1>13, IInvReplaced
<1>14. CASE last # Unset
  <2>1. PICK entry \in {"ordinary", "deferred"} :
           entry = IF last \in Recovering THEN "deferred" ELSE "ordinary"
    OBVIOUS
  <2>2. PICK panic \in Panics \cup {None} : panic = top.active
    BY <1>1 DEF Frames
  <2>3. PICK call : call = NewFrame(last, entry, panic)
    OBVIOUS
  <2>4. call \in Frames /\ FrameOK(call)
    BY <1>9, <1>14, <2>3, FreshFrame
  <2>5. /\ rest \in Seq(Frames) /\ rest # <<>> /\ Len(rest) = Top
        /\ rest[Top] = frame
    BY <1>1, <1>6, <1>10, Replaced DEF IInv, TypeOK, Top
  <2>6. Chain(rest)
    BY <1>1, <1>6, <1>10, <1>11, <1>12, Innermost, ChainReplaced DEF IInv, TypeOK, Top
  <2>7. Linked(frame, call)
    BY <1>1, <1>5, <2>1, <2>2, <2>3 DEF Linked, Frames, NewFrame
  <2>8. frames' = Append(rest, call)
    BY <1>7, <1>14, <2>1, <2>2, <2>3
  <2>9. Chain(frames')
    BY <2>4, <2>5, <2>6, <2>7, <2>8, ChainPushed
  <2>10. frames' \in Seq(Frames) /\ frames' # <<>>
    BY <2>4, <2>5, <2>8, Pushed
  <2> QED
    BY <1>1, <2>9, <2>10 DEF IInv, TypeOK, FramesAreLinked, Chain, Top, ReportsAreFresh
<1> QED
  BY <1>13, <1>14

LEMMA LeavingKeepsIInv ==
    ASSUME DistinctAssumption, IInv,
           Escape \/ LeaveThrowing \/ LeaveReturning
    PROVE  IInv'
<1>1. CASE Escape
  BY <1>1, IInvPopped, Innermost DEF Escape, IInv, TypeOK
<1>2. CASE LeaveThrowing
  <2> DEFINE thrown == IF frames[Top].suspended THEN Host ELSE frames[Top].active
  <2>1. frames # <<>> /\ flight = None /\ frames[Top] \in Frames
    BY <1>2, Innermost DEF LeaveThrowing, Ending
  <2>2. thrown \in Panics \cup {Host}
    BY <1>2, <2>1 DEF LeaveThrowing, Frames
  <2> QED
    BY <1>2, <2>1, <2>2, IInvPopped DEF LeaveThrowing
<1>3. CASE LeaveReturning
  <2>1. /\ frames # <<>> /\ flight = None /\ flight' = None /\ got' = None
        /\ Top \in Nat \ {0}
    BY <1>3, Innermost DEF LeaveReturning, Ending
  <2>2. CASE frames' = Outer
    BY <1>3, <2>1, <2>2, IInvPopped DEF LeaveReturning
  <2>3. CASE frames' # Outer
    <3>1. /\ Top > 1 /\ frames[Top - 1].phase = "ending" /\ exit' = "none"
          /\ frames' = [Outer EXCEPT ![Top - 1].active = None]
      BY <1>3, <2>1, <2>3 DEF LeaveReturning
    <3>2. PICK rest : rest = Outer
      OBVIOUS
    <3>3. PICK last : last = rest[Top - 1]
      OBVIOUS
    <3>4. PICK frame : frame = [last EXCEPT !.active = None]
      OBVIOUS
    <3>5. /\ rest \in Seq(Frames) /\ Len(rest) = Top - 1
          /\ last = frames[Top - 1]
      BY <2>1, <3>1, <3>2, <3>3, Popped DEF IInv, TypeOK, Top, Outer
    <3>6. Chain(rest)
      BY <2>1, <3>2, Innermost, ChainPopped DEF IInv, TypeOK, Top, Outer
    <3>7. rest # <<>> /\ Top - 1 \in 1..Len(rest)
      BY <2>1, <3>1, <3>5, EmptySeq
    <3>8. last \in Frames /\ FrameOK(last)
      BY <3>3, <3>5, <3>6, <3>7, ElementOfSeq DEF Chain
    <3>9. frame \in Frames /\ FrameOK(frame) /\ SameCall(last, frame)
      BY <3>1, <3>4, <3>5, <3>8 DEF Frames, FrameOK, PlainFrame, SameCall
    <3>10. frames' = [rest EXCEPT ![Len(rest)] = frame]
      BY <3>1, <3>2, <3>3, <3>4, <3>5
    <3>11. Chain(frames')
      BY <3>3, <3>5, <3>6, <3>7, <3>9, <3>10, ChainReplaced
    <3>12. frames' \in Seq(Frames) /\ frames' # <<>>
      BY <3>5, <3>7, <3>9, <3>10, Replaced
    <3> QED
      BY <2>1, <3>1, <3>11, <3>12
         DEF IInv, TypeOK, FramesAreLinked, Chain, Top, ReportsAreFresh
  <2> QED
    BY <2>2, <2>3
<1> QED
  BY <1>1, <1>2, <1>3

LEMMA NextKeepsIInv ==
    ASSUME StorageAssumption, DistinctAssumption, IInv, [Next]_vars
    PROVE  IInv'
<1>1. ASSUME NEW f \in Functions, Begin(f) PROVE IInv'
  <2> DEFINE call == NewFrame(f, "ordinary", None)
  <2>1. call \in Frames /\ FrameOK(call) /\ Ordinary(call)
    BY FreshFrame DEF NewFrame, Ordinary
  <2>2. frames = <<>> /\ frames' = Append(frames, call)
    BY <1>1 DEF Begin
  <2>3. flight' = None /\ got' = None /\ exit' = "none"
    BY <1>1 DEF Begin, Silent, IInv, TypeOK
  <2> QED
    BY <2>1, <2>2, <2>3, IInvPushed
<1>2. ASSUME NEW f \in Functions, Call(f) PROVE IInv'
  <2> DEFINE call == NewFrame(f, "ordinary", None)
  <2>1. call \in Frames /\ FrameOK(call) /\ Ordinary(call)
    BY FreshFrame DEF NewFrame, Ordinary
  <2>2. /\ frames # <<>> /\ frames' = Append(frames, call)
        /\ Linked(frames[Top], call)
    BY <1>2, <2>1 DEF Call, Running, Linked
  <2>3. flight' = None /\ got' = None /\ exit' = "none"
    BY <1>2 DEF Call, Running, Silent
  <2> QED
    BY <2>1, <2>2, <2>3, IInvPushed
<1>3. ASSUME NEW p \in Panics \cup {Host}, Throw(p) PROVE IInv'
  BY <1>3 DEF Throw, Running, Silent, IInv, TypeOK, FramesAreLinked, Top,
     ReportsAreFresh
<1>4. CASE UNCHANGED vars
  BY <1>4 DEF vars, IInv, TypeOK, FramesAreLinked, Top, ReportsAreFresh, Running
<1> QED
  BY <1>1, <1>2, <1>3, <1>4, DeferKeepsIInv, RecoverKeepsIInv, EndingKeepsIInv,
     RunDeferredKeepsIInv, LeavingKeepsIInv DEF Next

\* The inductive invariant holds of the specification.
THEOREM FramesStayLinked ==
    ASSUME StorageAssumption, DistinctAssumption
    PROVE  Spec => []IInv
<1>1. Init => IInv
  <2>1. <<>> \in Seq(Frames) /\ Len(<<>>) = 0
    OBVIOUS
  <2> QED
    BY <2>1 DEF Init, IInv, TypeOK, FramesAreLinked, Top, ReportsAreFresh
<1>2. IInv /\ [Next]_vars => IInv'
  BY NextKeepsIInv
<1> QED
  BY <1>1, <1>2, PTL DEF Spec

-----------------------------------------------------------------------------
(* Host exceptions pass *)

\* While no call ends, a frame that is suspended stays so.
LEMMA SuspendedStays ==
    ASSUME DistinctAssumption, IInv, frames # <<>>,
           \/ \E f \in Functions : Call(f) \/ Defer(f)
           \/ \E p \in Panics \cup {Host} : Throw(p)
           \/ Return \/ Recover \/ Catch \/ RunDeferred
    PROVE  /\ Len(frames') >= Top
           /\ \A i \in 1..Top : frames[i].suspended => frames'[i].suspended
<1>1. /\ Top \in Nat /\ Top \in 1..Top /\ Top = Len(frames) /\ frames \in Seq(Frames)
      /\ frames[Top] \in Frames
  BY Innermost DEF IInv, TypeOK, Top
<1>2. ASSUME NEW frame, NEW rest, rest = [frames EXCEPT ![Top] = frame],
             frame.suspended = frames[Top].suspended
      PROVE  /\ Len(rest) = Top
             /\ \A i \in 1..Top : rest[i].suspended = frames[i].suspended
  <2>1. rest \in Seq(Frames \cup {frame}) /\ Len(rest) = Top
    BY <1>1, <1>2
  <2> QED
    BY <1>1, <1>2, <2>1
<1>3. ASSUME NEW frame, NEW rest, Len(rest) = Top, rest \in Seq(Frames),
             frames' = Append(rest, frame),
             \A i \in 1..Top : rest[i].suspended = frames[i].suspended
      PROVE  /\ Len(frames') >= Top
             /\ \A i \in 1..Top : frames[i].suspended => frames'[i].suspended
  BY <1>1, <1>3
<1>4. CASE \E f \in Functions : Call(f)
  BY <1>1, <1>3, <1>4 DEF Call
<1>5. ASSUME NEW f \in Functions, Defer(f)
      PROVE  /\ Len(frames') >= Top
             /\ \A i \in 1..Top : frames[i].suspended => frames'[i].suspended
  <2>1. PICK frame : /\ frames' = [frames EXCEPT ![Top] = frame]
                     /\ frame.suspended = frames[Top].suspended
    <3>1. PICK passed : passed = frames[Top].passed + 1
      OBVIOUS
    <3>2. PICK slots :
             frames' = [frames EXCEPT ![Top].slots = slots, ![Top].passed = passed]
      <4>1. PICK filled : filled = [frames[Top].slots EXCEPT ![passed] = f]
        OBVIOUS
      <4>2. PICK longer : longer = Append(frames[Top].slots, f)
        OBVIOUS
      <4> QED
        BY <1>1, <1>5, <3>1, <4>1, <4>2 DEF Defer
    <3>3. PICK frame : frame = [frames[Top] EXCEPT !.slots = slots, !.passed = passed]
      OBVIOUS
    <3>4. frames' = [frames EXCEPT ![Top] = frame]
      BY <1>1, <3>2, <3>3
    <3>5. frame.suspended = frames[Top].suspended
      BY <1>1, <3>3 DEF Frames
    <3> QED
      BY <3>4, <3>5
  <2> QED
    BY <1>1, <1>2, <2>1
<1>6. CASE \E p \in Panics \cup {Host} : Throw(p)
  BY <1>1, <1>6 DEF Throw
<1>7. CASE Return \/ Recover \/ Catch
  <2>1. PICK frame : /\ \/ frames' = [frames EXCEPT ![Top] = frame]
                        \/ frames' = frames
                     /\ frame.suspended = frames[Top].suspended
    <3>1. CASE Return
      <4>1. PICK frame : frame = [frames[Top] EXCEPT !.phase = "ending"]
        OBVIOUS
      <4>2. frames' = [frames EXCEPT ![Top] = frame]
        BY <1>1, <3>1, <4>1 DEF Return
      <4>3. frame.suspended = frames[Top].suspended
        BY <1>1, <4>1 DEF Frames
      <4> QED
        BY <4>2, <4>3
    <3>2. CASE Recover
      <4>1. PICK frame : frame = [frames[Top] EXCEPT !.pending = None]
        OBVIOUS
      <4>2. frames' = frames \/ frames' = [frames EXCEPT ![Top] = frame]
        BY <1>1, <3>2, <4>1 DEF Recover
      <4>3. frame.suspended = frames[Top].suspended
        BY <1>1, <4>1 DEF Frames
      <4> QED
        BY <4>2, <4>3
    <3>3. CASE Catch
      <4>1. PICK frame : frame = [frames[Top] EXCEPT !.phase = "ending",
                                                     !.active = flight]
        OBVIOUS
      <4>2. frames' = [frames EXCEPT ![Top] = frame]
        BY <1>1, <3>3, <4>1 DEF Catch
      <4>3. frame.suspended = frames[Top].suspended
        BY <1>1, <4>1 DEF Frames
      <4> QED
        BY <4>2, <4>3
    <3> QED
      BY <1>7, <3>1, <3>2, <3>3
  <2> QED
    BY <1>1, <1>2, <2>1
<1>8. CASE RunDeferred
  <2>1. PICK fewer : fewer = SubSeq(frames[Top].slots, 1, Len(frames[Top].slots) - 1)
    OBVIOUS
  <2>2. PICK frame : frame = [frames[Top] EXCEPT !.slots = fewer]
    OBVIOUS
  <2>3. PICK rest : rest = [frames EXCEPT ![Top] = frame]
    OBVIOUS
  <2>4. frames' = rest \/ \E call : frames' = Append(rest, call)
    BY <1>8, <2>1, <2>2, <2>3 DEF RunDeferred
  <2>5. frame \in Frames /\ frame.suspended = frames[Top].suspended
    <3>1. frames[Top].slots # <<>>
          /\ frames[Top].slots \in Seq(Functions \cup {Unset})
      BY <1>1, <1>8 DEF RunDeferred, Frames
    <3>2. fewer \in Seq(Functions \cup {Unset})
      BY <2>1, <3>1, Popped
    <3> QED
      BY <1>1, <2>2, <3>2 DEF Frames
  <2>6. rest \in Seq(Frames) /\ Len(rest) = Top
        /\ \A i \in 1..Top : rest[i].suspended = frames[i].suspended
    BY <1>1, <1>2, <2>3, <2>5, Replaced
  <2> QED
    BY <1>1, <1>3, <2>4, <2>6
<1> QED
  BY <1>4, <1>5, <1>6, <1>7, <1>8

LEMMA HostExceptionsPassStep ==
    ASSUME DistinctAssumption, IInv, IInv', [Next]_vars, Faulting
    PROVE  Faulting' \/ (frames' = <<>> /\ exit' = Host)
<1>1. /\ frames \in Seq(Frames) /\ Top \in Nat /\ Len(frames') \in Nat
      /\ flight = Host \/ \E i \in 1..Top : frames[i].suspended
      /\ frames = <<>> => Top = 0 /\ flight = None
  BY DEF IInv, TypeOK, Top, Faulting
<1>2. frames # <<>>
  BY <1>1 DEF DistinctAssumption
<1>3. Top \in 1..Top /\ frames[Top] \in Frames /\ FrameOK(frames[Top])
  BY <1>2, Innermost
<1>4. /\ Len(Outer) = Top - 1 /\ \A i \in 1..(Top - 1) : Outer[i] = frames[i]
      /\ Outer \in Seq(Frames)
  BY <1>1, <1>2, Popped DEF Top, Outer
<1>5. Outer = <<>> <=> Top = 1
  BY <1>3, <1>4, EmptySeq
<1>6. ASSUME flight = Host => flight' = Host, Len(frames') >= Top,
             \A i \in 1..Top : frames[i].suspended => frames'[i].suspended
      PROVE  Faulting'
  BY <1>1, <1>6 DEF Faulting, Top
<1>7. CASE \/ \E f \in Functions : Call(f) \/ Defer(f)
           \/ \E p \in Panics \cup {Host} : Throw(p)
           \/ Return \/ Recover \/ Catch \/ RunDeferred
  <2>1. flight # Host
    BY <1>7 DEF Call, Defer, Throw, Return, Recover, Catch, RunDeferred, Running,
       Ending, DistinctAssumption
  <2> QED
    BY <1>2, <1>6, <1>7, <2>1, SuspendedStays
<1>8. CASE \E f \in Functions : Begin(f)
  BY <1>2, <1>8 DEF Begin
<1>9. CASE Suspend
  <2>1. frames' = [frames EXCEPT ![Top] =
                     [frames[Top] EXCEPT !.phase = "ending", !.suspended = TRUE]]
    BY <1>3, <1>9 DEF Suspend
  <2>2. Len(frames') = Top /\ frames'[Top].suspended
    BY <1>1, <1>3, <2>1 DEF Frames, Top
  <2> QED
    BY <1>3, <2>2 DEF Faulting, Top
<1>10. CASE Escape
  <2>1. frames' = Outer /\ (flight = Host \/ ~frames[Top].suspended)
    BY <1>3, <1>10 DEF Escape, FrameOK, PlainFrame
  <2>2. IF Top = 1 THEN exit' = flight ELSE flight' = flight
    BY <1>10 DEF Escape
  <2>3. CASE flight = Host
    BY <1>5, <2>1, <2>2, <2>3 DEF Faulting
  <2>4. CASE flight # Host
    <3>1. PICK i \in 1..Top : frames[i].suspended
      BY <1>1, <2>4
    <3>2. i \in 1..(Top - 1) /\ Outer[i].suspended
      BY <1>1, <1>4, <2>1, <2>4, <3>1
    <3> QED
      BY <1>4, <2>1, <3>2 DEF Faulting, Top
  <2> QED
    BY <2>3, <2>4
<1>11. CASE LeaveThrowing
  <2>1. PICK i \in 1..Top : frames[i].suspended
    BY <1>1, <1>11 DEF LeaveThrowing, Ending, DistinctAssumption
  <2>2. CASE i = Top
    BY <1>5, <1>11, <2>1, <2>2 DEF LeaveThrowing, Faulting
  <2>3. CASE i # Top
    <3>1. i \in 1..(Top - 1) /\ Outer[i].suspended
      BY <1>1, <1>4, <2>1, <2>3
    <3> QED
      BY <1>4, <1>11, <3>1 DEF LeaveThrowing, Faulting, Top
  <2> QED
    BY <2>2, <2>3
<1>12. CASE LeaveReturning
  <2>1. PICK i \in 1..Top : frames[i].suspended
    BY <1>1, <1>12 DEF LeaveReturning, Ending, DistinctAssumption
  <2>2. i \in 1..(Top - 1) /\ Outer[i].suspended
    BY <1>1, <1>4, <1>12, <2>1 DEF LeaveReturning
  <2>3. Len(frames') = Top - 1 /\ frames'[i].suspended
    <3>1. CASE frames' = Outer
      BY <1>4, <2>2, <3>1
    <3>2. CASE frames' = [Outer EXCEPT ![Top - 1].active = None]
      <4>1. Len(frames') = Top - 1 /\ Top - 1 \in 1..(Top - 1)
        BY <1>1, <1>4, <2>2, <3>2
      <4>2. CASE i = Top - 1
        BY <1>4, <2>2, <3>2, <4>1, <4>2, ElementOfSeq DEF Frames
      <4>3. CASE i # Top - 1
        BY <1>4, <2>2, <3>2, <4>1, <4>3
      <4> QED
        BY <4>1, <4>2, <4>3
    <3> QED
      BY <1>12, <3>1, <3>2 DEF LeaveReturning
  <2> QED
    BY <1>1, <2>2, <2>3 DEF Faulting, Top
<1>13. CASE UNCHANGED vars
  BY <1>13 DEF vars, Faulting, Top
<1> QED
  BY <1>7, <1>8, <1>9, <1>10, <1>11, <1>12, <1>13 DEF Next

\* An exception of the host, once thrown, is under way until it leaves the
\* outermost call: no catch and no deferred call swallows it.
THEOREM HostExceptionsAreNotSwallowed ==
    ASSUME StorageAssumption, DistinctAssumption
    PROVE  Spec => HostExceptionsPass
<1>1. IInv /\ IInv' /\ [Next]_vars =>
         [Faulting => Faulting' \/ (frames' = <<>> /\ exit' = Host)]_vars
  BY HostExceptionsPassStep
<1> QED
  BY <1>1, FramesStayLinked, PTL DEF Spec, HostExceptionsPass

-----------------------------------------------------------------------------
(* The envelope implements GoUnwinding *)

Views ==
    [fn : Functions, deferred : BOOLEAN, defers : Seq(Functions \cup {Unset}),
     unwinding : BOOLEAN, panic : Panics \cup {Host, None}, recovered : BOOLEAN]

\* Stack, of a list of frames and an exception under way.
View(list, thrown, i) ==
    [fn |-> list[i].fn,
     deferred |-> i > 1 /\ list[i - 1].phase = "ending",
     defers |-> Deferred(list[i]),
     unwinding |-> list[i].phase = "ending" \/ (i = Len(list) /\ thrown # None),
     panic |-> IF i = Len(list) /\ thrown # None THEN thrown ELSE list[i].active,
     recovered |-> /\ i < Len(list)
                   /\ list[i].active # None
                   /\ list[i + 1].pending = None]

StackOf(list, thrown) == [i \in 1..Len(list) |-> View(list, thrown, i)]

LEMMA DeferredIsASequence ==
    ASSUME NEW frame \in Frames
    PROVE  Deferred(frame) \in Seq(Functions \cup {Unset})
<1>1. frame.slots \in Seq(Functions \cup {Unset}) /\ frame.passed \in Nat
  BY DEF Frames
<1>2. PICK slots : slots = frame.slots
  OBVIOUS
<1>3. ASSUME frame.passed < Len(slots)
      PROVE  SubSeq(slots, 1, frame.passed) \in Seq(Functions \cup {Unset})
  BY <1>1, <1>2, <1>3, SubSeqProperties
<1> QED
  BY <1>1, <1>2, <1>3 DEF Deferred

LEMMA StackOfFrames ==
    ASSUME NEW list \in Seq(Frames), NEW thrown \in Panics \cup {Host, None}
    PROVE  /\ StackOf(list, thrown) \in Seq(Views)
           /\ Len(StackOf(list, thrown)) = Len(list)
           /\ \A i \in 1..Len(list) : StackOf(list, thrown)[i] = View(list, thrown, i)
<1>1. Len(list) \in Nat
  OBVIOUS
<1>2. ASSUME NEW i \in 1..Len(list) PROVE View(list, thrown, i) \in Views
  <2>1. list[i] \in Frames
    OBVIOUS
  <2>2. /\ list[i].fn \in Functions /\ list[i].active \in Panics \cup {None}
        /\ Deferred(list[i]) \in Seq(Functions \cup {Unset})
    BY <2>1, DeferredIsASequence DEF Frames
  <2> QED
    BY <2>2 DEF View, Views
<1>3. StackOf(list, thrown) \in [1..Len(list) -> Views]
  BY <1>2 DEF StackOf
<1> QED
  BY <1>1, <1>3 DEF StackOf

\* Two lists of which one is the other with its last element changed, with one
\* more, or with one less.
LEMMA LastChanged ==
    ASSUME NEW S, NEW s \in Seq(S), NEW t \in Seq(S), NEW last, s # <<>>,
           Len(t) = Len(s), \A i \in 1..(Len(s) - 1) : t[i] = s[i],
           t[Len(s)] = last
    PROVE  t = [s EXCEPT ![Len(s)] = last]
<1>1. Len(s) \in Nat \ {0}
  BY EmptySeq
<1>2. Len(s) \in 1..Len(t) /\ last \in S
  BY <1>1, ElementOfSeq
<1>3. PICK u : u = [s EXCEPT ![Len(s)] = last]
  OBVIOUS
<1>4. /\ u \in Seq(S) /\ Len(u) = Len(s)
      /\ \A i \in 1..Len(s) : u[i] = IF i = Len(s) THEN last ELSE s[i]
  BY <1>1, <1>2, <1>3, Replaced
<1>5. \A i \in 1..Len(t) : t[i] = u[i]
  BY <1>1, <1>4
<1>6. t = u
  BY <1>4, <1>5, SeqEqual
<1> QED
  BY <1>3, <1>6

LEMMA OneMore ==
    ASSUME NEW S, NEW s \in Seq(S), NEW t \in Seq(S), NEW last,
           Len(t) = Len(s) + 1, \A i \in 1..Len(s) : t[i] = s[i],
           t[Len(s) + 1] = last
    PROVE  t = Append(s, last)
<1>1. Len(s) \in Nat /\ last \in S
  <2>1. Len(s) + 1 \in 1..Len(t)
    OBVIOUS
  <2> QED
    BY <2>1, ElementOfSeq
<1>2. PICK u : u = Append(s, last)
  OBVIOUS
<1>3. /\ u \in Seq(S) /\ Len(u) = Len(s) + 1
      /\ \A i \in 1..Len(s) : u[i] = s[i]
      /\ u[Len(s) + 1] = last
  BY <1>1, <1>2, Pushed
<1>4. \A i \in 1..Len(t) : t[i] = u[i]
  BY <1>1, <1>3
<1>5. t = u
  BY <1>3, <1>4, SeqEqual
<1> QED
  BY <1>2, <1>5

LEMMA OneLess ==
    ASSUME NEW S, NEW s \in Seq(S), NEW t \in Seq(S), s # <<>>,
           Len(t) = Len(s) - 1, \A i \in 1..(Len(s) - 1) : t[i] = s[i]
    PROVE  t = SubSeq(s, 1, Len(s) - 1)
<1>1. PICK u : u = SubSeq(s, 1, Len(s) - 1)
  OBVIOUS
<1>2. /\ Len(s) \in Nat \ {0}
      /\ u \in Seq(S) /\ Len(u) = Len(s) - 1
      /\ \A i \in 1..(Len(s) - 1) : u[i] = s[i]
  BY <1>1, Popped
<1>3. \A i \in 1..Len(t) : t[i] = u[i]
  BY <1>2
<1>4. t = u
  BY <1>2, <1>3, SeqEqual
<1> QED
  BY <1>1, <1>4

LEMMA StackNow ==
    ASSUME IInv
    PROVE  /\ frames \in Seq(Frames) /\ Top \in Nat /\ Len(frames) = Top
           /\ flight \in Panics \cup {Host, None}
           /\ Stack = StackOf(frames, flight)
           /\ Stack \in Seq(Views) /\ Len(Stack) = Top
           /\ \A i \in 1..Top : Stack[i] = View(frames, flight, i)
           /\ Stack = <<>> <=> frames = <<>>
<1>1. frames \in Seq(Frames) /\ flight \in Panics \cup {Host, None}
  BY DEF IInv, TypeOK
<1>2. Stack = StackOf(frames, flight)
  BY DEF Stack, StackOf, View, Top
<1>3. /\ Stack \in Seq(Views) /\ Len(Stack) = Len(frames)
      /\ \A i \in 1..Len(frames) : Stack[i] = View(frames, flight, i)
  BY <1>1, <1>2, StackOfFrames
<1>4. Stack = <<>> <=> frames = <<>>
  BY <1>1, <1>3, EmptySeq
<1> QED
  BY <1>1, <1>2, <1>3, <1>4 DEF Top

LEMMA StackNext ==
    ASSUME IInv'
    PROVE  /\ frames' \in Seq(Frames)
           /\ flight' \in Panics \cup {Host, None}
           /\ Stack' \in Seq(Views) /\ Len(Stack') = Len(frames')
           /\ \A i \in 1..Len(frames') : Stack'[i] = View(frames', flight', i)
           /\ Stack' = <<>> <=> frames' = <<>>
<1>1. frames' \in Seq(Frames) /\ flight' \in Panics \cup {Host, None}
  BY DEF IInv, TypeOK
<1>2. Stack' = StackOf(frames', flight')
  BY DEF Stack, StackOf, View, Top
<1>3. /\ Stack' \in Seq(Views) /\ Len(Stack') = Len(frames')
      /\ \A i \in 1..Len(frames') : Stack'[i] = View(frames', flight', i)
  BY <1>1, <1>2, StackOfFrames
<1>4. Stack' = <<>> <=> frames' = <<>>
  BY <1>1, <1>3, EmptySeq
<1> QED
  BY <1>1, <1>3, <1>4

\* The view of a frame depends on its neighbours only.
LEMMA StackBelow ==
    ASSUME IInv, IInv', NEW n \in Nat \ {0}, n <= Top, n <= Len(frames'),
           \A i \in 1..(n - 1) : frames'[i] = frames[i],
           frames'[n].pending = frames[n].pending
    PROVE  \A i \in 1..(n - 1) : Stack'[i] = Stack[i]
<1>1. PICK list : list = frames
  OBVIOUS
<1>2. PICK next : next = frames'
  OBVIOUS
<1>3. PICK thrown : thrown = flight
  OBVIOUS
<1>4. PICK after : after = flight'
  OBVIOUS
<1>5. /\ Len(list) \in Nat /\ Len(next) \in Nat /\ Len(list) = Top
      /\ n <= Len(list) /\ n <= Len(next)
      /\ \A i \in 1..(n - 1) : list[i] = next[i]
      /\ list[n].pending = next[n].pending
  BY <1>1, <1>2, StackNow, StackNext
<1> SUFFICES ASSUME NEW i \in 1..(n - 1)
             PROVE  Stack'[i] = Stack[i]
  OBVIOUS
<1>6. i \in Nat \ {0} /\ i < Len(list) /\ i < Len(next)
  BY <1>5
<1>7. /\ list[i] = next[i]
      /\ i > 1 => list[i - 1] = next[i - 1]
      /\ list[i + 1].pending = next[i + 1].pending
  <2>1. i + 1 = n \/ i + 1 \in 1..(n - 1)
    OBVIOUS
  <2>2. i > 1 => i - 1 \in 1..(n - 1)
    OBVIOUS
  <2> QED
    BY <1>5, <2>1, <2>2
<1>8. View(list, thrown, i) = View(next, after, i)
  <2>1. i # Len(list) /\ i # Len(next)
    BY <1>5, <1>6
  <2>2. (i > 1 /\ list[i - 1].phase = "ending")
           = (i > 1 /\ next[i - 1].phase = "ending")
    BY <1>7
  <2>3. (i < Len(list) /\ list[i].active # None /\ list[i + 1].pending = None)
           = (i < Len(next) /\ next[i].active # None /\ next[i + 1].pending = None)
    BY <1>6, <1>7
  <2>4. (list[i].phase = "ending" \/ (i = Len(list) /\ thrown # None))
           = (next[i].phase = "ending" \/ (i = Len(next) /\ after # None))
    BY <1>7, <2>1
  <2>5. (IF i = Len(list) /\ thrown # None THEN thrown ELSE list[i].active)
           = (IF i = Len(next) /\ after # None THEN after ELSE next[i].active)
    BY <1>7, <2>1
  <2> QED
    BY <1>7, <2>2, <2>3, <2>4, <2>5 DEF View
<1>9. i \in 1..Top /\ i \in 1..Len(next)
  BY <1>5, <1>6
<1> QED
  BY <1>1, <1>2, <1>3, <1>4, <1>8, <1>9, StackNow, StackNext

LEMMA StackReplaced ==
    ASSUME IInv, IInv', frames # <<>>, Len(frames') = Top,
           \A i \in 1..(Top - 1) : frames'[i] = frames[i],
           frames'[Top].pending = frames[Top].pending
    PROVE  Stack' = [Stack EXCEPT ![Top] = Stack'[Top]]
<1>1. Top \in Nat \ {0}
  BY Innermost
<1>2. \A i \in 1..(Top - 1) : Stack'[i] = Stack[i]
  <2>1. PICK n \in Nat \ {0} : n = Top
    BY <1>1
  <2> QED
    BY <1>1, <2>1, StackBelow
<1>3. PICK s : s = Stack
  OBVIOUS
<1>4. PICK t : t = Stack'
  OBVIOUS
<1>5. PICK last : last = Stack'[Top]
  OBVIOUS
<1>6. /\ s \in Seq(Views) /\ t \in Seq(Views) /\ s # <<>>
      /\ Len(s) = Top /\ Len(t) = Len(s)
      /\ \A i \in 1..(Len(s) - 1) : t[i] = s[i]
      /\ t[Len(s)] = last
  BY <1>1, <1>2, <1>3, <1>4, <1>5, StackNow, StackNext
<1>7. t = [s EXCEPT ![Len(s)] = last]
  BY <1>6, LastChanged
<1> QED
  BY <1>3, <1>4, <1>5, <1>6, <1>7

LEMMA StackPushed ==
    ASSUME IInv, IInv', frames # <<>>, Len(frames') = Top + 1,
           \A i \in 1..(Top - 1) : frames'[i] = frames[i],
           frames'[Top].pending = frames[Top].pending
    PROVE  Stack' = Append([Stack EXCEPT ![Top] = Stack'[Top]],
                           Stack'[Top + 1])
<1>1. Top \in Nat \ {0}
  BY Innermost
<1>2. \A i \in 1..(Top - 1) : Stack'[i] = Stack[i]
  <2>1. PICK n \in Nat \ {0} : n = Top
    BY <1>1
  <2> QED
    BY <1>1, <2>1, StackBelow
<1>3. PICK s : s = Stack
  OBVIOUS
<1>4. PICK t : t = Stack'
  OBVIOUS
<1>5. PICK caller : caller = Stack'[Top]
  OBVIOUS
<1>6. PICK call : call = Stack'[Top + 1]
  OBVIOUS
<1>7. PICK u : u = [s EXCEPT ![Top] = caller]
  OBVIOUS
<1>8. /\ s \in Seq(Views) /\ t \in Seq(Views)
      /\ Len(s) = Top /\ Len(t) = Top + 1
      /\ \A i \in 1..(Top - 1) : t[i] = s[i]
      /\ t[Top] = caller /\ t[Top + 1] = call
  BY <1>1, <1>2, <1>3, <1>4, <1>5, <1>6, StackNow, StackNext
<1>9. Top \in 1..Len(s) /\ caller \in Views
  <2>1. Top \in 1..Len(t)
    BY <1>1, <1>8
  <2> QED
    BY <1>1, <1>8, <2>1, ElementOfSeq
<1>10. /\ u \in Seq(Views) /\ Len(u) = Top
       /\ \A i \in 1..Top : u[i] = IF i = Top THEN caller ELSE s[i]
  BY <1>7, <1>8, <1>9, Replaced
<1>11. \A i \in 1..Len(u) : t[i] = u[i]
  BY <1>1, <1>8, <1>10
<1>12. t = Append(u, call)
  BY <1>8, <1>10, <1>11, OneMore
<1> QED
  BY <1>3, <1>4, <1>5, <1>6, <1>7, <1>12

LEMMA StackPopped ==
    ASSUME IInv, IInv', Top > 1, Len(frames') = Top - 1,
           \A i \in 1..(Top - 2) : frames'[i] = frames[i],
           frames'[Top - 1].pending = frames[Top - 1].pending
    PROVE  Stack' = [SubSeq(Stack, 1, Top - 1) EXCEPT
                        ![Top - 1] = Stack'[Top - 1]]
<1>1. Top \in Nat \ {0} /\ Top - 1 \in Nat \ {0}
  BY StackNow
<1>2. \A i \in 1..(Top - 2) : Stack'[i] = Stack[i]
  <2>1. PICK n \in Nat \ {0} : n = Top - 1
    BY <1>1
  <2>2. n - 1 = Top - 2 /\ n <= Top /\ n <= Len(frames')
    BY <1>1, <2>1
  <2> QED
    BY <2>1, <2>2, StackBelow
<1>3. PICK s : s = Stack
  OBVIOUS
<1>4. PICK t : t = Stack'
  OBVIOUS
<1>5. PICK last : last = Stack'[Top - 1]
  OBVIOUS
<1>6. PICK u : u = SubSeq(s, 1, Len(s) - 1)
  OBVIOUS
<1>7. /\ s \in Seq(Views) /\ t \in Seq(Views)
      /\ Len(s) = Top /\ Len(t) = Top - 1
      /\ \A i \in 1..(Top - 2) : t[i] = s[i]
      /\ t[Top - 1] = last
  BY <1>1, <1>2, <1>3, <1>4, <1>5, StackNow, StackNext
<1>8. s # <<>>
  BY <1>1, <1>7, EmptySeq
<1>9. /\ u \in Seq(Views) /\ Len(u) = Top - 1
      /\ \A i \in 1..(Top - 1) : u[i] = s[i]
  BY <1>6, <1>7, <1>8, Popped
<1>10. /\ u # <<>> /\ Len(t) = Len(u) /\ t[Len(u)] = last
       /\ \A i \in 1..(Len(u) - 1) : t[i] = u[i]
  BY <1>1, <1>7, <1>9, EmptySeq
<1>11. t = [u EXCEPT ![Len(u)] = last]
  BY <1>7, <1>9, <1>10, LastChanged
<1> QED
  BY <1>3, <1>4, <1>5, <1>6, <1>7, <1>9, <1>11

LEMMA TopView ==
    ASSUME IInv, frames # <<>>
    PROVE  /\ Promise!Top = Top /\ Stack # <<>> /\ Top \in 1..Len(Stack)
           /\ Stack[Top] = View(frames, flight, Top)
           /\ Stack[Top] \in Views
           /\ Stack[Top].fn = frames[Top].fn
           /\ Stack[Top].defers = Deferred(frames[Top])
           /\ Stack[Top].unwinding = (frames[Top].phase = "ending" \/ flight # None)
           /\ Stack[Top].panic = IF flight # None THEN flight ELSE frames[Top].active
           /\ Stack[Top].recovered = FALSE
           /\ Stack[Top].deferred = (Top > 1 /\ frames[Top - 1].phase = "ending")
<1>1. Top \in Nat \ {0} /\ Top \in 1..Top
  BY Innermost
<1>2. Stack[Top] = View(frames, flight, Top) /\ Len(Stack) = Top /\ Stack # <<>>
  BY <1>1, StackNow
<1>3. Stack[Top] \in Views
  BY <1>1, <1>2, StackNow, ElementOfSeq
<1>4. Len(frames) = Top
  BY StackNow
<1> QED
  BY <1>1, <1>2, <1>3, <1>4 DEF View, Promise!Top

\* The frame that is innermost after the step.
LEMMA NextTopView ==
    ASSUME IInv', frames' # <<>>
    PROVE  /\ Top' = Len(frames') /\ Top' \in 1..Top' /\ Stack'[Top'] \in Views
           /\ Stack'[Top'].fn = frames'[Top'].fn
           /\ Stack'[Top'].deferred = (Top' > 1 /\ frames'[Top' - 1].phase = "ending")
           /\ Stack'[Top'].defers = Deferred(frames'[Top'])
           /\ Stack'[Top'].unwinding = (frames'[Top'].phase = "ending" \/ flight' # None)
           /\ Stack'[Top'].panic = IF flight' # None THEN flight' ELSE frames'[Top'].active
           /\ Stack'[Top'].recovered = FALSE
<1>1. Top' = Len(frames') /\ Top' \in Nat
  BY StackNext DEF Top
<1>2. Top' # 0
  BY <1>1, StackNext, EmptySeq
<1>3. Stack'[Top'] = View(frames', flight', Top') /\ Top' \in 1..Len(Stack')
  BY <1>1, <1>2, StackNext
<1>4. Stack'[Top'] \in Views
  BY <1>3, StackNext, ElementOfSeq
<1> QED
  BY <1>1, <1>2, <1>3, <1>4 DEF View

LEMMA SameView ==
    ASSUME NEW v \in Views, NEW w \in Views,
           v.fn = w.fn, v.deferred = w.deferred, v.defers = w.defers,
           v.unwinding = w.unwinding, v.panic = w.panic, v.recovered = w.recovered
    PROVE  v = w
  BY DEF Views

LEMMA NewCallView ==
    ASSUME NEW f \in Functions, NEW deferred \in BOOLEAN,
           NEW v, v = Promise!NewCall(f, deferred)
    PROVE  /\ v \in Views /\ v.fn = f /\ v.deferred = deferred /\ v.defers = <<>>
           /\ v.unwinding = FALSE /\ v.panic = None /\ v.recovered = FALSE
<1>1. <<>> \in Seq(Functions \cup {Unset})
  OBVIOUS
<1> QED
  BY <1>1 DEF Views, Promise!NewCall

LEMMA BeginRefines ==
    ASSUME StorageAssumption, DistinctAssumption, IInv, IInv',
           NEW f \in Functions, Begin(f)
    PROVE  Promise!Begin(f)
<1>1. Stack = <<>> /\ got' = None /\ exit' = "none" /\ flight' = None
  BY StackNow DEF Begin, Silent, IInv, TypeOK
<1>2. PICK call : call = NewFrame(f, "ordinary", None)
  OBVIOUS
<1>3. frames' = <<call>> /\ frames' # <<>> /\ Len(frames') = 1 /\ frames'[1] = call
  BY <1>2 DEF Begin
<1>4. /\ Deferred(call) = <<>> /\ call.fn = f /\ call.phase = "body"
      /\ call.active = None
  BY <1>2, FreshFrame DEF NewFrame
<1>5. PICK view : view = Stack'[1]
  OBVIOUS
<1>6. PICK new : new = Promise!NewCall(f, FALSE)
  OBVIOUS
<1>7. view = new
  <2>1. Top' = 1
    BY <1>3, NextTopView
  <2>2. /\ view \in Views /\ view.fn = f /\ view.deferred = FALSE
        /\ view.defers = <<>> /\ view.unwinding = FALSE /\ view.panic = None
        /\ view.recovered = FALSE
    <3>1. /\ view \in Views /\ view.fn = frames'[1].fn
          /\ view.deferred = (1 > 1 /\ frames'[1 - 1].phase = "ending")
          /\ view.defers = Deferred(frames'[1])
          /\ view.unwinding = (frames'[1].phase = "ending" \/ flight' # None)
          /\ view.panic = IF flight' # None THEN flight' ELSE frames'[1].active
          /\ view.recovered = FALSE
      BY <1>3, <1>5, <2>1, NextTopView
    <3>2. frames'[1] = call /\ flight' = None /\ ~(1 > 1)
      BY <1>1, <1>3
    <3> QED
      BY <1>4, <3>1, <3>2
  <2>3. /\ new \in Views /\ new.fn = f /\ new.deferred = FALSE
        /\ new.defers = <<>> /\ new.unwinding = FALSE /\ new.panic = None
        /\ new.recovered = FALSE
    BY <1>6, NewCallView
  <2> QED
    BY <2>2, <2>3, SameView
<1>8. Stack' = <<new>>
  <2>1. PICK t : t = Stack'
    OBVIOUS
  <2>2. t \in Seq(Views) /\ Len(t) = 1 /\ t[1] = view
    BY <1>3, <1>5, <2>1, StackNext
  <2>3. t = <<t[1]>>
    BY <2>2
  <2> QED
    BY <1>7, <2>1, <2>2, <2>3
<1> QED
  BY <1>1, <1>6, <1>8 DEF Promise!Begin, Promise!Silent

LEMMA CallRefines ==
    ASSUME StorageAssumption, DistinctAssumption, IInv, IInv',
           NEW f \in Functions, Call(f)
    PROVE  Promise!Call(f)
<1>1. /\ frames # <<>> /\ frames[Top].phase = "body" /\ flight = None /\ flight' = None
      /\ f \in Uses[frames[Top].fn] /\ got' = None /\ exit' = "none"
      /\ Top \in Nat \ {0} /\ frames[Top] \in Frames
      /\ frames[Top].active = None
  BY Innermost DEF Call, Running, Silent, FrameOK
<1>2. PICK call : call = NewFrame(f, "ordinary", None)
  OBVIOUS
<1>3. call \in Frames
  BY <1>2, FreshFrame
<1>4. /\ frames' = Append(frames, call) /\ frames' # <<>> /\ Len(frames') = Top + 1
      /\ \A i \in 1..Top : frames'[i] = frames[i]
      /\ frames'[Top + 1] = call
  BY <1>1, <1>2, <1>3, StackNow, Pushed DEF Call
<1>5. /\ Deferred(call) = <<>> /\ call.fn = f /\ call.phase = "body"
      /\ call.active = None
  BY <1>2, FreshFrame DEF NewFrame
<1>6. PICK view : view = Stack'[Top + 1]
  OBVIOUS
<1>7. PICK new : new = Promise!NewCall(f, FALSE)
  OBVIOUS
<1>8. view = new
  <2>1. Top' = Top + 1 /\ Top' - 1 = Top /\ Top \in 1..Top
    BY <1>1, <1>4, NextTopView
  <2>2. /\ view \in Views /\ view.fn = f /\ view.deferred = FALSE
        /\ view.defers = <<>> /\ view.unwinding = FALSE /\ view.panic = None
        /\ view.recovered = FALSE
    <3>1. /\ view \in Views /\ view.fn = frames'[Top + 1].fn
          /\ view.deferred = (Top + 1 > 1 /\ frames'[Top].phase = "ending")
          /\ view.defers = Deferred(frames'[Top + 1])
          /\ view.unwinding = (frames'[Top + 1].phase = "ending" \/ flight' # None)
          /\ view.panic = IF flight' # None THEN flight' ELSE frames'[Top + 1].active
          /\ view.recovered = FALSE
      BY <1>4, <1>6, <2>1, NextTopView
    <3> QED
      BY <1>1, <1>4, <1>5, <2>1, <3>1
  <2>3. /\ new \in Views /\ new.fn = f /\ new.deferred = FALSE
        /\ new.defers = <<>> /\ new.unwinding = FALSE /\ new.panic = None
        /\ new.recovered = FALSE
    BY <1>7, NewCallView
  <2> QED
    BY <2>2, <2>3, SameView
<1>9. Stack'[Top] = Stack[Top]
  <2>1. PICK old : old = Stack'[Top]
    OBVIOUS
  <2>2. PICK was : was = Stack[Top]
    OBVIOUS
  <2>3. /\ Top \in 1..Top /\ Top \in 1..Len(frames') /\ Top # Len(frames')
        /\ frames'[Top] = frames[Top]
        /\ Top > 1 => frames'[Top - 1] = frames[Top - 1]
    BY <1>1, <1>4
  <2>4. old = View(frames', flight', Top) /\ old \in Views
    BY <2>1, <2>3, StackNext, ElementOfSeq
  <2>5. /\ old.fn = was.fn /\ old.deferred = was.deferred
        /\ old.defers = was.defers /\ old.unwinding = was.unwinding
        /\ old.panic = was.panic /\ old.recovered = was.recovered
    BY <1>1, <2>2, <2>3, <2>4, TopView DEF View
  <2>6. was \in Views
    BY <1>1, <2>2, TopView
  <2> QED
    BY <2>1, <2>2, <2>4, <2>5, <2>6, SameView
<1>10. Stack' = Append([Stack EXCEPT ![Top] = Stack[Top]], new)
  BY <1>1, <1>4, <1>6, <1>8, <1>9, StackPushed
<1>11. [Stack EXCEPT ![Top] = Stack[Top]] = Stack
  BY <1>1, TopView, StackNow
<1> QED
  BY <1>1, <1>7, <1>10, <1>11, TopView DEF Promise!Call, Promise!Running, Promise!Silent

\* The innermost frame is another, and its caller sees no difference.
ShownAs(frame, thrown, view) ==
    /\ view \in Views /\ view.fn = frame.fn /\ view.defers = Deferred(frame)
    /\ view.unwinding = (frame.phase = "ending" \/ thrown # None)
    /\ view.panic = IF thrown # None THEN thrown ELSE frame.active
    /\ view.recovered = FALSE

LEMMA InnermostChanged ==
    ASSUME IInv, IInv', frames # <<>>, Len(frames') = Top,
           \A i \in 1..(Top - 1) : frames'[i] = frames[i],
           NEW frame, frame = frames'[Top], frame.pending = frames[Top].pending,
           NEW view, ShownAs(frame, flight', view),
           view.deferred = Stack[Top].deferred
    PROVE  Stack' = [Stack EXCEPT ![Top] = view]
<1>1. Top \in Nat \ {0} /\ Top' = Top /\ frames' # <<>>
  <2>1. Top \in Nat \ {0} /\ Top' = Len(frames')
    BY Innermost DEF Top
  <2> QED
    BY <2>1, StackNext, EmptySeq
<1>2. PICK after : after = Stack'[Top]
  OBVIOUS
<1>3. PICK was : was = Stack[Top]
  OBVIOUS
<1>4. /\ after \in Views /\ after.fn = frame.fn
      /\ after.deferred = (Top > 1 /\ frames'[Top - 1].phase = "ending")
      /\ after.defers = Deferred(frame)
      /\ after.unwinding = (frame.phase = "ending" \/ flight' # None)
      /\ after.panic = IF flight' # None THEN flight' ELSE frame.active
      /\ after.recovered = FALSE
  BY <1>1, <1>2, NextTopView
<1>5. was.deferred = (Top > 1 /\ frames[Top - 1].phase = "ending")
  BY <1>3, TopView
<1>6. after.deferred = was.deferred
  <2>1. Top > 1 => frames'[Top - 1] = frames[Top - 1]
    BY <1>1
  <2> QED
    BY <1>4, <1>5, <2>1
<1>7. after = view
  BY <1>3, <1>4, <1>6, SameView DEF ShownAs
<1> QED
  BY <1>2, <1>7, StackReplaced

LEMMA ReturnRefines ==
    ASSUME DistinctAssumption, IInv, IInv', Return
    PROVE  Promise!Return
<1>1. /\ frames # <<>> /\ frames[Top] \in Frames /\ frames[Top].phase = "body"
      /\ flight = None /\ flight' = None /\ got' = None /\ exit' = "none"
      /\ Top \in 1..Len(frames) /\ Top \in Nat
  BY Innermost, StackNow DEF Return, Running, Silent
<1>2. PICK frame : frame = [frames[Top] EXCEPT !.phase = "ending"]
  OBVIOUS
<1>3. PICK was \in Views : was = Stack[Top]
  BY <1>1, TopView
<1>4. PICK view : view = [was EXCEPT !.unwinding = TRUE]
  OBVIOUS
<1>5. /\ frames' = [frames EXCEPT ![Top] = frame]
      /\ Len(frames') = Top /\ \A i \in 1..(Top - 1) : frames'[i] = frames[i]
      /\ frames'[Top] = frame
  BY <1>1, <1>2, StackNow DEF Return
<1>6. /\ frame.fn = frames[Top].fn /\ frame.pending = frames[Top].pending
      /\ frame.phase = "ending" /\ frame.active = frames[Top].active
      /\ Deferred(frame) = Deferred(frames[Top])
  BY <1>1, <1>2 DEF Frames, Deferred
<1>7. /\ view \in Views /\ view.fn = was.fn /\ view.deferred = was.deferred
      /\ view.defers = was.defers /\ view.unwinding = TRUE
      /\ view.panic = was.panic /\ view.recovered = was.recovered
  BY <1>3, <1>4 DEF Views
<1>8. /\ was.fn = frames[Top].fn /\ was.defers = Deferred(frames[Top])
      /\ was.unwinding = FALSE /\ was.panic = frames[Top].active
      /\ was.recovered = FALSE /\ Stack # <<>> /\ Promise!Top = Top
  BY <1>1, <1>3, TopView
<1>9. Stack' = [Stack EXCEPT ![Top] = view]
  <2>1. ShownAs(frame, flight', view) /\ view.deferred = Stack[Top].deferred
    BY <1>1, <1>3, <1>6, <1>7, <1>8 DEF ShownAs
  <2> QED
    BY <1>1, <1>5, <1>6, <2>1, InnermostChanged
<1>10. Stack' = [Stack EXCEPT ![Top].unwinding = TRUE]
  BY <1>3, <1>4, <1>9
<1> QED
  BY <1>1, <1>3, <1>8, <1>10 DEF Promise!Return, Promise!Running, Promise!Silent

LEMMA ThrowRefines ==
    ASSUME DistinctAssumption, IInv, IInv', NEW p \in Panics, Throw(p)
    PROVE  Promise!Raise(p)
<1>1. /\ frames # <<>> /\ frames[Top] \in Frames /\ frames[Top].phase = "body"
      /\ flight = None /\ flight' = p /\ got' = None /\ exit' = "none"
      /\ frames' = frames /\ Top \in 1..Len(frames) /\ Top \in Nat /\ p # None
  BY Innermost, StackNow DEF Throw, Running, Silent, DistinctAssumption
<1>2. PICK frame : frame = frames[Top]
  OBVIOUS
<1>3. PICK was \in Views : was = Stack[Top]
  BY <1>1, TopView
<1>4. PICK view : view = [was EXCEPT !.unwinding = TRUE, !.panic = p]
  OBVIOUS
<1>5. /\ Len(frames') = Top /\ \A i \in 1..(Top - 1) : frames'[i] = frames[i]
      /\ frames'[Top] = frame
  BY <1>1, <1>2, StackNow
<1>6. /\ view \in Views /\ view.fn = was.fn /\ view.deferred = was.deferred
      /\ view.defers = was.defers /\ view.unwinding = TRUE
      /\ view.panic = p /\ view.recovered = was.recovered
  BY <1>3, <1>4 DEF Views
<1>7. /\ was.fn = frames[Top].fn /\ was.defers = Deferred(frames[Top])
      /\ was.unwinding = FALSE
      /\ was.recovered = FALSE /\ Stack # <<>> /\ Promise!Top = Top
  BY <1>1, <1>3, TopView
<1>8. Stack' = [Stack EXCEPT ![Top] = view]
  <2>1. ShownAs(frame, flight', view) /\ view.deferred = Stack[Top].deferred
    BY <1>1, <1>2, <1>3, <1>6, <1>7 DEF ShownAs
  <2> QED
    BY <1>1, <1>2, <1>5, <2>1, InnermostChanged
<1>9. Stack' = [Stack EXCEPT ![Top].unwinding = TRUE, ![Top].panic = p]
  <2>1. Top \in DOMAIN Stack
    BY <1>1, StackNow, TopView
  <2> QED
    BY <1>3, <1>4, <1>8, <2>1
<1> QED
  BY <1>1, <1>3, <1>7, <1>9 DEF Promise!Raise, Promise!Running, Promise!Silent

\* Filling the next slot, or pushing, adds one deferred call.
LEMMA DeferredGrows ==
    ASSUME NEW frame \in Frames, NEW next \in Frames,
           NEW slots \in Seq(Functions \cup {Unset}), slots = frame.slots,
           NEW f \in Functions, next.passed = frame.passed + 1,
           \/ /\ next.passed <= Len(slots)
              /\ next.slots = [slots EXCEPT ![frame.passed + 1] = f]
           \/ /\ frame.passed = Len(slots)
              /\ next.slots = Append(slots, f)
    PROVE  Deferred(next) = Append(Deferred(frame), f)
<1> DEFINE S == Functions \cup {Unset}
<1>1. PICK n \in Nat : n = frame.passed
  BY DEF Frames
<1>2. PICK filled : filled = next.slots
  OBVIOUS
<1>3. Len(slots) \in Nat /\ f \in S
  OBVIOUS
<1>4. CASE n + 1 <= Len(slots) /\ filled = [slots EXCEPT ![n + 1] = f]
  <2>1. /\ filled \in Seq(S) /\ Len(filled) = Len(slots)
        /\ \A s \in 1..Len(slots) : filled[s] = IF s = n + 1 THEN f ELSE slots[s]
    <3>1. PICK m \in 1..Len(slots) : m = n + 1
      BY <1>1, <1>3, <1>4
    <3> QED
      BY <1>3, <1>4, <3>1, Replaced
  <2>2. PICK before : before = SubSeq(slots, 1, n)
    OBVIOUS
  <2>3. PICK after : after = SubSeq(filled, 1, n + 1)
    OBVIOUS
  <2>4. Deferred(frame) = before
    BY <1>1, <1>3, <1>4, <2>2 DEF Deferred
  <2>5. Deferred(next) = after
    <3>1. CASE n + 1 < Len(slots)
      BY <1>1, <1>2, <2>1, <2>3, <3>1 DEF Deferred
    <3>2. CASE n + 1 = Len(slots)
      <4>1. SubSeq(filled, 1, Len(filled)) = filled
        BY <2>1
      <4> QED
        BY <1>1, <1>2, <2>1, <2>3, <3>2, <4>1 DEF Deferred
    <3> QED
      BY <1>1, <1>3, <1>4, <3>1, <3>2
  <2>6. /\ before \in Seq(S) /\ Len(before) = n
        /\ \A s \in 1..n : before[s] = slots[s]
    BY <1>1, <1>3, <1>4, <2>2, SubSeqProperties
  <2>7. /\ after \in Seq(S) /\ Len(after) = n + 1
        /\ \A s \in 1..(n + 1) : after[s] = filled[s]
    BY <1>1, <1>3, <1>4, <2>1, <2>3, SubSeqProperties
  <2>8. after = Append(before, f)
    <3>1. Len(after) = Len(before) + 1 /\ after[Len(before) + 1] = f
      BY <1>1, <1>3, <1>4, <2>1, <2>6, <2>7
    <3>2. \A s \in 1..Len(before) : after[s] = before[s]
      <4> SUFFICES ASSUME NEW s \in 1..n PROVE after[s] = before[s]
        BY <2>6
      <4>1. s \in 1..Len(slots) /\ s \in 1..(n + 1) /\ s # n + 1
        BY <1>3, <1>4
      <4> QED
        BY <2>1, <2>6, <2>7, <4>1
    <3> QED
      BY <2>6, <2>7, <3>1, <3>2, OneMore
  <2> QED
    BY <2>4, <2>5, <2>8
<1>5. CASE n = Len(slots) /\ filled = Append(slots, f)
  <2>1. Len(filled) = Len(slots) + 1
    BY <1>3, <1>5
  <2> QED
    BY <1>1, <1>2, <1>3, <1>5, <2>1 DEF Deferred
<1> QED
  BY <1>1, <1>2, <1>4, <1>5

LEMMA DeferRefines ==
    ASSUME DistinctAssumption, IInv, IInv', NEW f \in Functions, Defer(f)
    PROVE  Promise!Defer(f)
<1>1. /\ frames # <<>> /\ frames[Top] \in Frames /\ frames[Top].phase = "body"
      /\ flight = None /\ flight' = None /\ got' = None /\ exit' = "none"
      /\ Top \in 1..Len(frames) /\ Top \in Nat /\ f \in Uses[frames[Top].fn]
      /\ Storage[frames[Top].fn] = "dynamic" =>
            frames[Top].passed = Len(frames[Top].slots)
  BY Innermost, StackNow DEF Defer, Running, Silent, FrameOK
<1>2. PICK top \in Frames : top = frames[Top]
  BY <1>1
<1>3. PICK slots \in Seq(Functions \cup {Unset}) : slots = top.slots
  BY DEF Frames
<1>4. PICK passed : passed = top.passed + 1
  OBVIOUS
<1>5. PICK filled : /\ frames' = [frames EXCEPT ![Top].slots = filled,
                                               ![Top].passed = passed]
                    /\ \/ /\ passed <= Len(slots)
                          /\ filled = [slots EXCEPT ![passed] = f]
                       \/ /\ top.passed = Len(slots)
                          /\ filled = Append(slots, f)
  <2>1. PICK set : set = [slots EXCEPT ![passed] = f]
    OBVIOUS
  <2>2. PICK longer : longer = Append(slots, f)
    OBVIOUS
  <2> QED
    BY <1>1, <1>2, <1>3, <1>4, <2>1, <2>2 DEF Defer
<1>6. PICK frame : frame = [top EXCEPT !.slots = filled, !.passed = passed]
  OBVIOUS
<1>7. /\ frames' = [frames EXCEPT ![Top] = frame]
      /\ Len(frames') = Top /\ \A i \in 1..(Top - 1) : frames'[i] = frames[i]
      /\ frames'[Top] = frame
  <2>1. frames' = [frames EXCEPT ![Top] = frame]
    BY <1>1, <1>2, <1>5, <1>6
  <2> QED
    BY <1>1, <2>1, StackNow
<1>8. /\ frame.fn = top.fn /\ frame.pending = top.pending
      /\ frame.phase = "body" /\ frame.active = top.active
      /\ frame.slots = filled /\ frame.passed = passed
  BY <1>1, <1>2, <1>6 DEF Frames
<1>9. frame \in Frames
  BY <1>1, <1>7, StackNext, ElementOfSeq
<1>10. Deferred(frame) = Append(Deferred(top), f)
  <2>1. /\ frame.passed = top.passed + 1
        /\ \/ /\ frame.passed <= Len(slots)
              /\ frame.slots = [slots EXCEPT ![top.passed + 1] = f]
           \/ /\ top.passed = Len(slots)
              /\ frame.slots = Append(slots, f)
    BY <1>4, <1>5, <1>8
  <2> QED
    BY <1>2, <1>3, <1>9, <2>1, DeferredGrows
<1>11. PICK was \in Views : was = Stack[Top]
  BY <1>1, TopView
<1>12. PICK view : view = [was EXCEPT !.defers = Append(@, f)]
  OBVIOUS
<1>13. /\ was.fn = top.fn /\ was.defers = Deferred(top)
       /\ was.unwinding = FALSE /\ was.panic = top.active
       /\ was.recovered = FALSE /\ Stack # <<>> /\ Promise!Top = Top
  BY <1>1, <1>2, <1>11, TopView
<1>14. /\ view \in Views /\ view.fn = was.fn /\ view.deferred = was.deferred
       /\ view.defers = Append(Deferred(top), f) /\ view.unwinding = was.unwinding
       /\ view.panic = was.panic /\ view.recovered = was.recovered
  <2>1. Append(was.defers, f) \in Seq(Functions \cup {Unset})
    BY <1>11, Pushed DEF Views
  <2> QED
    BY <1>11, <1>12, <1>13, <2>1 DEF Views
<1>15. Stack' = [Stack EXCEPT ![Top] = view]
  <2>1. ShownAs(frame, flight', view) /\ view.deferred = Stack[Top].deferred
    BY <1>1, <1>2, <1>8, <1>10, <1>11, <1>13, <1>14 DEF ShownAs
  <2> QED
    BY <1>1, <1>2, <1>7, <1>8, <2>1, InnermostChanged
<1>16. Stack' = [Stack EXCEPT ![Top].defers = Append(@, f)]
  BY <1>11, <1>12, <1>15
<1> QED
  BY <1>1, <1>2, <1>11, <1>13, <1>16
     DEF Promise!Defer, Promise!Running, Promise!Silent

LEMMA CatchStutters ==
    ASSUME DistinctAssumption, IInv, IInv', Catch
    PROVE  UNCHANGED <<Stack, got, exit>>
<1>1. /\ frames # <<>> /\ frames[Top] \in Frames
      /\ flight \in Panics /\ flight # None /\ flight' = None
      /\ Top \in 1..Len(frames) /\ Top \in Nat
      /\ got' = None /\ exit' = "none"
  BY Innermost, StackNow DEF Catch, Silent, DistinctAssumption
<1>2. got = None /\ exit = "none"
  BY <1>1 DEF IInv, ReportsAreFresh, Running
<1>3. PICK frame : frame = [frames[Top] EXCEPT !.phase = "ending", !.active = flight]
  OBVIOUS
<1>4. /\ frames' = [frames EXCEPT ![Top] = frame]
      /\ Len(frames') = Top /\ \A i \in 1..(Top - 1) : frames'[i] = frames[i]
      /\ frames'[Top] = frame
  <2>1. frames' = [frames EXCEPT ![Top] = frame]
    BY <1>1, <1>3 DEF Catch
  <2> QED
    BY <1>1, <2>1, StackNow
<1>5. /\ frame.fn = frames[Top].fn /\ frame.pending = frames[Top].pending
      /\ frame.phase = "ending" /\ frame.active = flight
      /\ Deferred(frame) = Deferred(frames[Top])
  BY <1>1, <1>3 DEF Frames, Deferred
<1>6. PICK was \in Views : was = Stack[Top]
  BY <1>1, TopView
<1>7. /\ was.fn = frames[Top].fn /\ was.defers = Deferred(frames[Top])
      /\ was.unwinding = TRUE /\ was.panic = flight
      /\ was.recovered = FALSE /\ Top \in 1..Len(Stack)
  BY <1>1, <1>6, TopView
<1>8. Stack' = [Stack EXCEPT ![Top] = was]
  <2>1. ShownAs(frame, flight', was) /\ was.deferred = Stack[Top].deferred
    BY <1>1, <1>5, <1>6, <1>7 DEF ShownAs
  <2> QED
    BY <1>1, <1>4, <1>5, <2>1, InnermostChanged
<1>9. Stack' = Stack
  BY <1>6, <1>7, <1>8, StackNow
<1> QED
  BY <1>1, <1>2, <1>9

LEMMA RecoverRefines ==
    ASSUME DistinctAssumption, IInv, IInv', Recover
    PROVE  Promise!Recover
<1>1. /\ frames # <<>> /\ frames[Top] \in Frames /\ frames[Top].phase = "body"
      /\ flight = None /\ flight' = None /\ exit' = "none"
      /\ frames[Top].fn \in Recovering
      /\ Top \in 1..Len(frames) /\ Top \in Nat /\ Top = Len(frames)
  BY Innermost, StackNow DEF Recover, Running
<1>2. PICK top \in Frames : top = frames[Top]
  BY <1>1
<1>3. PICK was \in Views : was = Stack[Top]
  BY <1>1, TopView
<1>4. /\ was.fn = top.fn /\ was.unwinding = FALSE /\ Promise!Top = Top
      /\ was.deferred = (Top > 1 /\ frames[Top - 1].phase = "ending")
      /\ Stack # <<>>
  BY <1>1, <1>2, <1>3, TopView
<1>5. Promise!Running /\ Stack[Promise!Top].fn \in Recovering
  BY <1>1, <1>2, <1>3, <1>4 DEF Promise!Running
<1>6. IF Top = 1 THEN Ordinary(top) ELSE Linked(frames[Top - 1], top)
  BY <1>1, <1>2 DEF IInv, FramesAreLinked
<1>7. CASE top.entry # "deferred"
  <2>1. got' = None /\ frames' = frames
    BY <1>2, <1>7 DEF Recover
  <2>2. Stack' = Stack
    BY <1>1, <2>1 DEF Stack, Top
  <2>3. ~was.deferred
    <3>1. ASSUME Top = 1 PROVE ~was.deferred
      <4>1. ~(Top > 1)
        BY <3>1
      <4> QED
        BY <1>4, <4>1
    <3>2. ASSUME Top # 1 PROVE frames[Top - 1].phase # "ending"
      <4>1. Linked(frames[Top - 1], top)
        BY <1>6, <3>2
      <4> QED
        BY <1>1, <1>2, <1>7, <4>1 DEF Linked
    <3> QED
      BY <1>4, <3>1, <3>2
  <2> QED
    BY <1>1, <1>3, <1>4, <1>5, <2>1, <2>2, <2>3 DEF Promise!Recover, Promise!Recoverable
<1>8. CASE top.entry = "deferred"
  <2>1. /\ got' = top.pending
        /\ frames' = [frames EXCEPT ![Top] = [top EXCEPT !.pending = None]]
    BY <1>1, <1>2, <1>8 DEF Recover
  <2>2. Top > 1
    BY <1>1, <1>6, <1>8 DEF Ordinary
  <2>3. PICK n \in Nat \ {0} : n = Top - 1 /\ n + 1 = Top
    BY <1>1, <2>2
  <2>4. PICK caller : caller = frames[n]
    OBVIOUS
  <2>5. caller \in Frames /\ n \in 1..Len(frames)
    BY <1>1, <2>3, <2>4, StackNow, ElementOfSeq
  <2>6. caller.phase = "ending" /\ top.pending \in {None, caller.active}
    <3>1. Linked(caller, top)
      BY <1>6, <2>2, <2>3, <2>4
    <3> QED
      BY <1>1, <1>2, <1>8, <2>5, <3>1 DEF Linked, Ordinary, Frames
  <2>7. PICK above : above = Stack[n]
    OBVIOUS
  <2>8. /\ above = View(frames, flight, n) /\ above \in Views /\ n \in 1..Len(Stack)
    BY <1>1, <2>3, <2>7, StackNow, ElementOfSeq
  <2>9. /\ above.panic = caller.active
        /\ above.recovered = (caller.active # None /\ top.pending = None)
    <3>1. n # Len(frames) /\ n < Len(frames) /\ frames[n + 1] = top
      BY <1>1, <1>2, <2>3
    <3> QED
      BY <2>4, <2>8, <3>1 DEF View
  <2>10. was.deferred
    BY <1>4, <2>2, <2>3, <2>4, <2>6
  <2>11. CASE top.pending = None
    <3>1. frames' = frames
      <4>1. [top EXCEPT !.pending = None] = top
        BY <2>11 DEF Frames
      <4> QED
        BY <1>1, <1>2, <2>1, <4>1, StackNow
    <3>2. Stack' = Stack
      BY <1>1, <3>1 DEF Stack, Top
    <3>3. ~(above.panic # None /\ ~above.recovered)
      BY <2>9, <2>11
    <3>4. ~Promise!Recoverable
      BY <1>3, <1>4, <2>3, <2>7, <3>3 DEF Promise!Recoverable
    <3> QED
      BY <1>1, <1>5, <2>1, <2>11, <3>2, <3>4 DEF Promise!Recover
  <2>12. CASE top.pending # None
    <3>1. Promise!Recoverable
      BY <1>3, <1>4, <2>3, <2>6, <2>7, <2>9, <2>10, <2>12 DEF Promise!Recoverable
    <3>2. got' = Stack[Promise!Top - 1].panic
      BY <1>4, <2>1, <2>3, <2>6, <2>7, <2>9, <2>12
    <3>3. Stack' = [Stack EXCEPT ![n].recovered = TRUE]
      <4>1. PICK list : list = frames'
        OBVIOUS
      <4>2. PICK frame : frame = [top EXCEPT !.pending = None]
        OBVIOUS
      <4>3. /\ Len(list) = Top /\ list[Top] = frame
            /\ \A i \in 1..(Top - 1) : list[i] = frames[i]
        BY <1>1, <2>1, <4>1, <4>2, StackNow
      <4>4. /\ frame.fn = top.fn /\ frame.phase = top.phase
            /\ frame.active = top.active /\ Deferred(frame) = Deferred(top)
            /\ frame.pending = None
        BY <4>2 DEF Frames, Deferred
      <4>5. PICK view : view = [above EXCEPT !.recovered = TRUE]
        OBVIOUS
      <4>6. /\ view \in Views /\ view.fn = above.fn /\ view.deferred = above.deferred
            /\ view.defers = above.defers /\ view.unwinding = above.unwinding
            /\ view.panic = above.panic /\ view.recovered = TRUE
        BY <2>8, <4>5 DEF Views
      <4>7. \A i \in 1..(n - 1) : Stack'[i] = Stack[i]
        <5>1. n <= Top /\ n <= Len(list) /\ list[n] = frames[n]
              /\ \A i \in 1..(n - 1) : list[i] = frames[i]
          BY <1>1, <2>3, <4>3
        <5> QED
          BY <4>1, <5>1, StackBelow
      <4>8. Stack'[n] = view
        <5>1. PICK now : now = Stack'[n]
          OBVIOUS
        <5>2. n \in 1..Len(list) /\ now = View(list, flight', n) /\ now \in Views
          BY <1>1, <2>3, <4>1, <4>3, <5>1, StackNext, ElementOfSeq
        <5>3. /\ list[n] = caller /\ list[n + 1] = frame
              /\ n < Len(list) /\ n # Len(list)
              /\ n > 1 => list[n - 1] = frames[n - 1]
              /\ n < Len(frames) /\ n # Len(frames)
          BY <1>1, <2>3, <2>4, <4>3
        <5>4. /\ now.fn = view.fn /\ now.deferred = view.deferred
              /\ now.defers = view.defers /\ now.unwinding = view.unwinding
              /\ now.panic = view.panic
          BY <2>4, <2>8, <4>6, <5>2, <5>3 DEF View
        <5>5. now.recovered = TRUE
          <6>1. caller.active # None
            BY <2>6, <2>12
          <6> QED
            BY <4>4, <5>2, <5>3, <6>1 DEF View
        <5> QED
          BY <4>6, <5>1, <5>2, <5>4, <5>5, SameView
      <4>9. Stack'[Top] = was
        <5>1. PICK now : now = Stack'[Top]
          OBVIOUS
        <5>2. Top' = Top /\ frames' # <<>>
          BY <1>1, <4>1, <4>3, StackNext, EmptySeq DEF Top
        <5>3. /\ now \in Views /\ now.fn = frame.fn
              /\ now.deferred = (Top > 1 /\ list[Top - 1].phase = "ending")
              /\ now.defers = Deferred(frame)
              /\ now.unwinding = (frame.phase = "ending" \/ flight' # None)
              /\ now.panic = IF flight' # None THEN flight' ELSE frame.active
              /\ now.recovered = FALSE
          BY <4>1, <4>3, <5>1, <5>2, NextTopView
        <5>4. /\ was.defers = Deferred(top) /\ was.panic = top.active
              /\ was.recovered = FALSE
          BY <1>1, <1>2, <1>3, TopView
        <5>5. list[Top - 1] = caller
          BY <2>3, <2>4, <4>3
        <5>6. /\ now.fn = was.fn /\ now.defers = was.defers
              /\ now.panic = was.panic /\ now.recovered = was.recovered
          BY <1>1, <1>4, <4>4, <5>3, <5>4
        <5>7. now.deferred = was.deferred
          <6>1. now.deferred = TRUE /\ was.deferred = TRUE
            BY <1>4, <2>2, <2>3, <2>4, <2>6, <5>3, <5>5
          <6> QED
            BY <6>1
        <5>8. now.unwinding = was.unwinding
          <6>1. frame.phase = "body"
            BY <1>1, <1>2, <4>4
          <6> QED
            BY <1>1, <1>4, <5>3, <6>1
        <5> QED
          BY <1>3, <5>1, <5>3, <5>6, <5>7, <5>8, SameView
      <4>10. PICK s \in Seq(Views) : s = Stack
        BY StackNow
      <4>11. PICK t \in Seq(Views) : t = Stack'
        BY StackNext
      <4>12. PICK u : u = [s EXCEPT ![n] = view]
        OBVIOUS
      <4>13. /\ u \in Seq(Views) /\ Len(u) = Len(s)
             /\ \A i \in 1..Len(s) : u[i] = IF i = n THEN view ELSE s[i]
        BY <2>8, <4>6, <4>10, <4>12, Replaced
      <4>14. Len(s) = Top /\ Len(t) = Top
        BY <4>1, <4>3, <4>10, <4>11, StackNow, StackNext
      <4>15. \A i \in 1..Len(t) : t[i] = u[i]
        <5> SUFFICES ASSUME NEW i \in 1..Top PROVE t[i] = u[i]
          BY <4>14
        <5>1. i = Top \/ i = n \/ i \in 1..(n - 1)
          BY <1>1, <2>3
        <5> QED
          BY <1>3, <2>3, <4>7, <4>8, <4>9, <4>10, <4>11, <4>13, <4>14, <5>1
      <4>16. t = u
        BY <4>13, <4>14, <4>15, SeqEqual
      <4> QED
        BY <2>7, <4>5, <4>10, <4>11, <4>12, <4>16
    <3> QED
      BY <1>1, <1>4, <1>5, <2>3, <3>1, <3>2, <3>3 DEF Promise!Recover
  <2> QED
    BY <2>11, <2>12
<1> QED
  BY <1>7, <1>8

LEMMA RunDeferredRefines ==
    ASSUME StorageAssumption, DistinctAssumption, IInv, IInv', RunDeferred
    PROVE  Promise!RunDeferred \/ UNCHANGED <<Stack, got, exit>>
<1>1. /\ frames # <<>> /\ frames[Top] \in Frames /\ FrameOK(frames[Top])
      /\ frames[Top].phase = "ending" /\ frames[Top].slots # <<>>
      /\ flight = None /\ flight' = None /\ got' = None /\ exit' = "none"
      /\ Top \in 1..Len(frames) /\ Top \in Nat /\ Top = Len(frames)
  BY Innermost, StackNow DEF RunDeferred, Ending, Silent
<1>2. PICK top \in Frames : top = frames[Top]
  BY <1>1
<1>3. PICK slots \in Seq(Functions \cup {Unset}) : slots = top.slots
  BY DEF Frames
<1>4. PICK fewer : fewer = SubSeq(slots, 1, Len(slots) - 1)
  OBVIOUS
<1>5. PICK last : last = slots[Len(slots)]
  OBVIOUS
<1>6. PICK frame : frame = [top EXCEPT !.slots = fewer]
  OBVIOUS
<1>7. PICK rest : rest = [frames EXCEPT ![Top] = frame]
  OBVIOUS
<1>8. /\ Len(slots) \in Nat \ {0} /\ last \in Functions \cup {Unset}
      /\ fewer \in Seq(Functions \cup {Unset}) /\ Len(fewer) = Len(slots) - 1
      /\ \A s \in 1..(Len(slots) - 1) : fewer[s] = slots[s]
  <2>1. slots # <<>>
    BY <1>1, <1>2, <1>3
  <2> QED
    BY <1>4, <1>5, <2>1, Popped
<1>9. /\ frame \in Frames /\ frame.fn = top.fn /\ frame.pending = top.pending
      /\ frame.phase = "ending" /\ frame.active = top.active
      /\ frame.slots = fewer /\ frame.passed = top.passed /\ top.passed \in Nat
  BY <1>1, <1>2, <1>6, <1>8 DEF Frames
<1>10. /\ rest \in Seq(Frames) /\ Len(rest) = Top /\ rest[Top] = frame
       /\ \A i \in 1..(Top - 1) : rest[i] = frames[i]
  BY <1>1, <1>7, <1>9, StackNow, Replaced
<1>11. last = Unset <=> Len(slots) > top.passed
  <2>1. Len(slots) \in 1..Len(slots)
    BY <1>8
  <2> QED
    BY <1>1, <1>2, <1>3, <1>5, <2>1 DEF FrameOK
<1>12. PICK was \in Views : was = Stack[Top]
  BY <1>1, TopView
<1>13. /\ was.fn = top.fn /\ was.defers = Deferred(top)
       /\ was.unwinding = TRUE /\ was.panic = top.active
       /\ was.deferred = (Top > 1 /\ frames[Top - 1].phase = "ending")
       /\ was.recovered = FALSE /\ Stack # <<>> /\ Promise!Top = Top
       /\ Top \in 1..Len(Stack)
  BY <1>1, <1>2, <1>12, TopView
<1>14. CASE last = Unset
  <2>1. frames' = rest
    BY <1>2, <1>3, <1>4, <1>5, <1>6, <1>7, <1>14 DEF RunDeferred
  <2>2. got = None /\ exit = "none"
    BY <1>1 DEF IInv, ReportsAreFresh, Running
  <2>3. Deferred(frame) = Deferred(top)
    <3>1. PICK n \in Nat : n = top.passed
      BY <1>9
    <3>2. PICK before : before = SubSeq(slots, 1, n)
      OBVIOUS
    <3>3. PICK after : after = SubSeq(fewer, 1, n)
      OBVIOUS
    <3>4. n < Len(slots) /\ n <= Len(fewer) /\ Len(slots) \in Nat
      BY <1>8, <1>11, <1>14, <3>1
    <3>5. Deferred(top) = before
      BY <1>3, <3>1, <3>2, <3>4 DEF Deferred
    <3>6. CASE n = Len(fewer)
      <4>1. before = fewer
        BY <1>4, <1>8, <3>2, <3>6
      <4>2. ~(frame.passed < Len(frame.slots))
        BY <1>9, <3>1, <3>6
      <4>3. Deferred(frame) = fewer
        BY <1>9, <4>2 DEF Deferred
      <4> QED
        BY <3>5, <4>1, <4>3
    <3>7. CASE n < Len(fewer)
      <4>1. Deferred(frame) = after
        BY <1>9, <3>1, <3>3, <3>7 DEF Deferred
      <4>2. /\ after \in Seq(Functions \cup {Unset}) /\ Len(after) = n
            /\ \A s \in 1..n : after[s] = fewer[s]
        BY <1>8, <3>3, <3>7, SubSeqProperties
      <4>3. /\ before \in Seq(Functions \cup {Unset}) /\ Len(before) = n
            /\ \A s \in 1..n : before[s] = slots[s]
        BY <3>2, <3>4, SubSeqProperties
      <4>4. \A s \in 1..n : after[s] = before[s]
        <5> SUFFICES ASSUME NEW s \in 1..n PROVE after[s] = before[s]
          OBVIOUS
        <5>1. s \in 1..(Len(slots) - 1)
          BY <1>8, <3>4, <3>7
        <5> QED
          BY <1>8, <4>2, <4>3, <5>1
      <4>5. after = before
        BY <4>2, <4>3, <4>4, SeqEqual
      <4> QED
        BY <3>5, <4>1, <4>5
    <3> QED
      BY <1>8, <3>4, <3>6, <3>7
  <2>4. Stack' = [Stack EXCEPT ![Top] = was]
    <3>1. ShownAs(frame, flight', was) /\ was.deferred = Stack[Top].deferred
      BY <1>1, <1>9, <1>12, <1>13, <2>3 DEF ShownAs
    <3> QED
      BY <1>1, <1>2, <1>9, <1>10, <2>1, <3>1, InnermostChanged
  <2>5. Stack' = Stack
    BY <1>12, <1>13, <2>4, StackNow
  <2> QED
    BY <1>1, <2>2, <2>5
<1>15. CASE last # Unset
  <2>1. PICK entry \in {"ordinary", "deferred"} :
           entry = IF last \in Recovering THEN "deferred" ELSE "ordinary"
    OBVIOUS
  <2>2. PICK panic \in Panics \cup {None} : panic = top.active
    BY DEF Frames
  <2>3. PICK call : call = NewFrame(last, entry, panic)
    OBVIOUS
  <2>4. last \in Functions
    BY <1>8, <1>15
  <2>5. call \in Frames
    BY <2>3, <2>4, FreshFrame
  <2>6. /\ Deferred(call) = <<>> /\ call.fn = last /\ call.phase = "body"
        /\ call.active = None /\ call.pending = top.active
    BY <2>2, <2>3, <2>4, FreshFrame DEF NewFrame
  <2>7. frames' = Append(rest, call)
    BY <1>2, <1>3, <1>4, <1>5, <1>6, <1>7, <1>15, <2>1, <2>2, <2>3 DEF RunDeferred
  <2>8. /\ frames' # <<>> /\ Len(frames') = Top + 1 /\ frames'[Top + 1] = call
        /\ \A i \in 1..Top : frames'[i] = rest[i]
    BY <1>10, <2>5, <2>7, Pushed
  <2>9. /\ frames'[Top] = frame /\ \A i \in 1..(Top - 1) : frames'[i] = frames[i]
    BY <1>1, <1>10, <2>8
  <2>10. Deferred(top) = slots /\ Deferred(frame) = fewer
    BY <1>3, <1>8, <1>9, <1>11, <1>15 DEF Deferred
  <2>11. PICK view : view = [was EXCEPT !.defers = fewer]
    OBVIOUS
  <2>12. /\ view \in Views /\ view.fn = was.fn /\ view.deferred = was.deferred
         /\ view.defers = fewer /\ view.unwinding = was.unwinding
         /\ view.panic = was.panic /\ view.recovered = was.recovered
    BY <1>8, <2>11 DEF Views
  <2>13. Stack'[Top] = view
    <3>1. PICK now : now = Stack'[Top]
      OBVIOUS
    <3>2. Top \in 1..Len(frames') /\ Top # Len(frames') /\ Top < Len(frames')
      BY <1>1, <2>8
    <3>3. now = View(frames', flight', Top) /\ now \in Views
      BY <3>1, <3>2, StackNext, ElementOfSeq
    <3>4. /\ now.fn = top.fn /\ now.defers = fewer /\ now.unwinding = TRUE
          /\ now.panic = top.active
      BY <1>9, <2>9, <2>10, <3>2, <3>3 DEF View
    <3>5. now.recovered = FALSE
      BY <1>9, <2>6, <2>8, <2>9, <3>2, <3>3 DEF View
    <3>6. now.deferred = was.deferred
      <4>1. Top > 1 => frames'[Top - 1] = frames[Top - 1]
        BY <1>1, <2>9
      <4>2. now.deferred = (Top > 1 /\ frames'[Top - 1].phase = "ending")
        BY <3>3 DEF View
      <4> QED
        BY <1>13, <4>1, <4>2
    <3>7. /\ now.fn = view.fn /\ now.defers = view.defers
          /\ now.unwinding = view.unwinding /\ now.panic = view.panic
          /\ now.recovered = view.recovered /\ now.deferred = view.deferred
      BY <1>13, <2>12, <3>4, <3>5, <3>6
    <3> QED
      BY <2>12, <3>1, <3>3, <3>7, SameView
  <2>14. PICK new : new = Promise!NewCall(last, TRUE)
    OBVIOUS
  <2>15. Stack'[Top + 1] = new
    <3>1. PICK now : now = Stack'[Top + 1]
      OBVIOUS
    <3>2. Top' = Top + 1 /\ Top' - 1 = Top
      BY <1>1, <2>8, NextTopView
    <3>3. /\ now \in Views /\ now.fn = frames'[Top + 1].fn
          /\ now.deferred = (Top + 1 > 1 /\ frames'[Top].phase = "ending")
          /\ now.defers = Deferred(frames'[Top + 1])
          /\ now.unwinding = (frames'[Top + 1].phase = "ending" \/ flight' # None)
          /\ now.panic = IF flight' # None THEN flight' ELSE frames'[Top + 1].active
          /\ now.recovered = FALSE
      BY <2>8, <3>1, <3>2, NextTopView
    <3>4. /\ new \in Views /\ new.fn = last /\ new.deferred = TRUE
          /\ new.defers = <<>> /\ new.unwinding = FALSE /\ new.panic = None
          /\ new.recovered = FALSE
      <4>1. <<>> \in Seq(Functions \cup {Unset})
        OBVIOUS
      <4> QED
        BY <2>4, <2>14, <4>1 DEF Views, Promise!NewCall
    <3>5. Top + 1 > 1
      BY <1>1
    <3>6. /\ now.fn = last /\ now.deferred = TRUE /\ now.defers = <<>>
          /\ now.unwinding = FALSE /\ now.panic = None
      BY <1>1, <1>9, <2>6, <2>8, <2>9, <3>3, <3>5
    <3>7. /\ now.fn = new.fn /\ now.deferred = new.deferred
          /\ now.defers = new.defers /\ now.unwinding = new.unwinding
          /\ now.panic = new.panic /\ now.recovered = new.recovered
      BY <3>3, <3>4, <3>6
    <3> QED
      BY <3>1, <3>3, <3>4, <3>7, SameView
  <2>16. Stack' = Append([Stack EXCEPT ![Top] = view], new)
    <3>1. frames'[Top].pending = frames[Top].pending
      BY <1>2, <1>9, <2>9
    <3> QED
      BY <1>1, <2>8, <2>9, <2>13, <2>15, <3>1, StackPushed
  <2>17. was.defers = slots /\ slots # <<>> /\ new = Promise!NewCall(slots[Len(slots)], TRUE)
    BY <1>1, <1>2, <1>3, <1>5, <1>13, <2>10, <2>14
  <2>18. [Stack EXCEPT ![Top].defers = SubSeq(@, 1, Len(@) - 1)]
            = [Stack EXCEPT ![Top] = view]
    BY <1>4, <1>12, <2>11, <2>17
  <2> QED
    BY <1>1, <1>12, <1>13, <2>16, <2>17, <2>18
       DEF Promise!RunDeferred, Promise!Silent
<1> QED
  BY <1>14, <1>15

LEMMA PanicLeaves ==
    ASSUME DistinctAssumption, IInv, IInv', frames # <<>>, frames' = Outer,
           NEW p \in Panics, Stack[Top].unwinding = TRUE, Stack[Top].defers = <<>>,
           Stack[Top].panic = p, got' = None,
           IF Top = 1 THEN exit' = p ELSE flight' = p /\ exit' = "none"
    PROVE  Promise!Leave
<1>1. /\ Top \in Nat \ {0} /\ Len(frames') = Top - 1 /\ p # None
      /\ \A i \in 1..(Top - 1) : frames'[i] = frames[i]
  BY Innermost, Popped DEF IInv, TypeOK, Top, Outer, DistinctAssumption
<1>2. Stack # <<>> /\ Promise!Top = Top /\ Len(Stack) = Top /\ Stack \in Seq(Views)
  BY TopView, StackNow
<1>3. CASE Top = 1
  <2>1. Stack' = <<>>
    BY <1>1, <1>3, StackNext, EmptySeq
  <2> QED
    BY <1>1, <1>2, <1>3, <2>1 DEF Promise!Leave
<1>4. CASE Top # 1
  <2>1. PICK n \in Nat \ {0} : n = Top - 1
    BY <1>1, <1>4
  <2>2. PICK rest : rest = SubSeq(Stack, 1, Top - 1)
    OBVIOUS
  <2>3. /\ rest \in Seq(Views) /\ Len(rest) = n /\ n \in 1..Len(rest)
        /\ \A i \in 1..n : rest[i] = Stack[i]
    BY <1>1, <1>2, <2>1, <2>2, Popped
  <2>4. PICK was \in Views : was = rest[n]
    BY <2>3, ElementOfSeq
  <2>5. PICK view : view = [was EXCEPT !.unwinding = TRUE, !.panic = p,
                                       !.recovered = FALSE]
    OBVIOUS
  <2>6. /\ view \in Views /\ view.fn = was.fn /\ view.deferred = was.deferred
        /\ view.defers = was.defers /\ view.unwinding = TRUE
        /\ view.panic = p /\ view.recovered = FALSE
    BY <2>4, <2>5 DEF Views
  <2>7. PICK now : now = Stack'[n]
    OBVIOUS
  <2>8. Top' = n /\ frames' # <<>> /\ frames'[n] = frames[n]
        /\ (n > 1 => frames'[n - 1] = frames[n - 1])
    BY <1>1, <2>1, StackNext, EmptySeq DEF Top
  <2>9. /\ now \in Views /\ now.fn = frames[n].fn
        /\ now.deferred = (n > 1 /\ frames'[n - 1].phase = "ending")
        /\ now.defers = Deferred(frames[n])
        /\ now.unwinding = (frames[n].phase = "ending" \/ flight' # None)
        /\ now.panic = IF flight' # None THEN flight' ELSE frames[n].active
        /\ now.recovered = FALSE
    BY <2>7, <2>8, NextTopView
  <2>10. /\ was = View(frames, flight, n) /\ n # Len(frames)
    BY <1>1, <2>1, <2>3, <2>4, StackNow
  <2>11. now.fn = was.fn /\ now.defers = was.defers /\ now.deferred = was.deferred
    BY <2>8, <2>9, <2>10 DEF View
  <2>12. now.unwinding = TRUE /\ now.panic = p
    BY <1>1, <1>4, <2>9
  <2>13. now = view
    BY <2>6, <2>9, <2>11, <2>12, SameView
  <2>14. Stack' = [rest EXCEPT ![n] = view]
    <3>1. frames'[Top - 1].pending = frames[Top - 1].pending
          /\ \A i \in 1..(Top - 2) : frames'[i] = frames[i]
      BY <1>1, <2>1
    <3>2. Top > 1
      BY <1>1, <1>4
    <3> QED
      BY <1>1, <2>1, <2>2, <2>7, <2>13, <3>1, <3>2, StackPopped
  <2>15. Stack' = [rest EXCEPT ![n].unwinding = TRUE, ![n].panic = p,
                               ![n].recovered = FALSE]
    BY <2>3, <2>4, <2>5, <2>14
  <2> QED
    BY <1>1, <1>2, <1>4, <2>1, <2>2, <2>15 DEF Promise!Leave, Promise!Outer
<1> QED
  BY <1>3, <1>4

LEMMA LeaveRefines ==
    ASSUME DistinctAssumption, IInv, IInv', ~Faulting, ~Faulting',
           Escape \/ LeaveThrowing
    PROVE  Promise!Leave
<1>1. /\ frames # <<>> /\ frames[Top] \in Frames /\ FrameOK(frames[Top])
      /\ Top \in 1..Top /\ flight # Host /\ ~frames[Top].suspended
  <2>1. frames # <<>>
    BY DEF Escape, LeaveThrowing, Ending
  <2>2. Top \in 1..Top
    BY <2>1, Innermost
  <2> QED
    BY <2>1, <2>2, Innermost DEF Faulting
<1>2. /\ Stack[Top].defers = Deferred(frames[Top])
      /\ Stack[Top].unwinding = (frames[Top].phase = "ending" \/ flight # None)
      /\ Stack[Top].panic = IF flight # None THEN flight ELSE frames[Top].active
  BY <1>1, TopView
<1>3. ASSUME frames[Top].slots = <<>> PROVE Deferred(frames[Top]) = <<>>
  <2>1. frames[Top].passed \in Nat /\ Len(frames[Top].slots) = 0
    BY <1>1, <1>3 DEF Frames
  <2>2. ~(frames[Top].passed < Len(frames[Top].slots))
    BY <2>1
  <2> QED
    BY <1>3, <2>2 DEF Deferred
<1>4. CASE Escape
  <2>1. flight \in Panics /\ flight # None /\ frames[Top].slots = <<>>
    BY <1>1, <1>4, StackNow DEF Escape, FrameOK, PlainFrame
  <2>2. frames' = Outer /\ got' = None
        /\ IF Top = 1 THEN exit' = flight ELSE flight' = flight /\ exit' = "none"
    BY <1>4 DEF Escape
  <2> QED
    BY <1>1, <1>2, <1>3, <2>1, <2>2, PanicLeaves
<1>5. CASE LeaveThrowing
  <2>1. PICK p : p = frames[Top].active
    OBVIOUS
  <2>2. /\ p \in Panics /\ flight = None /\ frames[Top].slots = <<>>
        /\ frames[Top].phase = "ending"
    BY <1>1, <1>5, <2>1 DEF LeaveThrowing, Ending, Frames
  <2>3. frames' = Outer /\ got' = None
        /\ IF Top = 1 THEN exit' = p ELSE flight' = p /\ exit' = "none"
    BY <1>1, <1>5, <2>1 DEF LeaveThrowing
  <2> QED
    BY <1>1, <1>2, <1>3, <2>1, <2>2, <2>3, PanicLeaves
<1> QED
  BY <1>4, <1>5

LEMMA LeaveReturningRefines ==
    ASSUME DistinctAssumption, IInv, IInv', LeaveReturning
    PROVE  Promise!Leave
<1>1. /\ frames # <<>> /\ frames[Top] \in Frames /\ flight = None /\ flight' = None
      /\ got' = None /\ frames[Top].phase = "ending" /\ frames[Top].active = None
      /\ frames[Top].slots = <<>> /\ Top \in Nat \ {0}
      /\ exit' = IF Top = 1 THEN "returned" ELSE "none"
  BY Innermost DEF LeaveReturning, Ending
<1>2. Deferred(frames[Top]) = <<>>
  <2>1. frames[Top].passed \in Nat /\ Len(frames[Top].slots) = 0
    BY <1>1 DEF Frames
  <2>2. ~(frames[Top].passed < Len(frames[Top].slots))
    BY <2>1
  <2> QED
    BY <1>1, <2>2 DEF Deferred
<1>3. /\ Stack # <<>> /\ Promise!Top = Top /\ Len(Stack) = Top /\ Stack \in Seq(Views)
      /\ Stack[Top].defers = <<>> /\ Stack[Top].unwinding = TRUE
      /\ Stack[Top].panic = None
  BY <1>1, <1>2, TopView, StackNow
<1>4. PICK outer : outer = Outer
  OBVIOUS
<1>5. /\ outer \in Seq(Frames) /\ Len(outer) = Top - 1
      /\ \A i \in 1..(Top - 1) : outer[i] = frames[i]
  BY <1>1, <1>4, Popped DEF IInv, TypeOK, Top, Outer
<1>6. CASE Top = 1
  <2>1. frames' = outer
    BY <1>4, <1>6 DEF LeaveReturning
  <2>2. Stack' = <<>>
    BY <1>5, <1>6, <2>1, StackNext, EmptySeq
  <2> QED
    BY <1>1, <1>3, <1>6, <2>2 DEF Promise!Leave
<1>7. CASE Top # 1
  <2>1. PICK n \in Nat \ {0} : n = Top - 1 /\ n + 1 = Top
    BY <1>1, <1>7
  <2>2. PICK caller \in Frames : caller = frames[n]
    BY <1>1, <2>1, StackNow, ElementOfSeq
  <2>3. PICK rest : rest = SubSeq(Stack, 1, Top - 1)
    OBVIOUS
  <2>4. /\ rest \in Seq(Views) /\ Len(rest) = n /\ n \in 1..Len(rest)
        /\ \A i \in 1..n : rest[i] = Stack[i]
    BY <1>1, <1>3, <2>1, <2>3, Popped
  <2>5. PICK was \in Views : was = rest[n]
    BY <2>4, ElementOfSeq
  <2>6. PICK frame : frame = IF /\ frames[Top].pending = None
                                /\ caller.phase = "ending"
                             THEN [caller EXCEPT !.active = None] ELSE caller
    OBVIOUS
  <2>7. /\ frame.fn = caller.fn /\ frame.pending = caller.pending
        /\ frame.phase = caller.phase /\ Deferred(frame) = Deferred(caller)
        /\ frame.active = IF /\ frames[Top].pending = None
                             /\ caller.phase = "ending"
                          THEN None ELSE caller.active
    BY <2>2, <2>6 DEF Frames, Deferred
  <2>8. /\ Len(frames') = n /\ frames'[n] = frame
        /\ \A i \in 1..(n - 1) : frames'[i] = frames[i]
    <3>1. CASE frames[Top].pending = None /\ caller.phase = "ending"
      <4>1. frames' = [outer EXCEPT ![n] = frame]
        <5>1. frames' = [outer EXCEPT ![n].active = None]
          BY <1>1, <1>4, <2>1, <2>2, <3>1 DEF LeaveReturning
        <5>2. outer[n] = caller /\ n \in 1..Len(outer)
          BY <1>5, <2>1, <2>2
        <5> QED
          BY <2>6, <3>1, <5>1, <5>2
      <4> QED
        BY <1>5, <2>1, <4>1
    <3>2. CASE ~(frames[Top].pending = None /\ caller.phase = "ending")
      <4>1. frames' = outer
        BY <1>1, <1>4, <2>1, <2>2, <3>2 DEF LeaveReturning
      <4> QED
        BY <1>5, <2>1, <2>2, <2>6, <3>2, <4>1
    <3> QED
      BY <3>1, <3>2
  <2>9. PICK now : now = Stack'[n]
    OBVIOUS
  <2>10. Top' = n /\ frames' # <<>> /\ (n > 1 => frames'[n - 1] = frames[n - 1])
    BY <2>1, <2>8, StackNext, EmptySeq DEF Top
  <2>11. /\ now \in Views /\ now.fn = frame.fn
         /\ now.deferred = (n > 1 /\ frames'[n - 1].phase = "ending")
         /\ now.defers = Deferred(frame)
         /\ now.unwinding = (frame.phase = "ending" \/ flight' # None)
         /\ now.panic = IF flight' # None THEN flight' ELSE frame.active
         /\ now.recovered = FALSE
    BY <2>8, <2>9, <2>10, NextTopView
  <2>12. was = View(frames, flight, n) /\ n # Len(frames) /\ n < Len(frames)
    BY <1>1, <2>1, <2>4, <2>5, StackNow
  <2>13. /\ now.fn = was.fn /\ now.defers = was.defers /\ now.deferred = was.deferred
         /\ now.unwinding = was.unwinding
    BY <1>1, <2>2, <2>7, <2>10, <2>11, <2>12 DEF View
  <2>14. /\ was.panic = caller.active
         /\ was.recovered = (caller.active # None /\ frames[Top].pending = None)
    BY <2>1, <2>2, <2>12 DEF View
  <2>15. caller.phase # "ending" => caller.active = None
    BY <1>1, <2>1, <2>2 DEF Frames, IInv, FramesAreLinked, FrameOK
  <2>16. Stack' = [rest EXCEPT ![n] = now]
    <3>1. frames'[Top - 1].pending = frames[Top - 1].pending
          /\ \A i \in 1..(Top - 2) : frames'[i] = frames[i]
      BY <1>1, <2>1, <2>2, <2>7, <2>8
    <3>2. Top > 1 /\ Len(frames') = Top - 1
      BY <1>1, <1>7, <2>1, <2>8
    <3> QED
      BY <2>1, <2>3, <2>9, <3>1, <3>2, StackPopped
  <2>17. CASE was.recovered
    <3>1. PICK view : view = [was EXCEPT !.panic = None, !.recovered = FALSE]
      OBVIOUS
    <3>2. /\ view \in Views /\ view.fn = was.fn /\ view.deferred = was.deferred
          /\ view.defers = was.defers /\ view.unwinding = was.unwinding
          /\ view.panic = None /\ view.recovered = FALSE
      BY <2>5, <3>1 DEF Views
    <3>3. now.panic = None
      BY <1>1, <2>7, <2>11, <2>14, <2>15, <2>17
    <3>4. now = view
      BY <2>11, <2>13, <3>2, <3>3, SameView
    <3>5. Stack' = [rest EXCEPT ![n].panic = None, ![n].recovered = FALSE]
      BY <2>4, <2>5, <2>16, <3>1, <3>4
    <3> QED
      BY <1>1, <1>3, <1>7, <2>1, <2>3, <2>5, <2>17, <3>5 DEF Promise!Leave, Promise!Outer
  <2>18. CASE ~was.recovered
    <3>1. now.panic = was.panic
      BY <1>1, <2>7, <2>11, <2>14, <2>15, <2>18
    <3>2. now.recovered = was.recovered
      BY <2>5, <2>11, <2>18 DEF Views
    <3>3. now = was
      BY <2>5, <2>11, <2>13, <3>1, <3>2, SameView
    <3>4. Stack' = rest
      BY <2>4, <2>5, <2>16, <3>3
    <3> QED
      BY <1>1, <1>3, <1>7, <2>1, <2>3, <2>5, <2>18, <3>4 DEF Promise!Leave, Promise!Outer
  <2> QED
    BY <2>17, <2>18
<1> QED
  BY <1>6, <1>7

LEMMA StepRefines ==
    ASSUME StorageAssumption, DistinctAssumption, IInv, IInv', [Next]_vars
    PROVE  [Promise!Next]_(Promise!vars)
<1>1. CASE UNCHANGED vars
  BY <1>1 DEF vars, Promise!vars, Stack, Faulting, Top
<1>2. CASE Faulting \/ Faulting'
  BY <1>2 DEF Promise!Next
<1>3. CASE ~Faulting /\ ~Faulting' /\ Next
  <2>1. ASSUME NEW f \in Functions, Begin(f) \/ Call(f) \/ Defer(f)
        PROVE  Promise!Begin(f) \/ Promise!Call(f) \/ Promise!Defer(f)
    BY <2>1, BeginRefines, CallRefines, DeferRefines
  <2>2. ASSUME NEW p \in Panics \cup {Host}, Throw(p)
        PROVE  \E q \in Panics : Promise!Raise(q)
    <3>1. p # Host
      BY <1>3, <2>2 DEF Throw, Faulting
    <3> QED
      BY <2>2, <3>1, ThrowRefines
  <2>3. ~Suspend
    BY <1>3 DEF Suspend, Faulting
  <2>4. UNCHANGED Faulting
    BY <1>3 DEF Faulting
  <2> QED
    BY <1>3, <2>1, <2>2, <2>3, <2>4, ReturnRefines, RecoverRefines, CatchStutters,
       RunDeferredRefines, LeaveRefines, LeaveReturningRefines
       DEF Next, Promise!Next, Promise!vars
<1> QED
  BY <1>1, <1>2, <1>3

\* A translated function unwinds as Go does, whatever its storage of deferred
\* calls: the refinement of the run, for any functions and any depth.
THEOREM RefinesGoUnwinding ==
    ASSUME StorageAssumption, DistinctAssumption
    PROVE  Spec => ImplementsGoUnwinding
<1>1. Init => Promise!Init
  <2>1. Len(<<>>) = 0
    OBVIOUS
  <2>2. ASSUME Init PROVE Stack = <<>> /\ ~Faulting
    <3>1. Stack = [i \in 1..0 |-> View(frames, flight, i)]
      BY <2>1, <2>2 DEF Init, Stack, Top, View
    <3>2. Stack = <<>>
      BY <3>1
    <3> QED
      BY <2>1, <2>2, <3>2 DEF Init, Faulting, Top, DistinctAssumption
  <2> QED
    BY <2>2 DEF Init, Promise!Init
<1>2. IInv /\ IInv' /\ [Next]_vars => [Promise!Next]_(Promise!vars)
  BY StepRefines
<1> QED
  BY <1>1, <1>2, FramesStayLinked, PTL DEF Spec, ImplementsGoUnwinding, Promise!Spec
=============================================================================
