-------------------------- MODULE ContextTreeProofs --------------------------
(***************************************************************************)
(* Proofs about ContextTree for any contexts, causes and functions: what   *)
(* the program sees of it is Cancellation, functions run at most once,     *)
(* nobody who depends on a cancelled context is forgotten, and an open     *)
(* channel is observed by exactly those who depend on its context.         *)
(***************************************************************************)
EXTENDS ContextTree, SequenceTheorems, TLAPS

Ended == {c \in Contexts : Closed(c)}

\* Frames, of which the closes are of contexts that have ended.
StackOf(s, ended) ==
    /\ s \in Seq(Frames)
    /\ \A i \in 1 .. Len(s) : s[i].kind = "close" => s[i].of \in ended

\* Who subscribed to what.
SubscribersAreRelated ==
    \A c \in Contexts :
        /\ \A d \in Contexts : Propagate(d) \in observers[c] => parent[d] = c
        /\ \A f \in Functions : After(f) \in observers[c] => registered[f] = c

FlagsAgree ==
    \A f \in Functions :
        /\ f \in started \cup stopped => registered[f] # NoContext
        /\ ~(f \in started /\ f \in stopped)
        /\ runs[f] = IF f \in started THEN 1 ELSE 0

\* The inductive invariant.
TreeInv ==
    /\ TypeOK
    /\ StackOf(stack, Ended)
    /\ SubscribersAreRelated
    /\ \A c \in armed \cup listening : Created(c)
    /\ FlagsAgree

USE ParentsAssumption, ErrorsAssumption

Errors == {NoError, Canceled, DeadlineExceeded}

-----------------------------------------------------------------------------
(* Stacks *)

\* What a push leaves.
LEMMA PushedStack ==
  ASSUME NEW s, NEW ended, StackOf(s, ended), NEW frame \in Frames,
         frame.kind = "close" => frame.of \in ended
  PROVE  StackOf(Append(s, frame), ended)
<1>1. /\ Append(s, frame) \in Seq(Frames)
      /\ Len(Append(s, frame)) = Len(s) + 1
      /\ \A i \in 1 .. Len(s) : Append(s, frame)[i] = s[i]
      /\ Append(s, frame)[Len(s) + 1] = frame
  BY AppendProperties DEF StackOf
<1> HIDE DEF Frames
<1>2. Len(s) \in Nat
  BY DEF StackOf
<1> QED
  BY <1>1, <1>2 DEF StackOf

\* What unwinding leaves.
LEMMA UnwoundStack ==
  ASSUME NEW s, NEW ended, StackOf(s, ended), NEW n \in 0 .. Len(s)
  PROVE  StackOf(SubSeq(s, 1, n), ended)
<1>1. \A i \in 1 .. n : s[i] \in Frames
  BY DEF StackOf
<1>2. /\ SubSeq(s, 1, n) \in Seq(Frames)
      /\ Len(SubSeq(s, 1, n)) = n
      /\ \A i \in 1 .. n : SubSeq(s, 1, n)[i] = s[i]
  BY <1>1, SubSeqProperties DEF StackOf
<1> QED
  BY <1>2 DEF StackOf

\* More contexts may have ended.
LEMMA GrownStack ==
  ASSUME NEW s, NEW ended, NEW more, StackOf(s, ended), ended \subseteq more
  PROVE  StackOf(s, more)
BY DEF StackOf

\* The frame on top, and the frames below it.
LEMMA TopOfStack ==
  ASSUME StackOf(stack, Ended), stack # <<>>
  PROVE  /\ Top \in Frames
         /\ Top.kind = "close" => Top.of \in Ended
         /\ StackOf(Popped, Ended)
<1>1. Depth \in Nat \ {0}
  BY EmptySeq DEF StackOf, Depth
<1>2. StackOf(Popped, Ended)
  BY <1>1, UnwoundStack DEF Popped, Depth
<1> QED
  BY <1>1, <1>2 DEF StackOf, Top, Depth

\* A close that told an observer is still a close.
LEMMA TellingStack ==
  ASSUME StackOf(stack, Ended), NEW c \in Contexts, Closing(c),
         NEW o \in Observers
  PROVE  StackOf(Telling(o), Ended)
<1>1. /\ Top \in Frames /\ Top.kind = "close" /\ Top.of \in Ended
      /\ StackOf(Popped, Ended)
  BY TopOfStack DEF Closing
<1>2. Top \in [kind : {"close"}, of : Contexts, told : SUBSET Observers]
  BY <1>1 DEF Frames
<1>3. /\ [Top EXCEPT !.told = @ \cup {o}] \in Frames
      /\ [Top EXCEPT !.told = @ \cup {o}].of = Top.of
  BY <1>2 DEF Frames
<1> DEFINE after == [Top EXCEPT !.told = @ \cup {o}]
<1>4. after \in Frames /\ after.of \in Ended
  BY <1>1, <1>3
<1> HIDE DEF after
<1>5. StackOf(Append(Popped, after), Ended)
  BY <1>1, <1>4, PushedStack
<1> QED
  BY <1>5 DEF Telling, after

\* cancel records an error once and opens a close for it.
LEMMA CancelsInv ==
  ASSUME TypeOK, NEW c \in Contexts, NEW error \in Errors \ {NoError},
         NEW why \in Errors \cup Causes, NEW below, StackOf(below, Ended),
         Cancels(c, error, why, below)
  PROVE  /\ failure' \in [Contexts -> Errors]
         /\ cause' \in [Contexts -> Errors \cup Causes]
         /\ StackOf(stack', Ended')
<1>1. CASE Closed(c)
  BY <1>1 DEF Cancels, TypeOK, Errors, Ended, Closed
<1>2. CASE ~Closed(c)
  <2>1. Ended \subseteq Ended' /\ c \in Ended'
    BY <1>2 DEF Cancels, TypeOK, Errors, Ended, Closed
  <2>2. Close(c) \in Frames /\ Close(c).of = c
    BY DEF Close, Frames
  <2>3. /\ failure' = [failure EXCEPT ![c] = error]
        /\ cause' = [cause EXCEPT ![c] = why]
        /\ stack' = Append(below, Close(c))
    BY <1>2 DEF Cancels
  <2>4. StackOf(below, Ended')
    BY <2>1, GrownStack
  <2>5. StackOf(Append(below, Close(c)), Ended')
    BY <2>1, <2>2, <2>4, PushedStack
  <2>6. failure \in [Contexts -> Errors] /\ cause \in [Contexts -> Errors \cup Causes]
    BY DEF TypeOK, Errors
  <2> QED
    BY <2>3, <2>5, <2>6
<1> QED
  BY <1>1, <1>2

-----------------------------------------------------------------------------
(* Observers *)

\* Observers of different contexts, functions or purposes are different.
LEMMA ObserversDiffer ==
  ASSUME NEW c, NEW d
  PROVE  /\ Propagate(c) # Own(d)
         /\ Propagate(c) # Notify(d)
         /\ Propagate(c) # After(d)
         /\ After(c) # Own(d)
         /\ After(c) # Notify(d)
         /\ Propagate(c) = Propagate(d) => c = d
         /\ After(c) = After(d) => c = d
BY DEF Propagate, Own, Notify, After

\* They are all observers.
LEMMA ObserversTyped ==
  /\ \A c \in Contexts : {Own(c), Propagate(c), Notify(c)} \subseteq Observers
  /\ \A f \in Functions : After(f) \in Observers
BY DEF Observers

-----------------------------------------------------------------------------
(* The invariant *)

\* Nothing is cancelled, subscribed or called in the beginning.
LEMMA InitTreeInv == Init => TreeInv
<1> SUFFICES ASSUME Init PROVE TreeInv
  OBVIOUS
<1>1. StackOf(stack, Ended)
  BY DEF Init, StackOf
<1>2. TypeOK
  BY DEF Init, TypeOK
<1> QED
  BY <1>1, <1>2 DEF Init, TreeInv, SubscribersAreRelated, FlagsAgree

\* Steps that take observers away and leave the functions alone.
LEMMA FewerObservers ==
  ASSUME TreeInv, observers' \in [Contexts -> SUBSET Observers],
         \A c \in Contexts : observers'[c] \subseteq observers[c],
         parent' = parent, registered' = registered
  PROVE  SubscribersAreRelated'
BY DEF TreeInv, SubscribersAreRelated

\* Both ends of a subscription go.
LEMMA UnsubscribedObservers ==
  ASSUME TypeOK, NEW c \in Contexts
  PROVE  /\ Unsubscribed(c) \in [Contexts -> SUBSET Observers]
         /\ \A d \in Contexts : Unsubscribed(c)[d] \subseteq observers[d]
BY DEF Unsubscribed, TypeOK

\* A step that calls a function, and one that does not.
LEMMA RunsInv ==
  ASSUME TreeInv, NEW f \in Functions, f \notin started \cup stopped,
         NEW below, StackOf(below, Ended), Runs(f, below)
  PROVE  /\ started' \subseteq Functions
         /\ runs' \in [Functions -> Nat]
         /\ StackOf(stack', Ended)
         /\ \A g \in Functions : runs'[g] = IF g \in started' THEN 1 ELSE 0
<1>1. Run(f) \in Frames /\ Run(f).kind # "close"
  BY DEF Run, Frames
<1>2. StackOf(stack', Ended)
  BY <1>1, PushedStack DEF Runs
<1> QED
  BY <1>2 DEF Runs, TreeInv, TypeOK, FlagsAgree

\* Every step keeps the invariant.
LEMMA NextTreeInv == TreeInv /\ [Next]_vars => TreeInv'
<1> SUFFICES ASSUME TreeInv, [Next]_vars PROVE TreeInv'
  OBVIOUS
<1> USE DEF cancelVars, afterVars
<1>1. ASSUME NEW c \in Contexts, NEW p \in Contexts \cup {Background},
             NEW kind \in Kinds, Create(c, p, kind)
      PROVE  TreeInv'
  <2> DEFINE notifies == IF kind = "notify" THEN {Notify(c)} ELSE {}
  <2>0. /\ observers' \in [Contexts -> SUBSET Observers]
        /\ \A d \in Contexts :
              observers'[d] \subseteq observers[d] \cup {Own(c), Notify(c)}
                                   \cup (IF d = p THEN {Propagate(c)} ELSE {})
    <3>1. /\ observers \in [Contexts -> SUBSET Observers]
          /\ notifies \subseteq {Notify(c)}
          /\ {Own(c), Notify(c), Propagate(c)} \subseteq Observers
      BY ObserversTyped DEF TreeInv, TypeOK
    <3> HIDE DEF notifies
    <3>2. CASE observers' = observers
      BY <3>1, <3>2
    <3>3. CASE observers' = [observers EXCEPT ![c] = notifies]
      BY <3>1, <3>3
    <3>4. CASE observers' = [observers EXCEPT ![p] = @ \cup {Propagate(c)},
                                              ![c] = {Own(c)} \cup notifies]
      BY <3>1, <3>4
    <3> QED
      BY <1>1, <3>2, <3>3, <3>4 DEF Create, notifies
  <2>1. TypeOK'
    <3>1. p \in Contexts => failure[p] \in Errors /\ cause[p] \in Errors \cup Causes
      BY DEF TreeInv, TypeOK, Errors
    <3>2. failure' \in [Contexts -> Errors] /\ cause' \in [Contexts -> Errors \cup Causes]
      BY <1>1, <3>1 DEF Create, TreeInv, TypeOK, Errors, HasDone
    <3> QED
      BY <1>1, <2>0, <3>2 DEF Create, TreeInv, TypeOK, Errors
  <2>2. StackOf(stack', Ended')
    <3>1. Ended \subseteq Ended'
      BY <1>1 DEF Create, TreeInv, TypeOK, Ended, Closed
    <3> QED
      BY <1>1, <3>1, GrownStack DEF Create, TreeInv
  <2>3. SubscribersAreRelated'
    <3> SUFFICES ASSUME NEW d \in Contexts
                 PROVE  /\ \A e \in Contexts :
                              Propagate(e) \in observers'[d] => parent'[e] = d
                        /\ \A f \in Functions :
                              After(f) \in observers'[d] => registered'[f] = d
      BY DEF SubscribersAreRelated
    <3>1. ASSUME NEW e \in Contexts, Propagate(e) \in observers'[d]
          PROVE  parent'[e] = d
      <4>1. CASE e = c
        <5>1. Propagate(e) \notin observers[d]
          BY <1>1, <4>1 DEF Create, TreeInv, SubscribersAreRelated, Created
        <5>2. d = p
          BY <2>0, <3>1, <5>1, ObserversDiffer
        <5> QED
          BY <1>1, <4>1, <5>2 DEF Create, TreeInv, TypeOK
      <4>2. CASE e # c
        <5>1. Propagate(e) \in observers[d]
          BY <2>0, <3>1, <4>2, ObserversDiffer
        <5> QED
          BY <1>1, <4>2, <5>1 DEF Create, TreeInv, TypeOK, SubscribersAreRelated
      <4> QED
        BY <4>1, <4>2
    <3>2. ASSUME NEW f \in Functions, After(f) \in observers'[d]
          PROVE  registered'[f] = d
      <4>1. After(f) \in observers[d]
        BY <2>0, <3>2, ObserversDiffer
      <4> QED
        BY <1>1, <4>1 DEF Create, TreeInv, SubscribersAreRelated
    <3> QED
      BY <3>1, <3>2
  <2>4. \A d \in armed' \cup listening' : Created(d)'
    BY <1>1 DEF Create, TreeInv, TypeOK, Created
  <2> QED
    BY <1>1, <2>1, <2>2, <2>3, <2>4 DEF Create, TreeInv, FlagsAgree
<1>2. ASSUME NEW c \in Contexts, NEW why \in Causes \cup {Canceled},
             Cancel(c, why)
      PROVE  TreeInv'
  <2>1. /\ failure' \in [Contexts -> Errors]
        /\ cause' \in [Contexts -> Errors \cup Causes]
        /\ StackOf(stack', Ended')
    BY <1>2, CancelsInv DEF Cancel, TreeInv, Errors
  <2> QED
    BY <1>2, <2>1 DEF Cancel, TreeInv, TypeOK, StackOf, SubscribersAreRelated,
       FlagsAgree, Created, Errors
<1>3. ASSUME NEW c \in Contexts, StopNotification(c) PROVE TreeInv'
  <2>1. /\ failure' \in [Contexts -> Errors]
        /\ cause' \in [Contexts -> Errors \cup Causes]
        /\ StackOf(stack', Ended')
    BY <1>3, CancelsInv DEF StopNotification, TreeInv, Errors
  <2>2. SubscribersAreRelated'
    BY <1>3, FewerObservers DEF StopNotification, TreeInv, TypeOK
  <2> QED
    BY <1>3, <2>1, <2>2 DEF StopNotification, TreeInv, TypeOK, StackOf,
       FlagsAgree, Created, Errors
<1>4. ASSUME NEW c \in Contexts, NEW f \in Functions, AfterFunc(f, c)
      PROVE  TreeInv'
  <2>1. f \notin started \cup stopped
    BY <1>4 DEF AfterFunc, TreeInv, FlagsAgree
  <2>2. Ended' = Ended
    BY <1>4 DEF AfterFunc, Ended, Closed
  <2>3. CASE Closed(c)
    <3>1. /\ started' \subseteq Functions
          /\ runs' \in [Functions -> Nat]
          /\ StackOf(stack', Ended)
          /\ \A g \in Functions : runs'[g] = IF g \in started' THEN 1 ELSE 0
      BY <1>4, <2>1, <2>3, RunsInv DEF AfterFunc, TreeInv
    <3>2. SubscribersAreRelated' /\ FlagsAgree'
      BY <1>4, <2>1, <2>3, <3>1 DEF AfterFunc, Runs, TreeInv, TypeOK,
         SubscribersAreRelated, FlagsAgree
    <3>3. TypeOK'
      BY <1>4, <2>3, <3>1 DEF AfterFunc, TreeInv, TypeOK, StackOf
    <3> QED
      BY <1>4, <2>2, <3>1, <3>2, <3>3 DEF AfterFunc, TreeInv, Created
  <2>4. CASE ~Closed(c)
    <3>1. /\ observers' \in [Contexts -> SUBSET Observers]
          /\ \A d \in Contexts :
                observers'[d] \subseteq
                    observers[d] \cup (IF d = c THEN {After(f)} ELSE {})
      <4>1. observers' = [observers EXCEPT ![c] = @ \cup {After(f)}]
        BY <1>4, <2>4 DEF AfterFunc
      <4>2. observers \in [Contexts -> SUBSET Observers] /\ After(f) \in Observers
        BY ObserversTyped DEF TreeInv, TypeOK
      <4> QED
        BY <4>1, <4>2
    <3>2. SubscribersAreRelated'
      <4> SUFFICES ASSUME NEW d \in Contexts
                   PROVE  /\ \A e \in Contexts :
                                Propagate(e) \in observers'[d] => parent'[e] = d
                          /\ \A g \in Functions :
                                After(g) \in observers'[d] => registered'[g] = d
        BY DEF SubscribersAreRelated
      <4>1. ASSUME NEW e \in Contexts, Propagate(e) \in observers'[d]
            PROVE  parent'[e] = d
        <5>1. Propagate(e) \in observers[d]
          BY <3>1, <4>1, ObserversDiffer
        <5> QED
          BY <1>4, <5>1 DEF AfterFunc, TreeInv, SubscribersAreRelated
      <4>2. ASSUME NEW g \in Functions, After(g) \in observers'[d]
            PROVE  registered'[g] = d
        <5>1. CASE g = f /\ d = c
          BY <1>4, <5>1 DEF AfterFunc, TreeInv, TypeOK
        <5>2. CASE ~(g = f /\ d = c)
          <6>1. After(g) \in observers[d]
            BY <3>1, <4>2, <5>2, ObserversDiffer
          <6>2. registered[g] = d /\ g # f
            BY <1>4, <6>1 DEF AfterFunc, TreeInv, SubscribersAreRelated
          <6> QED
            BY <1>4, <6>2 DEF AfterFunc, TreeInv, TypeOK
        <5> QED
          BY <5>1, <5>2
      <4> QED
        BY <4>1, <4>2
    <3>3. TypeOK'
      BY <1>4, <2>4, <3>1 DEF AfterFunc, TreeInv, TypeOK
    <3>4. FlagsAgree'
      BY <1>4, <2>4 DEF AfterFunc, TreeInv, TypeOK, FlagsAgree
    <3> QED
      BY <1>4, <2>2, <2>4, <3>2, <3>3, <3>4 DEF AfterFunc, TreeInv, Created
  <2> QED
    BY <2>3, <2>4
<1>5. ASSUME NEW f \in Functions, StopAfterFunc(f) PROVE TreeInv'
  <2>1. TypeOK'
    BY <1>5 DEF StopAfterFunc, TreeInv, TypeOK
  <2>2. SubscribersAreRelated'
    BY <1>5, <2>1, FewerObservers DEF StopAfterFunc, TreeInv, TypeOK
  <2>3. Ended' = Ended /\ FlagsAgree'
    BY <1>5 DEF StopAfterFunc, TreeInv, FlagsAgree, Ended, Closed
  <2> QED
    BY <1>5, <2>1, <2>2, <2>3 DEF StopAfterFunc, TreeInv, Created
<1>6. ASSUME NEW c \in Contexts, Expire(c) PROVE TreeInv'
  <2>1. /\ failure' \in [Contexts -> Errors]
        /\ cause' \in [Contexts -> Errors \cup Causes]
        /\ StackOf(stack', Ended')
    BY <1>6, CancelsInv DEF Expire, TreeInv, Errors
  <2> QED
    BY <1>6, <2>1 DEF Expire, TreeInv, TypeOK, StackOf, SubscribersAreRelated,
       FlagsAgree, Created, Errors
<1>7. CASE Return
  <2>1. StackOf(stack', Ended)
    BY <1>7, TopOfStack DEF Return, TreeInv
  <2> QED
    BY <1>7, <2>1 DEF Return, TreeInv, TypeOK, StackOf, SubscribersAreRelated,
       FlagsAgree, Created, Ended, Closed
<1>8. ASSUME NEW recovered \in 0 .. Depth, Panic(recovered) PROVE TreeInv'
  <2>1. StackOf(stack', Ended)
    BY <1>8, UnwoundStack DEF Panic, TreeInv, Depth
  <2> QED
    BY <1>8, <2>1 DEF Panic, TreeInv, TypeOK, StackOf, SubscribersAreRelated,
       FlagsAgree, Created, Ended, Closed
<1>9. ASSUME NEW c \in Contexts, TellOwn(c) PROVE TreeInv'
  <2>1. StackOf(stack', Ended)
    BY <1>9, TellingStack DEF TellOwn, TreeInv, Observers
  <2>2. /\ observers' \in [Contexts -> SUBSET Observers]
        /\ \A d \in Contexts : observers'[d] \subseteq observers[d]
    BY <1>9, UnsubscribedObservers DEF TellOwn, TreeInv, TypeOK
  <2>3. SubscribersAreRelated'
    BY <1>9, <2>2, FewerObservers DEF TellOwn
  <2> QED
    BY <1>9, <2>1, <2>2, <2>3 DEF TellOwn, TreeInv, TypeOK, StackOf, FlagsAgree,
       Created, Ended, Closed
<1>10. ASSUME NEW c \in Contexts, NEW d \in Contexts, TellChild(c, d)
       PROVE  TreeInv'
  <2>1. StackOf(Telling(Propagate(d)), Ended)
    BY <1>10, TellingStack DEF TellChild, TreeInv, Observers
  <2>2. failure[c] \in Errors \ {NoError} /\ cause[c] \in Errors \cup Causes
    BY <1>10, TopOfStack DEF TellChild, Closing, TreeInv, TypeOK, Errors, Ended,
       Closed
  <2>3. /\ failure' \in [Contexts -> Errors]
        /\ cause' \in [Contexts -> Errors \cup Causes]
        /\ StackOf(stack', Ended')
    <3>1. CASE d \in claimed
      BY <1>10, <2>1, <3>1 DEF TellChild, TreeInv, TypeOK, Errors, Ended, Closed
    <3>2. CASE d \notin claimed
      BY <1>10, <2>1, <2>2, <3>2, CancelsInv DEF TellChild, TreeInv
    <3> QED
      BY <3>1, <3>2
  <2>4. /\ observers' \in [Contexts -> SUBSET Observers]
        /\ \A e \in Contexts : observers'[e] \subseteq observers[e]
    BY <1>10, UnsubscribedObservers DEF TellChild, TreeInv, TypeOK
  <2>5. SubscribersAreRelated'
    BY <1>10, <2>4, FewerObservers DEF TellChild
  <2> QED
    BY <1>10, <2>3, <2>4, <2>5 DEF TellChild, TreeInv, TypeOK, StackOf,
       FlagsAgree, Created, Errors
<1>11. ASSUME NEW c \in Contexts, TellNotify(c) PROVE TreeInv'
  <2>1. StackOf(Telling(Notify(c)), Ended)
    BY <1>11, TellingStack DEF TellNotify, TreeInv, Observers
  <2>2. /\ failure' \in [Contexts -> Errors]
        /\ cause' \in [Contexts -> Errors \cup Causes]
        /\ StackOf(stack', Ended')
    BY <1>11, <2>1, CancelsInv DEF TellNotify, TreeInv, Errors
  <2>3. SubscribersAreRelated'
    BY <1>11, FewerObservers DEF TellNotify, TreeInv, TypeOK
  <2> QED
    BY <1>11, <2>2, <2>3 DEF TellNotify, TreeInv, TypeOK, StackOf, FlagsAgree,
       Created, Errors
<1>12. ASSUME NEW c \in Contexts, NEW f \in Functions, TellAfter(c, f)
       PROVE  TreeInv'
  <2>1. StackOf(Telling(After(f)), Ended) /\ Ended' = Ended
    BY <1>12, TellingStack DEF TellAfter, TreeInv, Observers, Ended, Closed
  <2>2. CASE f \in stopped \cup started
    BY <1>12, <2>1, <2>2 DEF TellAfter, TreeInv, TypeOK, StackOf,
       SubscribersAreRelated, FlagsAgree, Created
  <2>3. CASE f \notin stopped \cup started
    <3>1. /\ started' \subseteq Functions
          /\ runs' \in [Functions -> Nat]
          /\ StackOf(stack', Ended)
          /\ \A g \in Functions : runs'[g] = IF g \in started' THEN 1 ELSE 0
      BY <1>12, <2>1, <2>3, RunsInv DEF TellAfter
    <3>2. registered[f] = c
      BY <1>12 DEF TellAfter, NextTold, Untold, TreeInv, SubscribersAreRelated
    <3>3. FlagsAgree'
      BY <1>12, <2>3, <3>1, <3>2 DEF TellAfter, Runs, TreeInv, FlagsAgree
    <3> QED
      BY <1>12, <2>1, <2>3, <3>1, <3>3 DEF TellAfter, TreeInv, TypeOK, StackOf,
         SubscribersAreRelated, Created
  <2> QED
    BY <2>2, <2>3
<1>13. ASSUME NEW c \in Contexts, CloseReturns(c) PROVE TreeInv'
  <2>1. StackOf(stack', Ended)
    BY <1>13, TopOfStack DEF CloseReturns, Closing, TreeInv
  <2>2. SubscribersAreRelated'
    BY <1>13, FewerObservers DEF CloseReturns, TreeInv, TypeOK
  <2> QED
    BY <1>13, <2>1, <2>2 DEF CloseReturns, TreeInv, TypeOK, StackOf, FlagsAgree,
       Created, Ended, Closed
<1>14. CASE UNCHANGED vars
  BY <1>14 DEF vars, TreeInv, TypeOK, SubscribersAreRelated, FlagsAgree, Created,
     Ended, Closed
<1> QED
  BY <1>1, <1>2, <1>3, <1>4, <1>5, <1>6, <1>7, <1>8, <1>9, <1>10, <1>11, <1>12,
     <1>13, <1>14 DEF Next, CloseStep

\* TreeInv holds of every state a program reaches.
THEOREM TreeInvariant == Spec => []TreeInv
BY InitTreeInv, NextTreeInv, PTL DEF Spec

\* Every variable of a context, of a channel and of a registration keeps its
\* type, in particular the stack of closes and functions under way.
THEOREM TypeCorrect == Spec => []TypeOK
BY TreeInvariant, PTL DEF TreeInv

\* The started and stopped flags of AfterFunc keep a function from running
\* twice, and from running after stop has reported that it would not.
THEOREM FunctionsRunAtMostOnce == Spec => []FunctionsRunOnce
<1>1. TreeInv => FunctionsRunOnce
  BY DEF TreeInv, FlagsAgree, FunctionsRunOnce
<1> QED
  BY <1>1, TreeInvariant, PTL

-----------------------------------------------------------------------------
(* Refinement *)

\* A close under way is not the program's.
LEMMA ClosingTakesControl ==
  ASSUME TreeInv, NEW c \in Contexts, Closing(c)
  PROVE  ~UserRuns /\ Closed(c)
BY TopOfStack DEF TreeInv, Closing, UserRuns, Ended

\* cancel, called in control, is a cancellation or nothing.
LEMMA CancelsSimulates ==
  ASSUME NEW c \in Contexts, NEW error, NEW why, NEW below,
         Cancels(c, error, why, below), parent' = parent
  PROVE  Promise!Records(c, error, why) \/ UNCHANGED cancelVars
BY DEF Cancels, Closed, cancelVars, Promise!Records, Promise!Closed

\* Every step is one of Cancellation or leaves what the program sees alone.
LEMMA StepSimulates ==
  TreeInv /\ [Next]_vars => [Promise!Next]_Promise!cancelVars
<1> SUFFICES ASSUME TreeInv, [Next]_vars
             PROVE  Promise!Next \/ UNCHANGED cancelVars
  BY DEF cancelVars, Promise!cancelVars
<1>1. ASSUME NEW c \in Contexts, NEW p \in Contexts \cup {Background},
             NEW kind \in Kinds, Create(c, p, kind)
      PROVE  Promise!Create(c, p)
  BY <1>1 DEF Create, HasDone, Closed, Created, Promise!Create, Promise!Closed,
     Promise!Created, Promise!CanBeParent
<1>2. ASSUME NEW c \in Contexts, UserRuns, Created(c),
             NEW why \in Causes \cup {Canceled},
             Cancels(c, Canceled, why, stack), parent' = parent
      PROVE  Promise!CancelledByCall(c) \/ UNCHANGED cancelVars
  BY <1>2, CancelsSimulates DEF Promise!CancelledByCall, Promise!Created, Created
<1>3. ASSUME NEW c \in Contexts, Cancel(c, Canceled) \/ StopNotification(c)
      PROVE  Promise!CancelledByCall(c) \/ UNCHANGED cancelVars
  BY <1>2, <1>3 DEF Cancel, StopNotification, TreeInv
<1>4. ASSUME NEW c \in Contexts, NEW why \in Causes \cup {Canceled},
             Cancel(c, why)
      PROVE  Promise!CancelledByCall(c) \/ UNCHANGED cancelVars
  BY <1>2, <1>4 DEF Cancel
<1>5. ASSUME NEW c \in Contexts, Expire(c)
      PROVE  Promise!CancelledByTimer(c) \/ UNCHANGED cancelVars
  BY <1>5, CancelsSimulates DEF Expire, TreeInv, UserRuns, Created,
     Promise!CancelledByTimer, Promise!Created
<1>6. ASSUME NEW c \in Contexts, NEW d \in Contexts, TellChild(c, d)
      PROVE  Promise!FollowsParent(d) \/ UNCHANGED cancelVars
  <2>1. ~UserRuns /\ Closed(c)
    BY <1>6, ClosingTakesControl DEF TellChild
  <2>2. parent[d] = c
    BY <1>6 DEF TellChild, NextTold, Untold, TreeInv, SubscribersAreRelated
  <2>3. CASE d \in claimed
    BY <1>6, <2>3 DEF TellChild, cancelVars
  <2>4. CASE d \notin claimed
    BY <1>6, <2>1, <2>2, <2>4, CancelsSimulates
    DEF TellChild, Closed, Promise!FollowsParent, Promise!Closed
  <2> QED
    BY <2>3, <2>4
<1>7. ASSUME NEW c \in Contexts, TellNotify(c) PROVE UNCHANGED cancelVars
  BY <1>7, ClosingTakesControl DEF TellNotify, Cancels, cancelVars
<1>8. ASSUME NEW c \in Contexts,
             TellOwn(c) \/ CloseReturns(c)
             \/ \E f \in Functions : TellAfter(c, f) \/ AfterFunc(f, c)
      PROVE  UNCHANGED cancelVars
  BY <1>8 DEF TellOwn, CloseReturns, TellAfter, AfterFunc, cancelVars
<1>9. CASE \/ Return
           \/ \E f \in Functions : StopAfterFunc(f)
           \/ \E recovered \in 0 .. Depth : Panic(recovered)
           \/ UNCHANGED vars
  BY <1>9 DEF Return, StopAfterFunc, Panic, vars, cancelVars
<1> QED
  BY <1>1, <1>3, <1>4, <1>5, <1>6, <1>7, <1>8, <1>9
  DEF Next, CloseStep, Promise!Next

\* For any tree of contexts and any program: each context is cancelled once,
\* by a call, by its timer, or as its parent was, with the parent's error and
\* cause, and no callback that cancels, creates, stops or panics while a close
\* is under way can make it otherwise.
THEOREM RefinesCancellation == Spec => ImplementsCancellation
<1>1. Init => Promise!Init
  BY DEF Init, Promise!Init
<1> QED
  BY <1>1, TreeInvariant, StepSimulates, PTL
  DEF Spec, ImplementsCancellation, Promise!Spec

-----------------------------------------------------------------------------
(* Nobody is forgotten *)

\* A close of c on the stack has yet to tell o.
HasFrame(s, c, o) ==
    \E i \in 1 .. Len(s) : s[i].kind = "close" /\ s[i].of = c /\ o \notin s[i].told

\* The observers that c's close must reach.
Dependents(c) ==
    {Propagate(d) : d \in Children(c)} \cup {After(f) : f \in Registered(c)}
    \cup {Notify(c)}

\* The close was observed, or need not be any more.
Served(o) ==
    \/ o.kind = "own"
    \/ o.kind = "propagate" /\ Closed(o.of)
    \/ o.kind = "after" /\ o.of \in started \cup stopped
    \/ o.kind = "notify" /\ o.of \notin listening

\* It will be told: by a close to come or by the one under way.
Waiting(c, o) ==
    /\ o \in observers[c]
    /\ Closed(c) => HasFrame(stack, c, o)

Covered == \A c \in Contexts \ interrupted : \A o \in Dependents(c) :
               Served(o) \/ Waiting(c, o)

OneCloseEach(s) ==
    \A i, j \in 1 .. Len(s) :
        (s[i].kind = "close" /\ s[j].kind = "close" /\ s[i].of = s[j].of) => i = j

RelatedAreCreated ==
    /\ \A c \in Contexts : Closed(c) => Created(c)
    /\ \A d \in Contexts : parent[d] \in Contexts => Created(parent[d])
    /\ \A f \in Functions : registered[f] \in Contexts => Created(registered[f])

CoverInv ==
    /\ Covered
    /\ OneCloseEach(stack)
    /\ RelatedAreCreated
    /\ claimed \subseteq Ended

\* A push keeps the closes there were; a new close has told nobody.
LEMMA PushKeepsFrames ==
  ASSUME NEW s \in Seq(Frames), NEW frame \in Frames, NEW c, NEW o
  PROVE  /\ HasFrame(s, c, o) => HasFrame(Append(s, frame), c, o)
         /\ frame = Close(c) => HasFrame(Append(s, frame), c, o)
<1>1. /\ Len(Append(s, frame)) = Len(s) + 1
      /\ \A i \in 1 .. Len(s) : Append(s, frame)[i] = s[i]
      /\ Append(s, frame)[Len(s) + 1] = frame
      /\ Len(s) \in Nat
  BY AppendProperties
<1>2. HasFrame(s, c, o) => HasFrame(Append(s, frame), c, o)
  BY <1>1 DEF HasFrame
<1>3. frame = Close(c) => HasFrame(Append(s, frame), c, o)
  BY <1>1 DEF HasFrame, Close
<1> QED
  BY <1>2, <1>3

\* The frames below the top.
LEMMA PoppedStack ==
  ASSUME StackOf(stack, Ended), stack # <<>>
  PROVE  /\ Depth \in Nat \ {0} /\ stack \in Seq(Frames)
         /\ Popped \in Seq(Frames) /\ Len(Popped) = Depth - 1
         /\ \A i \in 1 .. Depth - 1 : Popped[i] = stack[i]
<1>1. Depth \in Nat \ {0} /\ stack \in Seq(Frames)
  BY EmptySeq DEF StackOf, Depth
<1>2. \A i \in 1 .. Depth - 1 : stack[i] \in Frames
  BY <1>1 DEF Depth
<1>3. 1 \in Int /\ Depth - 1 \in Int
  BY <1>1
<1>4. /\ Popped \in Seq(Frames)
      /\ Len(Popped) = IF 1 <= Depth - 1 THEN Depth - 1 - 1 + 1 ELSE 0
      /\ \A i \in 1 .. Depth - 1 - 1 + 1 : Popped[i] = stack[1 + i - 1]
  BY <1>2, <1>3, SubSeqProperties DEF Popped
<1> QED
  BY <1>1, <1>4

\* A frame that is done is missed by nobody it had told.
LEMMA PoppingKeepsFrames ==
  ASSUME StackOf(stack, Ended), stack # <<>>, NEW e, NEW o,
         HasFrame(stack, e, o),
         ~(Top.kind = "close" /\ Top.of = e /\ o \notin Top.told)
  PROVE  HasFrame(Popped, e, o)
BY PoppedStack DEF HasFrame, Top, Depth

\* What telling makes of the stack.
LEMMA ToldStack ==
  ASSUME StackOf(stack, Ended), NEW c \in Contexts, Closing(c),
         NEW o \in Observers
  PROVE  /\ Len(Telling(o)) = Depth /\ Depth \in Nat \ {0}
         /\ \A i \in 1 .. Depth - 1 : Telling(o)[i] = stack[i]
         /\ Telling(o)[Depth].kind = "close"
         /\ Telling(o)[Depth].of = c
         /\ Telling(o)[Depth].told = Top.told \cup {o}
<1>1. Top \in [kind : {"close"}, of : Contexts, told : SUBSET Observers]
  BY TopOfStack DEF Frames, Closing
<1> DEFINE after == [Top EXCEPT !.told = @ \cup {o}]
<1>2. /\ after \in Frames /\ after.kind = "close" /\ after.of = c
      /\ after.told = Top.told \cup {o}
  BY <1>1 DEF Frames, Closing
<1> HIDE DEF after
<1>3. /\ Len(Append(Popped, after)) = Depth /\ Depth \in Nat \ {0}
      /\ \A i \in 1 .. Depth - 1 : Append(Popped, after)[i] = stack[i]
      /\ Append(Popped, after)[Depth] = after
  BY <1>2, PoppedStack, AppendProperties DEF Closing
<1> QED
  BY <1>2, <1>3 DEF Telling, after

\* Telling one observer leaves the others to be told.
LEMMA TellingKeepsFrames ==
  ASSUME StackOf(stack, Ended), NEW c \in Contexts, Closing(c),
         NEW told \in Observers, NEW e, NEW o,
         HasFrame(stack, e, o), ~(e = c /\ o = told)
  PROVE  HasFrame(Telling(told), e, o)
<1>1. PICK i \in 1 .. Depth :
          stack[i].kind = "close" /\ stack[i].of = e /\ o \notin stack[i].told
  BY DEF HasFrame, Depth
<1>2. CASE i = Depth
  BY <1>1, <1>2, ToldStack DEF HasFrame, Closing, Top
<1>3. CASE i # Depth
  BY <1>1, <1>3, ToldStack DEF HasFrame
<1> QED
  BY <1>2, <1>3

\* A context is closed once: a push, an unwinding and a telling keep it so.
LEMMA PushKeepsOneClose ==
  ASSUME NEW s, NEW ended, StackOf(s, ended), OneCloseEach(s), NEW frame \in Frames,
         frame.kind = "close" => frame.of \notin ended
  PROVE  OneCloseEach(Append(s, frame))
<1>1. /\ Len(Append(s, frame)) = Len(s) + 1
      /\ \A i \in 1 .. Len(s) : Append(s, frame)[i] = s[i]
      /\ Append(s, frame)[Len(s) + 1] = frame
      /\ Len(s) \in Nat
  BY AppendProperties DEF StackOf
<1> QED
  BY <1>1 DEF OneCloseEach, StackOf

LEMMA UnwindingKeepsOneClose ==
  ASSUME NEW s, NEW ended, StackOf(s, ended), OneCloseEach(s), NEW n \in 0 .. Len(s)
  PROVE  OneCloseEach(SubSeq(s, 1, n))
<1>1. \A i \in 1 .. n : s[i] \in Frames
  BY DEF StackOf
<1>2. /\ Len(SubSeq(s, 1, n)) = n
      /\ \A i \in 1 .. n : SubSeq(s, 1, n)[i] = s[i]
  BY <1>1, SubSeqProperties DEF StackOf
<1> QED
  BY <1>2 DEF OneCloseEach, StackOf

LEMMA TellingKeepsOneClose ==
  ASSUME StackOf(stack, Ended), OneCloseEach(stack), NEW c \in Contexts, Closing(c),
         NEW o \in Observers
  PROVE  OneCloseEach(Telling(o))
BY ToldStack DEF OneCloseEach, Closing, Top, Depth

\* What cancel keeps: the stack below, and what waits for it.
LEMMA CancelsCover ==
  ASSUME TypeOK, NEW c \in Contexts, NEW error \in Errors \ {NoError}, NEW why,
         NEW below, StackOf(below, Ended), OneCloseEach(below),
         Cancels(c, error, why, below)
  PROVE  /\ Ended' \in {Ended, Ended \cup {c}} /\ c \in Ended'
         /\ OneCloseEach(stack')
         /\ \A e, o : HasFrame(below, e, o) => HasFrame(stack', e, o)
         /\ \A o : c \notin Ended => HasFrame(stack', c, o)
<1>1. CASE Closed(c)
  BY <1>1 DEF Cancels, Ended, Closed
<1>2. CASE ~Closed(c)
  <2>1. Ended' = Ended \cup {c}
    BY <1>2 DEF Cancels, TypeOK, Errors, Ended, Closed
  <2>2. Close(c) \in Frames /\ Close(c).of = c /\ c \notin Ended
    BY <1>2 DEF Close, Frames, Ended
  <2>3. stack' = Append(below, Close(c)) /\ below \in Seq(Frames)
    BY <1>2 DEF Cancels, StackOf
  <2>4. OneCloseEach(stack')
    BY <2>2, <2>3, PushKeepsOneClose
  <2>5. /\ \A e, o : HasFrame(below, e, o) => HasFrame(stack', e, o)
        /\ \A o : HasFrame(stack', c, o)
    BY <2>2, <2>3, PushKeepsFrames
  <2> QED
    BY <2>1, <2>4, <2>5
<1> QED
  BY <1>1, <1>2

\* Steps that create no context and register no function keep everyone
\* covered if whoever waited still waits or was served.
LEMMA CoverStep ==
  ASSUME TreeInv, CoverInv, parent' = parent, registered' = registered,
         interrupted \subseteq interrupted', Ended \subseteq Ended',
         started \subseteq started', stopped \subseteq stopped',
         listening' \subseteq listening,
         \A c \in Contexts \ interrupted', o \in Observers :
             Waiting(c, o) => Served(o)' \/ Waiting(c, o)'
  PROVE  Covered'
<1> SUFFICES ASSUME NEW c \in Contexts \ interrupted', NEW o \in Dependents(c)
             PROVE  Served(o)' \/ Waiting(c, o)'
  BY DEF Covered, Dependents, Children, Registered
<1>1. o \in Observers
  BY ObserversTyped DEF Dependents, Children, Registered
<1>2. Served(o) => Served(o)'
  <2>1. o.kind = "propagate" => o.of \in Contexts
    BY DEF Dependents, Children, Registered, Propagate, After, Notify
  <2> QED
    BY <2>1 DEF Served, Ended
<1>3. Served(o) \/ Waiting(c, o)
  BY DEF CoverInv, Covered
<1> QED
  BY <1>1, <1>2, <1>3

\* In the beginning there is nobody.
LEMMA InitCoverInv == Init => CoverInv
<1> SUFFICES ASSUME Init PROVE CoverInv
  OBVIOUS
<1>1. Covered
  BY DEF Init, Covered, Dependents, Children, Registered, Served, Notify
<1>2. OneCloseEach(stack)
  BY DEF Init, OneCloseEach
<1> QED
  BY <1>1, <1>2 DEF Init, CoverInv, RelatedAreCreated, Closed, Ended

\* A call or a timer that cancels c, from the frames in control.
LEMMA CancelKeepsCover ==
  ASSUME TreeInv, CoverInv, NEW c \in Contexts, Created(c),
         NEW error \in Errors \ {NoError}, NEW why,
         Cancels(c, error, why, stack),
         UNCHANGED <<parent, claimed, afterVars, interrupted>>,
         listening' \subseteq listening,
         \A e \in Contexts : observers'[e] \subseteq observers[e],
         \A e \in Contexts, o \in Observers :
             o \in observers[e] \ observers'[e] => Served(o)'
  PROVE  CoverInv'
<1> USE DEF afterVars
<1>1. /\ Ended' \in {Ended, Ended \cup {c}} /\ c \in Ended'
      /\ OneCloseEach(stack')
      /\ \A e, o : HasFrame(stack, e, o) => HasFrame(stack', e, o)
      /\ \A o : c \notin Ended => HasFrame(stack', c, o)
  BY CancelsCover DEF TreeInv, CoverInv
<1>2. ASSUME NEW e \in Contexts \ interrupted', NEW o \in Observers, Waiting(e, o)
      PROVE  Served(o)' \/ Waiting(e, o)'
  BY <1>1, <1>2 DEF Waiting, Ended
<1>3. Covered'
  BY <1>1, <1>2, CoverStep
<1>4. RelatedAreCreated'
  BY <1>1 DEF CoverInv, RelatedAreCreated, Created, Ended
<1>5. claimed' \subseteq Ended'
  BY <1>1 DEF CoverInv
<1> QED
  BY <1>1, <1>3, <1>4, <1>5 DEF CoverInv

\* A step of c's close, after which told is served.
LEMMA TellingKeepsCover ==
  ASSUME TreeInv, CoverInv, NEW c \in Contexts, Closing(c), NEW told \in Observers,
         Served(told)',
         UNCHANGED <<parent, registered, stopped, interrupted>>,
         Ended \subseteq Ended', started \subseteq started',
         listening' \subseteq listening,
         \A e \in Contexts, o \in Observers :
             o \in observers[e] \ observers'[e] => Served(o)',
         \A e, o : HasFrame(Telling(told), e, o) => HasFrame(stack', e, o),
         \A e, o : e \in Ended' \ Ended => HasFrame(stack', e, o)
  PROVE  Covered'
<1> SUFFICES ASSUME NEW e \in Contexts \ interrupted', NEW o \in Observers,
                    Waiting(e, o)
             PROVE  Served(o)' \/ Waiting(e, o)'
  BY CoverStep
<1>1. CASE o = told
  BY <1>1
<1>2. CASE o # told /\ o \notin observers'[e]
  BY <1>2 DEF Waiting
<1>3. CASE o # told /\ o \in observers'[e]
  <2>1. CASE e \in Ended
    <3>1. HasFrame(Telling(told), e, o)
      BY <1>3, <2>1, TellingKeepsFrames DEF Waiting, Ended, TreeInv
    <3> QED
      BY <1>3, <3>1 DEF Waiting
  <2>2. CASE e \notin Ended
    BY <1>3, <2>2 DEF Waiting, Ended
  <2> QED
    BY <2>1, <2>2
<1> QED
  BY <1>1, <1>2, <1>3

\* Every step leaves nobody forgotten.
LEMMA NextCoverInv == TreeInv /\ CoverInv /\ [Next]_vars => CoverInv'
<1> SUFFICES ASSUME TreeInv, CoverInv, [Next]_vars PROVE CoverInv'
  OBVIOUS
<1> USE DEF cancelVars, afterVars
<1>1. ASSUME NEW c \in Contexts, NEW p \in Contexts \cup {Background},
             NEW kind \in Kinds, Create(c, p, kind)
      PROVE  CoverInv'
  <2>1. /\ c # p /\ ~Closed(c) /\ c \notin listening /\ ~Created(c)
        /\ parent' = [parent EXCEPT ![c] = p]
        /\ \A d \in Contexts : parent[d] # c
        /\ \A f \in Functions : registered[f] # c
    BY <1>1 DEF Create, Created, TreeInv, CoverInv, RelatedAreCreated
  <2>2. \A d \in Contexts \ {c} :
            /\ observers[d] \subseteq observers'[d]
            /\ d \in listening' <=> d \in listening
            /\ failure'[d] = failure[d]
    BY <1>1, <2>1 DEF Create, TreeInv, TypeOK, HasDone
  <2>3. p \in Contexts => Closed(c)' \/ (~Closed(p) /\ Propagate(c) \in observers'[p])
    BY <1>1, <2>1 DEF Create, TreeInv, TypeOK, HasDone, Closed
  <2>4. c \in listening' => ~Closed(c)' /\ Notify(c) \in observers'[c]
    BY <1>1, <2>1 DEF Create, TreeInv, TypeOK, HasDone, Closed
  <2>5. Covered'
    <3> SUFFICES ASSUME NEW e \in Contexts \ interrupted, NEW o \in Dependents(e)'
                 PROVE  Served(o)' \/ Waiting(e, o)'
      BY <1>1 DEF Covered, Create
    <3>1. CASE o = Propagate(c) /\ parent'[c] = e
      <4>1. p = e
        BY <2>1, <3>1 DEF TreeInv, TypeOK
      <4>2. CASE Closed(c)'
        BY <3>1, <4>2 DEF Served, Propagate
      <4>3. CASE ~Closed(c)'
        BY <2>1, <2>2, <2>3, <3>1, <4>1, <4>3 DEF Waiting, Closed
      <4> QED
        BY <4>2, <4>3
    <3>2. CASE o = Notify(c) /\ e = c
      BY <2>4, <3>2 DEF Served, Waiting, Notify
    <3>3. CASE o \in Dependents(e) /\ e # c
      <4>1. Served(o) \/ Waiting(e, o)
        BY <3>3 DEF CoverInv, Covered
      <4>2. o.of # c \/ o.kind \notin {"propagate", "notify"}
        BY <2>1, <3>3 DEF Dependents, Children, Registered, Propagate, After,
           Notify, Created
      <4>3. o.kind \in {"propagate", "notify"} => o.of \in Contexts
        BY DEF Dependents, Children, Registered, Propagate, After, Notify
      <4>4. Served(o) => Served(o)'
        BY <1>1, <2>2, <4>2, <4>3 DEF Served, Create, Closed
      <4>5. Waiting(e, o) => Waiting(e, o)'
        BY <1>1, <2>2, <3>3 DEF Waiting, Create, Closed
      <4> QED
        BY <4>1, <4>4, <4>5
    <3>4. \/ o = Propagate(c) /\ parent'[c] = e
          \/ o = Notify(c) /\ e = c
          \/ o \in Dependents(e) /\ e # c
      <4>1. \/ \E d \in Contexts : o = Propagate(d) /\ parent'[d] = e
            \/ \E f \in Functions : o = After(f) /\ registered'[f] = e
            \/ o = Notify(e)
        BY DEF Dependents, Children, Registered
      <4>2. registered' = registered /\ \A d \in Contexts \ {c} : parent'[d] = parent[d]
        BY <1>1, <2>1 DEF Create, TreeInv, TypeOK
      <4> QED
        BY <2>1, <4>1, <4>2 DEF Dependents, Children, Registered
    <3> QED
      BY <3>1, <3>2, <3>3, <3>4
  <2>6. RelatedAreCreated'
    <3>1. Created(c)' /\ \A d \in Contexts : Created(d) => Created(d)'
      BY <2>1 DEF TreeInv, TypeOK, Created
    <3>2. \A d \in Contexts : Closed(d)' => Created(d)'
      BY <2>2, <3>1 DEF CoverInv, RelatedAreCreated, Closed
    <3>3. \A d \in Contexts : parent'[d] \in Contexts => Created(parent[d])' \/ d = c
      BY <2>1, <3>1 DEF TreeInv, TypeOK, CoverInv, RelatedAreCreated
    <3>4. \A d \in Contexts : parent'[d] \in Contexts => parent'[parent'[d]] # NoContext
      BY <1>1, <2>1, <3>1, <3>3 DEF Create, TreeInv, TypeOK, CoverInv,
         RelatedAreCreated, Created
    <3>5. \A f \in Functions : registered'[f] \in Contexts => parent'[registered'[f]] # NoContext
      BY <1>1, <3>1 DEF Create, CoverInv, RelatedAreCreated, Created
    <3> QED
      BY <3>2, <3>4, <3>5 DEF RelatedAreCreated, Created
  <2>7. claimed' \subseteq Ended'
    BY <1>1, <2>1, <2>2 DEF Create, CoverInv, Ended, Closed
  <2> QED
    BY <1>1, <2>5, <2>6, <2>7 DEF CoverInv, Create
<1>2. ASSUME NEW c \in Contexts, NEW why \in Causes \cup {Canceled},
             Cancel(c, why)
      PROVE  CoverInv'
  BY <1>2, CancelKeepsCover DEF Cancel, Errors
<1>3. ASSUME NEW c \in Contexts, StopNotification(c) PROVE CoverInv'
  <2>1. /\ \A e \in Contexts : observers'[e] \subseteq observers[e]
        /\ \A e \in Contexts, o \in Observers :
              o \in observers[e] \ observers'[e] => o = Notify(c)
    BY <1>3 DEF StopNotification, TreeInv, TypeOK
  <2>2. Served(Notify(c))'
    BY <1>3 DEF StopNotification, Served, Notify
  <2>3. \A e \in Contexts, o \in Observers :
            o \in observers[e] \ observers'[e] => Served(o)'
    BY <2>1, <2>2
  <2> QED
    BY <1>3, <2>1, <2>3, CancelKeepsCover DEF StopNotification, Errors, TreeInv
<1>4. ASSUME NEW c \in Contexts, Expire(c) PROVE CoverInv'
  BY <1>4, CancelKeepsCover DEF Expire, Errors, TreeInv
<1>5. ASSUME NEW c \in Contexts, NEW f \in Functions, AfterFunc(f, c)
      PROVE  CoverInv'
  <2>1. /\ Ended' = Ended /\ \A e \in Contexts : Closed(e)' <=> Closed(e)
        /\ registered' = [registered EXCEPT ![f] = c]
        /\ registered[f] = NoContext
    BY <1>5 DEF AfterFunc, Ended, Closed
  <2>2. /\ \A e \in Contexts : observers[e] \subseteq observers'[e]
        /\ started \subseteq started'
        /\ \A e, o : HasFrame(stack, e, o) => HasFrame(stack', e, o)
        /\ OneCloseEach(stack')
        /\ f \in started' \/ (~Closed(c) /\ After(f) \in observers'[c])
    <3>1. CASE Closed(c)
      <4>1. stack' = Append(stack, Run(f)) /\ f \in started' /\ started \subseteq started'
        BY <1>5, <3>1 DEF AfterFunc, Runs
      <4>2. Run(f) \in Frames /\ Run(f).kind # "close" /\ stack \in Seq(Frames)
        BY DEF Run, Frames, TreeInv, TypeOK
      <4>3. OneCloseEach(stack')
        BY <4>1, <4>2, PushKeepsOneClose DEF TreeInv, CoverInv
      <4> QED
        BY <1>5, <3>1, <4>1, <4>2, <4>3, PushKeepsFrames DEF AfterFunc
    <3>2. CASE ~Closed(c)
      <4>1. /\ observers' = [observers EXCEPT ![c] = @ \cup {After(f)}]
            /\ observers \in [Contexts -> SUBSET Observers]
            /\ UNCHANGED <<started, stack>>
        BY <1>5, <3>2 DEF AfterFunc, TreeInv, TypeOK
      <4>2. OneCloseEach(stack)
        BY DEF CoverInv
      <4> QED
        BY <3>2, <4>1, <4>2
    <3> QED
      BY <3>1, <3>2
  <2>3. Covered'
    <3> SUFFICES ASSUME NEW e \in Contexts \ interrupted, NEW o \in Dependents(e)'
                 PROVE  Served(o)' \/ Waiting(e, o)'
      BY <1>5 DEF Covered, AfterFunc
    <3>1. CASE o = After(f) /\ e = c
      BY <2>1, <2>2, <3>1 DEF Served, Waiting, After
    <3>2. CASE o \in Dependents(e)
      <4>1. Served(o) \/ Waiting(e, o)
        BY <3>2 DEF CoverInv, Covered
      <4>2. o.kind = "propagate" => o.of \in Contexts
        BY DEF Dependents, Children, Registered, Propagate, After, Notify
      <4> QED
        BY <1>5, <2>1, <2>2, <4>1, <4>2 DEF Served, Waiting, AfterFunc
    <3>3. \/ o = After(f) /\ e = c
          \/ o \in Dependents(e)
      BY <1>5, <2>1 DEF AfterFunc, Dependents, Children, Registered, TreeInv, TypeOK
    <3> QED
      BY <3>1, <3>2, <3>3
  <2>4. RelatedAreCreated'
    BY <1>5, <2>1 DEF AfterFunc, CoverInv, RelatedAreCreated, Created, TreeInv, TypeOK
  <2> QED
    BY <1>5, <2>1, <2>2, <2>3, <2>4 DEF CoverInv, AfterFunc
<1>6. ASSUME NEW f \in Functions, StopAfterFunc(f) PROVE CoverInv'
  <2>1. Ended' = Ended /\ \A e \in Contexts : Closed(e)' <=> Closed(e)
    BY <1>6 DEF StopAfterFunc, Ended, Closed
  <2>2. \A e \in Contexts, o \in Observers :
            o \in observers[e] \ observers'[e] => o = After(f)
    BY <1>6 DEF StopAfterFunc, TreeInv, TypeOK
  <2>3. Served(After(f))'
    BY <1>6 DEF StopAfterFunc, Served, After
  <2>4. Covered'
    BY <1>6, <2>1, <2>2, <2>3, CoverStep DEF StopAfterFunc, Waiting
  <2> QED
    BY <1>6, <2>1, <2>4 DEF StopAfterFunc, CoverInv, RelatedAreCreated, Created
<1>7. CASE Return
  <2>1. Ended' = Ended /\ \A e \in Contexts : Closed(e)' <=> Closed(e)
    BY <1>7 DEF Return, Ended, Closed
  <2>2. \A e, o : HasFrame(stack, e, o) => HasFrame(stack', e, o)
    BY <1>7, PoppingKeepsFrames DEF Return, TreeInv
  <2>3. Covered'
    BY <1>7, <2>1, <2>2, CoverStep DEF Return, Waiting
  <2>4. OneCloseEach(stack')
    <3>1. Depth - 1 \in 0 .. Len(stack)
      BY <1>7, PoppedStack DEF Return, TreeInv, Depth
    <3> QED
      BY <1>7, <3>1, UnwindingKeepsOneClose DEF Return, Popped, TreeInv, CoverInv
  <2> QED
    BY <1>7, <2>1, <2>3, <2>4 DEF Return, CoverInv, RelatedAreCreated, Created
<1>8. ASSUME NEW recovered \in 0 .. Depth, Panic(recovered) PROVE CoverInv'
  <2>1. /\ Ended' = Ended /\ \A e \in Contexts : Closed(e)' <=> Closed(e)
        /\ interrupted \subseteq interrupted'
    BY <1>8 DEF Panic, Ended, Closed
  <2>2. ASSUME NEW e \in Contexts \ interrupted', NEW o, HasFrame(stack, e, o)
        PROVE  HasFrame(stack', e, o)
    <3>1. PICK i \in 1 .. Depth :
              stack[i].kind = "close" /\ stack[i].of = e /\ o \notin stack[i].told
      BY <2>2 DEF HasFrame, Depth
    <3>2. i \in 1 .. recovered
      BY <1>8, <3>1 DEF Panic
    <3>3. \A j \in 1 .. recovered : stack[j] \in Frames
      BY DEF TreeInv, StackOf, Depth
    <3>4. Len(stack') = recovered /\ \A j \in 1 .. recovered : stack'[j] = stack[j]
      BY <1>8, <3>3, SubSeqProperties DEF Panic
    <3> QED
      BY <3>1, <3>2, <3>4 DEF HasFrame
  <2>3. Covered'
    BY <1>8, <2>1, <2>2, CoverStep DEF Panic, Waiting
  <2>4. OneCloseEach(stack')
    BY <1>8, UnwindingKeepsOneClose DEF Panic, TreeInv, CoverInv, Depth
  <2> QED
    BY <1>8, <2>1, <2>3, <2>4 DEF Panic, CoverInv, RelatedAreCreated, Created
<1>9. ASSUME NEW c \in Contexts, TellOwn(c) PROVE CoverInv'
  <2>1. /\ Ended' = Ended /\ \A e \in Contexts : Closed(e)' <=> Closed(e)
        /\ c \in Ended /\ Own(c) \in Observers
    BY <1>9, ClosingTakesControl, ObserversTyped DEF TellOwn, Ended, Closed
  <2>2. \A e \in Contexts, o \in Observers :
            o \in observers[e] \ observers'[e] => o \in {Propagate(c), Own(c)}
    BY <1>9 DEF TellOwn, Unsubscribed, TreeInv, TypeOK
  <2>3. Served(Propagate(c))' /\ Served(Own(c))'
    BY <2>1 DEF Served, Propagate, Own, Ended
  <2>4. Covered'
    BY <1>9, <2>1, <2>2, <2>3, TellingKeepsCover DEF TellOwn
  <2>5. OneCloseEach(stack')
    BY <1>9, <2>1, TellingKeepsOneClose DEF TellOwn, TreeInv, CoverInv
  <2> QED
    BY <1>9, <2>1, <2>4, <2>5 DEF TellOwn, CoverInv, RelatedAreCreated, Created
<1>10. ASSUME NEW c \in Contexts, NEW d \in Contexts, TellChild(c, d)
       PROVE  CoverInv'
  <2> DEFINE told == Propagate(d)
  <2>1. /\ Closing(c) /\ told \in Observers /\ Closed(c)
        /\ parent[d] = c /\ failure[c] \in Errors \ {NoError}
    BY <1>10, ClosingTakesControl, ObserversTyped DEF TellChild, NextTold, Untold,
       TreeInv, TypeOK, SubscribersAreRelated, Errors, Closed
  <2>2. StackOf(Telling(told), Ended) /\ OneCloseEach(Telling(told))
    BY <2>1, TellingStack, TellingKeepsOneClose DEF TreeInv, CoverInv
  <2>3. /\ Ended' \in {Ended, Ended \cup {d}} /\ d \in Ended'
        /\ OneCloseEach(stack')
        /\ \A e, o : HasFrame(Telling(told), e, o) => HasFrame(stack', e, o)
        /\ \A e, o : e \in Ended' \ Ended => HasFrame(stack', e, o)
    <3>1. CASE d \in claimed
      BY <1>10, <2>2, <3>1 DEF TellChild, CoverInv, Ended, Closed
    <3>2. CASE d \notin claimed
      BY <1>10, <2>1, <2>2, <3>2, CancelsCover DEF TellChild, TreeInv
    <3> QED
      BY <3>1, <3>2
  <2>4. \A e \in Contexts, o \in Observers :
            o \in observers[e] \ observers'[e] => o \in {Propagate(d), Own(d)}
    <3>1. observers' = observers \/ observers' = Unsubscribed(d)
      BY <1>10 DEF TellChild
    <3>2. \A e \in Contexts : \A o \in observers[e] \ Unsubscribed(d)[e] :
              o \in {Propagate(d), Own(d)}
      BY DEF Unsubscribed, TreeInv, TypeOK
    <3> QED
      BY <3>1, <3>2
  <2>5. Served(Propagate(d))' /\ Served(Own(d))'
    BY <2>3 DEF Served, Propagate, Own, Ended
  <2>6. Covered'
    BY <1>10, <2>1, <2>3, <2>4, <2>5, TellingKeepsCover DEF TellChild
  <2>7. RelatedAreCreated'
    BY <1>10, <2>1, <2>3 DEF TellChild, CoverInv, RelatedAreCreated, Created, Ended
  <2> QED
    BY <1>10, <2>3, <2>6, <2>7 DEF TellChild, CoverInv
<1>11. ASSUME NEW c \in Contexts, TellNotify(c) PROVE CoverInv'
  <2>1. /\ Closing(c) /\ Closed(c) /\ Notify(c) \in Observers
        /\ stack' = Telling(Notify(c)) /\ UNCHANGED <<failure, cause>>
    BY <1>11, ClosingTakesControl, ObserversTyped DEF TellNotify, Cancels
  <2>2. Ended' = Ended /\ \A e \in Contexts : Closed(e)' <=> Closed(e)
    BY <2>1 DEF Ended, Closed
  <2>3. \A e \in Contexts, o \in Observers :
            o \in observers[e] \ observers'[e] => o = Notify(c)
    BY <1>11 DEF TellNotify, TreeInv, TypeOK
  <2>4. Served(Notify(c))'
    BY <1>11 DEF TellNotify, Served, Notify
  <2>5. Covered'
    BY <1>11, <2>1, <2>2, <2>3, <2>4, TellingKeepsCover DEF TellNotify
  <2>6. OneCloseEach(stack')
    BY <2>1, TellingKeepsOneClose DEF TreeInv, CoverInv
  <2> QED
    BY <1>11, <2>2, <2>5, <2>6 DEF TellNotify, CoverInv, RelatedAreCreated, Created
<1>12. ASSUME NEW c \in Contexts, NEW f \in Functions, TellAfter(c, f)
       PROVE  CoverInv'
  <2>1. /\ Closing(c) /\ After(f) \in Observers /\ Ended' = Ended
        /\ started \subseteq started' /\ f \in started' \cup stopped'
    BY <1>12, ObserversTyped DEF TellAfter, Runs, Ended, Closed
  <2>2. StackOf(Telling(After(f)), Ended) /\ OneCloseEach(Telling(After(f)))
    BY <2>1, TellingStack, TellingKeepsOneClose DEF TreeInv, CoverInv
  <2>3. Run(f) \in Frames /\ Run(f).kind # "close"
    BY DEF Run, Frames
  <2>4. stack' \in {Telling(After(f)), Append(Telling(After(f)), Run(f))}
    BY <1>12 DEF TellAfter, Runs
  <2>5. /\ OneCloseEach(stack')
        /\ \A e, o : HasFrame(Telling(After(f)), e, o) => HasFrame(stack', e, o)
    BY <2>2, <2>3, <2>4, PushKeepsOneClose, PushKeepsFrames DEF StackOf
  <2>6. Served(After(f))'
    BY <2>1 DEF Served, After
  <2>7. Covered'
    BY <1>12, <2>1, <2>5, <2>6, TellingKeepsCover DEF TellAfter
  <2> QED
    BY <1>12, <2>1, <2>5, <2>7 DEF TellAfter, CoverInv, RelatedAreCreated, Created,
       Closed
<1>13. ASSUME NEW c \in Contexts, CloseReturns(c) PROVE CoverInv'
  <2>1. /\ Ended' = Ended /\ \A e \in Contexts : Closed(e)' <=> Closed(e)
        /\ Closed(c) /\ stack # <<>> /\ Top.kind = "close" /\ Top.of = c
    BY <1>13, ClosingTakesControl DEF CloseReturns, Closing, Ended, Closed
  <2>2. \A e, o : HasFrame(stack, e, o) /\ e # c => HasFrame(stack', e, o)
    BY <1>13, <2>1, PoppingKeepsFrames DEF CloseReturns, TreeInv
  <2>3. ASSUME NEW o \in Observers, Waiting(c, o) PROVE FALSE
    <3>1. o \in Top.told
      BY <1>13, <2>3 DEF CloseReturns, Untold, Waiting
    <3>2. PICK i \in 1 .. Depth :
              stack[i].kind = "close" /\ stack[i].of = c /\ o \notin stack[i].told
      BY <2>1, <2>3 DEF Waiting, HasFrame, Depth
    <3>3. i = Depth
      BY <2>1, <3>2, PoppedStack DEF CoverInv, OneCloseEach, Top, Depth, TreeInv
    <3> QED
      BY <3>1, <3>2, <3>3 DEF Top
  <2>4. Covered'
    <3> SUFFICES ASSUME NEW e \in Contexts \ interrupted', NEW o \in Observers,
                        Waiting(e, o)
                 PROVE  Served(o)' \/ Waiting(e, o)'
      BY <1>13, <2>1, CoverStep DEF CloseReturns
    <3>1. e # c
      BY <2>3
    <3> QED
      BY <1>13, <2>1, <2>2, <3>1 DEF CloseReturns, Waiting, TreeInv, TypeOK
  <2>5. OneCloseEach(stack')
    <3>1. Depth - 1 \in 0 .. Len(stack)
      BY <2>1, PoppedStack DEF TreeInv, Depth
    <3> QED
      BY <1>13, <3>1, UnwindingKeepsOneClose DEF CloseReturns, Popped, TreeInv, CoverInv
  <2> QED
    BY <1>13, <2>1, <2>4, <2>5 DEF CloseReturns, CoverInv, RelatedAreCreated, Created
<1>14. CASE UNCHANGED vars
  <2>1. Ended' = Ended /\ \A e \in Contexts : Closed(e)' <=> Closed(e)
    BY <1>14 DEF vars, Ended, Closed
  <2>2. Covered'
    BY <1>14, <2>1, CoverStep DEF vars, Waiting
  <2> QED
    BY <1>14, <2>1, <2>2 DEF vars, CoverInv, RelatedAreCreated, Created
<1> QED
  BY <1>1, <1>2, <1>3, <1>4, <1>5, <1>6, <1>7, <1>8, <1>9, <1>10, <1>11, <1>12,
     <1>13, <1>14 DEF Next, CloseStep

\* For any tree of contexts and any program: whoever depends on a cancelled
\* context was served, or is about to be by a close that has not returned,
\* unless a panic of the program cut that close short.
THEOREM NobodyForgotten == Spec => []NobodyIsForgotten
<1>1. CoverInv => NobodyIsForgotten
  <2> SUFFICES ASSUME CoverInv, NEW c \in Contexts \ interrupted, Closed(c)
               PROVE  /\ \A d \in Children(c) : Closed(d) \/ Due(c, Propagate(d))
                      /\ \A f \in Registered(c) :
                            f \in started \cup stopped \/ Due(c, After(f))
                      /\ c \in listening => Due(c, Notify(c))
    BY DEF NobodyIsForgotten
  <2>1. \A o \in Dependents(c) : Served(o) \/ Due(c, o)
    BY DEF CoverInv, Covered, Waiting, HasFrame, Due, Depth
  <2> QED
    BY <2>1 DEF Dependents, Served, Propagate, After, Notify
<1>2. Init => CoverInv
  BY InitCoverInv
<1>3. TreeInv /\ CoverInv /\ [Next]_vars => CoverInv'
  BY NextCoverInv
<1> QED
  BY <1>1, <1>2, <1>3, TreeInvariant, PTL DEF Spec

-----------------------------------------------------------------------------
(* An open channel is observed by what must learn of its close *)

\* Who observes an open channel.  A context that has just ended observes its
\* parent's until it is told itself, which is the first thing its close does.
ObservedBy(c) ==
    /\ Own(c) \in observers[c] <=> HasDone(parent[c])
    /\ Notify(c) \in observers[c] <=> c \in listening
    /\ \A d \in Contexts :
          /\ Propagate(d) \in observers[c] <=>
                parent[d] = c /\ (~Closed(d) \/ Own(d) \in observers[d])
          /\ d # c => Own(d) \notin observers[c] /\ Notify(d) \notin observers[c]
    /\ \A f \in Functions :
          After(f) \in observers[c] <=> registered[f] = c /\ f \notin stopped

\* A subscription is claimed when its context ends, and both ends go then.
ClaimsAgree ==
    /\ claimed \subseteq Ended
    /\ \A c \in Contexts : Own(c) \in observers[c] => c \notin claimed

\* A context that ended and has not told itself is the one that ended last.
LeavesFirst ==
    \A c \in Contexts : Closed(c) /\ Own(c) \in observers[c] =>
        stack # <<>> /\ Top = Close(c)

\* Nothing is cancelled, observed or registered with before it is created.
CreatedFirst ==
    /\ \A c \in Contexts : ~Created(c) =>
          /\ ~Closed(c) /\ observers[c] = {}
          /\ \A d \in Contexts : parent[d] # c
          /\ \A f \in Functions : registered[f] # c

OpenInv ==
    /\ \A c \in Contexts : Created(c) /\ ~Closed(c) => ObservedBy(c)
    /\ ClaimsAgree
    /\ LeavesFirst
    /\ CreatedFirst

\* Observers of different contexts, functions or purposes are different.
LEMMA AllObserversDiffer ==
  ASSUME NEW c, NEW d
  PROVE  /\ Own(c) = Own(d) => c = d
         /\ Notify(c) = Notify(d) => c = d
         /\ Propagate(c) = Propagate(d) => c = d
         /\ After(c) = After(d) => c = d
         /\ Own(c) # Notify(d) /\ Own(c) # Propagate(d) /\ Own(c) # After(d)
         /\ Notify(c) # Propagate(d) /\ Notify(c) # After(d)
         /\ Propagate(c) # After(d)
BY DEF Own, Notify, Propagate, After

\* While the program is in control every context that ended has told itself.
LEMMA NobodyLeavesInControl ==
  ASSUME TreeInv, OpenInv, UserRuns, NEW c \in Contexts, Closed(c)
  PROVE  Own(c) \notin observers[c]
BY DEF OpenInv, LeavesFirst, UserRuns, Close

\* So it has when a close tells anyone but its own context.
LEMMA NobodyLeavesWhileTelling ==
  ASSUME TreeInv, OpenInv, NEW c \in Contexts, Closing(c),
         Own(c) \notin NextTold(c),
         NEW d \in Contexts, Closed(d)
  PROVE  Own(d) \notin observers[d]
<1> SUFFICES ASSUME Own(d) \in observers[d] PROVE FALSE
  OBVIOUS
<1>1. Top = Close(d)
  BY DEF OpenInv, LeavesFirst
<1>2. d = c /\ Top.told = {}
  BY <1>1 DEF Closing, Close
<1> QED
  BY <1>2 DEF NextTold, Untold

\* The claim that LeavesFirst makes when everyone who ended has told itself.
LEMMA NobodyLeft ==
  ASSUME \A d \in Contexts : Closed(d)' => Own(d) \notin observers'[d]
  PROVE  LeavesFirst'
BY DEF LeavesFirst

\* Calling cancel on a context in control.
LEMMA CancelsOpen ==
  ASSUME TreeInv, OpenInv, UserRuns, NEW c \in Contexts, Created(c),
         NEW error \in Errors \ {NoError}, NEW why, Cancels(c, error, why, stack),
         observers' \in [Contexts -> SUBSET Observers],
         observers'[c] \in {observers[c], observers[c] \ {Notify(c)}},
         \A d \in Contexts \ {c} : /\ observers'[d] = observers[d]
                                   /\ d \in listening' <=> d \in listening,
         UNCHANGED <<parent, claimed, registered, stopped>>
  PROVE  OpenInv'
<1> USE AllObserversDiffer
<1>1. /\ observers \in [Contexts -> SUBSET Observers]
      /\ failure \in [Contexts -> Errors]
      /\ \A d \in Contexts : Closed(d) => Own(d) \notin observers[d]
      /\ stack \in Seq(Frames)
  BY NobodyLeavesInControl DEF TreeInv, TypeOK, Errors
<1>2. /\ \A d \in Contexts \ {c} : observers'[d] = observers[d]
      /\ observers' \in [Contexts -> SUBSET Observers]
      /\ observers'[c] \subseteq observers[c]
      /\ Own(c) \in observers'[c] <=> Own(c) \in observers[c]
  BY <1>1
<1>3. /\ \A d \in Contexts \ {c} : Closed(d)' <=> Closed(d)
      /\ Closed(c)'
  BY <1>1 DEF Cancels, Closed, Errors
<1>4. LeavesFirst'
  <2>1. CASE Closed(c)
    BY <1>1, <1>2, <1>3, <2>1, NobodyLeft
  <2>2. CASE ~Closed(c)
    <3>1. stack' = Append(stack, Close(c))
      BY <2>2 DEF Cancels
    <3>2. stack' # <<>> /\ Top' = Close(c)
      <4>1. PICK s \in Seq(Frames) : s = stack
        BY <1>1
      <4>2. Close(c) \in Frames
        BY DEF Close, Frames
      <4> HIDE DEF Frames
      <4>3. PICK f \in Frames : f = Close(c)
        BY <4>2
      <4>4. /\ Append(s, f) \in Seq(Frames) /\ Len(Append(s, f)) = Len(s) + 1
            /\ Append(s, f)[Len(s) + 1] = f /\ Len(s) \in Nat
        BY AppendProperties, LenProperties
      <4>5. Append(s, f) # <<>>
        BY <4>4, EmptySeq
      <4> QED
        BY <3>1, <4>1, <4>3, <4>4, <4>5 DEF Top, Depth
    <3> QED
      BY <1>1, <1>2, <1>3, <3>2 DEF LeavesFirst
  <2> QED
    BY <2>1, <2>2
<1>5. ClaimsAgree'
  BY <1>2, <1>3 DEF OpenInv, ClaimsAgree, Ended
<1>6. CreatedFirst'
  BY <1>2, <1>3 DEF OpenInv, CreatedFirst, Created
<1>7. ASSUME NEW e \in Contexts, Created(e)', ~Closed(e)'
      PROVE  ObservedBy(e)'
  <2>1. e # c /\ Created(e) /\ ~Closed(e) /\ ObservedBy(e)
    BY <1>3, <1>7 DEF OpenInv, Created
  <2>2. observers'[e] = observers[e] /\ (e \in listening' <=> e \in listening)
    BY <2>1
  <2>3. ASSUME NEW d \in Contexts, parent[d] = e
        PROVE  (~Closed(d)' \/ Own(d) \in observers'[d])
                  <=> (~Closed(d) \/ Own(d) \in observers[d])
    <3>1. CASE d # c
      BY <1>2, <1>3, <3>1
    <3>2. CASE d = c /\ Closed(c)
      BY <1>2, <1>3, <3>2
    <3>3. CASE d = c /\ ~Closed(c)
      <4>1. ObservedBy(c) /\ HasDone(parent[c])
        BY <2>3, <3>3 DEF OpenInv, HasDone
      <4> QED
        BY <1>2, <3>3, <4>1 DEF ObservedBy
    <3> QED
      BY <3>1, <3>2, <3>3
  <2> QED
    BY <2>1, <2>2, <2>3 DEF ObservedBy, HasDone
<1> QED
  BY <1>4, <1>5, <1>6, <1>7 DEF OpenInv

\* A step that leaves who observes whom alone, and everyone who ended has told
\* itself.
LEMMA OpenKept ==
  ASSUME OpenInv, \A d \in Contexts : Closed(d) => Own(d) \notin observers[d],
         UNCHANGED <<parent, failure, observers, listening, registered, stopped>>,
         claimed' = claimed
  PROVE  OpenInv'
<1>1. LeavesFirst'
  BY NobodyLeft DEF Closed
<1> QED
  BY <1>1 DEF OpenInv, ObservedBy, ClaimsAgree, CreatedFirst, Ended, Closed,
     Created, HasDone

\* Nothing is created in the beginning.
LEMMA InitOpenInv == Init => OpenInv
<1> SUFFICES ASSUME Init PROVE OpenInv
  OBVIOUS
<1>1. \A c \in Contexts : ~Created(c) /\ ~Closed(c) /\ observers[c] = {}
  BY DEF Init, Created, Closed
<1>2. /\ \A c, d \in Contexts : parent[d] # c
      /\ \A c \in Contexts, f \in Functions : registered[f] # c
  BY DEF Init
<1>3. claimed = {}
  BY DEF Init
<1> QED
  BY <1>1, <1>2, <1>3 DEF OpenInv, ClaimsAgree, LeavesFirst, CreatedFirst

\* A context is created.
LEMMA CreateKeepsOpen ==
  ASSUME TreeInv, OpenInv, NEW c \in Contexts,
         NEW p \in Contexts \cup {Background}, NEW kind \in Kinds,
         Create(c, p, kind)
  PROVE  OpenInv'
<1> USE AllObserversDiffer
<1> DEFINE notifies == IF kind = "notify" THEN {Notify(c)} ELSE {}
<1>1. /\ observers \in [Contexts -> SUBSET Observers]
      /\ failure \in [Contexts -> Errors]
      /\ parent \in [Contexts -> Contexts \cup {Background, NoContext}]
      /\ listening \subseteq Contexts /\ claimed \subseteq Contexts
      /\ \A d \in Contexts : Closed(d) => Own(d) \notin observers[d]
  BY NobodyLeavesInControl DEF TreeInv, TypeOK, Errors, Create
<1>2. /\ ~Created(c) /\ ~Closed(c) /\ observers[c] = {} /\ c \notin listening
      /\ c \notin claimed /\ p # c
      /\ \A d \in Contexts : parent[d] # c
      /\ \A f \in Functions : registered[f] # c
      /\ \A d \in Contexts : Propagate(c) \notin observers[d]
  <2>1. ~Created(c) /\ (p \in Contexts => Created(p))
    BY DEF Create
  <2>2. /\ ~Closed(c) /\ observers[c] = {}
        /\ \A d \in Contexts : parent[d] # c
        /\ \A f \in Functions : registered[f] # c
    BY <2>1 DEF OpenInv, CreatedFirst
  <2>3. c \notin claimed
    BY <2>2 DEF OpenInv, ClaimsAgree, Ended
  <2>4. c \notin listening
    BY <2>1 DEF TreeInv
  <2>5. p # c
    BY <2>1
  <2>6. \A d \in Contexts : Propagate(c) \notin observers[d]
    BY <2>1 DEF TreeInv, SubscribersAreRelated, Created
  <2> QED
    BY <2>1, <2>2, <2>3, <2>4, <2>5, <2>6
<1>3. /\ parent' = [parent EXCEPT ![c] = p] /\ Created(c)'
      /\ \A d \in Contexts \ {c} : parent'[d] = parent[d] /\ (Created(d)' <=> Created(d))
      /\ parent'[c] = p
      /\ UNCHANGED <<claimed, registered, stopped, stack>>
  <2>1. /\ parent' = [parent EXCEPT ![c] = p]
        /\ UNCHANGED <<claimed, registered, stopped, stack>>
    BY DEF Create, afterVars
  <2>2. parent'[c] = p /\ \A d \in Contexts \ {c} : parent'[d] = parent[d]
    BY <1>1, <2>1
  <2> QED
    BY <2>1, <2>2 DEF Created
<1>4. CASE HasDone(p) /\ Closed(p)
  <2>1. /\ \A d \in Contexts \ {c} : Closed(d)' <=> Closed(d)
        /\ Closed(c)' /\ UNCHANGED <<observers, listening>>
    BY <1>1, <1>4 DEF Create, Closed, HasDone
  <2>2. LeavesFirst'
    BY <1>1, <1>2, <2>1, NobodyLeft
  <2>3. ClaimsAgree'
    BY <1>2, <1>3, <2>1 DEF OpenInv, ClaimsAgree, Ended
  <2>4. CreatedFirst'
    BY <1>2, <1>3, <1>4, <2>1 DEF OpenInv, CreatedFirst, HasDone, Create
  <2>5. ASSUME NEW e \in Contexts, Created(e)', ~Closed(e)'
        PROVE  ObservedBy(e)'
    <3>1. e # c /\ ObservedBy(e) /\ p # e
      BY <1>3, <1>4, <2>1, <2>5 DEF OpenInv
    <3> QED
      BY <1>2, <1>3, <2>1, <3>1 DEF ObservedBy, HasDone
  <2> QED
    BY <2>2, <2>3, <2>4, <2>5 DEF OpenInv
<1>5. CASE ~(HasDone(p) /\ Closed(p))
  <2>1. /\ failure' = failure /\ \A d \in Contexts : Closed(d)' <=> Closed(d)
        /\ listening' = IF kind = "notify" THEN listening \cup {c} ELSE listening
        /\ observers' = IF HasDone(p)
                        THEN [observers EXCEPT ![p] = @ \cup {Propagate(c)},
                                               ![c] = {Own(c)} \cup notifies]
                        ELSE [observers EXCEPT ![c] = notifies]
    BY <1>5 DEF Create, Closed
  <2>2. /\ Own(c) \in observers'[c] <=> HasDone(p)
        /\ Notify(c) \in observers'[c] <=> kind = "notify"
        /\ observers'[c] \subseteq {Own(c), Notify(c)}
    BY <1>1, <1>2, <2>1 DEF HasDone
  <2>3. \A e \in Contexts \ {c} :
            observers'[e] = IF e = p THEN observers[e] \cup {Propagate(c)}
                                     ELSE observers[e]
    BY <1>1, <1>2, <2>1 DEF HasDone
  <2>8. \A d \in Contexts \ {c} : Own(d) \in observers'[d] <=> Own(d) \in observers[d]
    BY <2>3
  <2>4. LeavesFirst'
    BY <1>1, <1>2, <2>1, <2>8, NobodyLeft
  <2>5. ClaimsAgree'
    BY <1>2, <1>3, <2>1, <2>8 DEF OpenInv, ClaimsAgree, Ended
  <2>6. CreatedFirst'
    <3>1. p \in Contexts => Created(p)
      BY ParentsAssumption DEF Create
    <3>2. ASSUME NEW e \in Contexts, ~Created(e)'
          PROVE  /\ e # c /\ e # p /\ ~Created(e)
      BY <1>3, <3>1, <3>2
    <3>3. ASSUME NEW e \in Contexts, ~Created(e)'
          PROVE  /\ ~Closed(e)' /\ observers'[e] = {}
                 /\ \A d \in Contexts : parent'[d] # e
                 /\ \A f \in Functions : registered'[f] # e
      <4>1. /\ ~Closed(e) /\ observers[e] = {} /\ e # c /\ e # p
            /\ \A d \in Contexts : parent[d] # e
            /\ \A f \in Functions : registered[f] # e
        BY <3>2, <3>3 DEF OpenInv, CreatedFirst
      <4> QED
        BY <1>3, <2>1, <2>3, <4>1
    <3> QED
      BY <3>3 DEF CreatedFirst
  <2>7. ASSUME NEW e \in Contexts, Created(e)', ~Closed(e)'
        PROVE  ObservedBy(e)'
    <3>1. CASE e = c
      BY <1>2, <1>3, <2>1, <2>2, <3>1 DEF ObservedBy, HasDone
    <3>2. CASE e # c
      <4>1. ObservedBy(e)
        BY <1>3, <2>1, <2>7, <3>2 DEF OpenInv
      <4>3. e \in listening' <=> e \in listening
        BY <2>1, <3>2
      <4>2. /\ \A o : o # Propagate(c) => (o \in observers'[e] <=> o \in observers[e])
            /\ Propagate(c) \in observers'[e] <=> e = p
        BY <1>2, <2>3, <3>2
      <4>4. ASSUME NEW d \in Contexts
            PROVE  Propagate(d) \in observers'[e] <=>
                      parent'[d] = e /\ (~Closed(d)' \/ Own(d) \in observers'[d])
        <5>1. CASE d = c
          BY <1>2, <1>3, <2>1, <4>2, <5>1
        <5>2. CASE d # c
          <6>1. Propagate(d) \in observers'[e] <=> Propagate(d) \in observers[e]
            BY <4>2, <5>2
          <6> QED
            BY <1>3, <2>1, <2>8, <4>1, <5>2, <6>1 DEF ObservedBy
        <5> QED
          BY <5>1, <5>2
      <4>5. /\ Own(e) \in observers'[e] <=> HasDone(parent'[e])
            /\ Notify(e) \in observers'[e] <=> e \in listening'
        BY <1>3, <4>2, <3>2, <4>1, <4>3 DEF ObservedBy
      <4>6. \A d \in Contexts : d # e =>
                Own(d) \notin observers'[e] /\ Notify(d) \notin observers'[e]
        BY <4>1, <4>2 DEF ObservedBy
      <4>7. \A f \in Functions :
                After(f) \in observers'[e] <=> registered'[f] = e /\ f \notin stopped'
        BY <1>3, <4>1, <4>2 DEF ObservedBy
      <4> QED
        BY <4>4, <4>5, <4>6, <4>7 DEF ObservedBy
    <3> QED
      BY <3>1, <3>2
  <2> QED
    BY <2>4, <2>5, <2>6, <2>7 DEF OpenInv
<1> QED
  BY <1>4, <1>5

\* A step of a close, after which every context that ended has told itself:
\* open channels lose no observer but the children that have ended.
LEMMA ClosesKeepOpen ==
  ASSUME TreeInv, OpenInv, UNCHANGED <<parent, registered, stopped>>,
         \A d \in Contexts : Closed(d) => Closed(d)',
         \A d \in Contexts : Closed(d)' => Closed(d) \/ Created(d),
         \A d \in Contexts : Closed(d)' => Own(d) \notin observers'[d],
         \A e \in Contexts : observers'[e] \subseteq observers[e],
         claimed' \subseteq Ended',
         \A d \in claimed' \ claimed : Own(d) \notin observers'[d],
         \A e \in Contexts : ~Closed(e)' =>
             /\ e \in listening' <=> e \in listening
             /\ \A o \in observers[e] \ observers'[e] :
                   \E d \in Contexts : Closed(d)' /\ o = Propagate(d)
             /\ \A d \in Contexts : Closed(d)' => Propagate(d) \notin observers'[e]
  PROVE  OpenInv'
<1> USE AllObserversDiffer
<1>1. LeavesFirst'
  BY NobodyLeft
<1>2. ClaimsAgree'
  BY DEF OpenInv, ClaimsAgree
<1>3. CreatedFirst'
  <2> SUFFICES ASSUME NEW c \in Contexts, ~Created(c)
               PROVE  /\ ~Closed(c)' /\ observers'[c] = {}
    BY DEF OpenInv, CreatedFirst, Created
  <2>1. ~Closed(c) /\ observers[c] = {}
    BY DEF OpenInv, CreatedFirst
  <2> QED
    BY <2>1
<1>4. ASSUME NEW e \in Contexts, Created(e)', ~Closed(e)'
      PROVE  ObservedBy(e)'
  <2>1. ObservedBy(e)
    BY <1>4 DEF OpenInv, Created
  <2>2. \A o : (\A d \in Contexts : o # Propagate(d)) =>
                    (o \in observers'[e] <=> o \in observers[e])
    BY <1>4
  <2>3. \A d \in Contexts : Propagate(d) \in observers'[e] <=>
            parent'[d] = e /\ (~Closed(d)' \/ Own(d) \in observers'[d])
    <3> TAKE d \in Contexts
    <3>1. CASE Closed(d)'
      BY <1>4, <3>1
    <3>2. CASE ~Closed(d)'
      <4>1. Propagate(d) \in observers'[e] <=> Propagate(d) \in observers[e]
        BY <1>4, <3>2
      <4> QED
        BY <2>1, <3>2, <4>1 DEF ObservedBy
    <3> QED
      BY <3>1, <3>2
  <2>4. /\ Own(e) \in observers'[e] <=> HasDone(parent'[e])
        /\ Notify(e) \in observers'[e] <=> e \in listening'
    BY <1>4, <2>1, <2>2 DEF ObservedBy
  <2>5. \A d \in Contexts : d # e =>
            Own(d) \notin observers'[e] /\ Notify(d) \notin observers'[e]
    BY <2>1, <2>2 DEF ObservedBy
  <2>6. \A f \in Functions :
            After(f) \in observers'[e] <=> registered'[f] = e /\ f \notin stopped'
    BY <2>1, <2>2 DEF ObservedBy
  <2> QED
    BY <2>3, <2>4, <2>5, <2>6 DEF ObservedBy
<1> QED
  BY <1>1, <1>2, <1>3, <1>4 DEF OpenInv

\* An open channel is observed by no context that ended and has told itself.
LEMMA EndedObserveNothingOpen ==
  ASSUME OpenInv, NEW e \in Contexts, ~Closed(e), NEW d \in Contexts,
         Closed(d), Own(d) \notin observers[d]
  PROVE  Propagate(d) \notin observers[e]
<1>1. CASE Created(e)
  BY <1>1 DEF OpenInv, ObservedBy
<1>2. CASE ~Created(e)
  BY <1>2 DEF OpenInv, CreatedFirst
<1> QED
  BY <1>1, <1>2

\* What the end of a subscription leaves.
LEMMA UnsubscribedExactly ==
  ASSUME TypeOK, NEW c \in Contexts, NEW e \in Contexts, NEW o
  PROVE  o \in Unsubscribed(c)[e] <=>
            /\ o \in observers[e]
            /\ ~(e = c /\ o = Own(c))
            /\ ~(e = parent[c] /\ o = Propagate(c))
<1>1. observers \in [Contexts -> SUBSET Observers]
  BY DEF TypeOK
<1> DEFINE p == parent[c]
           own == Own(c)
           end == Propagate(c)
<1>2. Unsubscribed(c) = [observers EXCEPT ![p] = @ \ {end}, ![c] = @ \ {own}]
  BY DEF Unsubscribed
<1> HIDE DEF p, own, end
<1>3. CASE e # c /\ e # p
  BY <1>1, <1>2, <1>3 DEF p, own, end
<1>4. CASE e # c /\ e = p
  BY <1>1, <1>2, <1>4 DEF p, own, end
<1>5. CASE e = c /\ e # p
  BY <1>1, <1>2, <1>5 DEF p, own, end
<1>6. CASE e = c /\ e = p
  BY <1>1, <1>2, <1>6 DEF p, own, end
<1> QED
  BY <1>3, <1>4, <1>5, <1>6

\* A close tells someone else only after its own context.
LEMMA OthersAreToldLater ==
  ASSUME NEW c \in Contexts, NEW o \in NextTold(c), o # Own(c)
  PROVE  o \in observers[c] /\ Own(c) \notin NextTold(c)
BY AllObserversDiffer DEF NextTold, Untold

\* Every step keeps it.
LEMMA NextOpenInv == TreeInv /\ OpenInv /\ [Next]_vars => OpenInv'
<1> SUFFICES ASSUME TreeInv, OpenInv, [Next]_vars PROVE OpenInv'
  OBVIOUS
<1> USE DEF cancelVars, afterVars
<1>0. /\ observers \in [Contexts -> SUBSET Observers] /\ TypeOK
      /\ failure \in [Contexts -> Errors]
  BY DEF TreeInv, TypeOK, Errors
<1>1. ASSUME NEW c \in Contexts, NEW p \in Contexts \cup {Background},
             NEW kind \in Kinds, Create(c, p, kind)
      PROVE  OpenInv'
  BY <1>1, CreateKeepsOpen
<1>2. ASSUME NEW c \in Contexts, NEW why \in Causes \cup {Canceled},
             Cancel(c, why)
      PROVE  OpenInv'
  <2>1. Canceled \in Errors \ {NoError}
    BY DEF Errors
  <2>2. /\ Cancels(c, Canceled, why, stack) /\ Created(c) /\ UserRuns
        /\ UNCHANGED <<listening, observers, parent, claimed, registered, stopped>>
    BY <1>2 DEF Cancel
  <2> QED
    BY <1>0, <2>1, <2>2, CancelsOpen
<1>3. ASSUME NEW c \in Contexts, StopNotification(c) PROVE OpenInv'
  <2>1. Created(c)
    BY <1>3 DEF StopNotification, TreeInv
  <2>2. Canceled \in Errors \ {NoError}
    BY DEF Errors
  <2>3. /\ observers' \in [Contexts -> SUBSET Observers]
        /\ observers'[c] = observers[c] \ {Notify(c)}
        /\ \A d \in Contexts \ {c} : /\ observers'[d] = observers[d]
                                     /\ d \in listening' <=> d \in listening
    BY <1>0, <1>3 DEF StopNotification
  <2> QED
    BY <1>3, <2>1, <2>2, <2>3, CancelsOpen DEF StopNotification
<1>4. ASSUME NEW c \in Contexts, Expire(c) PROVE OpenInv'
  <2>1. Created(c) /\ UserRuns
    BY <1>4 DEF Expire, TreeInv, UserRuns
  <2>2. DeadlineExceeded \in Errors \ {NoError}
    BY DEF Errors
  <2>3. /\ Cancels(c, DeadlineExceeded, DeadlineExceeded, stack)
        /\ UNCHANGED <<listening, observers, parent, claimed, registered, stopped>>
    BY <1>4 DEF Expire
  <2> QED
    BY <1>0, <2>1, <2>2, <2>3, CancelsOpen
<1>5. ASSUME NEW c \in Contexts, NEW f \in Functions, AfterFunc(f, c)
      PROVE  OpenInv'
  <2>1. /\ registered' = [registered EXCEPT ![f] = c]
        /\ registered[f] = NoContext /\ Created(c) /\ f \notin stopped
        /\ UNCHANGED <<parent, failure, claimed, listening, stopped>>
        /\ \A d \in Contexts : Closed(d)' <=> Closed(d)
    BY <1>5 DEF AfterFunc, TreeInv, FlagsAgree, Closed
  <2>2. /\ registered'[f] = c
        /\ \A g \in Functions \ {f} : registered'[g] = registered[g]
    BY <2>1 DEF TreeInv, TypeOK
  <2>3. \A e \in Contexts :
            observers'[e] = IF e = c /\ ~Closed(c)
                            THEN observers[e] \cup {After(f)} ELSE observers[e]
    BY <1>0, <1>5 DEF AfterFunc
  <2>4. \A e \in Contexts : \A o : o # After(f) =>
            (o \in observers'[e] <=> o \in observers[e])
    BY <2>3
  <2>5. \A d \in Contexts : /\ Own(d) \in observers'[d] <=> Own(d) \in observers[d]
                            /\ Closed(d) => Own(d) \notin observers[d]
    BY <1>5, <2>4, AllObserversDiffer, NobodyLeavesInControl DEF AfterFunc
  <2>6. LeavesFirst'
    BY <2>1, <2>5, NobodyLeft
  <2>7. ClaimsAgree'
    BY <2>1, <2>5 DEF OpenInv, ClaimsAgree, Ended
  <2>8. CreatedFirst'
    <3> SUFFICES ASSUME NEW e \in Contexts, ~Created(e)
                 PROVE  /\ ~Closed(e)' /\ observers'[e] = {}
                        /\ \A d \in Contexts : parent'[d] # e
                        /\ \A g \in Functions : registered'[g] # e
      BY <2>1 DEF CreatedFirst, Created
    <3>1. e # c
      BY <2>1
    <3> QED
      BY <2>1, <2>2, <2>3, <3>1 DEF OpenInv, CreatedFirst
  <2>9. ASSUME NEW e \in Contexts, Created(e)', ~Closed(e)'
        PROVE  ObservedBy(e)'
    <3>1. ObservedBy(e)
      BY <2>1, <2>9 DEF OpenInv, Created
    <3>5. \A d \in Contexts :
              After(f) # Own(d) /\ After(f) # Propagate(d) /\ After(f) # Notify(d)
      BY AllObserversDiffer
    <3>6. \A d \in Contexts :
              /\ Own(d) \in observers'[e] <=> Own(d) \in observers[e]
              /\ Propagate(d) \in observers'[e] <=> Propagate(d) \in observers[e]
              /\ Notify(d) \in observers'[e] <=> Notify(d) \in observers[e]
      BY <2>4, <3>5
    <3>2. /\ Own(e) \in observers'[e] <=> HasDone(parent'[e])
          /\ Notify(e) \in observers'[e] <=> e \in listening'
      BY <2>1, <3>1, <3>6 DEF ObservedBy
    <3>3. \A d \in Contexts :
              /\ Propagate(d) \in observers'[e] <=>
                    parent'[d] = e /\ (~Closed(d)' \/ Own(d) \in observers'[d])
              /\ d # e => Own(d) \notin observers'[e] /\ Notify(d) \notin observers'[e]
      BY <2>1, <2>5, <3>1, <3>6 DEF ObservedBy
    <3>4. ASSUME NEW g \in Functions
          PROVE  After(g) \in observers'[e] <=> registered'[g] = e /\ g \notin stopped'
      <4>1. CASE g = f
        <5>1. After(f) \notin observers[e]
          BY <2>1, <3>1 DEF ObservedBy
        <5> QED
          BY <2>1, <2>2, <2>3, <2>9, <4>1, <5>1
      <4>2. CASE g # f
        <5>1. After(g) # After(f)
          BY <4>2, AllObserversDiffer
        <5>2. After(g) \in observers'[e] <=> After(g) \in observers[e]
          BY <2>4, <5>1
        <5> QED
          BY <2>1, <2>2, <3>1, <4>2, <5>2 DEF ObservedBy
      <4> QED
        BY <4>1, <4>2
    <3> QED
      BY <3>2, <3>3, <3>4 DEF ObservedBy
  <2> QED
    BY <2>6, <2>7, <2>8, <2>9 DEF OpenInv
<1>6. ASSUME NEW f \in Functions, StopAfterFunc(f) PROVE OpenInv'
  <2>1. /\ stopped' = stopped \cup {f} /\ f \notin stopped
        /\ UNCHANGED <<parent, failure, claimed, listening, registered>>
        /\ \A d \in Contexts : Closed(d)' <=> Closed(d)
    BY <1>6 DEF StopAfterFunc, Closed
  <2>2. \A e \in Contexts : \A o :
            o \in observers'[e] <=>
                o \in observers[e] /\ ~(e = registered[f] /\ o = After(f))
    BY <1>0, <1>6 DEF StopAfterFunc
  <2>3. \A d \in Contexts : /\ Own(d) \in observers'[d] <=> Own(d) \in observers[d]
                            /\ Closed(d) => Own(d) \notin observers[d]
    BY <1>6, <2>2, AllObserversDiffer, NobodyLeavesInControl DEF StopAfterFunc
  <2>4. LeavesFirst'
    BY <2>1, <2>3, NobodyLeft
  <2>5. ClaimsAgree'
    BY <2>1, <2>3 DEF OpenInv, ClaimsAgree, Ended
  <2>6. CreatedFirst'
    BY <2>1, <2>2 DEF OpenInv, CreatedFirst, Created
  <2>7. ASSUME NEW e \in Contexts, Created(e)', ~Closed(e)'
        PROVE  ObservedBy(e)'
    <3>1. ObservedBy(e)
      BY <2>1, <2>7 DEF OpenInv, Created
    <3>5. \A d \in Contexts :
              After(f) # Own(d) /\ After(f) # Propagate(d) /\ After(f) # Notify(d)
      BY AllObserversDiffer
    <3>6. \A d \in Contexts :
              /\ Own(d) \in observers'[e] <=> Own(d) \in observers[e]
              /\ Propagate(d) \in observers'[e] <=> Propagate(d) \in observers[e]
              /\ Notify(d) \in observers'[e] <=> Notify(d) \in observers[e]
      BY <2>2, <3>5
    <3>2. /\ Own(e) \in observers'[e] <=> HasDone(parent'[e])
          /\ Notify(e) \in observers'[e] <=> e \in listening'
      BY <2>1, <3>1, <3>6 DEF ObservedBy
    <3>3. \A d \in Contexts :
              /\ Propagate(d) \in observers'[e] <=>
                    parent'[d] = e /\ (~Closed(d)' \/ Own(d) \in observers'[d])
              /\ d # e => Own(d) \notin observers'[e] /\ Notify(d) \notin observers'[e]
      BY <2>1, <2>3, <3>1, <3>6 DEF ObservedBy
    <3>4. \A g \in Functions :
              After(g) \in observers'[e] <=> registered'[g] = e /\ g \notin stopped'
      BY <2>1, <2>2, <3>1, AllObserversDiffer DEF ObservedBy
    <3> QED
      BY <3>2, <3>3, <3>4 DEF ObservedBy
  <2> QED
    BY <2>4, <2>5, <2>6, <2>7 DEF OpenInv
<1>7. CASE Return
  <2>1. UserRuns
    BY <1>7 DEF Return, UserRuns
  <2> QED
    BY <1>7, <2>1, OpenKept, NobodyLeavesInControl DEF Return
<1>8. ASSUME NEW recovered \in 0 .. Depth, Panic(recovered) PROVE OpenInv'
  <2>1. UserRuns
    BY <1>8 DEF Panic, UserRuns
  <2> QED
    BY <1>8, <2>1, OpenKept, NobodyLeavesInControl DEF Panic
<1>9. ASSUME NEW c \in Contexts, TellOwn(c) PROVE OpenInv'
  <2>1. /\ Own(c) \in observers[c] /\ Closed(c) /\ Closing(c)
        /\ c \notin claimed /\ claimed' = claimed \cup {c}
        /\ observers' = Unsubscribed(c)
        /\ UNCHANGED <<parent, failure, listening, registered, stopped>>
    <3>1. Own(c) \in observers[c] /\ Closed(c) /\ Closing(c)
      BY <1>9, ClosingTakesControl, AllObserversDiffer DEF TellOwn, NextTold, Untold
    <3>2. c \notin claimed
      BY <3>1 DEF OpenInv, ClaimsAgree
    <3> QED
      BY <1>9, <3>1, <3>2 DEF TellOwn
  <2>2. Ended' = Ended /\ \A d \in Contexts : Closed(d)' <=> Closed(d)
    BY <2>1 DEF Ended, Closed
  <2>3. \A e \in Contexts : \A o :
            o \in observers'[e] <=>
                /\ o \in observers[e]
                /\ ~(e = c /\ o = Own(c))
                /\ ~(e = parent[c] /\ o = Propagate(c))
    BY <1>0, <2>1, UnsubscribedExactly
  <2>4. \A d \in Contexts \ {c} : Closed(d) => Own(d) \notin observers[d]
    BY <2>1 DEF OpenInv, LeavesFirst, Closing, Close
  <2>5. \A e \in Contexts : Propagate(c) \notin observers'[e]
    BY <2>3 DEF TreeInv, SubscribersAreRelated
  <2>6. \A d \in Contexts : Closed(d) => Own(d) \notin observers'[d]
    BY <2>3, <2>4
  <2>7. claimed' \subseteq Ended'
    BY <2>1, <2>2 DEF OpenInv, ClaimsAgree, Ended
  <2>8. \A e \in Contexts : ~Closed(e) =>
            /\ \A o \in observers[e] \ observers'[e] : o = Propagate(c)
            /\ \A d \in Contexts : Closed(d) => Propagate(d) \notin observers'[e]
    <3> TAKE e \in Contexts
    <3> HAVE ~Closed(e)
    <3>1. \A o \in observers[e] \ observers'[e] : o = Propagate(c)
      BY <2>1, <2>3
    <3>2. \A d \in Contexts \ {c} : Closed(d) => Propagate(d) \notin observers[e]
      BY <2>4, EndedObserveNothingOpen
    <3> QED
      BY <2>3, <2>5, <3>1, <3>2
  <2> QED
    BY <2>1, <2>2, <2>3, <2>6, <2>7, <2>8, ClosesKeepOpen
<1>10. ASSUME NEW c \in Contexts, NEW d \in Contexts, TellChild(c, d)
       PROVE  OpenInv'
  <2>1. /\ Closing(c) /\ Closed(c) /\ parent[d] = c
        /\ failure[c] \in Errors \ {NoError}
        /\ UNCHANGED <<parent, listening, registered, stopped>>
        /\ \A e \in Contexts : Closed(e) => Own(e) \notin observers[e]
    <3>1. Propagate(d) \in observers[c] /\ Own(c) \notin NextTold(c)
      BY <1>10, OthersAreToldLater, AllObserversDiffer DEF TellChild
    <3>2. Closing(c) /\ Closed(c)
      BY <1>10, ClosingTakesControl DEF TellChild
    <3>3. parent[d] = c
      BY <3>1 DEF TreeInv, SubscribersAreRelated
    <3>4. failure[c] \in Errors \ {NoError}
      BY <1>0, <3>2 DEF Closed
    <3> QED
      BY <1>10, <3>1, <3>2, <3>3, <3>4, NobodyLeavesWhileTelling DEF TellChild
  <2>2. CASE d \in claimed
    <3>1. UNCHANGED <<failure, observers>> /\ claimed' = claimed
      BY <1>10, <2>2 DEF TellChild
    <3> QED
      BY <2>1, <3>1, OpenKept
  <2>3. CASE d \notin claimed
    <3>1. /\ observers' = Unsubscribed(d) /\ claimed' = claimed \cup {d}
          /\ failure' = failure \/ failure' = [failure EXCEPT ![d] = failure[c]]
          /\ Closed(d) \/ failure' = [failure EXCEPT ![d] = failure[c]]
      BY <1>10, <2>3 DEF TellChild, Cancels
    <3>2. /\ \A e \in Contexts : Closed(e)' <=> Closed(e) \/ e = d
          /\ Created(d)
      BY <1>0, <2>1, <3>1 DEF Closed, Created
    <3>3. \A e \in Contexts : \A o :
              o \in observers'[e] <=>
                  /\ o \in observers[e]
                  /\ ~(e = d /\ o = Own(d))
                  /\ ~(e = parent[d] /\ o = Propagate(d))
      BY <1>0, <3>1, UnsubscribedExactly
    <3>4. \A e \in Contexts : Closed(e)' => Own(e) \notin observers'[e]
      BY <2>1, <3>2, <3>3
    <3>5. claimed' \subseteq Ended' /\ \A e \in claimed' \ claimed : e = d
      BY <3>1, <3>2 DEF OpenInv, ClaimsAgree, Ended
    <3>6. \A e \in Contexts : Propagate(d) \notin observers'[e]
      BY <3>3 DEF TreeInv, SubscribersAreRelated
    <3>7. \A e \in Contexts : ~Closed(e)' =>
              /\ observers'[e] = observers[e]
              /\ \A x \in Contexts : Closed(x)' => Propagate(x) \notin observers'[e]
      <4> TAKE e \in Contexts
      <4> HAVE ~Closed(e)'
      <4>1. ~Closed(e) /\ e # c /\ e # d
        BY <2>1, <3>2
      <4>2. observers'[e] = observers[e]
        BY <2>1, <3>3, <4>1
      <4>3. \A x \in Contexts : Closed(x) => Propagate(x) \notin observers[e]
        BY <2>1, <4>1, EndedObserveNothingOpen
      <4> QED
        BY <3>2, <3>6, <4>2, <4>3
    <3> QED
      BY <2>1, <3>2, <3>3, <3>4, <3>5, <3>7, ClosesKeepOpen
  <2> QED
    BY <2>2, <2>3
<1>11. ASSUME NEW c \in Contexts, TellNotify(c) PROVE OpenInv'
  <2>1. /\ Closing(c) /\ Closed(c) /\ Own(c) \notin NextTold(c)
    BY <1>11, ClosingTakesControl, OthersAreToldLater, AllObserversDiffer
       DEF TellNotify
  <2>2. /\ UNCHANGED <<failure, parent, claimed, registered, stopped>>
        /\ \A e \in Contexts : Closed(e)' <=> Closed(e)
        /\ Ended' = Ended
    BY <1>11, <2>1 DEF TellNotify, Cancels, Closed, Ended
  <2>3. /\ \A e \in Contexts : Closed(e) => Own(e) \notin observers[e]
        /\ claimed \subseteq Ended
    BY <2>1, NobodyLeavesWhileTelling DEF OpenInv, ClaimsAgree
  <2>4. /\ \A e \in Contexts : observers'[e] \subseteq observers[e]
        /\ \A e \in Contexts : e # c => observers'[e] = observers[e]
        /\ \A e \in Contexts : e # c => (e \in listening' <=> e \in listening)
    BY <1>0, <1>11 DEF TellNotify
  <2>5. \A e \in Contexts : ~Closed(e) =>
            /\ e # c
            /\ \A d \in Contexts : Closed(d) => Propagate(d) \notin observers[e]
    BY <2>1, <2>3, EndedObserveNothingOpen
  <2> QED
    BY <2>2, <2>3, <2>4, <2>5, ClosesKeepOpen
<1>12. ASSUME NEW c \in Contexts, NEW f \in Functions, TellAfter(c, f)
       PROVE  OpenInv'
  <2>1. Closing(c) /\ Own(c) \notin NextTold(c)
    BY <1>12, OthersAreToldLater, AllObserversDiffer DEF TellAfter
  <2> QED
    BY <1>12, <2>1, NobodyLeavesWhileTelling, OpenKept DEF TellAfter
<1>13. ASSUME NEW c \in Contexts, CloseReturns(c) PROVE OpenInv'
  <2>1. /\ Closing(c) /\ Closed(c) /\ Own(c) \notin NextTold(c)
    BY <1>13, ClosingTakesControl DEF CloseReturns, NextTold
  <2>2. /\ UNCHANGED <<failure, parent, claimed, listening, registered, stopped>>
        /\ \A e \in Contexts : Closed(e)' <=> Closed(e)
        /\ Ended' = Ended
    BY <1>13 DEF CloseReturns, Closed, Ended
  <2>3. /\ \A e \in Contexts : Closed(e) => Own(e) \notin observers[e]
        /\ claimed \subseteq Ended
    BY <2>1, NobodyLeavesWhileTelling DEF OpenInv, ClaimsAgree
  <2>4. /\ \A e \in Contexts : observers'[e] \subseteq observers[e]
        /\ \A e \in Contexts : e # c => observers'[e] = observers[e]
    BY <1>0, <1>13 DEF CloseReturns
  <2>5. \A e \in Contexts : ~Closed(e) =>
            /\ e # c
            /\ \A d \in Contexts : Closed(d) => Propagate(d) \notin observers[e]
    BY <2>1, <2>3, EndedObserveNothingOpen
  <2> QED
    BY <2>2, <2>3, <2>4, <2>5, ClosesKeepOpen
<1>14. CASE UNCHANGED vars
  BY <1>14 DEF vars, OpenInv, ObservedBy, ClaimsAgree, LeavesFirst, CreatedFirst,
     Ended, Closed, Created, Top, Depth
<1> QED
  BY <1>1, <1>2, <1>3, <1>4, <1>5, <1>6, <1>7, <1>8, <1>9, <1>10, <1>11, <1>12,
     <1>13, <1>14 DEF Next, CloseStep

\* For any tree of contexts and any program: whenever the program is in
\* control, an open channel is observed by exactly what must learn of its close.
THEOREM OpenChannelsAreObserved == Spec => []OpenIsObserved
<1>1. TreeInv /\ OpenInv => OpenIsObserved
  <2> SUFFICES ASSUME TreeInv, OpenInv, UserRuns, NEW c \in Contexts,
                      Created(c), ~Closed(c)
               PROVE  observers[c] =
                          (IF HasDone(parent[c]) THEN {Own(c)} ELSE {})
                          \cup (IF c \in listening THEN {Notify(c)} ELSE {})
                          \cup {Propagate(d) : d \in {d \in Children(c) : ~Closed(d)}}
                          \cup {After(f) : f \in Registered(c) \ stopped}
    BY DEF OpenIsObserved
  <2>1. ObservedBy(c) /\ observers[c] \subseteq Observers
    BY DEF OpenInv, TreeInv, TypeOK
  <2>2. \A d \in Contexts : Propagate(d) \in observers[c] <=>
                                d \in {x \in Children(c) : ~Closed(x)}
    BY <2>1, NobodyLeavesInControl DEF ObservedBy, Children
  <2>3. \A f \in Functions : After(f) \in observers[c] <=> f \in Registered(c) \ stopped
    BY <2>1 DEF ObservedBy, Registered
  <2>4. \A o \in observers[c] :
            \/ o = Own(c) \/ o = Notify(c)
            \/ \E d \in Contexts : o = Propagate(d)
            \/ \E f \in Functions : o = After(f)
    BY <2>1 DEF ObservedBy, Observers
  <2> QED
    BY <2>1, <2>2, <2>3, <2>4 DEF ObservedBy, Children, Registered
<1>2. Init => OpenInv
  BY InitOpenInv
<1>3. TreeInv /\ OpenInv /\ [Next]_vars => OpenInv'
  BY NextOpenInv
<1> QED
  BY <1>1, <1>2, <1>3, TreeInvariant, PTL DEF Spec
=============================================================================
