-------------------------- MODULE HostTimersProofs --------------------------
(***************************************************************************)
(* Proofs about HostTimers, for any timers, tickers and sources and any    *)
(* supply of handles.  Everything rests on Linked: the handle a timer or a *)
(* source holds is that of its one callback, and no callback is scheduled  *)
(* that nobody holds.                                                      *)
(***************************************************************************)
EXTENDS HostTimers, TLAPS

USE HostAssumption

Owners == Timers \cup Sources
Callbacks == [of : Owners, start : Nat]

\* The part of TypeOK that is about the host.
HostOK ==
    /\ handle \in [Owners -> Handles \cup {NoHandle}]
    /\ scheduled \in [Handles -> Callbacks \cup {Idle}]

Linked ==
    /\ \A x \in Owners : handle[x] # NoHandle =>
          scheduled[handle[x]] # Idle /\ scheduled[handle[x]].of = x
    /\ \A h \in Handles : scheduled[h] # Idle => handle[scheduled[h].of] = h

\* A callback is of the last start of its timer.
Current ==
    \A t \in Timers : handle[t] # NoHandle =>
        /\ scheduled[handle[t]].start = starts[t]
        /\ starts[t] > 0

\* Who holds a handle is in use, so that #stop does not turn it away, and who
\* has no channel has no tick.
InUse ==
    /\ \A t \in Timers : handle[t] # NoHandle => t \in active /\ kind[t] # "unmade"
    /\ \A r \in Sources : handle[r] # NoHandle => r \in made
    /\ \A k \in Tickers : runtime[k] \in made \cup {NoSource}
    /\ initialized \subseteq {t \in Timers : kind[t] # "unmade"}
    /\ \A t \in Timers : kind[t] # "channel" => channel[t] = 0

Inv == TypeOK /\ Linked /\ Current /\ InUse

-----------------------------------------------------------------------------
\* Whoever schedules a callback in place of its last one stays linked to it.
LEMMA ScheduleLinks ==
  ASSUME HostOK, Linked, NEW x \in Owners, NEW n \in Nat, Schedule(x, n, handle[x])
  PROVE  /\ HostOK' /\ Linked'
         /\ handle'[x] # NoHandle /\ scheduled'[handle'[x]].start = n
         /\ \A y \in Owners \ {x} :
               /\ handle'[y] = handle[y]
               /\ handle[y] # NoHandle => scheduled'[handle[y]] = scheduled[handle[y]]
<1> DEFINE callback == Callback(x, n)
<1>1. PICK h \in Handles :
        /\ scheduled[h] = Idle
        /\ handle' = [handle EXCEPT ![x] = h]
        /\ scheduled' = [i \in Handles |->
              IF i = h THEN callback ELSE IF i = handle[x] THEN Idle ELSE scheduled[i]]
  BY DEF Schedule
<1>2. callback \in Callbacks /\ callback.of = x /\ callback.start = n /\ callback # Idle
  BY DEF Callbacks, Callback, Owners
<1> HIDE DEF callback
<1>3. HostOK'
  BY <1>1, <1>2 DEF HostOK
<1>4. handle'[x] = h /\ scheduled'[h] = callback
  BY <1>1 DEF HostOK
<1>5. ASSUME NEW y \in Owners, y # x
      PROVE  /\ handle'[y] = handle[y]
             /\ handle[y] # NoHandle => /\ scheduled'[handle[y]] = scheduled[handle[y]]
                                        /\ scheduled[handle[y]] # Idle
                                        /\ scheduled[handle[y]].of = y
  <2>1. handle'[y] = handle[y]
    BY <1>1, <1>5 DEF HostOK
  <2>2. ASSUME handle[y] # NoHandle
        PROVE  /\ scheduled'[handle[y]] = scheduled[handle[y]]
               /\ scheduled[handle[y]] # Idle /\ scheduled[handle[y]].of = y
    <3>1. /\ handle[y] \in Handles
          /\ scheduled[handle[y]] # Idle /\ scheduled[handle[y]].of = y
      BY <2>2 DEF HostOK, Linked
    <3>2. handle[y] # h
      BY <3>1, <1>1
    <3>3. handle[y] # handle[x]
      BY <3>1, <1>5 DEF Linked
    <3> QED
      BY <3>1, <3>2, <3>3, <1>1
  <2> QED
    BY <2>1, <2>2
<1>6. \A y \in Owners : handle'[y] # NoHandle =>
          scheduled'[handle'[y]] # Idle /\ scheduled'[handle'[y]].of = y
  BY <1>2, <1>4, <1>5
<1>7. ASSUME NEW i \in Handles, scheduled'[i] # Idle
      PROVE  handle'[scheduled'[i].of] = i
  <2>1. CASE i = h
    BY <2>1, <1>2, <1>4
  <2>2. CASE i # h
    <3>1. i # handle[x] /\ scheduled'[i] = scheduled[i]
      BY <2>2, <1>1, <1>7
    <3>2. handle[scheduled[i].of] = i /\ scheduled[i].of \in Owners
      BY <3>1, <1>7 DEF Linked, HostOK, Callbacks
    <3>3. scheduled[i].of # x
      BY <3>1, <3>2
    <3> QED
      BY <3>1, <3>2, <3>3, <1>5
  <2> QED
    BY <2>1, <2>2
<1>8. Linked'
  BY <1>6, <1>7 DEF Linked
<1> QED
  BY <1>2, <1>3, <1>4, <1>5, <1>8

\* Whoever gives its handle up, as its callback runs or is cancelled, leaves no
\* callback behind and the others as they were.
LEMMA ClearLinks ==
  ASSUME HostOK, Linked, NEW x \in Owners, Clear(handle[x]),
         handle' = [handle EXCEPT ![x] = NoHandle]
  PROVE  /\ HostOK' /\ Linked'
         /\ handle'[x] = NoHandle
         /\ \A y \in Owners \ {x} :
               /\ handle'[y] = handle[y]
               /\ handle[y] # NoHandle => scheduled'[handle[y]] = scheduled[handle[y]]
<1>1. scheduled' = [i \in Handles |-> IF i = handle[x] THEN Idle ELSE scheduled[i]]
  BY DEF Clear
<1>2. HostOK'
  BY <1>1 DEF HostOK
<1>3. handle'[x] = NoHandle
  BY DEF HostOK
<1>4. ASSUME NEW y \in Owners, y # x
      PROVE  /\ handle'[y] = handle[y]
             /\ handle[y] # NoHandle => /\ scheduled'[handle[y]] = scheduled[handle[y]]
                                        /\ scheduled[handle[y]] # Idle
                                        /\ scheduled[handle[y]].of = y
  <2>1. handle'[y] = handle[y]
    BY <1>4 DEF HostOK
  <2>2. ASSUME handle[y] # NoHandle
        PROVE  /\ scheduled'[handle[y]] = scheduled[handle[y]]
               /\ scheduled[handle[y]] # Idle /\ scheduled[handle[y]].of = y
    <3>1. /\ handle[y] \in Handles
          /\ scheduled[handle[y]] # Idle /\ scheduled[handle[y]].of = y
      BY <2>2 DEF HostOK, Linked
    <3>2. handle[y] # handle[x]
      BY <3>1, <1>4 DEF Linked
    <3> QED
      BY <3>1, <3>2, <1>1
  <2> QED
    BY <2>1, <2>2
<1>5. \A y \in Owners : handle'[y] # NoHandle =>
          scheduled'[handle'[y]] # Idle /\ scheduled'[handle'[y]].of = y
  BY <1>3, <1>4
<1>6. ASSUME NEW i \in Handles, scheduled'[i] # Idle
      PROVE  handle'[scheduled'[i].of] = i
  <2>1. i # handle[x] /\ scheduled'[i] = scheduled[i]
    BY <1>1, <1>6
  <2>2. handle[scheduled[i].of] = i /\ scheduled[i].of \in Owners
    BY <2>1, <1>6 DEF Linked, HostOK, Callbacks
  <2>3. scheduled[i].of # x
    BY <2>1, <2>2
  <2> QED
    BY <2>1, <2>2, <2>3, <1>4
<1>7. Linked'
  BY <1>5, <1>6 DEF Linked
<1> QED
  BY <1>2, <1>3, <1>4, <1>7

\* A timer that #stop turns away holds no handle.
LEMMA StopsIsHeld ==
  ASSUME InUse, NEW t \in Timers
  PROVE  Stops(t) <=> handle[t] # NoHandle
BY DEF InUse, Stops

\* The callback the host runs is that of the handle its owner holds.
LEMMA HeldByItsOwner ==
  ASSUME HostOK, Linked, NEW h \in Handles, scheduled[h] # Idle, NEW x,
         scheduled[h].of = x
  PROVE  x \in Owners /\ handle[x] = h
BY DEF HostOK, Linked, Callbacks

-----------------------------------------------------------------------------
\* The first states.
LEMMA InitInv ==
  ASSUME Init
  PROVE  Inv
<1>1. \A x \in Owners : handle[x] = NoHandle
  BY DEF Init, Owners
<1>2. \A h \in Handles : scheduled[h] = Idle
  BY DEF Init
<1>3. TypeOK
  BY DEF Init, TypeOK, Owners
<1>4. Linked /\ Current
  BY <1>1, <1>2 DEF Linked, Current, Owners
<1>5. InUse
  BY <1>1 DEF Init, InUse, Owners
<1> QED
  BY <1>3, <1>4, <1>5 DEF Inv

\* TypeOK without the host.
RestOK ==
    /\ kind \in [Timers -> Promise!Kinds \cup {"unmade"}]
    /\ initialized \subseteq Timers
    /\ starts \in [Timers -> Nat]
    /\ active \subseteq Timers
    /\ channel \in [Timers -> Nat]
    /\ running \subseteq Timers
    /\ runtime \in [Tickers -> Sources \cup {NoSource}]
    /\ made \subseteq Sources
    /\ stopped \subseteq made
    /\ offered \subseteq Sources

LEMMA TypeParts ==
  TypeOK <=> HostOK /\ RestOK
BY DEF TypeOK, HostOK, RestOK, Owners, Callbacks

\* A step that leaves the host alone and starts no timer.
LEMMA HostUntouched ==
  ASSUME HostOK, Linked, Current, UNCHANGED <<handle, scheduled, starts>>
  PROVE  HostOK' /\ Linked' /\ Current'
BY DEF HostOK, Linked, Current

\* Whoever starts a timer.
LEMMA TimerStarted ==
  ASSUME HostOK, Linked, Current, RestOK, NEW t \in Timers,
         Schedule(t, starts[t] + 1, handle[t]),
         starts' = [starts EXCEPT ![t] = @ + 1]
  PROVE  /\ HostOK' /\ Linked' /\ Current'
         /\ handle'[t] # NoHandle
         /\ \A y \in Owners \ {t} : handle'[y] = handle[y]
<1>1. t \in Owners /\ starts[t] + 1 \in Nat /\ starts[t] + 1 > 0
  BY DEF Owners, RestOK
<1>2. /\ HostOK' /\ Linked'
      /\ handle'[t] # NoHandle /\ scheduled'[handle'[t]].start = starts[t] + 1
      /\ \A y \in Owners \ {t} :
            /\ handle'[y] = handle[y]
            /\ handle[y] # NoHandle => scheduled'[handle[y]] = scheduled[handle[y]]
  BY <1>1, ScheduleLinks
<1>3. /\ starts'[t] = starts[t] + 1
      /\ \A y \in Timers \ {t} : starts'[y] = starts[y]
  BY DEF RestOK
<1>4. Current'
  <2> SUFFICES ASSUME NEW y \in Timers, handle'[y] # NoHandle
               PROVE  scheduled'[handle'[y]].start = starts'[y] /\ starts'[y] > 0
    BY DEF Current
  <2>1. CASE y = t
    BY <2>1, <1>1, <1>2, <1>3
  <2>2. CASE y # t
    BY <2>2, <1>2, <1>3 DEF Current, Owners
  <2> QED
    BY <2>1, <2>2
<1> QED
  BY <1>2, <1>4

\* A source that schedules its callback.
LEMMA SourceScheduled ==
  ASSUME HostOK, Linked, Current, NEW r \in Sources, Schedule(r, 0, handle[r]),
         starts' = starts
  PROVE  /\ HostOK' /\ Linked' /\ Current'
         /\ handle'[r] # NoHandle
         /\ \A y \in Owners \ {r} : handle'[y] = handle[y]
<1>1. r \in Owners /\ 0 \in Nat
  BY DEF Owners
<1>2. /\ HostOK' /\ Linked'
      /\ handle'[r] # NoHandle
      /\ \A y \in Owners \ {r} :
            /\ handle'[y] = handle[y]
            /\ handle[y] # NoHandle => scheduled'[handle[y]] = scheduled[handle[y]]
  BY <1>1, ScheduleLinks
<1>3. Current'
  <2> SUFFICES ASSUME NEW y \in Timers, handle'[y] # NoHandle
               PROVE  scheduled'[handle'[y]].start = starts'[y] /\ starts'[y] > 0
    BY DEF Current
  <2>1. y \in Owners \ {r}
    BY DEF Owners
  <2> QED
    BY <2>1, <1>2 DEF Current
<1> QED
  BY <1>2, <1>3

\* A handle given up.
LEMMA GivenUp ==
  ASSUME HostOK, Linked, Current, NEW x \in Owners, Clear(handle[x]),
         handle' = [handle EXCEPT ![x] = NoHandle], starts' = starts
  PROVE  /\ HostOK' /\ Linked' /\ Current'
         /\ handle'[x] = NoHandle
         /\ \A y \in Owners \ {x} : handle'[y] = handle[y]
<1>1. /\ HostOK' /\ Linked'
      /\ handle'[x] = NoHandle
      /\ \A y \in Owners \ {x} :
            /\ handle'[y] = handle[y]
            /\ handle[y] # NoHandle => scheduled'[handle[y]] = scheduled[handle[y]]
  BY ClearLinks
<1>2. Current'
  <2> SUFFICES ASSUME NEW y \in Timers, handle'[y] # NoHandle
               PROVE  scheduled'[handle'[y]].start = starts'[y] /\ starts'[y] > 0
    BY DEF Current
  <2>1. y \in Owners \ {x}
    BY <1>1 DEF Owners
  <2> QED
    BY <2>1, <1>1 DEF Current
<1> QED
  BY <1>1, <1>2

-----------------------------------------------------------------------------
\* The starts GoTimers sees as still to fire.
Armed == [t \in Timers |-> IF handle[t] = NoHandle THEN 0 ELSE starts[t]]

LEMMA ArmedStarts ==
  ASSUME RestOK, Current, NEW t \in Timers
  PROVE  Armed[t] # 0 <=> handle[t] # NoHandle
BY DEF RestOK, Current, Armed

\* A timer that starts is armed with its new start, the others as before.
LEMMA ArmedByStart ==
  ASSUME RestOK, NEW t \in Timers, starts' = [starts EXCEPT ![t] = @ + 1],
         handle'[t] # NoHandle,
         \A y \in Owners \ {t} : handle'[y] = handle[y]
  PROVE  Armed' = [Armed EXCEPT ![t] = starts[t] + 1]
BY DEF RestOK, Armed, Owners

\* One that gives its handle up is disarmed.
LEMMA Disarmed ==
  ASSUME RestOK, NEW t \in Timers, starts' = starts, handle'[t] = NoHandle,
         \A y \in Owners \ {t} : handle'[y] = handle[y]
  PROVE  Armed' = [Armed EXCEPT ![t] = 0]
BY DEF RestOK, Armed, Owners

\* A source is no timer.
LEMMA TimersKept ==
  ASSUME NEW r \in Sources, starts' = starts,
         \A y \in Owners \ {r} : handle'[y] = handle[y]
  PROVE  Armed' = Armed
BY DEF Armed, Owners

-----------------------------------------------------------------------------
\* Steps of timers.
LEMMA TimerStep ==
  ASSUME Inv, NEW t \in Timers,
         \/ \E k \in {"channel", "function"} : NewTimer(t, k)
         \/ Reset(t)
         \/ DeclareTimer(t)
         \/ \E s \in Timers : AssignTimer(t, s)
         \/ Stop(t)
         \/ ResetThrows(t)
         \/ Refuse(t)
         \/ FireTimer(t)
         \/ FunctionReturns(t)
         \/ Receive(t)
  PROVE  Inv' /\ Promise!Next
<1> USE DEF tickerVars, Promise!tickerVars
<1>1. HostOK /\ RestOK /\ Linked /\ Current /\ InUse /\ t \in Owners
  BY TypeParts DEF Inv, Owners
<1>2. (HostOK' /\ RestOK' /\ Linked' /\ Current' /\ InUse') => Inv'
  BY TypeParts DEF Inv, TypeOK, HostOK, RestOK, Owners, Callbacks
<1>3. ASSUME NEW k \in {"channel", "function"}, NewTimer(t, k)
      PROVE  Inv' /\ Promise!Next
  <2>1. handle[t] = NoHandle
    BY <1>1, <1>3 DEF InUse, NewTimer
  <2>2. /\ HostOK' /\ Linked' /\ Current'
        /\ handle'[t] # NoHandle
        /\ \A y \in Owners \ {t} : handle'[y] = handle[y]
    BY <1>1, <1>3, <2>1, TimerStarted DEF NewTimer
  <2>3. RestOK'
    BY <1>1, <1>3 DEF NewTimer, RestOK, Promise!Kinds
  <2>4. InUse'
    BY <1>1, <1>3, <2>2 DEF NewTimer, InUse, RestOK, Owners
  <2>5. Armed' = [Armed EXCEPT ![t] = starts[t] + 1]
    BY <1>1, <1>3, <2>2, ArmedByStart DEF NewTimer
  <2>6. Promise!Make(t, k)
    BY <1>3, <2>5 DEF NewTimer, Promise!Make, Promise!Start, Armed
  <2> QED
    BY <1>2, <2>2, <2>3, <2>4, <2>6 DEF Promise!Next
<1>4. ASSUME Reset(t)
      PROVE  Inv' /\ Promise!Next
  <2>1. Stops(t) <=> handle[t] # NoHandle
    BY <1>1, StopsIsHeld
  <2>2. Schedule(t, starts[t] + 1, handle[t])
    BY <1>4, <2>1 DEF Reset
  <2>3. /\ HostOK' /\ Linked' /\ Current'
        /\ handle'[t] # NoHandle
        /\ \A y \in Owners \ {t} : handle'[y] = handle[y]
    BY <1>1, <1>4, <2>2, TimerStarted DEF Reset
  <2>4. RestOK'
    BY <1>1, <1>4 DEF Reset, RestOK, Discarded
  <2>5. InUse'
    BY <1>1, <1>4, <2>3 DEF Reset, InUse, RestOK, Owners, Discarded
  <2>6. Armed' = [Armed EXCEPT ![t] = starts[t] + 1]
    BY <1>1, <1>4, <2>3, ArmedByStart DEF Reset
  <2>7. Armed[t] # 0 <=> Stops(t)
    BY <1>1, <2>1, ArmedStarts
  <2>8. Promise!Reset(t)
    <3>1. channel' = [channel EXCEPT ![t] = 0]
      BY <1>1, <1>4 DEF Reset, Discarded, InUse, RestOK
    <3> QED
      BY <1>4, <2>6, <2>7, <3>1
         DEF Reset, Promise!Reset, Promise!Start, Promise!Answer, Armed
  <2> QED
    BY <1>2, <2>3, <2>4, <2>5, <2>8 DEF Promise!Next
<1>5. ASSUME DeclareTimer(t)
      PROVE  Inv' /\ Promise!Next
  <2>1. HostOK' /\ Linked' /\ Current' /\ Armed' = Armed
    BY <1>1, <1>5, HostUntouched DEF DeclareTimer, Armed
  <2>2. RestOK'
    BY <1>1, <1>5 DEF DeclareTimer, RestOK, Promise!Kinds
  <2>3. InUse'
    BY <1>1, <1>5 DEF DeclareTimer, InUse, RestOK
  <2>4. Promise!Declare(t)
    BY <1>5, <2>1 DEF DeclareTimer, Promise!Declare, Armed
  <2> QED
    BY <1>2, <2>1, <2>2, <2>3, <2>4 DEF Promise!Next
<1>6. ASSUME NEW s \in Timers, AssignTimer(t, s)
      PROVE  Inv' /\ Promise!Next
  <2>1. HostOK' /\ Linked' /\ Current' /\ Armed' = Armed
    BY <1>1, <1>6, HostUntouched DEF AssignTimer, Armed
  <2>2. RestOK'
    BY <1>1, <1>6 DEF AssignTimer, RestOK
  <2>3. InUse'
    BY <1>1, <1>6 DEF AssignTimer, InUse, RestOK
  <2>4. Promise!Assign(t, s)
    BY <1>6, <2>1 DEF AssignTimer, Promise!Assign, Armed
  <2> QED
    BY <1>2, <2>1, <2>2, <2>3, <2>4 DEF Promise!Next
<1>7. ASSUME Stop(t)
      PROVE  Inv' /\ Promise!Next
  <2>1. Armed[t] # 0 <=> Stops(t)
    BY <1>1, StopsIsHeld, ArmedStarts
  <2>2. RestOK'
    BY <1>1, <1>7 DEF Stop, RestOK
  <2>3. CASE Stops(t)
    <3>1. /\ HostOK' /\ Linked' /\ Current'
          /\ handle'[t] = NoHandle
          /\ \A y \in Owners \ {t} : handle'[y] = handle[y]
      BY <1>1, <1>7, <2>3, GivenUp DEF Stop
    <3>2. InUse'
      BY <1>1, <1>7, <3>1 DEF Stop, InUse, RestOK, Owners
    <3>3. Armed' = [Armed EXCEPT ![t] = 0]
      BY <1>1, <1>7, <3>1, Disarmed DEF Stop
    <3>4. Promise!Stop(t)
      BY <1>7, <2>1, <3>3 DEF Stop, Promise!Stop, Promise!Answer, Armed
    <3> QED
      BY <1>2, <2>2, <3>1, <3>2, <3>4 DEF Promise!Next
  <2>4. CASE ~Stops(t)
    <3>1. HostOK' /\ Linked' /\ Current' /\ Armed' = Armed
      BY <1>1, <1>7, <2>4, HostUntouched DEF Stop, Armed
    <3>2. InUse'
      BY <1>1, <1>7, <2>4 DEF Stop, InUse, RestOK
    <3>3. Armed' = [Armed EXCEPT ![t] = 0]
      BY <2>1, <2>4, <3>1 DEF Armed
    <3>4. Promise!Stop(t)
      BY <1>7, <2>1, <2>4, <3>3 DEF Stop, Promise!Stop, Promise!Answer, Armed
    <3> QED
      BY <1>2, <2>2, <3>1, <3>2, <3>4 DEF Promise!Next
  <2> QED
    BY <2>3, <2>4
<1>8. ASSUME ResetThrows(t)
      PROVE  Inv' /\ Promise!Next
  <2>1. Stops(t) <=> handle[t] # NoHandle
    BY <1>1, StopsIsHeld
  <2>2. Clear(handle[t]) /\ handle' = [handle EXCEPT ![t] = NoHandle]
    BY <1>1, <1>8, <2>1 DEF ResetThrows, HostOK
  <2>3. /\ HostOK' /\ Linked' /\ Current'
        /\ handle'[t] = NoHandle
        /\ \A y \in Owners \ {t} : handle'[y] = handle[y]
    BY <1>1, <1>8, <2>2, GivenUp DEF ResetThrows
  <2>4. RestOK'
    BY <1>1, <1>8 DEF ResetThrows, RestOK, Discarded
  <2>5. InUse'
    BY <1>1, <1>8, <2>3 DEF ResetThrows, InUse, RestOK, Owners, Discarded
  <2>6. Armed' = [Armed EXCEPT ![t] = 0]
    BY <1>1, <1>8, <2>3, Disarmed DEF ResetThrows
  <2>7. Promise!ResetFails(t)
    <3>1. channel' = [channel EXCEPT ![t] = 0]
      BY <1>1, <1>8 DEF ResetThrows, Discarded, InUse, RestOK
    <3> QED
      BY <1>8, <2>6, <3>1 DEF ResetThrows, Promise!ResetFails, Armed
  <2> QED
    BY <1>2, <2>3, <2>4, <2>5, <2>7 DEF Promise!Next
<1>9. ASSUME Refuse(t)
      PROVE  Inv' /\ Promise!Next
  <2>1. UNCHANGED <<timerVars, tickerVars, handle, scheduled>>
    BY <1>9 DEF Refuse
  <2>2. HostOK' /\ Linked' /\ Current' /\ Armed' = Armed
    BY <1>1, <2>1, HostUntouched DEF timerVars, Armed
  <2>3. RestOK' /\ InUse'
    BY <1>1, <2>1 DEF timerVars, RestOK, InUse
  <2>4. Promise!Refuse(t)
    BY <1>9, <2>1, <2>2 DEF Refuse, Promise!Refuse, Armed, timerVars
  <2> QED
    BY <1>2, <2>2, <2>3, <2>4 DEF Promise!Next
<1>10. ASSUME FireTimer(t)
       PROVE  Inv' /\ Promise!Next
  <2>1. PICK h \in Handles : TimerCallback(t, h)
    BY <1>10 DEF FireTimer
  <2>2. handle[t] = h /\ handle[t] # NoHandle
    BY <1>1, <2>1, HeldByItsOwner DEF TimerCallback
  <2>3. scheduled[h].start = starts[t] /\ Armed[t] = starts[t] /\ starts[t] > 0
    BY <1>1, <2>2 DEF Current, Armed
  <2>4. /\ HostOK' /\ Linked' /\ Current'
        /\ handle'[t] = NoHandle
        /\ \A y \in Owners \ {t} : handle'[y] = handle[y]
    BY <1>1, <2>1, <2>2, GivenUp DEF TimerCallback
  <2>5. RestOK'
    BY <1>1, <2>1, <2>3 DEF TimerCallback, RestOK
  <2>6. InUse'
    BY <1>1, <2>1, <2>4 DEF TimerCallback, InUse, RestOK, Owners
  <2>7. Armed' = [Armed EXCEPT ![t] = 0]
    BY <1>1, <2>1, <2>4, Disarmed DEF TimerCallback
  <2>8. Promise!Fire(t)
    <3>1. Armed[t] # 0
      BY <1>1, <2>3 DEF RestOK
    <3>2. channel' = IF kind[t] = "channel" /\ channel[t] = 0
                     THEN [channel EXCEPT ![t] = Armed[t]] ELSE channel
      BY <2>1, <2>3 DEF TimerCallback
    <3>3. said' = IF kind[t] = "function"
                  THEN Promise!Word(t, "call", Armed[t]) ELSE Promise!Silence
      BY <2>1, <2>3 DEF TimerCallback
    <3> QED
      BY <2>1, <2>7, <3>1, <3>2, <3>3 DEF TimerCallback, Promise!Fire, Armed
  <2> QED
    BY <1>2, <2>4, <2>5, <2>6, <2>8 DEF Promise!Next
<1>11. ASSUME FunctionReturns(t)
       PROVE  Inv' /\ Promise!Next
  <2>1. HostOK' /\ Linked' /\ Current' /\ Armed' = Armed
    BY <1>1, <1>11, HostUntouched DEF FunctionReturns, Armed
  <2>2. RestOK' /\ InUse'
    BY <1>1, <1>11 DEF FunctionReturns, RestOK, InUse
  <2>3. Promise!Other
    BY <1>11, <2>1 DEF FunctionReturns, Promise!Other, Armed
  <2> QED
    BY <1>2, <2>1, <2>2, <2>3 DEF Promise!Next
<1>12. ASSUME Receive(t)
       PROVE  Inv' /\ Promise!Next
  <2>1. HostOK' /\ Linked' /\ Current' /\ Armed' = Armed
    BY <1>1, <1>12, HostUntouched DEF Receive, Armed
  <2>2. RestOK' /\ InUse'
    BY <1>1, <1>12 DEF Receive, RestOK, InUse
  <2>3. Promise!Receive(t)
    BY <1>12, <2>1 DEF Receive, Promise!Receive, Armed
  <2> QED
    BY <1>2, <2>1, <2>2, <2>3 DEF Promise!Next
<1> QED
  BY <1>3, <1>4, <1>5, <1>6, <1>7, <1>8, <1>9, <1>10, <1>11, <1>12

\* Steps of tickers.
LEMMA TickerStep ==
  ASSUME Inv,
         \/ \E k \in Tickers :
               \/ \E r \in Sources : NewTicker(k, r)
               \/ \E j \in Tickers : AssignTicker(k, j)
               \/ StopTicker(k)
         \/ \E r \in Sources : FireTicker(r) \/ ReceiveTick(r)
  PROVE  Inv' /\ Promise!Next
<1> USE DEF timerVars
<1>1. HostOK /\ RestOK /\ Linked /\ Current /\ InUse /\ Sources \subseteq Owners
  BY TypeParts DEF Inv, Owners
<1>2. (HostOK' /\ RestOK' /\ Linked' /\ Current' /\ InUse') => Inv'
  BY DEF Inv, TypeOK, HostOK, RestOK, Owners, Callbacks
<1>3. ASSUME NEW k \in Tickers, NEW r \in Sources, NewTicker(k, r)
      PROVE  Inv' /\ Promise!Next
  <2>1. handle[r] = NoHandle
    BY <1>1, <1>3 DEF InUse, NewTicker
  <2>2. /\ HostOK' /\ Linked' /\ Current'
        /\ handle'[r] # NoHandle
        /\ \A y \in Owners \ {r} : handle'[y] = handle[y]
    BY <1>1, <1>3, <2>1, SourceScheduled DEF NewTicker
  <2>3. RestOK'
    BY <1>1, <1>3 DEF NewTicker, RestOK
  <2>4. InUse'
    BY <1>1, <1>3, <2>2 DEF NewTicker, InUse, RestOK, Owners
  <2>5. Armed' = Armed
    BY <1>3, <2>2, TimersKept DEF NewTicker
  <2>6. Promise!StartTicker(r)
    BY <1>1, <1>3, <2>5 DEF NewTicker, Promise!StartTicker, Armed, RestOK
  <2> QED
    BY <1>2, <2>2, <2>3, <2>4, <2>6 DEF Promise!Next
<1>4. ASSUME NEW k \in Tickers, NEW j \in Tickers, AssignTicker(k, j)
      PROVE  Inv' /\ Promise!Next
  <2>1. HostOK' /\ Linked' /\ Current' /\ Armed' = Armed
    BY <1>1, <1>4, HostUntouched DEF AssignTicker, Armed
  <2>2. RestOK' /\ InUse'
    BY <1>1, <1>4 DEF AssignTicker, RestOK, InUse
  <2>3. Promise!Other
    BY <1>4, <2>1 DEF AssignTicker, Promise!Other, Promise!tickerVars, Armed
  <2> QED
    BY <1>2, <2>1, <2>2, <2>3 DEF Promise!Next
<1>5. ASSUME NEW k \in Tickers, StopTicker(k)
      PROVE  Inv' /\ Promise!Next
  <2> DEFINE r == runtime[k]
  <2>1. CASE r = NoSource
    <3>1. HostOK' /\ Linked' /\ Current' /\ Armed' = Armed
      BY <1>1, <1>5, <2>1, HostUntouched DEF StopTicker, Armed
    <3>2. RestOK' /\ InUse'
      BY <1>1, <1>5, <2>1 DEF StopTicker, RestOK, InUse
    <3>3. Promise!Other
      BY <1>5, <2>1, <3>1 DEF StopTicker, Promise!Other, Promise!tickerVars, Armed
    <3> QED
      BY <1>2, <3>1, <3>2, <3>3 DEF Promise!Next
  <2>2. CASE r # NoSource
    <3>1. r \in made /\ r \in Sources /\ r \in Owners
      BY <1>1, <2>2 DEF InUse, RestOK
    <3>2. /\ HostOK' /\ Linked' /\ Current'
          /\ handle'[r] = NoHandle
          /\ \A y \in Owners \ {r} : handle'[y] = handle[y]
      BY <1>1, <1>5, <2>2, <3>1, GivenUp DEF StopTicker
    <3>3. RestOK'
      BY <1>1, <1>5, <2>2, <3>1 DEF StopTicker, RestOK
    <3>4. InUse'
      BY <1>1, <1>5, <2>2, <3>1, <3>2 DEF StopTicker, InUse, RestOK, Owners
    <3>5. Armed' = Armed
      BY <1>5, <3>1, <3>2, TimersKept DEF StopTicker
    <3>6. Promise!StopTicker(r)
      BY <1>5, <2>2, <3>5 DEF StopTicker, Promise!StopTicker, Armed
    <3> QED
      BY <1>2, <3>1, <3>2, <3>3, <3>4, <3>6 DEF Promise!Next
  <2> QED
    BY <2>1, <2>2
<1>6. ASSUME NEW r \in Sources, FireTicker(r)
      PROVE  Inv' /\ Promise!Next
  <2>1. PICK h \in Handles : TickerCallback(r, h)
    BY <1>6 DEF FireTicker
  <2>2. handle[r] = h /\ handle[r] # NoHandle /\ r \in made
    BY <1>1, <2>1, HeldByItsOwner DEF TickerCallback, InUse
  <2>3. CASE r \in stopped
    <3>1. /\ HostOK' /\ Linked' /\ Current'
          /\ handle'[r] = NoHandle
          /\ \A y \in Owners \ {r} : handle'[y] = handle[y]
      BY <1>1, <2>1, <2>2, <2>3, GivenUp DEF TickerCallback
    <3>2. RestOK'
      BY <1>1, <2>1, <2>3 DEF TickerCallback, RestOK
    <3>3. InUse'
      BY <1>1, <2>1, <3>1 DEF TickerCallback, InUse, RestOK, Owners
    <3>4. Armed' = Armed
      BY <2>1, <3>1, TimersKept DEF TickerCallback
    <3>5. Promise!Other
      BY <2>1, <2>3, <3>4 DEF TickerCallback, Promise!Other, Promise!tickerVars, Armed
    <3> QED
      BY <1>2, <3>1, <3>2, <3>3, <3>5 DEF Promise!Next
  <2>4. CASE r \notin stopped
    <3>1. /\ HostOK' /\ Linked' /\ Current'
          /\ handle'[r] # NoHandle
          /\ \A y \in Owners \ {r} : handle'[y] = handle[y]
      BY <1>1, <2>1, <2>2, <2>4, SourceScheduled DEF TickerCallback
    <3>2. RestOK'
      BY <1>1, <2>1, <2>4 DEF TickerCallback, RestOK
    <3>3. InUse'
      BY <1>1, <2>1, <2>2, <3>1 DEF TickerCallback, InUse, RestOK, Owners
    <3>4. Armed' = Armed
      BY <2>1, <3>1, TimersKept DEF TickerCallback
    <3>5. Promise!Tick(r)
      BY <2>1, <2>2, <2>4, <3>4 DEF TickerCallback, Promise!Tick, Armed
    <3> QED
      BY <1>2, <3>1, <3>2, <3>3, <3>5 DEF Promise!Next
  <2> QED
    BY <2>3, <2>4
<1>7. ASSUME NEW r \in Sources, ReceiveTick(r)
      PROVE  Inv' /\ Promise!Next
  <2>1. HostOK' /\ Linked' /\ Current' /\ Armed' = Armed
    BY <1>1, <1>7, HostUntouched DEF ReceiveTick, Armed
  <2>2. RestOK' /\ InUse'
    BY <1>1, <1>7 DEF ReceiveTick, RestOK, InUse
  <2>3. Promise!ReceiveTick(r)
    BY <1>7, <2>1 DEF ReceiveTick, Promise!ReceiveTick, Armed
  <2> QED
    BY <1>2, <2>1, <2>2, <2>3 DEF Promise!Next
<1> QED
  BY <1>3, <1>4, <1>5, <1>6, <1>7

\* A stuttering step.
LEMMA TimerStutter ==
  ASSUME Inv, UNCHANGED vars
  PROVE  Inv' /\ UNCHANGED Promise!vars
<1> USE DEF vars, timerVars, tickerVars
<1>1. Inv'
  BY DEF Inv, TypeOK, Linked, Current, InUse
<1>2. Armed' = Armed
  BY DEF Armed
<1> QED
  BY <1>1, <1>2 DEF Promise!vars, Armed

\* The invariant holds throughout.
LEMMA TimerInvariant == Spec => []Inv
<1>1. Init => Inv
  BY InitInv
<1>2. Inv /\ [Next]_vars => Inv'
  BY TimerStep, TickerStep, TimerStutter DEF Next
<1> QED
  BY <1>1, <1>2, PTL DEF Spec

\* Who holds a handle holds that of its one callback, and no callback is
\* scheduled that could not be stopped.
THEOREM CallbacksAreHeld == Spec => []Linked
<1>1. Inv => Linked
  BY DEF Inv
<1> QED
  BY <1>1, TimerInvariant, PTL

\* Timers and tickers keep the promises of GoTimers.
THEOREM RefinesGoTimers == Spec => ImplementsGoTimers
<1>1. Init => Promise!Init
  BY DEF Init, Promise!Init, Owners
<1>2. Inv /\ [Next]_vars => [Promise!Next]_(Promise!vars)
  BY TimerStep, TickerStep, TimerStutter DEF Next
<1> QED
  BY <1>1, <1>2, TimerInvariant, PTL DEF Spec, ImplementsGoTimers, Promise!Spec
=============================================================================
