----------------------------- MODULE HostTimers -----------------------------
(***************************************************************************)
(* Timer and Ticker of the library (gostdlib, portable/time/timer.ts) over *)
(* setTimeout and clearTimeout of the host (node/time/clock.ts).  A timer  *)
(* holds the handle of its callback; the copies of a ticker share one      *)
(* record, here its source, whose callback schedules itself again.         *)
(*                                                                         *)
(* The host runs one callback at a time, whenever it finds it due, and the *)
(* program runs between callbacks and inside the function of an AfterFunc, *)
(* where it may stop and reset the very timer that called it.  A timer may *)
(* be copied or assigned: only the channel it shows and whether it was     *)
(* made are taken over.                                                    *)
(*                                                                         *)
(* Time is left out, and so is a panic that leaves an AfterFunc function:  *)
(* it leaves the host's callback too and ends the program.                 *)
(*                                                                         *)
(* An operator named Bug... is a mistaken form of the definition after it  *)
(* and is used by no specification: it says what a property would catch.   *)
(***************************************************************************)
EXTENDS Naturals

CONSTANTS
    Timers, Sources,   \* as in GoTimers
    Tickers,           \* variables of type Ticker
    Handles,           \* what setTimeout returns
    NoHandle,
    NoSource,          \* a ticker NewTicker did not make
    Idle,              \* no callback
    MaxStarts          \* bound on the starts of a timer

VARIABLES
    kind, initialized, starts, said,   \* as in GoTimers
    active,     \* timers between #start and the callback or #stop
    handle,     \* timer or source -> the handle it holds
    scheduled,  \* handle -> the callback the host will run
    channel,    \* timer -> the start whose tick its channel holds, or 0
    running,    \* timers whose function the host's callback is running
    runtime,    \* ticker -> its source
    made,       \* sources in use
    stopped,    \* sources stopped
    offered     \* sources with a tick in their channel

timerVars == <<kind, initialized, starts, active, channel, running>>
tickerVars == <<runtime, made, stopped, offered>>
vars == <<timerVars, tickerVars, handle, scheduled, said>>

ASSUME HostAssumption ==
    /\ NoHandle \notin Handles
    /\ NoSource \notin Sources
    /\ Timers \cap Sources = {}
    /\ Idle \notin [of : Timers \cup Sources, start : Nat]
    /\ MaxStarts \in Nat

Promise == INSTANCE GoTimers WITH
    ready <- initialized,
    armed <- [t \in Timers |-> IF handle[t] = NoHandle THEN 0 ELSE starts[t]],
    tick <- channel,
    ticking <- made \ stopped,
    ticked <- offered

Callback(of, start) == [of |-> of, start |-> start]

\* setTimeout, after clearTimeout of `old' or the end of its callback: `of'
\* holds the handle of the new callback.
Schedule(of, start, old) ==
    LET h == CHOOSE i \in Handles : scheduled[i] = Idle IN
    /\ \E i \in Handles : scheduled[i] = Idle
    /\ handle' = [handle EXCEPT ![of] = h]
    /\ scheduled' = [i \in Handles |-> IF i = h THEN Callback(of, start)
                                      ELSE IF i = old THEN Idle ELSE scheduled[i]]

\* clearTimeout, or the end of a callback.
Clear(old) ==
    scheduled' = [i \in Handles |-> IF i = old THEN Idle ELSE scheduled[i]]

-----------------------------------------------------------------------------
Init ==
    /\ kind = [t \in Timers |-> "unmade"]
    /\ initialized = {}
    /\ starts = [t \in Timers |-> 0]
    /\ said = Promise!Silence
    /\ active = {}
    /\ handle = [x \in Timers \cup Sources |-> NoHandle]
    /\ scheduled = [h \in Handles |-> Idle]
    /\ channel = [t \in Timers |-> 0]
    /\ running = {}
    /\ runtime = [k \in Tickers |-> NoSource]
    /\ made = {}
    /\ stopped = {}
    /\ offered = {}

\* NewTimer, After and AfterFunc; one that throws leaves no timer.
NewTimer(t, k) ==
    /\ kind[t] = "unmade" /\ starts[t] < MaxStarts
    /\ kind' = [kind EXCEPT ![t] = k]
    /\ initialized' = initialized \cup {t}
    /\ starts' = [starts EXCEPT ![t] = @ + 1]
    /\ active' = active \cup {t}
    /\ Schedule(t, starts[t] + 1, NoHandle)
    /\ said' = Promise!Silence
    /\ UNCHANGED <<channel, running, tickerVars>>

\* new Timer() of a declaration or a copy.
DeclareTimer(t) ==
    /\ kind[t] = "unmade"
    /\ kind' = [kind EXCEPT ![t] = "copy"]
    /\ said' = Promise!Silence
    /\ UNCHANGED <<initialized, starts, active, channel, running, tickerVars,
                   handle, scheduled>>

\* assignTimerRepresentation, the second half of copyTimerRepresentation.
AssignTimer(t, s) ==
    /\ kind[t] # "unmade" /\ kind[s] # "unmade"
    /\ initialized' = IF s \in initialized THEN initialized \cup {t}
                      ELSE initialized \ {t}
    /\ said' = Promise!Silence
    /\ UNCHANGED <<kind, starts, active, channel, running, tickerVars,
                   handle, scheduled>>

\* What #stop answers.
Stops(t) == t \in active /\ handle[t] # NoHandle

Stop(t) ==
    /\ t \in initialized
    /\ IF Stops(t)
       THEN /\ Clear(handle[t])
            /\ handle' = [handle EXCEPT ![t] = NoHandle]
            /\ active' = active \ {t}
       ELSE UNCHANGED <<scheduled, handle, active>>
    /\ said' = Promise!Answer(t, Stops(t))
    /\ UNCHANGED <<kind, initialized, starts, channel, running, tickerVars>>

\* discard of the channel, when the timer has one.
Discarded(t) == IF kind[t] = "channel" THEN [channel EXCEPT ![t] = 0] ELSE channel

Reset(t) ==
    /\ t \in initialized /\ starts[t] < MaxStarts
    /\ starts' = [starts EXCEPT ![t] = @ + 1]
    /\ active' = active \cup {t}
    /\ Schedule(t, starts[t] + 1, IF Stops(t) THEN handle[t] ELSE NoHandle)
    /\ said' = Promise!Answer(t, Stops(t))
    /\ channel' = Discarded(t)
    /\ UNCHANGED <<kind, initialized, running, tickerVars>>

\* hostInteger throws inside #start, which has set #active already.
ResetThrows(t) ==
    /\ t \in initialized
    /\ active' = active \cup {t}
    /\ handle' = IF Stops(t) THEN [handle EXCEPT ![t] = NoHandle] ELSE handle
    /\ Clear(IF Stops(t) THEN handle[t] ELSE NoHandle)
    /\ said' = Promise!Word(t, "host exception", 0)
    /\ channel' = Discarded(t)
    /\ UNCHANGED <<kind, initialized, starts, running, tickerVars>>

\* Stop and Reset of a timer that was never made.
Refuse(t) ==
    /\ kind[t] # "unmade" /\ t \notin initialized
    /\ said' = Promise!Word(t, "panic", 0)
    /\ UNCHANGED <<timerVars, tickerVars, handle, scheduled>>

\* The callback of #start.  offer drops the tick when one is still there.
TimerCallback(t, h) ==
    /\ running = {}
    /\ scheduled[h] # Idle /\ scheduled[h].of = t
    /\ Clear(h)
    /\ active' = active \ {t}
    /\ handle' = [handle EXCEPT ![t] = NoHandle]
    /\ channel' = IF kind[t] = "channel" /\ channel[t] = 0
                  THEN [channel EXCEPT ![t] = scheduled[h].start] ELSE channel
    /\ running' = IF kind[t] = "function" THEN {t} ELSE {}
    /\ said' = IF kind[t] = "function"
               THEN Promise!Word(t, "call", scheduled[h].start) ELSE Promise!Silence
    /\ UNCHANGED <<kind, initialized, starts, tickerVars>>

\* #action returns, and the callback with it, which cleared the fields before.
BugFunctionReturns(t) ==
    /\ t \in running
    /\ running' = {}
    /\ active' = active \ {t}
    /\ handle' = [handle EXCEPT ![t] = NoHandle]
    /\ said' = Promise!Silence
    /\ UNCHANGED <<kind, initialized, starts, channel, tickerVars, scheduled>>

FunctionReturns(t) ==
    /\ t \in running
    /\ running' = {}
    /\ said' = Promise!Silence
    /\ UNCHANGED <<kind, initialized, starts, active, channel, tickerVars,
                   handle, scheduled>>

\* A receive from the channel of a timer, through any variable that shows it.
Receive(t) ==
    /\ channel[t] # 0
    /\ said' = Promise!Word(t, "tick", channel[t])
    /\ channel' = [channel EXCEPT ![t] = 0]
    /\ UNCHANGED <<kind, initialized, starts, active, running, tickerVars,
                   handle, scheduled>>

-----------------------------------------------------------------------------
\* NewTicker: the constructor and the first scheduleTicker.
NewTicker(k, r) ==
    /\ r \notin made
    /\ made' = made \cup {r}
    /\ runtime' = [runtime EXCEPT ![k] = r]
    /\ Schedule(r, 0, NoHandle)
    /\ said' = Promise!Silence
    /\ UNCHANGED <<timerVars, stopped, offered>>

\* assignTickerRepresentation and, of a new ticker, copyTickerRepresentation.
AssignTicker(k, j) ==
    /\ runtime' = [runtime EXCEPT ![k] = runtime[j]]
    /\ said' = Promise!Silence
    /\ UNCHANGED <<timerVars, made, stopped, offered, handle, scheduled>>

StopTicker(k) ==
    LET r == runtime[k] IN
    /\ said' = Promise!Silence
    /\ IF r = NoSource
       THEN UNCHANGED <<stopped, handle, scheduled>>
       ELSE /\ stopped' = stopped \cup {r}
            /\ handle' = [handle EXCEPT ![r] = NoHandle]
            /\ Clear(handle[r])
    /\ UNCHANGED <<timerVars, runtime, made, offered>>

\* The callback of scheduleTicker, which schedules itself again.
BugTickerCallback(r, h) ==
    /\ running = {}
    /\ scheduled[h] # Idle /\ scheduled[h].of = r
    /\ offered' = IF r \in stopped THEN offered ELSE offered \cup {r}
    /\ IF r \in stopped \/ r \in offered
       THEN Clear(h) /\ handle' = [handle EXCEPT ![r] = NoHandle]
       ELSE Schedule(r, 0, h)
    /\ said' = Promise!Silence
    /\ UNCHANGED <<timerVars, runtime, made, stopped>>

TickerCallback(r, h) ==
    /\ running = {}
    /\ scheduled[h] # Idle /\ scheduled[h].of = r
    /\ IF r \in stopped
       THEN /\ Clear(h)
            /\ handle' = [handle EXCEPT ![r] = NoHandle]
            /\ UNCHANGED offered
       ELSE /\ offered' = offered \cup {r}
            /\ Schedule(r, 0, h)
    /\ said' = Promise!Silence
    /\ UNCHANGED <<timerVars, runtime, made, stopped>>

ReceiveTick(r) ==
    /\ r \in offered
    /\ said' = Promise!Word(r, "tick", 0)
    /\ offered' = offered \ {r}
    /\ UNCHANGED <<timerVars, runtime, made, stopped, handle, scheduled>>

-----------------------------------------------------------------------------
FireTimer(t) == \E h \in Handles : TimerCallback(t, h)
FireTicker(r) == \E h \in Handles : TickerCallback(r, h)

Next ==
    \/ \E t \in Timers :
          \/ \E k \in {"channel", "function"} : NewTimer(t, k)
          \/ Reset(t)
          \/ DeclareTimer(t)
          \/ \E s \in Timers : AssignTimer(t, s)
          \/ Stop(t)
          \/ ResetThrows(t)
          \/ Refuse(t)
          \/ FireTimer(t)
          \/ FunctionReturns(t)
          \/ Receive(t)
    \/ \E k \in Tickers :
          \/ \E r \in Sources : NewTicker(k, r)
          \/ \E j \in Tickers : AssignTicker(k, j)
          \/ StopTicker(k)
    \/ \E r \in Sources : FireTicker(r) \/ ReceiveTick(r)

\* The host runs every callback it has not cancelled, however busy the others
\* keep it, and the functions it calls return.
Fairness ==
    /\ \A t \in Timers : SF_vars(FireTimer(t)) /\ WF_vars(FunctionReturns(t))
    /\ \A r \in Sources : SF_vars(FireTicker(r))

Spec == Init /\ [][Next]_vars /\ Fairness

-----------------------------------------------------------------------------
(* Properties *)

\* Every variable holds a value of its type.
TypeOK ==
    /\ kind \in [Timers -> Promise!Kinds \cup {"unmade"}]
    /\ initialized \subseteq Timers
    /\ starts \in [Timers -> Nat]
    /\ active \subseteq Timers
    /\ handle \in [Timers \cup Sources -> Handles \cup {NoHandle}]
    /\ scheduled \in [Handles -> [of : Timers \cup Sources, start : Nat] \cup {Idle}]
    /\ channel \in [Timers -> Nat]
    /\ running \subseteq Timers
    /\ runtime \in [Tickers -> Sources \cup {NoSource}]
    /\ made \subseteq Sources
    /\ stopped \subseteq made
    /\ offered \subseteq Sources

\* Copies, functions that stop and reset the timer that called them, resets
\* that throw and tickers stopped through any copy included, timers and
\* tickers keep the promises of GoTimers: no start fires twice or after it was
\* stopped, no tick of an earlier start survives a Reset, and Stop and Reset
\* report just what was still to fire.
ImplementsGoTimers == Promise!Spec

\* A start that is neither stopped nor reset fires, and a ticker that is not
\* stopped ticks again and again, though nobody receives and the channel stays
\* full.
TimersKeepFiring ==
    /\ \A t \in Timers :
          []<>(handle[t] = NoHandle) \/ []<><<starts'[t] # starts[t]>>_vars
    /\ \A r \in Sources :
          [](r \notin made) \/ <>(r \in stopped) \/ []<><<FireTicker(r)>>_vars
=============================================================================
