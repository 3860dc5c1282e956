------------------------------ MODULE GoTimers ------------------------------
(***************************************************************************)
(* What timers and tickers promise a program: each start of a timer fires  *)
(* once at most, and never after a Stop or a Reset that reported it        *)
(* active; a Reset leaves no tick of an earlier start behind; a timer of   *)
(* AfterFunc calls its function and sends nothing; a ticker sends until it *)
(* is stopped, and never after.  When a timer fires is left open.          *)
(* This is the promise of the library: a tick that is already in the       *)
(* channel stays there after a Stop, as in Go before 1.23; later versions  *)
(* of Go discard it.                                                       *)
(***************************************************************************)
EXTENDS Naturals

CONSTANTS
    Timers,   \* what NewTimer, AfterFunc and a copy make
    Sources   \* what NewTicker makes; the copies of a ticker share one

VARIABLES
    kind,     \* timer -> "unmade", or what it does when it fires
    ready,    \* timers that may be stopped and reset
    starts,   \* timer -> how often it was started
    armed,    \* timer -> the start that has yet to fire, or 0
    tick,     \* timer -> the start whose tick is in its channel, or 0
    ticking,  \* sources started and not stopped
    ticked,   \* sources with a tick in their channel
    said      \* what the step before told the program

vars == <<kind, ready, starts, armed, tick, ticking, ticked, said>>
tickerVars == <<ticking, ticked>>

Kinds == {"channel", "function", "copy"}

\* What an operation reports, and the start a tick or a call is of.
Word(of, word, start) == [of |-> of, word |-> word, start |-> start]
Silence == [word |-> "nothing"]
Answer(t, stopped) == Word(t, IF stopped THEN "was active" ELSE "was idle", 0)

-----------------------------------------------------------------------------
Init ==
    /\ kind = [t \in Timers |-> "unmade"]
    /\ ready = {}
    /\ starts = [t \in Timers |-> 0]
    /\ armed = [t \in Timers |-> 0]
    /\ tick = [t \in Timers |-> 0]
    /\ ticking = {}
    /\ ticked = {}
    /\ said = Silence

Start(t) ==
    /\ starts' = [starts EXCEPT ![t] = @ + 1]
    /\ armed' = [armed EXCEPT ![t] = starts[t] + 1]

\* NewTimer, After and AfterFunc.
Make(t, k) ==
    /\ kind[t] = "unmade"
    /\ kind' = [kind EXCEPT ![t] = k]
    /\ ready' = ready \cup {t}
    /\ Start(t)
    /\ said' = Silence
    /\ UNCHANGED <<tick, tickerVars>>

\* A variable of type Timer, and assignment to one: a start stays with the
\* variable it was made for.
Declare(t) ==
    /\ kind[t] = "unmade"
    /\ kind' = [kind EXCEPT ![t] = "copy"]
    /\ said' = Silence
    /\ UNCHANGED <<ready, starts, armed, tick, tickerVars>>

Assign(t, s) ==
    /\ kind[t] # "unmade" /\ kind[s] # "unmade"
    /\ ready' = IF s \in ready THEN ready \cup {t} ELSE ready \ {t}
    /\ said' = Silence
    /\ UNCHANGED <<kind, starts, armed, tick, tickerVars>>

Stop(t) ==
    /\ t \in ready
    /\ armed' = [armed EXCEPT ![t] = 0]
    /\ said' = Answer(t, armed[t] # 0)
    /\ UNCHANGED <<kind, ready, starts, tick, tickerVars>>

Reset(t) ==
    /\ t \in ready
    /\ Start(t)
    /\ tick' = [tick EXCEPT ![t] = 0]
    /\ said' = Answer(t, armed[t] # 0)
    /\ UNCHANGED <<kind, ready, tickerVars>>

\* A Reset to a duration the host cannot represent leaves the timer idle.
ResetFails(t) ==
    /\ t \in ready
    /\ armed' = [armed EXCEPT ![t] = 0]
    /\ tick' = [tick EXCEPT ![t] = 0]
    /\ said' = Word(t, "host exception", 0)
    /\ UNCHANGED <<kind, ready, starts, tickerVars>>

\* Stop and Reset of a timer that was not made by NewTimer or AfterFunc.
Refuse(t) ==
    /\ kind[t] # "unmade" /\ t \notin ready
    /\ said' = Word(t, "panic", 0)
    /\ UNCHANGED <<kind, ready, starts, armed, tick, tickerVars>>

Fire(t) ==
    /\ armed[t] # 0
    /\ armed' = [armed EXCEPT ![t] = 0]
    /\ tick' = IF kind[t] = "channel" /\ tick[t] = 0
               THEN [tick EXCEPT ![t] = armed[t]] ELSE tick
    /\ said' = IF kind[t] = "function" THEN Word(t, "call", armed[t]) ELSE Silence
    /\ UNCHANGED <<kind, ready, starts, tickerVars>>

Receive(t) ==
    /\ tick[t] # 0
    /\ said' = Word(t, "tick", tick[t])
    /\ tick' = [tick EXCEPT ![t] = 0]
    /\ UNCHANGED <<kind, ready, starts, armed, tickerVars>>

-----------------------------------------------------------------------------
StartTicker(r) ==
    /\ r \notin ticking
    /\ ticking' = ticking \cup {r}
    /\ said' = Silence
    /\ UNCHANGED <<kind, ready, starts, armed, tick, ticked>>

StopTicker(r) ==
    /\ ticking' = ticking \ {r}
    /\ said' = Silence
    /\ UNCHANGED <<kind, ready, starts, armed, tick, ticked>>

Tick(r) ==
    /\ r \in ticking
    /\ ticked' = ticked \cup {r}
    /\ said' = Silence
    /\ UNCHANGED <<kind, ready, starts, armed, tick, ticking>>

ReceiveTick(r) ==
    /\ r \in ticked
    /\ said' = Word(r, "tick", 0)
    /\ ticked' = ticked \ {r}
    /\ UNCHANGED <<kind, ready, starts, armed, tick, ticking>>

\* The program did something else.
Other ==
    /\ said' = Silence
    /\ UNCHANGED <<kind, ready, starts, armed, tick, tickerVars>>

Next ==
    \/ \E t \in Timers :
          \/ \E k \in {"channel", "function"} : Make(t, k)
          \/ Declare(t)
          \/ \E s \in Timers : Assign(t, s)
          \/ Stop(t)
          \/ Reset(t)
          \/ ResetFails(t)
          \/ Refuse(t)
          \/ Fire(t)
          \/ Receive(t)
    \/ \E r \in Sources :
          \/ StartTicker(r)
          \/ StopTicker(r)
          \/ Tick(r)
          \/ ReceiveTick(r)
    \/ Other

Spec == Init /\ [][Next]_vars
=============================================================================
