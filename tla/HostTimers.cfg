CONSTANTS
    Timers = {t, u}
    Sources = {s}
    Tickers = {k, j}
    Handles = {h1, h2, h3, h4}
    NoHandle = NoHandle
    NoSource = NoSource
    Idle = Idle
    MaxStarts = 2
SPECIFICATION Spec
PROPERTIES
    ImplementsGoTimers
    TimersKeepFiring
