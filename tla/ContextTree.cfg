CONSTANTS
    Contexts = {c1, c2, c3}
    Functions = {f1}
    Background = Background
    NoContext = NoContext
    NoError = NoError
    Canceled = Canceled
    DeadlineExceeded = DeadlineExceeded
    reason = reason
    Causes = {reason}
CHECK_DEADLOCK FALSE
SPECIFICATION FairSpec
INVARIANTS
    TypeOK
    OpenIsObserved
    NobodyIsForgotten
    FunctionsRunOnce
PROPERTIES
    ImplementsCancellation
    CascadesEnd
