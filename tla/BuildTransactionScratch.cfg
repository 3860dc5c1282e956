CONSTANTS
    Builds = {b1}
    Previous = Previous
    NoOutput = NoOutput
    Contracts <- Verifications
CHECK_DEADLOCK FALSE
SPECIFICATION Spec
INVARIANTS
    FailureKeepsProtocol
