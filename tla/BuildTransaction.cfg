CONSTANTS
    Builds = {b1, b2}
    Previous = Previous
    NoOutput = NoOutput
    Contracts <- Verifications
CHECK_DEADLOCK FALSE
SPECIFICATION FairSpec
INVARIANTS
    TypeOK
    PublishedIsWhole
    LifetimesNeverOverlap
    BackupIsAccountedFor
    FailurePublishesNothing
PROPERTIES
    KeepsACopy
    EveryBuildEnds
