SPECIFICATION FairSpec
CONSTANTS
    Calls <- PriceBatch
    FailureThreshold = 5
    SuccessThreshold = 3
    Timeout = 3
    RecoveryTimeout = 2
INVARIANTS
    TypeOK
    ClosedBelowThreshold
    SuccessesOfThisAttempt
    OpenIsDated
PROPERTIES
    OnlyOldCallsOverlap
    Recovers
