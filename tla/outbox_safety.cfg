SPECIFICATION PipelineSpec
CONSTANTS
    Events = {1, 2}
    MaxRetries = 2
    BatchSize = 2
    Batches = {b1, b2}
    Retriers = {r1, r2}
    Env = {"crash", "stop", "db", "ack"}
SYMMETRY Symmetry
INVARIANTS
    TypeOK
    OneWorkerPerEvent
    FlagIsHeld
    PublishedWasDelivered
    StrandedOnlyByLoss
    RepeatsAreRecorded
    RetryBudget
PROPERTIES
    KeepsPromise
    DisorderHasCause
