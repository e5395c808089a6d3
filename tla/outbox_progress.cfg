SPECIFICATION FairSpec
CONSTANTS
    Events = {1, 2}
    MaxRetries = 2
    BatchSize = 2
    Batches = {b1}
    Retriers = {r1}
    Env = {"crash", "stop", "db", "broker", "ack"}
PROPERTIES
    OnlyFailedEventsAreReset
    EventuallyResolved
    ShutdownTerminates
