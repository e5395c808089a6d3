SPECIFICATION Spec
CONSTANTS
    Events = {1, 2}
    MaxRetries = 2
    BatchSize = 2
    Batches = {b1}
    Retriers = {r1, r2}
    Env = {"broker"}
PROPERTY OnlyFailedEventsAreReset
