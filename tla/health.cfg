SPECIFICATION HealthSpec
CONSTANTS
    Events = {1, 2, 3}
    MaxRetries = 2
    BatchSize = 1
    Batches = {b1, b2}
    Retriers = {r1}
    Env = {"crash"}
    MaxPending = 2
SYMMETRY Symmetry
INVARIANTS
    ProbeTypeOK
    VerdictIsComplete
PROPERTY VerdictIsOffByABatch
