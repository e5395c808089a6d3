SPECIFICATION FairSpec
CONSTANTS
    Tokens <- ByPriority
    Prices <- Quotes
    BatchSize = 1
    Threshold = 2
    Cycles = {k1, k2}
    Env = {"crash", "db", "remove"}
INVARIANTS
    TypeOK
    FeedMatchesPrice
    EventsAreContiguous
    FlagIsHeld
    PriorityIsKept
PROPERTIES
    RemovedStaysSilent
    KeepsFeed
    CyclesEnd
