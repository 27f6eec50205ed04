SPECIFICATION FairSpec
CONSTANTS
    None = None
    Unknown = Unknown
    Callers = {c1, c2}
    Keys = {k1, k2}
    Spacing = 2
    CacheTtl = 3
    MaxServeStale = 5
    MaxCacheEntries = 1
    Timeout = 3
    NwsTimeout = 1
    MaxFutureSkew = 1
    Minute = 2
    Batches <- SomeBatches
    MaxTime = 10
INVARIANT ServedAsWhatItIs
PROPERTY CallsSpacedAndAnswered
CHECK_DEADLOCK FALSE
