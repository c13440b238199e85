SPECIFICATION SyncFairSpec
CONSTANTS
    MaxSeq = 3
    MaxResyncs = 1
    MaxPending = 2
    Granularities = {"low", "high"}
    Syncs = {s1}
    Failures = {"fetch", "baseline", "get", "clear"}
    MaxFaults = 1
    GapTimesOut = TRUE

    
    
PROPERTIES
    CatchesUp
CHECK_DEADLOCK FALSE
