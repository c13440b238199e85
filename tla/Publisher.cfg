SPECIFICATION EitherSpec
CONSTANTS
    Changes = {c1, c2}
    Imports = {r1, r2}
    Upsert = FALSE
    ResyncOption = TRUE
    Granularity = "high"
    MaxOverlap = 3
    Faults = {"check", "increase", "create", "resync", "crash"}
    MaxFaults = 1
    SerialChanges = {c1, c2, c3}
    SerialFaults = {"check", "increase", "create", "crash"}
    SerialMaxFaults = 2
SYMMETRY Symmetry
INVARIANTS
    SkippedIsResynced
    ChangeIsAnnounced
    
CHECK_DEADLOCK FALSE
