SPECIFICATION Spec
CONSTANTS
    Managers = {m1, m2}
    Deliveries = {d1, d2, d3, d4}
    Threshold = 2
    Cooldown = 1
    MaxClock = 2
    MaxIncidents = 1
    NoRow = NoRow
    NoManager = NoManager
    All = All
SYMMETRY Symmetry
INVARIANTS
    OpenIsEarned
PROPERTIES
    PeerIsLeftAlone
    StaysShutOverRestarts
CHECK_DEADLOCK FALSE
