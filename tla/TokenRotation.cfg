SPECIFICATION Spec
CONSTANTS
    Requests = {r1, r2}
    Grace = 0
    Window = 1
    Lifetime = 2
    MaxTokens = 2
    MaxClock = 3
    MaxFaults = 1
    NoRow = NoRow
    NoChain = NoChain
SYMMETRY Symmetry
INVARIANTS
    OneWinner
    
    LockoutIsEarned
CHECK_DEADLOCK FALSE
