SPECIFICATION EitherSpec
CONSTANTS
    d1 = d1
    d2 = d2
    d3 = d3
    d4 = d4
    d5 = d5
    Deliveries = {d1, d2, d3, d4, d5}
    Overlapping = 3
    OverlappingMaxSeq = 2
    MaxSeq = 3
    MaxPending = 2
    MaxRetries = 2
    MaxInFlight = 3
    MaxFaults = 1
INVARIANTS
    NoSkip
    AnswerIsTrue
    PendingBounded
    OrderlyIsExactlyOnce
PROPERTIES
    ImplementsOrderedDelivery
    
CHECK_DEADLOCK FALSE
