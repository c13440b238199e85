SPECIFICATION Spec
CONSTANTS
    Tokens = {t1}
    Clients = {c1}
    ClientOf <- OneClient
    Requests = {r1}
    Revocations = {v1, v2}
    Ttl = 2
    NegativeTtl = 0
    NoEntry = NoEntry
    MaxClock = 2
    MaxOthers = 1
SYMMETRY Symmetry
INVARIANTS
    RevokedWithinTtl
    NoLateRefill
CHECK_DEADLOCK FALSE
