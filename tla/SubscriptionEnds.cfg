SPECIFICATION LifeSpec
CONSTANTS
    Operations = {o1, o2, o3}
    Existing = {e1}
    MaxMishaps = 1
SYMMETRY Symmetry
INVARIANTS
    ActorsAgree
PROPERTIES
    GonePeerIsForgotten
CHECK_DEADLOCK FALSE
