SPECIFICATION Spec
CONSTANTS
    Ids = {i, j}
    Creators = {c}
    Operations = {o1, o2, o3}
    MaxFaults = 2
    Nobody = Nobody
SYMMETRY Symmetry
INVARIANTS
    WipeIsMarked
    LiveIsNotDeleted
    

    
CHECK_DEADLOCK FALSE
