SPECIFICATION Spec
CONSTANTS
    Actors = {a, b}
    Operations = {o1, o2, o3}
    WholeRow = FALSE
    MaxFaults = 2
    NoRow = NoRow
    Nobody = Nobody
SYMMETRY Symmetry
INVARIANTS
    RowsAgree
    
CHECK_DEADLOCK FALSE
