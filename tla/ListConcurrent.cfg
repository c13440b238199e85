SPECIFICATION EitherSpec
CONSTANTS
    Writers = {w1, w2}
    Kinds = {"append", "insert", "pop", "setitem", "delitem", "remove", "delete_by_handle", "update_by_handle", "clear", "delete"}
    MaxRank = 9
    MaxInitial = 1
    MaxOps = 3
    MaxRankRetries = 2
    MaxTouches = 2
    MaxCrashes = 1
    CopiedItems = {x, y}
    Blank = blank
    Names = {n1}
    Fields = {f, g}
    Routes = {"application", "request"}
    MaxLen = 2
    MaxChanges = 3
    MaxBaselines = 1
    MaxCopyCrashes = 1
    Contents = {x, y}
    Formats = {1, 2}
    MaxBefore = 2
    MaxEntries = 2
    MaxOthers = 2
SYMMETRY Symmetry
INVARIANTS
    ItemsAreConserved
    
    ItemsAreVisible
    CopyIsExact
    BatchIsAsOfBefore
PROPERTIES
    CrashKeepsItems
CHECK_DEADLOCK FALSE
