SPECIFICATION RewriteFairSpec
CONSTANTS
    MaxInitial = 2
    MaxAppends = 2
    MaxClears = 1
    Clearable = {2}
    MaxDowngrades = 1
    MaxCrashes = 2

    
    
PROPERTIES
    MigrationFinishes
CHECK_DEADLOCK FALSE
