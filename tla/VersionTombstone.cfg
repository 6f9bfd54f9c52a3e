SPECIFICATION Spec
CONSTANTS
    Paths = {a, b}
    Contents = {"x", "y"}
    ForeignIds = {0}
    MaxIds = 3
    MaxTime = 0
    MaxCrashes = 0
CHECK_DEADLOCK FALSE
PROPERTIES
    TombstoneUnbinds
