SPECIFICATION Spec
CONSTANTS
    Paths = {a, b}
    Contents = {"x"}
    ForeignIds = {0}
    MaxIds = 3
    MaxTime = 0
    MaxCrashes = 1
CHECK_DEADLOCK FALSE
PROPERTIES
    RenameIsAtomic
