SPECIFICATION MCSpec
CONSTANTS
    Paths = {a, b}
    Contents = {"x", "y"}
    ForeignIds = {0}
    MaxIds = 4
    MaxTime = 1
    MaxCrashes = 1
    MaxBundles = 1
SYMMETRY Symmetry
CHECK_DEADLOCK FALSE
INVARIANTS
    TypeOK
    OneBindingPerObject
    NoBranchLost
    BoundPathsAreReadable
    OneHistoryPerVersion
    ImportedIsReadable
PROPERTIES
    PutIsVisible
    NoVersionLost
