SPECIFICATION MCSpec
CONSTANTS
    r1 = r1
    r2 = r2
    o1 = o1
    o2 = o2
    Routes <- TwoRoutes
    Origins <- TwoOrigins
    OriginsOf <- Overlapping
    Limit = 1
    ServerLimit = 2
    MaxAttempts = 3
    MaxDisturbances = 2
    Paths = {p}
    None = None
    MaxMoves = 3
    MaxStops = 2
    MaxQueue = 2
CONSTRAINT
    FewerSetupsWhenDisturbed
CHECK_DEADLOCK FALSE
INVARIANTS
    ClientTypeOK
    WithinBudget
    RetiredRoutesLetGo
    OfflineEditsSurvive
    StartupConverges
PROPERTIES
    StartupKeepsRemoteBytes
    OwnRemovalsDoNotEcho
