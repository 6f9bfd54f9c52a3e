SPECIFICATION MCSpec
CONSTANTS
    NodeIds = {"n1", "n2", "n3"}
    Keys = {"k", "k@v"}
    Rank <- MCRank
    LabelKeys = {}
    MinDistinct <- MCMinDistinct
    Label <- MCLabel
    ReplicationFactor = 2
    Local = "n1"
    Subjects = {"k", "k@v"}
    KeyOf <- MCKeyOf
    Kind <- MCKind
    Tolerated = 0
    HeartbeatTimeout = 0
    Workers = {w1, w2}
    MaxTime = 1
    Sessions = {s1, s2}
    Accepts = {a1, a2}
    MaxAllocations = 2
    DrainMax = 2
    MaxLosses = 1
SYMMETRY WorkerSymmetry
INVARIANTS
    IndexesAgree
    ClaimsHaveHints
    TunnelTypeOK
    TicketsAreBounded
    WaitingSourcesAreKnown
PROPERTIES
    HistoryIsKept
    SourcesAreServed
