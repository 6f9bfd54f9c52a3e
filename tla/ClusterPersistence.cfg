SPECIFICATION MCSpec
CONSTANTS
    NodeIds = {"n1", "n2"}
    Keys = {"k", "k@v"}
    Rank <- MCRank
    LabelKeys = {}
    MinDistinct <- MCMinDistinct
    Label <- MCLabel
    ReplicationFactor = 1
    Local = "n1"
    Subjects = {"k@v"}
    KeyOf <- MCKeyOf
    Kind <- MCKind
    Tolerated = 0
    HeartbeatTimeout = 0
    Workers = {"w1"}
    MaxTime = 0
    Tasks = {t1, t2}
    Indexes = {i}
    Contents = {x, y}
    Handlers = {h1, h2}
    Operations = {op}
    Absent = Absent
    MaxUploads = 1
    MaxRequests = 5
    MaxFaults = 2
SYMMETRY NodeSymmetry
CONSTRAINT FewerRequestsAfterFaults
INVARIANTS
    NodeTypeOK
    RestoredViewsAreWhole
    AnswersAreKept
    CompletionsAreExclusive
    OneAnswerPerOperation
PROPERTIES
    RestartKeepsHints
