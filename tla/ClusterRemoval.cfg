SPECIFICATION MCSpec
CONSTANTS
    NodeIds = {"n1", "n2"}
    Keys = {"k", "k@v"}
    Rank <- MCRank
    LabelKeys = {}
    MinDistinct <- MCMinDistinct
    Label <- MCLabel
    ReplicationFactor = 1
    Local = "n1"
    Subjects = {"k@v"}
    KeyOf <- MCKeyOf
    Kind <- MCKind
    Tolerated = 0
    HeartbeatTimeout = 0
    Workers = {"w1"}
    MaxTime = 0
    Tasks = {t1, t2}
    Indexes = {i}
    Contents = {x, y}
    Handlers = {h1, h2}
    Operations = {op}
    Absent = Absent
    MaxUploads = 0
    MaxRequests = 0
    MaxFaults = 0
INVARIANTS
    RemovedIsForgotten
