SPECIFICATION Spec
CONSTANTS
    NodeIds = {"n1", "n2", "n3", "n4"}
    Keys = {"k", "k@v"}
    Rank <- MCRank
    LabelKeys = {}
    MinDistinct <- MCMinDistinct
    Label <- MCLabel
    ReplicationFactor = 2
    Local = "n1"
    Subjects = {"k", "k@v"}
    KeyOf <- MCKeyOf
    Kind <- MCKind
    Tolerated = 0
    HeartbeatTimeout = 0
    Workers = {"w1"}
    MaxTime = 0
PROPERTIES
    CleanupKeepsMinimum
