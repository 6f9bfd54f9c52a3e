SPECIFICATION MCSpec
CONSTANTS
    Tasks = {t1, t2, t3}
    Aging = 1
    MaxTime = 3
    MaxRegistrations = 3
    NodeIds = {"n1", "n2", "n3", "n4", "n5"}
    Keys = {"a", "b"}
    Rank <- MCRank
    LabelKeys = {"rack"}
    MinDistinct <- MCMinDistinct
    Label <- MCLabel
    ReplicationFactor = 3
CHECK_DEADLOCK FALSE
INVARIANTS
    TypeOK
    PermitExclusive
    NoLostWakeup
    QueueMatchesTasks
    PlansMeetThePolicy
    PlacementIsStable
PROPERTIES
    FairGrants
    EveryWaiterServed
