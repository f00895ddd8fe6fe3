CONSTANTS
    ServerThreads = 2
    MaxThreads = 5
    CalmFactor = 2
    Patience = 1
    MaxQueue = 5
    MaxLeft = 1
SPECIFICATION FairSpec
CHECK_DEADLOCK FALSE
INVARIANTS
    Accounted
    NoLostNotify
    WithinLimits
    StoreOutlives
PROPERTIES
    ShutdownEnds
