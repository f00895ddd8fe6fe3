CONSTANTS
    c1 = c1
    c2 = c2
    c3 = c3
    w1 = w1
    w2 = w2
    NoConn = NoConn
    Cleaner = Cleaner
    Call = Call
    Conns <- ThreeConns
    Workers <- OneWorker
    RequestOps <- OneOp
    MinConnections = 3
    MaxConnections = 3
    MaxAttempts = 1
    Magic = 1
    UseCleaner = TRUE
    MayLoad = FALSE
    MaxOldUsers = 1
    MaxFrames = 0
    MaxDrift = 0
SPECIFICATION FairSpec
PROPERTIES
    OperationEnds
