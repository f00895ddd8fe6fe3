CONSTANTS
    c1 = c1
    c2 = c2
    c3 = c3
    w1 = w1
    w2 = w2
    NoConn = NoConn
    Cleaner = Cleaner
    Call = Call
    Conns <- ThreeConns
    Workers <- OneWorker
    RequestOps <- ThreeOps
    MinConnections = 1
    MaxConnections = 2
    MaxAttempts = 1
    Magic = 2
    UseCleaner = TRUE
    MayLoad = TRUE
    MaxOldUsers = 1
    MaxFrames = 1
    MaxDrift = 0
SPECIFICATION Spec
SYMMETRY Symmetry
INVARIANTS
    Exclusive
    NoBrokenIdle
    NoLeak
    NoLostNotify
    NoOvercount
PROPERTY
    KeepsPool
