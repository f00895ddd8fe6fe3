CONSTANTS
    c1 = c1
    c2 = c2
    c3 = c3
    c4 = c4
    p1 = p1
    p2 = p2
    p3 = p3
    p4 = p4
    NoConn = NoConn
    Conns <- FourConns
    Procs <- FourProcs
    MinConnections = 1
    MaxConnections = 3
    Tries = 2
    Magic = 2
    MaxDoubled = 1
SPECIFICATION Spec
SYMMETRY Symmetry
INVARIANTS
    Placed
    Counted
    NoLostNotify
PROPERTY
    KeepsPool
