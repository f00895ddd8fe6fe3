CONSTANTS
    f1 = f1
    f2 = f2
    f3 = f3
    t1 = t1
    t2 = t2
    NoFd = NoFd
    Fds <- OneFd
    Threads <- TwoThreads
    MaxConnections = 2
    Backlog = 1
    UseCleaner = TRUE
    MaxDrift = 2
SPECIFICATION Spec
SYMMETRY Symmetry
INVARIANTS
    OneCloseByte
    NoCapacityLost
    NoSharedSession
