CONSTANTS
    f1 = f1
    f2 = f2
    f3 = f3
    t1 = t1
    t2 = t2
    NoFd = NoFd
    Fds <- OneFd
    Threads <- OneThread
    MaxConnections = 2
    Backlog = 1
    UseCleaner = TRUE
    MaxDrift = 0
SPECIFICATION FairSpec
PROPERTIES
    ConnectAnswered
