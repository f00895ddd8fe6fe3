CONSTANTS
    f1 = f1
    f2 = f2
    f3 = f3
    t1 = t1
    t2 = t2
    NoFd = NoFd
    Fds <- ThreeFds
    Threads <- TwoThreads
    MaxConnections = 2
    Backlog = 1
    UseCleaner = FALSE
    MaxDrift = 0
SPECIFICATION FairSpec
INVARIANTS
    SingleOwner
    NoLostWakeup
    OneWakeupByte
    CountExact
    LimitKept
    WatchedOpen
PROPERTIES
    KeepsConnections
    RequestTaken
    ConnectAnswered
