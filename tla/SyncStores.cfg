CONSTANTS
    d1 = d1
    d2 = d2
    n1 = n1
    n2 = n2
    NoName = NoName
    Names <- TwoNames
    Devices <- TwoDevices
    StoreTypes <- BothStores
    MaxAttempts = 1
    PgAttempts = 2
    MaxTime = 2
    MaxFailures = 2
SPECIFICATION Spec
SYMMETRY Symmetry
INVARIANTS
    ListedFirst
    RoundAlone
    PgSyncedUp
PROPERTIES
    PgNewestKept
    PgLastWriterWins
