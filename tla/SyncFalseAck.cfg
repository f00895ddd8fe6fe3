CONSTANTS
    d1 = d1
    d2 = d2
    n1 = n1
    n2 = n2
    NoName = NoName
    Names <- TwoNames
    Devices <- OneDevice
    StoreTypes <- RedisOnly
    MaxAttempts = 1
    PgAttempts = 2
    MaxTime = 2
    MaxFailures = 1
SPECIFICATION Spec
INVARIANT SyncedUp
