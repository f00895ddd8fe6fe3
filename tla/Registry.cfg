CONSTANTS
    u1 = u1
    u2 = u2
    pw1 = pw1
    pw2 = pw2
    t1 = t1
    t2 = t2
    NoUser = NoUser
    NoPassword = NoPassword
    Cleaner = Cleaner
    Users <- OneUser
    Passwords <- TwoPasswords
    Threads <- TwoThreads
    StoreTypes = {"redis", "postgres"}
    MaxAttempts = 1
    PgAttempts = 2
    MaxFailures = 1
SPECIFICATION Spec
SYMMETRY Symmetry
CHECK_DEADLOCK FALSE
INVARIANTS
    Agree
    AnswersKept
    Whole
    CleanerSpares
