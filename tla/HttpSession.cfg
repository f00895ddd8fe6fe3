CONSTANTS
    Block = 2
    Headers <- ShortAndLong
    Bodies <- NoneShortLong
    Attempts = 2

SPECIFICATION FairSpec

INVARIANTS
    Framed
    InStep

PROPERTY ThreadReturns

CHECK_DEADLOCK FALSE
