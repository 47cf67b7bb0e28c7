SPECIFICATION FairSpec
CONSTANTS
    a = a
    b = b
    NoHolder = NoHolder
    Instances = {a, b}
    Waiters = {a}
    Keepers = {b}
    Skew <- TwoSkewed
    TTL = 2
    RenewEvery = 1
    Timeout = 3
    MaxTime = 4
INVARIANTS
    MutualExclusion
PROPERTIES
    TakeoverOnlyWhenExpired
    AcquireReturns
    DeletedByItsHolder
    ImplementsMutex
CHECK_DEADLOCK FALSE
