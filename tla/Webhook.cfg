SPECIFICATION Spec
CONSTANTS
    d1 = d1
    Ids = {d1}
    Tolerance = 2
    Skew = 1
    Delay = 1
    Base = 1
    MaxDelay = 2
    Limit = 2
    MaxAttempts = 3
    MaxReceived = 3
    MaxTime = 5
CHECK_DEADLOCK FALSE
INVARIANTS
    TypeOK
    FreshVerifies
    ListingIsNewest
