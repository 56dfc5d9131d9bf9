SPECIFICATION Spec
CONSTANTS
    Key = {k1, k2, k3, k4, k5}
    Thread = {t1, t2}
    BurstSize = 1
    RatePerSec = 1
    SlipRatio = 2
    MaxBuckets = 4
    MaxAge = 1
    GcInterval = 1
    MaxClock = 2
    MaxRequests = 5
SYMMETRY Symmetry
INVARIANTS
    TypeOK
    TableBound
    NeverFull
    BucketBudget
CHECK_DEADLOCK FALSE
