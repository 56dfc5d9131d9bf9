SPECIFICATION FairSpec
CONSTANTS
    Quiet = 3
    Deadline = 8
    ChanCap = 2
INVARIANTS
    TypeOK
    DeadlineBound
PROPERTIES
    FiresOnTime
    ImplementsTrigger
