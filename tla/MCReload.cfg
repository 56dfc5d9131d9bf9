SPECIFICATION FairSpec
CONSTANTS
    HasCert = TRUE
    QueueCap = 1
    MaxEdits = 2
    MaxRotations = 2
    MaxFaults = 1
INVARIANTS
    TypeOK
    ExitsForCause
PROPERTIES
    FollowsConfig
    FollowsCert
    DoTServed
CHECK_DEADLOCK FALSE
