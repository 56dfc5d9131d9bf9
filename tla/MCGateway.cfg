SPECIFICATION Spec
CONSTANTS
    Msg <- Traffic
    Zone <- Ours
    Lower <- ToLower
    KnownTypes <- Types
    Parsable <- Decodes
    Keys <- KeysOfSecret
    Manual <- Manually
    Slots = {h1, h2}
    MaxName = 5
    DefaultFudge = 1
    MaxTime = 2
SYMMETRY Interchangeable
INVARIANTS
    TypeOK
    Settled
    ManualKept
    Authentic
PROPERTIES
    StaysGone
CHECK_DEADLOCK FALSE
