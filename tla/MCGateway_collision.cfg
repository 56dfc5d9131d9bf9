SPECIFICATION Spec
CONSTANTS
    Msg <- Collision
    Zone <- Ours
    Lower <- ToLower
    KnownTypes <- Types
    Parsable <- Decodes
    Keys <- KeysOfSecret
    Manual <- Manually
    Slots = {h1}
    MaxName = 5
    DefaultFudge = 1
    MaxTime = 0
PROPERTIES
    DeletesOnlyNamed
CHECK_DEADLOCK FALSE
