SPECIFICATION FairSpec
CONSTANTS
    Request = {1, 2}
    Mixes <- Pairs
    Slave = {s1, s2}
    Cap = 1
    Timeout = 2
    HTTPTimeout = 3
    LookupTime = 1
INVARIANTS
    TypeOK
    AnswersOwn
    SlotsBalanced
    HeldBriefly
PROPERTIES
    LostOnlyLate
    HandlersEnd
    WorkersEnd
CHECK_DEADLOCK FALSE
