SPECIFICATION Spec
CONSTANTS
    soa = soa
    host = host
    good = good
    Rec <- MCRec
    Val = {good}
    NoRecord = NoRecord
    BadRecord = BadRecord
    NoDB = NoDB
    SaneZones <- MCSaneZones
    MaxRecords = 2
    SerialMod = 8
    Signed = TRUE
    BadEdits = FALSE
    ChanCap = 1
    MaxWrites = 3
    MaxFaults = 2
    MaxEvents = 5
    MaxClock = 1
INVARIANTS
    TypeOK
    NoLostUpdate
    ServesOnlyAccepted
