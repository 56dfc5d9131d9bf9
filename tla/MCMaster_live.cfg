SPECIFICATION FairSpec
CONSTANTS
    soa = soa
    host = host
    good = good
    Rec <- MCRec
    Val = {good}
    NoRecord = NoRecord
    BadRecord = BadRecord
    NoDB = NoDB
    SaneZones <- MCSaneZones
    MaxRecords = 2
    SerialMod = 2
    Signed = TRUE
    BadEdits = TRUE
    ChanCap = 1
    MaxWrites = 2
    MaxFaults = 1
    MaxEvents = 2
    MaxClock = 3
PROPERTY
    Converges
