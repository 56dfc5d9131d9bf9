SPECIFICATION FairSpec
CONSTANTS
    Pushers = {h1}
    MaxBuilds = 2
    SignedBuilds <- MCSignedBuilds
    Alike <- MCAlike
    MaxFaults = 2
INVARIANTS
    TypeOK
    ChainMatchesDB
    ServesWhole
    WholeUnlessOverlap
PROPERTIES
    Converges
