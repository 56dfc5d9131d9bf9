SPECIFICATION Spec
CONSTANTS
    Pushers = {h1}
    MaxBuilds = 2
    SignedBuilds <- MCSignedBuilds
    Alike <- MCAlike
    MaxFaults = 1
INVARIANT
    RestartFindsWhole
