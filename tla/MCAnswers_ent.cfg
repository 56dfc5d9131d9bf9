SPECIFICATION Spec
CONSTANTS
    Apex <- Zone1
    Lookalike <- Fakes
    Zones <- HoleZones
    KeySets <- MCKeySets
    Hashes <- MCHashes
    Known <- KnownTypes
    Lower <- UpperX
    Queries <- MCQueries
    UDPLimit = 2
    MaxUDP = 6
    MaxTCP = 20
INVARIANTS
    DeniesOnlyAbsent
