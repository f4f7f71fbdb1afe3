SPECIFICATION Spec
CONSTANTS
    Program <- MCProgram
    Rank <- MCRank
    MaxInt = 3
    RecCfg <- RecOne
    RepCfg <- RepOne
    Inbound <- Hellos
    MaxBatch = 2
    Damage = {"kill"}
INVARIANT
    NothingMissing
