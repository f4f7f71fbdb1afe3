SPECIFICATION Spec
CONSTANTS
    Program <- MCProgram
    Rank <- MCRank
    MaxInt = 3
    RecCfg <- RecOne
    RepCfg <- RepQuick
    Inbound <- Hellos
    MaxBatch = 2
    Damage = {}
INVARIANT
    DrainedReplays
