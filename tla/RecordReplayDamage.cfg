SPECIFICATION Spec
CONSTANTS
    Program <- MCProgram
    Rank <- MCRank
    MaxInt = 1
    RecCfg <- RecOne
    RepCfg <- RepOne
    Inbound <- Hellos
    MaxBatch = 2
    Damage = {"kill", "remove", "repeat", "swap"}
INVARIANTS
    FailureReplays
    EditsDetected
    EditsVerified
    TornIsRejected
PROPERTIES
    ReplayTerminates
