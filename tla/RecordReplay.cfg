SPECIFICATION Spec
CONSTANTS
    Program <- Tour
    Rank <- MCRank
    MaxInt = 2
    RecCfg <- Rec
    RepCfg <- Rep
    Inbound <- TourInbound
    MaxBatch = 2
    Damage = {}
INVARIANTS
    TypeOK
    ReplayExact
    ReplayReproduces
    VerifierAgrees
    DeliveredInOrder
PROPERTIES
    TimersPunctual
