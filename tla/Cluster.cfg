SPECIFICATION Spec
CONSTANTS
    Program <- MCProgram
    Rank <- MCRank
    MaxInt = 1
    Config <- MCConfig
    Lossy = {102}
    Killable = {102}
    MaxLives = 1
    MaxBatch = 2
INVARIANTS
    TypeOK
    ClusterExact
    CommandExact
    LocalAgrees
    LineageExact
    KillsExplained
