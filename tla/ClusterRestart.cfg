SPECIFICATION Spec
CONSTANTS
    Program <- MCProgram
    Rank <- MCRank
    MaxInt = 3
    Config <- RestartConfig
    Lossy = {}
    Killable = {101}
    MaxLives = 2
    MaxBatch = 2
INVARIANTS
    AcceptedIsComplete
