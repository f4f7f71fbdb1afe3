SPECIFICATION Spec
CONSTANTS
    Lines <- MCLines
    MaxLines = 7
    MaxUses <- MCUses
    I64 <- MCInts
    U64 <- MCInts
    Commas <- MCCommas
    NodeTarget <- MCNodes
INVARIANTS
    TypeOK
    LoadedIsRunnable
    VerdictExact
    LoadedIsText
