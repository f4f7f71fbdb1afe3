SPECIFICATION CSpec
CONSTANTS
    MaxPhases = 3
    MaxWords = 4
    Text <- MCText
    Lines <- MCLines
    U64 <- MCU64
    Uuid <- MCUuid
    Drawn = {"new"}
    Equals <- MCEquals
    Colons <- MCColons
    Specs <- MCSpecs
    Horizon <- MCHorizon
INVARIANTS
    TypeOK
    ConfigOK
    AcceptedIsSound
    RejectedIsUnsound
    PolicyUnambiguous
    LastWins
    OutcomeExact
    PolicyAsWritten
