SPECIFICATION Spec
CONSTANTS
    MaxTurn = 2
    MaxChunk = 2
    MaxFrame = 2
    TtsCap = 2
    SendCap = 2
    NoJob = NoJob
INVARIANTS
    TypeOK
    ActiveTtsIsCurrent
    NoOrphanTts
    StaleAudioBounded
    StaleJobsBounded
    BargeInSparesNewTurn
