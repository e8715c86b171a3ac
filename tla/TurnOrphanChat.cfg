SPECIFICATION Spec
CONSTANTS
    MaxTurn = 2
    MaxChunk = 1
    MaxFrame = 1
    TtsCap = 1
    SendCap = 2
    NoJob = NoJob
INVARIANTS
    NoOrphanChat
