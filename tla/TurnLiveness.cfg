SPECIFICATION FairSpec
CONSTANTS
    MaxTurn = 2
    MaxChunk = 1
    MaxFrame = 1
    TtsCap = 1
    SendCap = 1
    NoJob = NoJob
PROPERTIES
    BargeInCompletes
    SpeechDrains
    WindDown
