SPECIFICATION FairSpec
CONSTANTS
    MaxTurn = 2
    MaxMsg = 4
    AudioCap = 2
    NoFrame = NoFrame
INVARIANTS
    TypeOK
    EndMarkerLast
    OneLiveCall
PROPERTIES
    EndMarkerArrives
    EndUtteranceReturns
    UplinkWindsDown
