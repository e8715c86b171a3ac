SPECIFICATION Spec
CONSTANTS
    MaxEvent = 2
    EventsCap = 2
    HalfCloses = {}
INVARIANTS
    FailureIsTold
