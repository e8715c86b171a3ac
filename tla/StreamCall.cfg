SPECIFICATION FairSpec
CONSTANTS
    MaxEvent = 4
    EventsCap = 2
    HalfCloses = {"yes"}
INVARIANTS
    TypeOK
    EndLosesNothing
PROPERTIES
    KeepsPromise
    GoroutinesEnd
