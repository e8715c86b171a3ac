CONSTANTS
    Requests = {r1, r2}
    Models = {m1, m2}
    Unloadable = {m1}
    MaxLoaded = 1
    NoEngine = NoEngine
    Streams = {r1}
    MaxChunk = 3
    QueueCap = 1
SPECIFICATION FairSpec
INVARIANTS TypeOK EndIsWhole PinnedStaysLoaded
PROPERTIES ThreadEnds MemoryRestored
