SPECIFICATION FairSpec
CONSTANTS
    Requests = {w, s1, s2, u1}
    Calls = {s1}
    Sockets = {s2}
    Warmup = w
    Models = {m1, m2}
    Default = m1
    Unloadable = {}
    MaxLoaded = 1
    NoEngine = NoEngine
    MaxMsg = 3
    Window = 2
INVARIANTS TypeOK AudioAccounted NativeExclusive RefsMatchUsers AnsweredIsClean ConversionSound
PROPERTY EndIsAnswered
