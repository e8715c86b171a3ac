SPECIFICATION Spec
CONSTANTS
    Requests = {w, s1}
    Calls = {s1}
    Sockets = {}
    Warmup = w
    Models = {m1}
    Default = m1
    Unloadable = {}
    MaxLoaded = 1
    NoEngine = NoEngine
    MaxMsg = 3
    Window = 2
INVARIANTS
    FinalIsWhole
