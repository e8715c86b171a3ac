CONSTANTS
    Calls = {c1, c2}
    Routes = {"grpc", "ndjson", "chat"}
    Tokens <- MCTokens
    MaxSaid = 3
    MinChunk = 2
    MaxChunk = 3
    Ttl = 2
    MaxTime = 2
SYMMETRY MCSymmetry
SPECIFICATION Spec
INVARIANTS TypeOK SaidIsSpoken EndsOnce
PROPERTY SkipIsJustified
