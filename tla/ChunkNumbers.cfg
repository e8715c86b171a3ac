CONSTANTS
    Calls = {c1}
    Routes = {"grpc"}
    Tokens <- MCNumber
    MaxSaid = 5
    MinChunk = 3
    MaxChunk = 6
    Ttl = 1
    MaxTime = 1
SPECIFICATION Spec
INVARIANT NumbersStayWhole
