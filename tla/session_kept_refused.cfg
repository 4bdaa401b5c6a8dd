CONSTANTS
    c1 = c1
    c2 = c2
    c3 = c3
    k1 = k1
    k2 = k2
    x1 = x1
    x2 = x2
    x3 = x3
    Calls = {c1, c2}
    Keys = {k1}
    KeyOf <- TwoCalls
    Conns = {x1, x2}
    NoCall = NoCall
    NoConn = NoConn
    NoHead = NoHead
    ReqLen = 2
    Responses <- AllResponses
    MaxBody = 1
    ErrLimit = 1
    Guarded = TRUE
    ClosesAtLength = FALSE
SPECIFICATION Spec
INVARIANT KeptConnectionsServe
