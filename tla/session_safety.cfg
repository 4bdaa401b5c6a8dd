CONSTANTS
    c1 = c1
    c2 = c2
    c3 = c3
    k1 = k1
    k2 = k2
    x1 = x1
    x2 = x2
    x3 = x3
    Calls = {c1, c2, c3}
    Keys = {k1, k2}
    KeyOf <- TwoKeys
    Conns = {x1, x2, x3}
    NoCall = NoCall
    NoConn = NoConn
    NoHead = NoHead
    ReqLen = 2
    Responses <- AllResponses
    MaxBody = 1
    ErrLimit = 1
    Guarded = FALSE
    ClosesAtLength = TRUE
SPECIFICATION Spec
INVARIANTS
    TypeOK
    WireIsHeld
    AtMostOnce
    NoCrosstalk
    PoolIsQuiet
    OpenIsPooled
    OneConnectionPerCall
    KeysAreApart
SYMMETRY Symmetry
PROPERTY ImplementsExchange
