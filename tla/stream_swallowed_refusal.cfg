CONSTANTS
    own = own
    Ids = {own}
    RequestId = own
    NoId = NoId
    Absent = Absent
    Null = Null
    Junk = Junk
    NotObject = NotObject
    ReplyKinds = {"caught"}
    Letters <- MCLetters
    Limits <- MCLimits
    Scenarios <- MCScenarios
    Named <- MCNamed
    Member <- MCMember
    Parsed <- MCParsed
    Chunk = 3
    MaxNumber = 2
    MaxDepth = 2
    MaxError = 12
SPECIFICATION Spec
INVARIANT RefusedWhereCallRefuses
