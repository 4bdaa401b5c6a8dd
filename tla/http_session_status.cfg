CONSTANTS
    Transports = {"session"}
    MaxBody = 3
    ErrLimit = 4
    Chunk = 2
    NoLength = NoLength
    MaxSize = 6
    Responses <- MCResponses
SPECIFICATION Spec
PROPERTY StatusIsKept
