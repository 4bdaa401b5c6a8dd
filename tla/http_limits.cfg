CONSTANTS
    Transports = {"urlopen", "session", "caller", "stream"}
    MaxBody = 3
    ErrLimit = 4
    Chunk = 2
    NoLength = NoLength
    MaxSize = 6
    Responses <- MCResponses
SPECIFICATION FairSpec
INVARIANTS
    TypeOK
    HeldIsBounded
    AnswerInLimit
    WholeOrCut
PROPERTIES
    RefusesOnlyOver
    StatusSurvives
    EveryRequestEnds
