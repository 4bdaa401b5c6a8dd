CONSTANTS
    own = own
    next = next
    p = p
    q = q
    a = a
    b = b
    sDefault = sDefault
    sCustom = sCustom
    Nodes = {own, next}
    Own = own
    NoNode = NoNode
    Containers = {p, q, a, b}
    Copies = {p, q}
    MaxParamsDepth = 2
    MaxStack = 4
    MaxChanges = 1
    Radix = 4
    Scripts = {sDefault, sCustom}
    NoScript = NoScript
    DefaultScript = sDefault
    Texts <- MCTexts
    ScriptOf <- MCScriptOf
    ScriptSize <- MCScriptSize
    Chain <- MCChain
    Scenarios <- MCScenarios
SPECIFICATION FairSpec
INVARIANTS
    TypeOK
    RejectedOnlyIfReplaced
    ReadsNeverBlock
    RequestIsJson
    VerdictIsTrue
    SmokeIsItsOwn
PROPERTY EverySmokeEnds
