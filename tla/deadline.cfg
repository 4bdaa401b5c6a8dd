SPECIFICATION FairSpec
CONSTANTS
    c1 = c1
    c2 = c2
    Calls <- MCCalls
    NoCall = NoCall
    NoTimer = NoTimer
    Timeout = 2
    MaxAddresses = 2
    MaxTime = 5
INVARIANTS
    TypeOK
    SocketsAreClosed
PROPERTIES
    GivenWhatIsLeftOfItsOwn
    TimesOutOnlyLate
    EveryWaitEnds
