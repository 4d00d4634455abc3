CONSTANTS
    kReadA = kReadA
    kReadB = kReadB
    kWriteA = kWriteA
    kShell = kShell
    NoKey = NoKey
    Names <- MCNames
    Base <- MCBase
    Spellings <- MCSpellings
    Calls <- MCCalls
    ForceStop = 2
    MaxConc = 2
    MaxRetries = 1
    MaxCalls = 3
SPECIFICATION FairSpec
INVARIANTS
    ConcurrencySafe
    WorkAccounted
PROPERTIES
    TurnEnds
CHECK_DEADLOCK FALSE
