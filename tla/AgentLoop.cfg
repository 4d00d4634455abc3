CONSTANTS
    MaxTurns = 2
    MaxRetries = 1
    MaxNudges = 1
    HistoryCap = 3
    MaxSteers = 2
    MaxRuns = 2
    MaxCriteria = 1
SPECIFICATION Spec
INVARIANTS
    SteerHandled
    ResponseKept
PROPERTIES
    ImplementsConversation
CHECK_DEADLOCK FALSE
