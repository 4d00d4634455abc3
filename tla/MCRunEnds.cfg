CONSTANTS
    MaxTurns = 3
    MaxRetries = 1
    MaxNudges = 2
    HistoryCap = 3
    MaxSteers = 1
    MaxRuns = 1
    MaxCriteria = 1
    Clients = {1}
    Uses <- MCUses
    Retained = 1
    Room = 2
    MaxNotices = 2
    MaxRunEvents = 2
SPECIFICATION EndsSpec
INVARIANTS
    ClientTold
PROPERTIES
    RunEnds
    ClientsLetGo
CHECK_DEADLOCK FALSE
