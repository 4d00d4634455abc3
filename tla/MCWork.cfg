CONSTANTS
    TaskIds = {1, 2}
    Loops = {11, 12}
    MaxCrashes = 2
    MaxCalls = 2
    AgentKinds = {"Coder", "Verifier"}
    InitialPermits = 1
    MaxConcurrency = 2
    MaxMultiplier = 2
    Capacity = 1
    MaxRestarts = 1
    Wanted <- MCWanted
    Minute = 4
    Dedup = 3
    Grace = 2
    Horizon = 5
    MaxChanges = 1
    MaxReboots = 1
SPECIFICATION WorkSpec
INVARIANTS
    SubagentsKept
PROPERTIES
    TasksTold
    JobsFireRight
    WorkEnds
CHECK_DEADLOCK FALSE
