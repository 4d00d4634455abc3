CONSTANTS
    Sessions = {s1}
    Kinds = {"rin", "http", "io"}
    IoPermits = 1
    MaxRequests = 3
    MaxSteers = 1
SPECIFICATION FairSpec
INVARIANTS
    RunsApart
PROPERTIES
    NoLostWrite
    Served
CHECK_DEADLOCK FALSE
