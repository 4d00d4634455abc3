CONSTANTS
    LspThreads = {"t1", "t2"}
    LspFiles = {"f", "g"}
    MessageBudget = 2
    StdinHolds = 1
    MaxOperations = 2
    MaxPublished = 1
    Leader = "sh"
    Children = {"c"}
    RunTimeout = 1
    Grace = 1
    MaxMessages = 2
    MaxFaults = 2
    WatchedPaths = {"p"}
    Callers = {"c1", "c2"}
    Handshake = "init"
    MaxReplies = 4
    BrowserCalls = {"c1", "c2"}
    MayCall <- MCMayCall
    MaxPages = 2
    MaxConsole = 1
    SearchFiles <- MCFiles
    Trees <- MCTrees
    Sensitive = {"e"}
    HeadLimit = 2
    Offsets = {0, 1, 3}
    CaptureCap = 3
    PipeSize = 1
SPECIFICATION OutsideSpec
INVARIANT MatchingResponse
CHECK_DEADLOCK FALSE
