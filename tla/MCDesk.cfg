CONSTANTS
    Names <- MCNames
    Base <- MCBase
    Spellings <- MCSpellings
    MaxCalls = 3
    FileCalls = {"f1", "f2"}
    Paths = {"a/f", "b/f", "c/f"}
    CacheSize = 2
    KeptBackups = 1
    MaxSeconds = 2
    MaxFileOps = 4
    Characters = {"a", "n", "r", "c", "q"}
    MaxText = 4
    Olds <- MCOlds
    News <- MCNews
    OutputCap = 6
    Chunks <- MCChunks
    PageSizes = {0, 2, 9}
    MaxPage = 4
    MaxAppends = 4
    Dirs = {"root", "sub", "git", "out"}
    Boundary = {"root", "sub", "git"}
    Blocked = {"git"}
    Root = "root"
    Printed <- MCPrinted
    HookTools = {"shell"}
    Priorities = {0, 1}
    MaxUserHooks = 2
    MaxHooks = 2
    MaxRuns = 2
    MaxStreams = 2
    MaxAttempts = 2
    MaxDeltas = 1
    MaxAsks = 1
    MaxNotes = 1
    MaxKeys = 2
    NumOptions = 2
    Viewport = 2
    Chars = {1, 3}
    MaxInput = 3
    MaxHistory = 2
    Columns = 5
    InputRows = 2
    Words <- MCWords
    MaxWords = 4
    RowWidth = 3
    WsDirs = {"d", "e"}
    WsClients = {"c1", "c2"}
    WsSessions = {"s"}
    MaxIds = 2
    MaxMoves = 1
    Procs = {"p", "q", "r"}
    MaxQueries = 1
    MaxDeaths = 2
    ProviderNames = {1, 2}
    ProviderKinds = {"openai", "anthropic"}
    ProviderRanks = {1}
    Unset = 9
    Peers = {"127.0.0.1", "p", "q"}
    GivenKey = {"q"}
    Headers <- MCHeaders
    Rate = 2
    Minute = 3
    CleanEvery = 3
    LimitBuckets = 1
    Pauses = {1, 15}
    MaxTime = 16
    MaxRequests = 4
    EventSessions = {"s1", "s2"}
    BusRoom = 1
    MaxEmits = 2
    MaxTokenCount = 14
    NoteTokens = 3
    GuideTokens = 6
    GuideAt = 8
SPECIFICATION DeskSpec
INVARIANTS
    PlanCorrect
    CommandsSeen
    TerminalExact
    DaemonServes
PROPERTIES
    FilesKept
    WorkspacesKept
CHECK_DEADLOCK FALSE
