CONSTANTS
    SeedIds = {1, 2, 3, 4}
    MemSessions = {"a", "b"}
    Messages <- MCMessages
    OldSeeds <- MCOldSeeds
    OnDemandBudget = 1
    ArchiveBudget = 1
    TopLimit = 2
    MaxInputs = 3
    Entities = {"a", "b", "c"}
    Predicates = {"p", "q"}
    Anchors = {"a"}
    MaxTriples = 3
    MaxHops = 2
    Limits = {1, 3}
    s1 = s1
    s2 = s2
    SkillSessions = {s1, s2}
    Confidences = {60, 90}
    ReflectionTypes = {"SkillDefect"}
    EarlierReflections <- MCEarlier
    MaxRevisions = 1
    Threshold = 2
    MaxSkillInputs = 3
    TextLines = {"x", "y"}
    MaxLines = 4
    Learners = {"s", "t"}
    Keys = {"k", "l"}
    MaxSaves = 3
    TaskSessions = {"a", "b"}
    NudgeStreak = 2
    MaxTasks = 1
    Texts = {"unit tests", "tests"}
    Includes <- MCIncludes
    MaxUpdates = 2
    VSessions = {"a", "b", "c"}
    MaxBuckets = 2
    FailureLimit = 3
    MaxTokens = 4
SPECIFICATION KnowledgeSpec
INVARIANTS
    CallsParsed
PROPERTIES
    MemoriesKept
    SkillsKept
    PrinciplesKept
    ChecksKept
SYMMETRY SessionsAlike
CHECK_DEADLOCK FALSE
