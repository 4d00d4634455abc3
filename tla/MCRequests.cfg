CONSTANTS
    Kinds <- ChatKinds
    Sizes = {2, 5}
    Limit = 12
    SystemTokens = 1
    NoteSize = 3
    MarkerSize = 2
    HeadBudget = 2
    UserBudget = 4
    MaxFailures = 4
    MaxEntries = 8
    KindLists <- MCKindLists
    Turns = {1, 2}
    Cancellable = {1}
    Threshold = 2
    Cooldown = 1
    MaxRetries = 1
    MaxEvents <- MCMaxEvents
    MaxLag = 0
    Statuses = {429, 400}
SPECIFICATION RequestsSpec
INVARIANTS
    HistoryKept
    BreakersSound
    AnswersWhole
PROPERTIES
    TurnSettles
CHECK_DEADLOCK FALSE
