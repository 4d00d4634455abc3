CONSTANTS
    r1 = r1
    r2 = r2
    s1 = s1
    kRead = kRead
    kShell = kShell
    kSkill = kSkill
    NoCall = NoCall
    Sessions = {s1}
    Keys <- MCKeys
    Runs = {r1, r2}
    SessionOf <- TwoRuns
    Calls <- AskedAndRefused
    Learned <- ShellFailures
    VerifierRuns = {r2}
    HumanGates = {"ShangMen"}
    LongTimeout = TRUE
    MaxConfirmations = 2
    MaxPlates = 1
SPECIFICATION FairSpec
INVARIANTS
    TypeOK
    NeverUnasked
    QuestionsAnswerable
    RefusalsHold
PROPERTIES
    QuestionsSettle
