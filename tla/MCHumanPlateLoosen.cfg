CONSTANTS
    r1 = r1
    r2 = r2
    s1 = s1
    kRead = kRead
    kShell = kShell
    kSkill = kSkill
    NoCall = NoCall
    Sessions = {s1}
    Keys <- MCKeys
    Runs = {r1}
    SessionOf <- OneRun
    Calls <- EveryPath
    Learned <- ShellFailures
    VerifierRuns = {}
    HumanGates = {"ShangMen"}
    LongTimeout = FALSE
    MaxConfirmations = 2
    MaxPlates = 1
SPECIFICATION Spec
INVARIANTS
    NeverLoosened
