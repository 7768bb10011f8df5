CONSTANTS
    PushTasks = {1, 2, 3}
    PRs = {p, q}
    Events <- MCEvents
    KeyTTL = 1
    RefreshInterval = 1
    MaxActive = 2
    MaxClock = 4
    Threads = {t1, t2}
    BreakAt = 0
    MaxScan = 2
    MaxComments = 3
    FileLines = 4
    PatchConfs <- MCPatchConfs
    HeaderLines = {0, 1}
    FileKinds <- MCFileKinds
    FileCount = 3
    Languages <- MCLanguages
    MaxFull = 3
    DiffTools = {"review", "ask", "describe", "improve"}
    Limits <- MCLimits
    PromptSizes = {1, 4, 9}
    LargePolicies = {"skip", "clip"}
    Soft = 3
    Hard = 2
    Delta = 1
    Wrap = 1
    MaxCalls = 2
    MaxAiCalls = 3
SPECIFICATION Spec
INVARIANTS ServicesTypeOK
    PushesTakeTurns
    RepeatsHaveCause
     ChangesAreComplete
     
PROPERTIES PushIsReviewed 
CHECK_DEADLOCK FALSE
