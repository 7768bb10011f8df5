CONSTANTS
    ImproveTasks = {x1, x2}
    Replies <- MCReplies
    Scores = {6, 9}
    ImproveConfigs <- MCConfigs
    MaxModels = 2
    MaxReviewerSteps = 1
    MaxCallFaults = 1
    Merges = {x1, x2}
    WeekDays = 2
    MaxDay = 2
    Attempts = 2
    MaxChunks = 2
    ReportConfs <- MCReportConfs
    MaxReportFaults = 2
    MaxCommits = 1
    MaxHooks = 4
    MaxRedelivered = 1
    HookConfigs <- MCHookConfigs
    MRs = {m1}
    SuggestionIds = {x1, x2}
    RunIds = {u1}
    Authors = {"", "ann"}
    RuleLists <- MCRuleLists
    Importances = {7}
    RuleSeverities <- MCRuleSeverities
    CriticalRules = {"C"}
    HighRules = {"A"}
    MaxTime = 1
    Requests = {x1, x2}
    CommandLists <- MCCommandLists
    Texts <- MCTexts
    UserLabels = {"mine"}
    Answers <- MCAnswers
    ToolConfs <- MCToolConfs
    MaxPersonSteps = 1
    MaxToolFaults = 1
    Hooks = {x1, x2}
    Repos = {y1, y2}
    WebServers = {"gitea", "bitbucket_app", "gerrit", "azure", "bitbucket_server", "action"}
    Payloads <- MCPayloads
    Environments <- MCEnvironments
    ExtraFiles <- MCExtraFiles
    GlobalFiles <- MCGlobalFiles
    LocalFiles <- MCLocalFiles
    AutoCommands <- MCAutoCommands
    CacheTTL = 1
    MaxEdits = 1
    MaxFetchFaults = 1
    MaxServerTime = 1
SYMMETRY Symmetry
SPECIFICATION Spec
INVARIANTS ToolsTypeOK
    OnePostingStands 
    DeliveryIsHonest 
    EachCommitReviewedOnce
    DashboardIsTrue
    
    
PROPERTIES  RowIsTrue PeoplesWorkStays GlobalIsFresh
CHECK_DEADLOCK FALSE
