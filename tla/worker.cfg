SPECIFICATION Spec
CONSTANTS
    Task = {1}
    Launch = {l1}
    Group = {1}
    Resource = {}
    Proc = {p1}
    Deps <- NoDeps
    PlanOrder <- Reversed
    LaunchOf <- SameLaunch
    GroupOf <- OwnGroup
    MaxAttempts <- Three
    MaxActive <- One
    Policy <- Reviewed
    Keys <- NoKeys
    LimitConfigs <- TwoSlots
    GroupBudget = 2
    MaxHosts = 4
    ActiveReport = {0}
    ReportRev = {2}
    MaxSegment = 2
    MaxEpoch = 1
ACTION_CONSTRAINTS StableHosts
INVARIANTS
    RetryOncePerAttempt
    ResendIdentity
    AnswerCarried
PROPERTIES
    FinishedStays
    StopRequestWins
CHECK_DEADLOCK FALSE
