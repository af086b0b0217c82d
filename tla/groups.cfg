SPECIFICATION Spec
CONSTANTS
    Task = {1, 2}
    Launch = {"l1", "l2"}
    Group = {1}
    Resource = {}
    Proc = {p1}
    Deps <- NoDeps
    PlanOrder <- Reversed
    LaunchOf <- OwnLaunch
    GroupOf <- OneGroup
    MaxAttempts <- TwoThenThree
    MaxActive <- TwoThenOne
    Policy <- Reviewed
    Keys <- NoKeys
    LimitConfigs <- TwoSlots
    GroupBudget = 3
    MaxHosts = 2
    ActiveReport <- OddReports
    ReportRev = {}
    MaxSegment = 3
    MaxEpoch = 1
ACTION_CONSTRAINTS StableHosts SilentWorkers OrderlyWorkers NoQuestions NoStops
INVARIANTS
    GroupAttemptCeiling
    GroupBudgetKept
CHECK_DEADLOCK FALSE
