SPECIFICATION Spec
CONSTANTS
    Task = {1, 2}
    Launch = {l1}
    Group = {1}
    Resource = {"r1", "r2"}
    Proc = {p1, p2}
    Deps <- NoDeps
    PlanOrder <- Reversed
    LaunchOf <- SameLaunch
    GroupOf <- OneGroup
    MaxAttempts <- Two
    MaxActive <- Two
    Policy <- Reviewed
    Keys <- TwoPayloads
    LimitConfigs <- FleetLimits
    GroupBudget = 3
    MaxHosts = 1
    ActiveReport = {0, 1}
    ReportRev = {}
    MaxSegment = 2
    MaxEpoch = 2
SYMMETRY ProcSymmetry
ACTION_CONSTRAINTS SilentWorkers OrderlyWorkers NoQuestions
INVARIANTS
    TypeOK
PROPERTIES
    LaunchWithinLimits
CHECK_DEADLOCK FALSE
