SPECIFICATION Spec
CONSTANTS
    Task = {1, 2, 3}
    Launch = {l1}
    Group = {1, 2, 3}
    Resource = {}
    Proc = {p1}
    Deps <- ChainDeps
    PlanOrder <- Reversed
    LaunchOf <- SameLaunch
    GroupOf <- OwnGroup
    MaxAttempts <- Two
    MaxActive <- One
    Policy <- Mixed
    Keys <- NoKeys
    LimitConfigs <- TwoSlots
    GroupBudget = 2
    MaxHosts = 4
    ActiveReport = {0}
    ReportRev = {}
    MaxSegment = 3
    MaxEpoch = 1
ACTION_CONSTRAINTS StableHosts SilentWorkers OrderlyWorkers
INVARIANTS
    SlotOwnership
    DependencySafety
    QueuedWaits
    BlockingPropagates
    OwnerCanDecide
CHECK_DEADLOCK FALSE
