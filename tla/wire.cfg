SPECIFICATION MCSpec
CONSTANTS
    Owner = {o1, o2}
    Resuming = {o2}
    Helper = Helper
    Id = {1, 2}
    NoId = 0
    Thread = {t1, t2}
    NoThread = NoThread
    Expected = t2
    MaxEvents = 15
    Irregularities = 1
INVARIANTS
    NoCrossTalk
PROPERTIES
    ReadyEarned
CHECK_DEADLOCK FALSE
