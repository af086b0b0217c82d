SPECIFICATION Spec
CONSTANTS
    o1 = o1
    o2 = o2
    h1 = h1
    prof = prof
    NoConn = NoConn
    Owner = {o1, o2}
    Helper = {h1}
    ProfileOf <- OneProfile
    HelperOf <- OneHelper
    ResumeOf <- ResumeFirst
    Regrants = {o2}
    MaxConnections = 3
INVARIANTS
    HelperGated
CHECK_DEADLOCK FALSE
