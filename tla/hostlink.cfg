SPECIFICATION Spec
CONSTANTS
    Proc = {p1}
    NoProc = none
    Segment = {1, 2}
    EventsOf <- TwoThenOnes
INVARIANTS
    NothingForgotten
PROPERTIES
    ImplementsEventLog
    ServingDrains
