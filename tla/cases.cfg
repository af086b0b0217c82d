SPECIFICATION Spec
CONSTANTS
    Runner = {r1, r2}
    Mode = {"resume", "reconnect", "partial"}
    Epochs = 2
    Total = 3
    Content = {"reviewed", "changed"}
    Reviewed = "reviewed"
    Edits = 2
    Apart = 1
    Oddities = 1
    Together = 0
INVARIANTS
    OneRunner
    ObservedIsQuiet
    ObservedIsReviewed
    ContinuesTheStop
SYMMETRY Symmetry
CHECK_DEADLOCK FALSE
