SPECIFICATION Spec
CONSTANTS
    Thread = {t1, t2}
    NoThread = NoThread
    Expected = t1
    Id = {i1, i2}
    Epochs = 2
    Oddities = 1
SYMMETRY Symmetry
INVARIANTS
    CandidateUnbroken
    ClearBarrier
    ResumeProved
    ObservedMeansNoTurn
CHECK_DEADLOCK FALSE
