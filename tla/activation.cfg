SPECIFICATION Spec
CONSTANTS
    Txn = {t1, t2}
    Foreign = Foreign
    Nobody = Nobody
    Meddles = 2
INVARIANTS
    EndsClean
    OnlyFrozenDestroyed
    SoleRegistration
PROPERTIES
    OthersJobStands
CHECK_DEADLOCK FALSE
