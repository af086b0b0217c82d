SPECIFICATION Spec
CONSTANTS
    NoDelivery = NoDelivery
    Worker = {"helper", "driver"}
    Driver = {"driver"}
    Events = 2
    PageSize = 1
    Epoch = {1, 2}
    Decision = {handled, waiting_user}
    Launches = 3
INVARIANTS
    SentOnce
    OneUndetermined
    ConfirmedIsTrue
    AckIsBacked
PROPERTIES
    ForwardOnly
SYMMETRY Symmetry
CHECK_DEADLOCK FALSE
