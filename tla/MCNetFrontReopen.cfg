CONSTANTS
    Wrap = 32
    First = 0
    RingSize = 8
    MaxFrags = 2
    MinTarget = 2
    Budget = 1
    Messages <- MCMessages
    Loads <- ReopenLoads
    OneCpu = TRUE
SPECIFICATION Spec
CHECK_DEADLOCK FALSE
INVARIANT NoBug
