CONSTANTS
    Wrap = 16
    First = 12
    RingSize = 4
    MaxFrags = 0
    MinTarget = 2
    Budget = 1
    Messages <- MCMessages
    Loads <- MCLoads
    OneCpu = TRUE
SPECIFICATION Spec
CHECK_DEADLOCK FALSE
INVARIANT RxAlive
