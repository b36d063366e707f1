CONSTANTS
    Wrap = 16
    First = 8
    RingSize = 4
    MaxFrags = 0
    MinTarget = 2
    Budget = 2
    Messages <- MCMessages
    Loads <- MCLoads
    OneCpu = TRUE
SPECIFICATION Spec
CHECK_DEADLOCK FALSE
INVARIANT NoBug
INVARIANT SlotsExact
INVARIANT TxNotStuck
INVARIANT RxAlive
PROPERTY ImplementsRing
