CONSTANTS
    d1 = d1
    d2 = d2
    Nodes = {d1, d2}
    MaxQueue = 3
    Cases <- MCCases
SPECIFICATION FairSpec
CHECK_DEADLOCK FALSE
INVARIANT NoBug
INVARIANT NoneMissed
PROPERTY DirRespected
PROPERTY Settles
