CONSTANTS
    c1 = c1
    c2 = c2
    NoRef = NoRef
    Clients = {c1, c2}
    MaxFrames = 1
    FrameEntries = 2
    NrReserved = 0
    Frame <- MCFrame
    MaxRequest = 2
    Batch = 2
SPECIFICATION TableSpec
SYMMETRY Symmetry
CHECK_DEADLOCK FALSE
INVARIANT TableTypeOK
INVARIANT CountExact
INVARIANT NothingReachable
INVARIANT RefsConserved
INVARIANT WakeupsComing
