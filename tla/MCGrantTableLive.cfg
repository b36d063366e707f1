CONSTANTS
    c1 = c1
    NoRef = NoRef
    Clients = {c1}
    MaxFrames = 2
    FrameEntries = 1
    NrReserved = 0
    Frame <- MCFrame
    MaxRequest = 1
    Batch = 1
SPECIFICATION FairTableSpec
CHECK_DEADLOCK FALSE
PROPERTY DeferredReclaimed
