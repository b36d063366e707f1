CONSTANTS
    c1 = c1
    c2 = c2
    Clients = {c1, c2}
    MaxFrames = 2
    FrameEntries = 3
    NrReserved = 2
    MaxRequest = 3
SPECIFICATION Spec
SYMMETRY Symmetry
INVARIANT ListsEnd
PROPERTY ImplementsPool
