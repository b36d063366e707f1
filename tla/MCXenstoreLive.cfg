SPECIFICATION FairSpec
CONSTANTS
    k1 = k1
    f1 = f1
    xw = xw
    w1 = w1
    w2 = w2
    None = None
    Kernel = {}
    Files = {f1}
    Xenwatch = xw
    Suspender = susp
    Watches = {w1}
    Owner <- FileOwns
    Refused = {xw}
    Signalled = {}
    MixWatches = FALSE
    MaxChanges = 0
    MaxSuspends = 1
PROPERTY SuspendEnds
