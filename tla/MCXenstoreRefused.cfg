SPECIFICATION Spec
CONSTANTS
    k1 = k1
    f1 = f1
    xw = xw
    w1 = w1
    w2 = w2
    None = None
    Kernel = {k1}
    Files = {f1}
    Xenwatch = xw
    Suspender = susp
    Watches = {w1}
    Owner <- FileOwns
    Refused = {f1}
    Signalled = {k1}
    MixWatches = FALSE
    MaxChanges = 1
    MaxSuspends = 2
INVARIANT CountExact
