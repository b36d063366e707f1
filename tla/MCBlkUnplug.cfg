CONSTANTS
    t1 = t1
    t2 = t2
    Threads = {t1, t2}
    Cases <- MCCases
SPECIFICATION Spec
CHECK_DEADLOCK FALSE
INVARIANT NothingStale
INVARIANT ClosedUnused
INVARIANT NothingLeaks
