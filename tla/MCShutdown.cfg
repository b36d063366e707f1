SPECIFICATION FairSpec
CONSTANTS
    t1 = t1
    t2 = t2
    Tids = {t1, t2}
    Written = {"poweroff", "suspend", "reboot"}
    MaxRequests = 2
    MaxInts = 2
    MaxFailures = 1
INVARIANTS TypeOK NoBug OneAgent
PROPERTIES OffHeeded ReadyAgain
CHECK_DEADLOCK FALSE
