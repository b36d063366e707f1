CONSTANTS
    Total = 4
    MinPages = 2
    Batch = 2
    Wants = {1, 3, 5}
    Builds = {"plain", "opensuse"}
    Loads <- MCLoads
SPECIFICATION FairBalloonSpec
CHECK_DEADLOCK FALSE
INVARIANT BalloonTypeOK
INVARIANT FloorKept
PROPERTY Reached
