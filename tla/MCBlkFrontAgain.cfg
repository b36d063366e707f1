CONSTANTS
    b1 = b1
    b2 = b2
    Bios = {b1, b2}
    RingSize = 2
    Direct = 1
    Hosts <- MCHosts
    MaxMigrations = 2
    MaxShortages = 0
    Patient = FALSE
    Uniform = TRUE
    MemoryLasts = TRUE
SPECIFICATION Spec
SYMMETRY Symmetry
CHECK_DEADLOCK FALSE
INVARIANT NoBug
