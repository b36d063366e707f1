CONSTANTS
    b1 = b1
    b2 = b2
    Bios = {b1, b2}
    RingSize = 2
    Direct = 1
    Hosts <- MCMixed
    MaxMigrations = 1
    MaxShortages = 0
    Patient = TRUE
    Uniform = FALSE
    MemoryLasts = TRUE
SPECIFICATION Spec
SYMMETRY Symmetry
CHECK_DEADLOCK FALSE
INVARIANT OwnPages
