CONSTANTS
    b1 = b1
    b2 = b2
    b3 = b3
    Bios = {b1, b2, b3}
    RingSize = 2
    Direct = 1
    Hosts <- MCHosts
    MaxMigrations = 2
    MaxShortages = 1
    Patient = TRUE
    Uniform = TRUE
    MemoryLasts = TRUE
SPECIFICATION Spec
SYMMETRY Symmetry
CHECK_DEADLOCK FALSE
INVARIANT RequestsConserved
INVARIANT GrantsAccounted
INVARIANT OwnPages
INVARIANT NoBug
INVARIANT QueueNotStuck
