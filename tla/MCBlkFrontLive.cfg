CONSTANTS
    b1 = b1
    b2 = b2
    Bios = {b1, b2}
    RingSize = 2
    Direct = 1
    Hosts <- MCPersistent
    MaxMigrations = 2
    MaxShortages = 1
    Patient = TRUE
    Uniform = TRUE
    MemoryLasts = TRUE
SPECIFICATION FairSpec
CHECK_DEADLOCK FALSE
PROPERTY BiosComplete
