SPECIFICATION Spec
CONSTANTS
    NPV = 3
    LX = {0}
    Mirror = {0, 1}
    PvOf <- MCPvOf
    BlkExt <- Apart
    Req = {r1, r2}
    Spare = {}
    Detached <- AllAttached
    Commands = {}
    MaySync = FALSE
    MaxClock = 4
    MaxFailures = 1
    MaxCrashes = 1
INVARIANTS
    StaleIsDurable
    NextIsOldest
PROPERTIES
    AckIsDurable
CHECK_DEADLOCK FALSE
