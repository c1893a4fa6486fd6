SPECIFICATION Spec
CONSTANTS
    NPV = 3
    LX = {0, 1}
    Mirror = {0, 1}
    PvOf <- MCPvOf
    BlkExt <- Crossed
    Req = {r1, r2}
    Spare = {}
    Detached <- AllAttached
    Commands = {}
    MaySync = FALSE
    MaxClock = 4
    MaxFailures = 0
    MaxCrashes = 0
INVARIANTS
    StaleIsDurable
CHECK_DEADLOCK FALSE
