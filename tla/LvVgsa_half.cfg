SPECIFICATION Spec
CONSTANTS
    NPV = 2
    LX = {0}
    Mirror = {0, 1}
    PvOf <- MCPvOf
    BlkExt <- Apart
    Req = {r1, r2}
    Spare = {}
    Detached <- AllAttached
    Commands = {}
    MaySync = FALSE
    MaxClock = 4
    MaxFailures = 2
    MaxCrashes = 0
PROPERTIES
    MoreThanHalf
CHECK_DEADLOCK FALSE
