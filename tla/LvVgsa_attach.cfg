SPECIFICATION Spec
CONSTANTS
    NPV = 3
    LX = {0}
    Mirror = {0, 1}
    PvOf <- MCPvOf
    BlkExt <- Apart
    Req = {r1, r2}
    Spare = {}
    Detached <- OneAway
    Commands = {"attach"}
    MaySync = FALSE
    MaxClock = 4
    MaxFailures = 2
    MaxCrashes = 0
INVARIANTS
    StaleIsDurable
CHECK_DEADLOCK FALSE
