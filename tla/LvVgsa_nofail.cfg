SPECIFICATION Spec
CONSTANTS
    NPV = 3
    LX = {0}
    Mirror = {0, 1, 2}
    PvOf <- MCPvOf
    BlkExt <- Apart
    Req = {r1}
    Spare <- ThirdMirror
    Detached <- AllAttached
    Commands = {"extend"}
    MaySync = FALSE
    MaxClock = 6
    MaxFailures = 2
    MaxCrashes = 0
INVARIANTS
    StaleIsDurable
CHECK_DEADLOCK FALSE
