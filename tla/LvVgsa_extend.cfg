SPECIFICATION Spec
CONSTANTS
    NPV = 3
    LX = {0}
    Mirror = {0, 1}
    PvOf <- MCPvOf
    BlkExt <- Apart
    Req = {r1, r2}
    Spare <- SecondMirror
    Detached <- AllAttached
    Commands = {"extend"}
    MaySync = TRUE
    MaxClock = 3
    MaxFailures = 1
    MaxCrashes = 0
INVARIANTS
    StaleIsDurable
CHECK_DEADLOCK FALSE
