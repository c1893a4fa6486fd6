SPECIFICATION Spec
CONSTANTS
    NPV = 3
    LX = {0, 1}
    Mirror = {0}
    PvOf <- MCPvOf
    BlkExt <- Apart
    Req = {r1}
    Spare <- SecondExtent
    Detached <- AllAttached
    Commands = {"delete", "extend"}
    MaySync = FALSE
    MaxClock = 6
    MaxFailures = 1
    MaxCrashes = 0
INVARIANTS
    QuorumRechecked
CHECK_DEADLOCK FALSE
