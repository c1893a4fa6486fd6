SPECIFICATION FairSpec
CONSTANTS
    NPV = 3
    LX = {0}
    Mirror = {0, 1}
    PvOf <- MCPvOf
    BlkExt <- Apart
    Req = {r1}
    Spare = {}
    Detached <- OneAway
    Commands = {"attach"}
    MaySync = FALSE
    MaxClock = 3
    MaxFailures = 2
    MaxCrashes = 0
PROPERTIES
    ConfigAnswered
CHECK_DEADLOCK FALSE
