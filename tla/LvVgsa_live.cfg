SPECIFICATION FairSpec
CONSTANTS
    NPV = 3
    LX = {0}
    Mirror = {0, 1}
    PvOf <- MCPvOf
    BlkExt <- Apart
    Req = {r1, r2}
    Spare <- SecondMirror
    Detached <- OneAway
    Commands = {"attach", "delete", "extend"}
    MaySync = TRUE
    MaxClock = 3
    MaxFailures = 1
    MaxCrashes = 0
INVARIANTS
    NobodyForgotten
PROPERTIES
    SyncNotStale
    Released
    ConfigReturns
CHECK_DEADLOCK FALSE
