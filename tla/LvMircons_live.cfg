CONSTANTS
    a1 = a1
    a2 = a2
    a3 = a3
    NPV = 3
    Mirror <- MCMirror
    Ltg = {a1, a2}
    Lv <- MCLv
    LvOf <- MCLvOf
    PvOf <- MCPvOf
    Entry = {1}
    Req = {r1, r2}
    MP = FALSE
    MayClean = TRUE
    MayAttach = FALSE
    MayLose = FALSE
    MaxClock = 3
    MaxErrors = 3
    MayMiss = {2}
    MaxCrashes = 0
SPECIFICATION FairSpec
CHECK_DEADLOCK FALSE
INVARIANTS NobodyStranded FreeExact NoPanic
PROPERTIES Returned
