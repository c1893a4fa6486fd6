CONSTANTS
    a1 = a1
    a2 = a2
    a3 = a3
    NPV = 3
    Mirror <- MCMirror3
    Ltg = {a1, a2}
    Lv <- MCLv
    LvOf <- MCLvOf
    PvOf <- MCPvOf3
    Entry = {1, 2}
    Req = {r1}
    MP = FALSE
    MayClean = FALSE
    MayAttach = FALSE
    MayLose = FALSE
    MaxClock = 3
    MaxErrors = 0
    MayMiss = {}
    MaxCrashes = 1
SPECIFICATION Spec
CHECK_DEADLOCK FALSE
INVARIANTS NoPanic
