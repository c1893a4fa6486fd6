CONSTANTS
    a1 = a1
    a2 = a2
    a3 = a3
    NPV = 3
    Mirror <- MCMirror
    Ltg = {a1, a2}
    Lv <- MCLv
    LvOf <- MCLvOf
    PvOf <- MCPvOf
    Entry = {1}
    Req = {r1, r2}
    MP = FALSE
    MayClean = FALSE
    MayAttach = FALSE
    MayLose = FALSE
    MaxClock = 3
    MaxErrors = 1
    MayMiss = {}
    MaxCrashes = 1
SPECIFICATION Spec
CHECK_DEADLOCK FALSE
INVARIANTS SomeGood
SYMMETRY ReqSymmetry
