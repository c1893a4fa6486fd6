CONSTANTS
    a1 = a1
    a2 = a2
    a3 = a3
    NPV = 3
    Mirror <- MCMirror
    Ltg = {a1, a2}
    Lv <- MCLv
    LvOf <- MCLvOf
    PvOf <- MCPvOf
    Entry = {1}
    Req = {r1, r2}
    MP = TRUE
    MayClean = TRUE
    MayAttach = TRUE
    MayLose = TRUE
    MaxClock = 3
    MaxErrors = 1
    MayMiss = {2}
    MaxCrashes = 2
SPECIFICATION Spec
CHECK_DEADLOCK FALSE
INVARIANTS CopiesAgree
SYMMETRY ReqSymmetry
