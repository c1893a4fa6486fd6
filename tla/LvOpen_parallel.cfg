SPECIFICATION Spec
CONSTANTS
    a1 = a1
    a2 = a2
    b1 = b1
    big = big
    one = one
    Lv = {a1, a2, b1}
    VgOf <- MCVgOf
    Fmt = {"BLOCK"}
    Req = {big}
    LvOf <- MCLvOf
    Need <- MCNeed
    Grab = 3
    MaxGrab = 2
    MaxSys = 2
    Parallel = 2
    MaxNoMem = 0
    MaxRun = 2
INVARIANT PoolCovers
CHECK_DEADLOCK FALSE
