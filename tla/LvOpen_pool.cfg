SPECIFICATION FairSpec
CONSTANTS
    a1 = a1
    a2 = a2
    b1 = b1
    big = big
    one = one
    Lv = {a1, a2, b1}
    VgOf <- MCVgOf
    Fmt = {"BLOCK"}
    Req = {big, one}
    LvOf <- MCLvOf
    Need <- MCNeed
    Grab = 3
    MaxGrab = 2
    MaxSys = 2
    Parallel = 1
    MaxNoMem = 0
    MaxRun = 2
INVARIANTS
    PoolExact
    NoneLost
    PoolFits
    CountsExact
PROPERTIES
    Served
CHECK_DEADLOCK FALSE
