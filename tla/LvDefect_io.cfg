CONSTANTS
    Request = {r1, r2}
    NBlk = 4
    BlkPerTrk = 2
    HashSize = 2
    NAlt = 4
    NSlot = 2
    Known = {2}
    MayGoBad = {1, 5, 6}
    Spared = {"track", "torn", "device", "unwritten", "window"}
    MaxReq = 3
    MaxFail = 1
    MaxDirFail = 1
    MaxCrash = 1
SPECIFICATION Spec
INVARIANTS TypeOK ReadsLast RefusedForCause NoPanic
SYMMETRY Symmetry
CHECK_DEADLOCK FALSE
