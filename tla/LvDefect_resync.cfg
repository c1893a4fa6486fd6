CONSTANTS
    Request = {r1, r2}
    NBlk = 4
    BlkPerTrk = 2
    HashSize = 2
    NAlt = 4
    NSlot = 2
    Known = {2}
    MayGoBad = {1, 5, 6}
    Spared = {"track", "torn", "device", "unwritten", "window"}
    MaxReq = 4
    MaxFail = 0
    MaxDirFail = 0
    MaxCrash = 2
SPECIFICATION Spec
INVARIANTS TypeOK ReadsLast RefusedForCause NoPanic
SYMMETRY Symmetry
CHECK_DEADLOCK FALSE
