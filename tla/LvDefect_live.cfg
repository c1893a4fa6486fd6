CONSTANTS
    Request = {r1, r2}
    NBlk = 4
    BlkPerTrk = 2
    HashSize = 2
    NAlt = 4
    NSlot = 2
    Known = {2}
    MayGoBad = {1, 5, 6}
    Spared = {"track", "torn", "device", "unwritten", "window"}
    MaxReq = 2
    MaxFail = 1
    MaxDirFail = 1
    MaxCrash = 1
SPECIFICATION FairSpec
INVARIANTS ReadsLast RefusedForCause NoPanic
PROPERTIES Answered
CHECK_DEADLOCK FALSE
