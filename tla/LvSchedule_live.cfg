SPECIFICATION FairSpec
CONSTANTS
    NMirror = 2
    Hole = {}
    NTrack = 2
    Value = {0, 1}
    Policy = {"parallel"}
    Known = {}
    Spared = {"early", "seqread", "seqsync", "leftover", "gone"}
    MaxFail = 0
    MaxMiss = 1
PROPERTIES
    Answered
CHECK_DEADLOCK FALSE
