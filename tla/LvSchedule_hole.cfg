SPECIFICATION Spec
CONSTANTS
    NMirror = 3
    Hole = {2}
    NTrack = 1
    Value = {0, 1}
    Policy = {"parallel", "sequential"}
    Known = {}
    Spared = {"early", "seqread", "seqsync", "leftover", "gone"}
    MaxFail = 2
    MaxMiss = 0
PROPERTY WrittenIsDurable
CHECK_DEADLOCK FALSE
