SPECIFICATION Spec
CONSTANTS
    NMirror = 2
    Hole = {}
    NTrack = 2
    Value = {0, 1}
    Policy = {"parallel", "sequential"}
    Known = {}
    Spared = {"early", "seqread", "seqsync", "leftover", "gone"}
    MaxFail = 1
    MaxMiss = 1
INVARIANTS
    NoPanic
PROPERTIES
    WrittenIsDurable
    Implements
CHECK_DEADLOCK FALSE
