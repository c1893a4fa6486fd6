CONSTANTS
    NPV = 3
    First = {1, 2, 3}
    Spared = {"minority", "ghost", "retry", "single", "reinstall"}
    MaxTime = 3
    MaxFail = 2
    MaxCrash = 2
SPECIFICATION Spec
INVARIANTS NeverUnmade
CHECK_DEADLOCK FALSE
