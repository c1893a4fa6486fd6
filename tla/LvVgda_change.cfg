CONSTANTS
    NPV = 3
    First = {1, 2}
    Spared = {"minority", "single", "reinstall", "unsettled"}
    MaxTime = 5
    MaxFail = 2
    MaxCrash = 1
SPECIFICATION Spec
INVARIANTS AnsweredSurvives
PROPERTIES NewestKept
CHECK_DEADLOCK FALSE
