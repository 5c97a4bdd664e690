\* A thread that could not open its file leaves its pointer behind.
CONSTANTS
    w1 = w1
    w2 = w2
    mm = mm
    bio = bio
    RunAll <- MCRunAll
    RunSome <- MCRunSome
    Writers = {w1}
    CtlVals = {0, 1}
    MaxWrites = 2
    OpenMayFail = TRUE
CHECK_DEADLOCK FALSE
SPECIFICATION Spec
INVARIANT ExistsMeansAlive
