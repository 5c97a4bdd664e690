\* One user, any order of writes.
CONSTANTS
    w1 = w1
    w2 = w2
    mm = mm
    bio = bio
    RunAll <- MCRunAll
    RunSome <- MCRunSome
    Writers = {w1}
    CtlVals = {0, 1, 2, 3, 990}
    MaxWrites = 5
    OpenMayFail = FALSE
CHECK_DEADLOCK FALSE
SPECIFICATION FairSpec
INVARIANT ActiveLayerHasThread
PROPERTY WriteReturns
