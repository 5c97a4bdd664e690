\* Two users who start and end sessions and stop the threads; files fail.
CONSTANTS
    w1 = w1
    w2 = w2
    mm = mm
    bio = bio
    RunAll <- MCRunAll
    RunSome <- MCRunSome
    Writers = {w1, w2}
    CtlVals = {0, 1, 3, 990}
    MaxWrites = 3
    OpenMayFail = TRUE
CHECK_DEADLOCK FALSE
SPECIFICATION Spec
SYMMETRY WriterSymmetry
INVARIANTS
    TypeOK
    StartersAgree
    OneThreadPerLayer
    NoOrphan
    StoppedMeansNone
