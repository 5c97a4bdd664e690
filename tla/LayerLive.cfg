\* Progress: every schedule of a hook call each and of starts and stops.
CONSTANTS
    t1 = t1
    t2 = t2
    t3 = t3
    Loggers = {t1, t2}
    AIOMAX = 2
    SEMAX = 2
    IdleDelta = 2
    Layer <- BlockLayer
    CtlVals = {1, 2, 3, 990}
    MaxCtl = 3
    MaxCalls = 1
    OpenMayFail = TRUE
CHECK_DEADLOCK FALSE
SPECIFICATION FairSpec
PROPERTIES
    StopDrains
    IdleIsFlushed
