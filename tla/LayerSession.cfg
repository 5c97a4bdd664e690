\* A session that is started, stopped and started again.
CONSTANTS
    t1 = t1
    t2 = t2
    t3 = t3
    Loggers = {t1, t2}
    AIOMAX = 2
    SEMAX = 4
    IdleDelta = 0
    Layer <- MmLayer
    CtlVals = {1, 2, 990}
    MaxCtl = 3
    MaxCalls = 2
    OpenMayFail = TRUE
CHECK_DEADLOCK FALSE
SPECIFICATION Spec
SYMMETRY LoggerSymmetry
INVARIANTS
    ClaimIsExclusive
    OvershootIsBounded
    FileIsCleanUnlessRaced
PROPERTIES
    LossOnlyInTheWindow
    ClaimIsTryLock
    LayerIsQueue
