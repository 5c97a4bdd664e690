\* Two tasks and the thread over a start, a stop and a restart, with a record
\* more than fills both buffers up to the thread's threshold.
CONSTANTS
    c1 = c1
    c2 = c2
    h1 = h1
    h2 = h2
    Callers = {c1, c2}
    ScsiTasks = {h1}
    NB = 2
    TCMAX = 5
    MaxCalls = 3
    MaxRecords = 5
    MaxSwitch = 3
    OpenMayFail = FALSE
SPECIFICATION Spec
CHECK_DEADLOCK FALSE
SYMMETRY TaskSymmetry
INVARIANTS
    TypeOK
    TcClaimIsExclusive
PROPERTY TcLossOnlyInResets
