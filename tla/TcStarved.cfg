\* Fewer than two records in the first buffer hide the other one.
CONSTANTS
    c1 = c1
    c2 = c2
    h1 = h1
    h2 = h2
    Callers = {c1, c2}
    ScsiTasks = {h1}
    NB = 2
    TCMAX = 4
    MaxCalls = 1
    MaxRecords = 2
    MaxSwitch = 2
    OpenMayFail = FALSE
SPECIFICATION FairSpec
CHECK_DEADLOCK FALSE
PROPERTY TcStopDrains
