\* Progress: two tasks fill both buffers; the thread writes them after the stop.
\* Files may fail to open.  The SCSI hooks are in the run tc_session.
CONSTANTS
    c1 = c1
    c2 = c2
    h1 = h1
    h2 = h2
    Callers = {c1, c2}
    ScsiTasks = {}
    NB = 2
    TCMAX = 4
    MaxCalls = 2
    MaxRecords = 4
    MaxSwitch = 2
    OpenMayFail = TRUE
SPECIFICATION FairSpec
CHECK_DEADLOCK FALSE
PROPERTIES
    SoloReturns
    FullBuffersAreDrained
