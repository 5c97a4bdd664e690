\* Two arrays of two slots, a staging buffer that two lines may fill or overflow.
CONSTANTS
    AIOMAX = 2
    MEMMAX = 5
    Margin <- MCMargin
    Widths <- MCWidths
    IdleDelta = 1
    MaxCalls = 3
    MaxSwitch = 3
    OpenMayFail = TRUE
    DiskMayFill = TRUE
CHECK_DEADLOCK FALSE
SPECIFICATION FairSpec
INVARIANTS
    TypeOK
    OverrunIsTheNul
    StagedIsWhatIsOwed
PROPERTIES
    StopDrainsBoth
    IdleFlushesBoth
