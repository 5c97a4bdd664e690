\* Two writers fill a log of two slots over and over while it is printed.
CONSTANTS
    w1 = w1
    w2 = w2
    w3 = w3
    Writers = {w1, w2}
    SEMAX = 2
    MaxMarks = 3
    MaxSwitch = 2
CHECK_DEADLOCK FALSE
SPECIFICATION FairSpec
INVARIANTS
    SettledIsInside
    OverrunNeedsOverlap
    FileIsCleanUnlessRaced
PROPERTIES
    MarksLostInTheWindowOrFull
    MarksAreWritten
