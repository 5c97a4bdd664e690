\* Two queues, a list of two entries, requests that are repeated.
CONSTANTS
    q1 = q1
    q2 = q2
    Queues = {q1, q2}
    Requests <- MCRequests
    RQMAX = 2
    MaxSubmits = 3
    MaxOverlaps = 1
    DeviceMayFail = TRUE
CHECK_DEADLOCK FALSE
SPECIFICATION Spec
SYMMETRY QueueSymmetry
INVARIANTS
    OverrunNeedsOverlap
    ListIsTheLatest
    WrongStartHasReason
    BorrowedStartIsNear
