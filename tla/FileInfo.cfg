\* A table of two entries is filled, replaced and shrunk while it is read.
CONSTANTS
    a1 = a1
    a2 = a2
    r1 = r1
    Adders = {a1, a2}
    Readers = {r1}
    Files <- MCFiles
    AIOFILE = 2
    Fresh = 7
    Strays = {8}
    MaxAdds = 4
    MaxOverlaps = 1
    MaxReads = 1
CHECK_DEADLOCK FALSE
SPECIFICATION Spec
SYMMETRY AdderSymmetry
INVARIANTS
    OverrunNeedsOverlap
    EntriesAreWhole
    OwnerIsOfTheFile
    FoundIsLatest
PROPERTY
    ForgetsNamesakesOrWhenFull
