SPECIFICATION Spec
CONSTANTS
    s1 = s1
    s2 = s2
    Scans = {s1, s2}
    NoScan = none
    Workers = {w1, w2}
    Sizes <- MCSizes
    MaxBatch = 2
    Interrupts = FALSE
INVARIANT EndedIsComplete
CHECK_DEADLOCK FALSE
