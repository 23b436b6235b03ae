SPECIFICATION FairSpec
CONSTANTS
    s1 = s1
    s2 = s2
    Scans = {s1, s2}
    NoScan = none
    Workers = {w1, w2}
    Sizes <- MCSizes
    MaxBatch = 2
    Interrupts = TRUE
INVARIANTS
    EndedIsCompleteUnlessDropped
    RowsHandedOnce
    BatchOrder
PROPERTIES
    ScanTerminates
    ImplementsBatchSource
CHECK_DEADLOCK FALSE
