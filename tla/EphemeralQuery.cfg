SPECIFICATION FairSpec
CONSTANTS
    Timeouts = {0, 1, 2}
    Sizes = {0, 1, 2, 4}
    RowCaps = {0, 1, 2}
    ChunkRows = 2
    MaxClock = 5
INVARIANTS
    EndRecordIsTrue
    TimeoutIsLate
    InterruptFindsConnection
PROPERTY LimitedQueryEnds
