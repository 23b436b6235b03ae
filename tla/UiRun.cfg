SPECIFICATION Spec
CONSTANTS
    r1 = r1
    r2 = r2
    r3 = r3
    Requests <- MCRequests
    Jobs <- MCJobs
    JobsOf <- MCJobsOf
    ChunkRows = 2
    NoConn = NoConn
    NoRequest = NoRequest
    NoPath = NoPath
    NoTable = NoTable
INVARIANTS
    KeyHasOneConnection
    UndisturbedRun
    RowsAsked
PROPERTIES
    LimitedRunEnds
CHECK_DEADLOCK FALSE
