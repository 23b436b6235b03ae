SPECIFICATION Spec
CONSTANTS
    Sessions = {s1}
    Requests = {r1}
    Cancels = {}
    NoSession = NoSession
    NoRequest = NoRequest
    Timeouts = {1}
    MaxClock = 2
    MaxQueries = 2
INVARIANT StreamEndIsComplete
