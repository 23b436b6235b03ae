SPECIFICATION FairSpec
CONSTANTS
    Sessions = {s1}
    Requests = {r1}
    Cancels = {c1}
    NoSession = NoSession
    NoRequest = NoRequest
    Timeouts = {0, 1}
    MaxClock = 2
    MaxQueries = 2
PROPERTY OverdueStops
