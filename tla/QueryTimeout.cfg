SPECIFICATION Spec
CONSTANTS
    Sessions = {s1}
    Requests = {r1, r2}
    Cancels = {c1}
    NoSession = NoSession
    NoRequest = NoRequest
    Timeouts = {0, 1}
    MaxClock = 2
    MaxQueries = 2
INVARIANTS
    TimeoutIsOverdueUnlessStale
    CancelledWasAsked
    AimedInterruptReported
PROPERTY
    ImplementsSerialSession
