SPECIFICATION FairSpec
CONSTANTS
    Threads = {t1, t2, t3}
    NoThread = NoThread
    Uris = {u1, u2}
    NoUri = NoUri
    RequestCalls = {"serve", "wait"}
    MaxServers = 2
CHECK_DEADLOCK FALSE
INVARIANTS
    HandlersOutliveRequests
    NoServerLeaked
PROPERTY
    CallsReturn
    ImplementsOneServer
