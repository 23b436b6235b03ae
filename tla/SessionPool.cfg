\* Two requests, two principals, two ids.
CONSTANTS
    None = None
    Principals = {p1, p2}
    Ids = {i1, i2}
    Requests = {r1, r2}
    Settings = {0, 1}
    DefaultMax = 2
SPECIFICATION FairSpec
INVARIANTS
    OwnSessionUnlessQuack
    LogoutEndsSessions
PROPERTIES
    CancelAnswered
    ImplementsOwnedSessions
