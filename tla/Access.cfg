\* The clock, the servers and the changes of settings are bounded.
CHECK_DEADLOCK FALSE
CONSTANTS
    HexLength = 2
    Tokens <- MCTokens
    ServerToken = "right"
    PrincipalOf <- MCPrincipalOf
    HarborNames <- MCHarborNames
    QuackNames <- MCQuackNames
    Ttls = {0, 9}
    DefaultTtl = 1
    TtlCap = 1
    MaxClock = 1
    MaxServers = 2
    MaxLogins = 1
    MaxSets = 1
SPECIFICATION Spec
INVARIANTS
    AdminNeedsPolicy
    CookieIsLogin
    CredentialDecides
    CookieNeedsOrigin
