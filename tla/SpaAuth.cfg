CONSTANTS
    c1 = c1
    c2 = c2
    Caller = {c1, c2}
    Life = 2
    Cushion = 1
    Slack = 0
    Latency = 1
    MaxNow = 2
    MaxLogins = 3
SPECIFICATION SituationsSpec
INVARIANTS
    SpaTypeOK
    TokenFollowsUser
PROPERTIES
    CachedTokenWorks
    EveryCallReturns
