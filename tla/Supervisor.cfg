CONSTANTS
    s1 = s1
    s2 = s2
    c1 = c1
    c2 = c2
    Session = {s1, s2}
    Conn = {c1, c2}
    NoConn = NoConn
    AuthLimit = 3
    MaxAttempt = 1
    MaxInbox = 2
SPECIFICATION MCSpec
INVARIANTS
    SupervisorTypeOK
    SlotFollowsLoop
    DelayDefined
    GivesUpOnlyAfterRefusals
    RouteRestored
PROPERTIES
    KeepsReconnecting
    StopsWhenCancelled
CHECK_DEADLOCK FALSE
