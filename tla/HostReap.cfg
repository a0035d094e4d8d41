CONSTANTS
    s1 = s1
    s2 = s2
    Session = {s1, s2}
    NoSession = NoSession
    Faults = {"patch", "probe", "delete"}
    MaxCrashes = 1
SPECIFICATION FairHost
PROPERTIES
    GoneSessionsReaped
CHECK_DEADLOCK FALSE
