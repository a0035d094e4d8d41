CONSTANTS
    s1 = s1
    s2 = s2
    Session = {s1, s2}
    NoSession = NoSession
    Faults = {}
    MaxCrashes = 1
SPECIFICATION HostSpec
INVARIANTS
    RunningIsStreamed
CHECK_DEADLOCK FALSE
