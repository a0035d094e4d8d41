CONSTANTS
    s1 = s1
    s2 = s2
    Session = {s1, s2}
    NoSession = NoSession
    Faults = {"create", "launch", "pipe", "patch", "save", "torn", "kill",
              "probe", "delete", "forget", "login"}
    MaxCrashes = 1
SPECIFICATION HostSpec
INVARIANTS
    HostTypeOK
    ExitedMeansGone
    EndedUnwatched
CHECK_DEADLOCK FALSE
