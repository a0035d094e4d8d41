CONSTANTS
    TTL = 2
    Lead = 2
    Floor = 1
    Skew = {0, 2}
    Versions = 2
    MaxWire = 2
    MaxOutput = 1
    PaneSizes = {3, 4}
    Containers = {1, 3}
    GridFloor = 2
    MaxEvents = 3
    MaxCalls = 2
    MaxChanges = 1
SPECIFICATION BrowserSpec
INVARIANTS
    SpaControlTypeOK QuietMeansAgreed RenewedInTime
    ViewerTypeOK NothingElseLost GridFollowsPane FallbackIsTold
    SessionListTypeOK ListMatchesTab
PROPERTIES LearnsOfLoss FenceOpens ButtonComesBack
CHECK_DEADLOCK FALSE
