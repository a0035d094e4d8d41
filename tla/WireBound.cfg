CONSTANTS
    Sup = {1, 2, 3}
    GiveUpAfter = 2
    Backoff <- MCBackoff
    MaxVisits = 2
    Patient = FALSE
SPECIFICATION ReconnectSpec
INVARIANTS
    WireBoundToPage
