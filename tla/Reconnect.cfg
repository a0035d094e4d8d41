CONSTANTS
    Sup = {1, 2, 3}
    GiveUpAfter = 2
    Backoff <- MCBackoff
    MaxVisits = 2
    Patient = TRUE
SPECIFICATION FairReconnect
INVARIANTS
    ReconnectTypeOK
    GaveUpAfterSilence
PROPERTIES
    PhasesShown
    DialSettles
