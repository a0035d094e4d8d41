CONSTANTS
    Caller = {c1}
    Life = 2
    Cushion = 1
    Slack = 0
    Latency = 0
    MaxNow = 2
    MaxLogins = 2
SPECIFICATION SpaSpec
PROPERTY RefreshIsTransparent
