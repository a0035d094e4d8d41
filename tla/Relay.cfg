CONSTANTS
    host = host
    tab1 = tab1
    tab2 = tab2
    phone = phone
    desk = desk
    laptop = laptop
    mobile = mobile
    Session = {s1}
    Device = {desk, laptop, mobile}
    Peer = {host, tab1, phone}
    Daemon = {host}
    Viewer = {tab1, phone}
    NoDevice = NoDevice
    NoSession = NoSession
    NoPeer = NoPeer
    DeviceOf <- MCDeviceOf
    TTL = 2
    Second = 2
    MaxClock = 3
    MaxVersion = 2
    MaxDrops = 1
    PatchStatus = {"running", "exited"}
    Faults = {"call", "token", "crash"}
SPECIFICATION SituationsSpec
INVARIANTS
    RelayTypeOK
    RegistryConsistent
    TypistHoldsLease
    ClosedLeavesNoLease
CHECK_DEADLOCK FALSE
