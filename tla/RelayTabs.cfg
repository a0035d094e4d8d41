CONSTANTS
    host = host
    tab1 = tab1
    tab2 = tab2
    phone = phone
    desk = desk
    laptop = laptop
    mobile = mobile
    Session = {s1}
    Device = {desk, laptop, mobile}
    Peer = {host, tab1, tab2, phone}
    Daemon = {host}
    Viewer = {tab1, tab2, phone}
    NoDevice = NoDevice
    NoSession = NoSession
    NoPeer = NoPeer
    DeviceOf <- MCDeviceOf
    TTL = 1
    Second = 1
    MaxClock = 0
    MaxVersion = 2
    MaxDrops = 0
    PatchStatus = {}
    Faults = {}
SPECIFICATION WatchedSpec
INVARIANTS
    OneRemoteController
CHECK_DEADLOCK FALSE
