CONSTANTS
    tab1 = tab1
    tab2 = tab2
    phone = phone
    laptop = laptop
    mobile = mobile
    Session = {s1}
    Device = {laptop, mobile}
    Peer = {tab1, phone}
    NoDevice = NoDevice
    NoSession = NoSession
    DeviceOf <- MCDeviceOf
    TTL = 1
    Second = 1
    MaxClock = 2
    MaxVersion = 2
    MaxDrops = 1
    PatchStatus = {"running", "exited"}
SPECIFICATION ControlSpec
INVARIANTS
    ControlTypeOK
    ExpiryWithinTTL
PROPERTIES
    LeaseSpec
CHECK_DEADLOCK FALSE
