CONSTANTS
    None = None
    Situations <- MCSituations
    Sizes = {8}
    DefaultImage = "i0"
    DefaultDNS = {"1.1.1.1"}
    Shim = "shim"
    Embedded = "127.0.0.11"
    Addrs <- MCAddrs
    PortNum <- MCPortNum
    Lower <- MCLower
    Bytes <- MCBytes
    Abs <- MCAbs
SPECIFICATION Spec
INVARIANTS TypeOK TellsOrApplies GuestFit PrivilegedOnPurpose KernelConfigFit
PROPERTY NoFalseAlarm
CONSTRAINT SomethingNew
