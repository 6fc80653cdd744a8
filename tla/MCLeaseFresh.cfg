SPECIFICATION Spec
CONSTANTS
    a = a
    b = b
    c = c
    Claimant = {a, b, c}
    HostOf <- OneHost
    Ttl = 1
    OrphanAge = 1
    MaxTries = 4
    MaxCrashes = 1
    Corrupt = Corrupt
    None = None
    InitialLock <- NoLock
PROPERTIES
    NeverUnlinksFreshLease
