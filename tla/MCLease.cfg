SPECIFICATION FairSpec
CONSTANTS
    a = a
    b = b
    c = c
    Claimant = {a, b}
    HostOf <- TwoCalls
    Ttl = 1
    OrphanAge = 1
    MaxTries = 4
    MaxCrashes = 1
    Corrupt = Corrupt
    None = None
    InitialLock <- AnyLock
INVARIANTS
    TypeOK
    SoleHolderUnlessGuardTaken
PROPERTIES
    LeaseChangesHandsThroughFree
    ConfirmationsFollowPublication
    AbandonedLeaseIsReclaimed
