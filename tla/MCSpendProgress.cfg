SPECIFICATION FairSpec
CONSTANTS
    p1 = p1
    p2 = p2
    r1 = r1
    r2 = r2
    r3 = r3
    chunk = chunk
    supervise = supervise
    e1 = e1
    e2 = e2
    f1 = f1
    f2 = f2
    None = None
    Process = {p1}
    Reservation = {r1, r2, r3}
    Operation = {chunk, supervise}
    Role <- TwoRoles
    Family = {f1}
    Evidence = {e1, e2}
    RoleOf <- MCRoleOf
    EvidenceOf <- MCEvidenceOf
    MaxCalls <- TwoCallsEach
    MaxUsage = 2
    AnomalyLimit = 2
    Usage = {1, 2}
    MaxFaults = 0
    MaxCrashes = 1
    Displacement = FALSE
INVARIANTS
    RetryStaysInOperation
    UsageOvershootsByOneCall
PROPERTIES
    InDoubtIsResolved
