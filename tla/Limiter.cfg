SPECIFICATION Spec
CONSTANTS
    ip1 = ip1
    ip2 = ip2
    ann = ann
    bob = bob
    s1 = s1
    s2 = s2
    None = None
    Ips <- OneIp
    Accounts <- TwoAccounts
    Slots <- TwoSlots
    MaxFailures = 3
    Window = 3
    Backoff = 2
    CleanupInterval = 2
    MaxTracked = 2
    MaxClock = 6
CHECK_DEADLOCK FALSE
INVARIANTS
    TrackedKeysBounded
    FailuresBounded
PROPERTY ImplementsLoginLimit
