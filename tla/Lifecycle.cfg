SPECIFICATION FairSpec
CONSTANTS
    ssh1 = ssh1
    get1 = get1
    Never = Never
    Calls <- OneCall
    Others <- OneOther
    SshTimeout = 2
    OutputLimit = 1
    Chunks <- Sizes
    MaxOutput = 2
    MaxTime = 5
    ShutdownTimeout = 2
    LatestSignal = 2
    MaxSignals = 2
INVARIANTS
    ReportIsTrue
    ReturnsByItsDeadline
    CleanExit
    OnlyLateRequestsAreCut
    StopsInTime
PROPERTIES
    Ends
CHECK_DEADLOCK FALSE
