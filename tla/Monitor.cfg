SPECIFICATION FairSpec
CONSTANTS
    a = a
    b = b
    c = c
    x = x
    y = y
    None = None
    LoadError = LoadError
    Ids <- ThreeIds
    Ips <- TwoIps
    HostLists <- TwoLists
    MaxConcurrent = 2
    DefaultInterval = 2
    MaxAge = 2
INVARIANTS
    OneProbePerHost
    ProbesBounded
    StatusOnlyOfHosts
PROPERTIES
    AnswersAreForCurrentAddress
    ShutdownCompletes
    StatusCatchesUp
