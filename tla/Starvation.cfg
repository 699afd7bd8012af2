SPECIFICATION FairSpec
CONSTANTS
    a = a
    b = b
    c = c
    x = x
    y = y
    None = None
    LoadError = LoadError
    Ids <- TwoIds
    Ips <- OneIp
    HostLists <- ManyLists
    MaxConcurrent = 1
    DefaultInterval = 2
    MaxAge = 2
PROPERTY EveryHostIsChecked
