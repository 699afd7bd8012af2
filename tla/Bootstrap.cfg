SPECIFICATION FairSpec
CONSTANTS
    p1 = p1
    p2 = p2
    s1 = s1
    s2 = s2
    EmptyList = EmptyList
    TheirHosts = TheirHosts
    Absent = Absent
    Useless = Useless
    Processes <- TwoProcesses
    Secrets <- TwoSecrets
INVARIANT SecretIsForEver
PROPERTIES
    HostsNeverReplaced
    StartupSucceeds
