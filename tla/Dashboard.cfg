SPECIFICATION FairSpec
CONSTANTS
    h1 = h1
    Hosts <- OneHost
    MaxChanges = 2
    MaxPolling = 3
    MaxActions = 3
INVARIANTS
    OnePollPerPage
    TimerRunsWhileWaiting
    OneCommandAtATime

PROPERTIES
    ListMovesForward
    ButtonComesBack
    PageCatchesUp
