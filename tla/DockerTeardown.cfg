CONSTANTS
    f1 = f1
    f2 = f2
    none = none
    Fds = {f1, f2}
    NoFd = none
    Requests = 3
    MaxSamples = 2
CHECK_DEADLOCK FALSE
SPECIFICATION FairSpec
INVARIANTS
    TypeOK
    FdsOwned
    InterruptReachesRead
PROPERTIES
    CancelStopsRequest
    TeardownEnds
