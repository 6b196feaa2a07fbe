CONSTANTS
    s1 = s1
    s2 = s2
    s3 = s3
    k1 = k1
    none = none
    Sessions = {s1, s2, s3}
    NoSession = none
    Keys = {k1}
    NoKey = none
    AsksEarly = TRUE
    UserOps = {"check", "changelog", "cancel", "discard", "reboot", "clean", "stage", "inplace", "autoremove", "confirm"}
    MaxRequests = 2
SPECIFICATION FairSpec
CHECK_DEADLOCK FALSE
INVARIANTS
    TypeOK
    ResourcesOwned
    
PROPERTIES
    BusyEnds
    InhibitionEnds
