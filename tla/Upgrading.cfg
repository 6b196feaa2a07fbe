CONSTANTS
    s1 = s1
    s2 = s2
    s3 = s3
    k1 = k1
    none = none
    Sessions = {s1, s2, s3}
    NoSession = none
    Keys = {k1}
    NoKey = none
    AsksEarly = TRUE
    UserOps = {"check", "stage", "inplace", "cancel", "confirm"}
    MaxRequests = 3
SPECIFICATION FairSpec
CHECK_DEADLOCK FALSE
PROPERTIES
    OneFlight
