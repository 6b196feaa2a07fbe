CONSTANTS
    s1 = s1
    s2 = s2
    s3 = s3
    k1 = k1
    none = none
    Sessions = {s1, s2, s3}
    NoSession = none
    Keys = {}
    NoKey = none
    AsksEarly = FALSE
    UserOps = {"check", "stage", "clean"}
    MaxRequests = 4
SPECIFICATION Spec
CHECK_DEADLOCK FALSE
SYMMETRY Symmetry
INVARIANT NoOverlap
