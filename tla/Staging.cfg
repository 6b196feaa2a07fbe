CONSTANTS
    s1 = s1
    s2 = s2
    s3 = s3
    k1 = k1
    none = none
    Sessions = {s1, s2, s3}
    NoSession = none
    Keys = {k1}
    NoKey = none
    AsksEarly = FALSE
    UserOps = {"check", "stage", "discard", "confirm", "changelog"}
    MaxRequests = 4
SPECIFICATION FairSpec
CHECK_DEADLOCK FALSE

INVARIANTS
    NoOverlap
    PromptIsLive
    IdleShowsNoStage
    ReadyIsStaged
PROPERTIES
    TransactionUndisturbed
    OneFlight
