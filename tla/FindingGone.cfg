CONSTANTS
    Unknown = Unknown
    UserOps = {}
    Timeouts = FALSE
    MaxRequests = 0
    MaxChanges = 1
    MaxStarts = 0
SPECIFICATION FairSpec
CHECK_DEADLOCK FALSE

PROPERTIES
    GoneIsShown
