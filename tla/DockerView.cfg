CONSTANTS
    Unknown = Unknown
    UserOps = {"refresh", "action", "remove", "logs", "project", "startService", "stopService"}
    Timeouts = FALSE
    MaxRequests = 1
    MaxChanges = 1
    MaxStarts = 0
SPECIFICATION FairSpec
CHECK_DEADLOCK FALSE
PROPERTIES
    BusyEnds
    
