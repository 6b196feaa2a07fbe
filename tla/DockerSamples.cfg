CONSTANTS
    Unknown = Unknown
    UserOps = {"refresh", "remove", "logs", "project", "startService", "stopService"}
    Timeouts = FALSE
    MaxRequests = 1
    MaxChanges = 1
    MaxStarts = 1
SPECIFICATION Spec
CHECK_DEADLOCK FALSE
INVARIANTS
    TypeOK
    NoLostEvent
