CONSTANTS
    Kinds = {{}, {"transient"}, {"critical", "default", "feedback", "resident"}}
    MaxToasts = 2
    MaxHistory = 2
    MaxDeliveries = 3
    MaxReloads = 1
SPECIFICATION FairSpec
INVARIANTS
    TypeOK
    UnreadExact
    SweepRuns
    OrdersAgree
PROPERTIES
    ListedAnswerable
    ToastsEnd
