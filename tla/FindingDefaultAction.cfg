CONSTANTS
    Kinds = {{"default"}}
    MaxToasts = 1
    MaxHistory = 1
    MaxDeliveries = 1
    MaxReloads = 0
SPECIFICATION Spec
PROPERTIES
    DefaultInvoked
