CONSTANTS
    MaxBackoff = 60
    TASK_DURATION_THRESHOLD = 10
    Uptimes = {0, 10, 11}
    MaxEarly = 8
    Workers <- MCWorkers

SPECIFICATION FairSpec
INVARIANTS
    OneInstance
    OneLateSubscription
    WaitsNoLongerThanDue
PROPERTIES
    ServiceComesBack
    Exits
CHECK_DEADLOCK FALSE
