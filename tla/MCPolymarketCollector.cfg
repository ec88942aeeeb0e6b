CONSTANTS
    Interval = 8
    Offset = 3
    Grace = 2
    PRE_WARM_TIME = 5
    Poll = 1
    RestartDelay = 2
    FetchMax = 1
    MaxTime = 22
    MaxFail = 2

SPECIFICATION MCSpec
INVARIANTS
    OneStreamPerEpoch
    Covered
