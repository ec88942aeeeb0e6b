CONSTANTS
    MaxEvents = 5
    Capacity = 2
    FlushAt = 3

SPECIFICATION FairSpec
INVARIANTS
    ExactlyOnce
    AtMostOnceInOrder
PROPERTY
    Recorded
CHECK_DEADLOCK FALSE
