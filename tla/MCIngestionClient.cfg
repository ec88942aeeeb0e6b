CONSTANTS
    MaxRows = 6
    BadRows = {4}
    Capacity = 2
    max_batch_size = 2

SPECIFICATION FairSpec
INVARIANTS
    ExactlyOnce
PROPERTIES
    PushedIsKept
    PartialRowIsFinal
    Forwarded
CHECK_DEADLOCK FALSE
