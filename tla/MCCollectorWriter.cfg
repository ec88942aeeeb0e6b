SPECIFICATION FairSpec
CONSTANTS
    Workers = {w1, w2}
    Capacity = 1
    BatchSize = 2
    MaxChanges = 2
    MaxRows = 3
    MaxFails = 2
INVARIANTS
    OnceInOrder
PROPERTIES
    Arrives
