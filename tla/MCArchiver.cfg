SPECIFICATION Spec
CONSTANTS
    Tables <- MCTables
    Snapshot <- MCSnapshot
    Ttl <- MCTtl
    Hourly <- MCHourly
    Overwrites = FALSE
    Window = 14
    LastDay = 3
    MaxFaults = 2
INVARIANTS
    FilesAndRowsMatch
    SeenIsExported
CHECK_DEADLOCK FALSE
