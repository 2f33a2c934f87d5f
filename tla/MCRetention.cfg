SPECIFICATION Spec
CONSTANTS
    DayLen = 2
    LastTs = 2
    Lag = 0
    RetentionDays = 1
    DELETE_BATCH = 1
    MaxLate = 1
    MaxFaults = 1
    None = None
    Damaged = Damaged
CHECK_DEADLOCK FALSE
INVARIANTS
    RowsAreSafe
PROPERTIES
    LateRowsStopDeletion
    ExpiredRowsGo
