SPECIFICATION MigSpec
CONSTANTS
    Proc = {p1, p2}
    RunId = {r1, r2}
    Val = {1, 2}
    Source0 <- MCSource
    CATALOG <- MCCatalog
    chunk_size = 1
    MaxStarts = 2
    MaxFaults = 2
    None = None
CHECK_DEADLOCK FALSE
INVARIANTS
    CopyIsSound
    CompletedIsComplete
PROPERTIES
    RunFinishes
