SPECIFICATION Spec
CONSTANTS
    Proc = {p1}
    RunId = {r1}
    Val = {1, 2}
    Source0 <- MCSource
    CATALOG <- MCCatalog
    chunk_size = 1
    MaxStarts = 2
    MaxFaults = 1
    None = None
    Gap = {g1}
    Cli = {c1, c2}
    CoverageId = {v1}
    ReceiptId = {q1}
    StartedAt <- MCStartedAt
    Starts = {1, 2}
    Ends = {2, 3}
    Resolved = {g1}
    Bid = {1, 2}
    Damaged = Damaged
SYMMETRY Commands
CHECK_DEADLOCK FALSE
INVARIANTS
    GapsAreSound
    BackupIsSound
PROPERTIES
    RecoveredIsKept
