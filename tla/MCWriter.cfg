\* One source, one instrument, three frames, two buckets, every kind of row,
\* a database failure of every kind.
CONSTANTS
    s1 = s1
    btc = btc
    Sources <- MCSources
    Instruments <- MCInstruments
    MaxBucket = 1
    MaxFrames = 3
    WriteBatch = 2
    PendingMax = 2
    Kinds = {"trade", "book", "signal"}
    Faults = {"rollback", "lostAck", "connLoss"}
    MaxFaults = 1
SPECIFICATION FairSpec
INVARIANTS
    RowsAccounted
    PendingBounded
    CleanWithoutFault
    BarsOvercountBounded
PROPERTIES
    IsRowSink
    EventuallyStored
