SPECIFICATION McastSpec
CONSTANTS
    Key = {k1}
    Nil = Nil
    RingSize = 2
    MaxPending = 2
    MaxRange = 2
    PerDatagram = 2
    MaxBatch = 2
    MaxData = 2
    MaxSeq = 4
    MaxQueue = 2
    MaxFaults = 2
CHECK_DEADLOCK FALSE
INVARIANTS
    StreamIsSound
PROPERTIES
    SubscriberCatchesUp
