\* One reader, a ring of two slots written twice over, one producer crash.
CONSTANTS
    r1 = r1
    Readers <- MCReaders
    Capacity = 2
    Words = 2
    MaxItems = 2
    MaxPush = 4
    MaxSegments = 2
SPECIFICATION FairSpec
INVARIANTS
    LossAccounting
PROPERTIES
    PollIsSound
    CatchesUp
