SPECIFICATION IngestSpec
CONSTANTS
    Kinds <- MCKinds
    HasHours = {"kis"}
    HeartbeatFails = {"binance"}
    Loops <- MCLoops
    MaxVol = 1
    StaleTicks = 2
    Symbols = 1
    Never = Never
CHECK_DEADLOCK FALSE
INVARIANTS
    SessionsAreSound
    VolumeCounted
PROPERTIES
    FeedGetsOn
