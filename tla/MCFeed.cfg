SPECIFICATION Spec
CONSTANTS
    k1 = k1
    k2 = k2
    Body <- MCBody
    Key = {k1, k2}
    Client = {c1}
    Filters <- MCFilters
    QueueSize = 1
    PipeSize = 2
    Span = 3
    MaxFrames = 3
    MaxFaults = 2
    ClientQueue = 1
    MaxConns = 1
    MaxCmds = 1
    TradePrices = {1, 3}
    Strategies <- MCStrategies
    Fast = 1
    Slow = 2
    RsiN = 2
    RsiLow = 30
    RsiHigh = 70
    BandN = 3
    BandK = 1
    Cooldown = 2
    MaxTrades = 5
    MaxBucket = 4
    Ticks <- MCTicks
    Quotes <- MCQuotes
    Pairs <- MCPairs
    AbsPct = 20
    Sigma = 2
    JumpWindow = 2
    WarmUp = 2
    MaxGap = 1
    MaxSpread = 10
    After = 1
    MinUpdates = 2
    Divergence = 3
    MinAssets = 2
    Quiet = 2
    MaxChecks = 4
    MaxWall = 2
    MaxFlushes = 1
    MaxWriteFails = 1
CHECK_DEADLOCK FALSE
INVARIANTS
    NoSilentLoss
    BrowsersAreServed
    SignalsFollowTrades
    DetectionsAreTold
