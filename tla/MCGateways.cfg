\* Python: one subscriber that reads, with a token, one instrument and keyless frames,
\* both modes; four frames fill a queue of two and exceed the drop limit.
\* C++: one subscriber, two keys of which its token allows one.
SPECIFICATION GatewaysSpec
CONSTANTS
    s1 = s1
    k1 = k1
    k2 = k2
    tok = tok
    Subs <- OneSub
    Fast <- OneSub
    Keys <- OneKey
    NoKey = NoKey
    QueueSize = 2
    DropLimit = 1
    Modes = {"stream", "conflate"}
    Tokens <- OneToken
    Allowed <- TokenSees1
    MaxFrames = 4
    Sub <- OneSub
    Key <- TwoKeys
    None = None
    Token <- OneToken
    AllowedKeys <- TokenSees1
    client_queue = 1
    drop_limit = 1
    drain_s = 1
    Coalesce = 1
    SockBuf = 1
    MaxIn = 3
    MaxBatch = 2
    MaxRequests = 1
    MaxFaults = 1
CHECK_DEADLOCK FALSE
INVARIANTS
    QueuesAreSound
    GapsAreLosses
    NoHole
    SubscribersAreSound
PROPERTIES
    FastIsServed
    LoopGetsOn
