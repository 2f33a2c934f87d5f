SPECIFICATION CppSpec
CONSTANTS
    Sub = {s1}
    k1 = k1
    k2 = k2
    t1 = t1
    Key = {k1, k2}
    None = None
    Token = {t1}
    AllowedKeys <- MCAllowed
    client_queue = 1
    drop_limit = 1
    drain_s = 1
    Coalesce = 1
    SockBuf = 1
    MaxIn = 3
    MaxBatch = 2
    MaxRequests = 1
    MaxFaults = 1
CHECK_DEADLOCK FALSE
PROPERTIES
    DrainIsKept
