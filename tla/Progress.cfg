CONSTANTS
    a1 = a1  c2 = c2
    TipBlocks = {a1, c2}  HeightOf <- HeightOfBlock
    Adapters = {d1, d2}
    Addresses = {w1}  Requests = {r1, r2}  Loads = {l1}
    PositionLife = 2  PinLife = 1  LookupTime = 0  MaxPosTime = 2  MaxMoves = 2  MaxPosFaults = 1
    Reads = {d1, d2, d3, d4}  Pinners = {p1, p2}  GateLimit = 2  RetryLimit = 1
    YieldRequests = {r1, r2}  CatalogLife = 2  EvidenceAge = 2  MaxYieldTime = 3
    Retries = 2
    Runs = {b2, b3}  PageSize = 2  Prefetch = 2  Concurrency = 1  MaxPages = 2
    Ceiling = 3  Neighbours = TRUE  Lags = {1}
    InitialEvents = 2  MaxArrivals = 1  MaxFaults = 1
SPECIFICATION ProgressSpec
CHECK_DEADLOCK FALSE
INVARIANTS
    CachesFresh
    CompleteMeansRead
    ResumeSkipsOnlyDropped
PROPERTIES
    EveryRequestEnds
    NoOvertaking
    ReadsEnd
    AbortStopsSending
    CallEnds
    BackfillEnds
