CONSTANTS
    Runs = {r1}
    PageSize = 2
    Prefetch = 2
    Concurrency = 2
    MaxPages = 2
    Ceiling = 9
    Neighbours = FALSE
    Lags = {}
    InitialEvents = 4
    MaxArrivals = 1
    MaxFaults = 0
SPECIFICATION Spec
CHECK_DEADLOCK FALSE
INVARIANTS
    CompleteMeansAll
