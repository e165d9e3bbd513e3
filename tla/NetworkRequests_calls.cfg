SPECIFICATION NetworkSpec
CONSTANTS
    Calls = {k1, k2}
    Peers = {p, q}
    None = none
    QueueCap = 1
    MaxConns = 2
    Changes = 4
INVARIANTS
    NothingLeaks
    OkMeansStored
    FailedMeansEveryTargetFailed
PROPERTY
    EveryCallReturns
CHECK_DEADLOCK FALSE
