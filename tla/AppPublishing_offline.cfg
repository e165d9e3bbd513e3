SPECIFICATION Spec
CONSTANTS
    None = None
    TTL = 9
    Skew = 12
    Interval = 3
    RpcTimeout = 1
    StopWait = 1
    Nodes = {n}
    Apps = {a}
    Sessions = {s1}
    Calls = {c1}
    Tolerated = 0
    Losses = 0
    Crashes = 0
INVARIANTS
    StoppedIsOffline
