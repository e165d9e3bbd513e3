SPECIFICATION Spec
CONSTANTS
    None = None
    TTL = 9
    Skew = 2
    Interval = 3
    RpcTimeout = 1
    StopWait = 1
    Nodes = {n}
    Apps = {a}
    Sessions = {s1, s2}
    Calls = {c1}
    Tolerated = 0
    Losses = 1
    Crashes = 1
PROPERTIES
    PublishedComesBack
    SilentIsDropped
    TasksEnd
    SessionsServeOnce
