SPECIFICATION MCSpec
CONSTANTS
    Nothing = Nothing
    UntilClose = UntilClose
    page = page
    script = script
    Files <- MCFiles
    Ranges <- MCRanges
    MinCompressible = 3
    Nil = Nil
    x = x
    y = y
    AssetPaths = {"logo", "icon"}
    Data = {x, y}
    Directories <- MCDirectories
    MaxSecond = 1
    Events = 2
    Null = Null
    d1 = d1
    d2 = d2
    a1 = a1
    a2 = a2
    b1 = b1
    bob = bob
    n1 = n1
    n2 = n2
    peer = peer
    Devices = {d1, d2}
    Own = {d1, d2}
    Callers = {a1, a2, b1}
    Home <- MCHome
    Offers <- MCOffers
    Cards <- MCCards
    MaxClock = 2
    MaxJobs = 3
    Writers = {w1, w2, w3}
    None = None
    TTL = 9
    Skew = 12
    Interval = 3
    RpcTimeout = 1
    StopWait = 1
    Nodes = {n}
    Apps = {a}
    Sessions = {s1}
    Calls = {k1, k2}
    Tolerated = 1
    Losses = 2
    Crashes = 0
INVARIANTS
    ReadersAreFramed
    ShownIsServed
    OpenedIsPublished
    PointedIsServed
    
    
    SettledIsWhole
    TornIsBeingWritten
    LiveSessionIsRoutable
CHECK_DEADLOCK FALSE
