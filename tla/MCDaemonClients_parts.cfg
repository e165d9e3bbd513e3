SPECIFICATION MCSpec
CONSTANTS
    c1 = c1
    c2 = c2
    Clients = {c1, c2}
    Topics = {t1, t2}
    Silent = Silent
    Capacity = 1
    MaxMessages = 2
    FrameLength = 100
    MaxCommands = 3
    MaxEvents = 2
    NoDaemon = NoDaemon
    Daemons = {n1, n2}
    Callers = {c1, c2}
    Menu <- MCMenu
    MaxCalls = 1
    MaxStarts = 2
    Kills = 1
INVARIANTS
    AnswersAreOwn
    AnswersAreUnderstood
    SocketLeadsToDaemon
PROPERTIES
    StreamsAreFeeds
    ShutdownCloses
    RequestsSettle
    CallsComeBack
CHECK_DEADLOCK FALSE
