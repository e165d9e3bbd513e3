SPECIFICATION StreamSpec
CONSTANTS
    Clients = {c1}
    Topics = {t1}
    Silent = Silent
    Capacity = 1
    MaxMessages = 2
    FrameLength = 100
INVARIANT WrittenIsGot
CHECK_DEADLOCK FALSE
