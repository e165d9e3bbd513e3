SPECIFICATION LedgerSpec
CONSTANTS
    None = None
    Tasks = {w}
    Writers = {w}
    Names = {n1}
    Own = {a, b}
    Foreign = {}
    Aliasing = FALSE
    AppIndexes = {}
    MaxVersion = 2
    MaxCrashes = 1
INVARIANTS
    SharedIsServedAlways
