SPECIFICATION LedgerSpec
CONSTANTS
    None = None
    Tasks = {w, r}
    Writers = {w}
    Names = {n1, n2}
    Own = {a, b}
    Foreign = {f}
    Aliasing = FALSE
    AppIndexes <- MCClear
    MaxVersion = 3
    MaxCrashes = 1
SYMMETRY Symmetry
INVARIANTS
    TypeOK
    LedgerInv
    ListedIsStored
    ServedWasAsked
    SharedIsServed
PROPERTIES
    LedgerLostOnlyByUnlistedDelete
