SPECIFICATION Spec
CONSTANTS
    None = None
    Tasks = {w, r}
    Writers = {w}
    Names = {n1}
    Own = {a}
    Foreign = {f}
    Aliasing = FALSE
    AppIndexes <- MCClear
    MaxVersion = 2
    MaxCrashes = 1
PROPERTIES
    NamePublishedAfterShare
    SharesSurviveRestart
