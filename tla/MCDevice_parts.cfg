SPECIFICATION MCSpec
CONSTANTS
    None = None
    Loop = loop
    Sweeper = sweeper
    Pairer = pairer
    Objects = {own, mine, a}
    Own = {own}
    Inherited = {mine}
    Conns = {c1}
    Cap = 1
    MaxClock = 2
    Imports = 2
    Crashes = 1
    Devices = {d1, d2}
    Others = {x}
    MaxEdits = 1
    MaxSaves = 16
INVARIANTS
    UnpairedSweepSparesOwn
    SidecarIsCurrent
    SavesSettle
PROPERTIES
    CapRestored
    RunningAreListed
CHECK_DEADLOCK FALSE
