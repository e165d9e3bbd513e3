SPECIFICATION CacheSpec
CONSTANTS
    None = None
    Loop = loop
    Sweeper = sweeper
    Pairer = pairer
    Objects = {own, mine, a}
    Own = {own}
    Inherited = {mine}
    Conns = {c1}
    Cap = 1
    MaxClock = 2
    Imports = 1
    Crashes = 1
INVARIANT SweepSparesOwn
