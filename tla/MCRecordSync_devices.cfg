SPECIFICATION SyncSpec
CONSTANTS
    Devices = {d1, d2}
    Order <- MCProfile
    Announced <- MCAnnounced
    MaxTime = 2
    MaxSaves = 2
    MaxCrashes = 1
INVARIANTS
    AnnouncedIsServed
PROPERTIES
    RecordsAreVersions
    DeliveredIsAdopted
