SPECIFICATION FairSpec
CONSTANTS
    t1 = t1
    t2 = t2
    a1 = a1
    a2 = a2
    None = None
    Thread = {t1, t2}
    Arena = {a1}
    ArenaOf <- OneArena
    Type = "kSmall"
    NExtent = 2
    NRun = 2
    NRegion = 1
    Capacity = 2
    Stock = 1
    RunHold = 1
    ExtentHold = 1
    MaxHeld = 4
    Rebuild = {"release"}
    Faults = {"crash"}
INVARIANTS NoDoubleAllocation RebuildExact
PROPERTY RecoveryEnds
