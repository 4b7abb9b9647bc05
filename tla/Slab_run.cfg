SPECIFICATION Spec
CONSTANTS
    t1 = t1
    t2 = t2
    a1 = a1
    a2 = a2
    None = None
    Thread = {t1, t2}
    Arena = {a1, a2}
    ArenaOf <- TwoArenas
    Type = "kMedium"
    NExtent = 2
    NRun = 2
    NRegion = 2
    Capacity = 2
    Stock = 1
    RunHold = 1
    ExtentHold = 1
    MaxHeld = 2
    Rebuild = {}
    Faults = {}
SYMMETRY Swap
INVARIANTS NoDoubleAllocation NoLostRegion BusyReachable
