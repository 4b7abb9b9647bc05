SPECIFICATION Spec
CONSTANTS
    t1 = t1
    t2 = t2
    a1 = a1
    a2 = a2
    None = None
    Thread = {t1}
    Arena = {a1}
    ArenaOf <- Alone
    Type = "kMedium"
    NExtent = 2
    NRun = 2
    NRegion = 2
    Capacity = 2
    Stock = 1
    RunHold = 1
    ExtentHold = 1
    MaxHeld = 3
    Rebuild = {"acquire", "return"}
    Faults = {"crash", "close"}
INVARIANTS NoDoubleAllocation NoLostRegion PollutedIsHalfUsed
