SPECIFICATION Spec
CONSTANTS
    t1 = t1
    t2 = t2
    c1 = c1
    c2 = c2
    None = None
    Thread = {t1, t2}
    Case = {c1, c2}
    CaseOf <- TwoCases
    NExtent = 2
    NRegion = 2
    ExtentHold = 1
    MaxHeld = 3
    Recoveries <- MCRecoveries
    Faults = {"crash", "close"}
INVARIANTS RegionOnce BusyReachable RebuildOnce
