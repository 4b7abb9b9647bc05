SPECIFICATION FairSpec
CONSTANTS
    None = None
    Worker = {w1, w2}
    NSlot = 4
    Tables <- MCTables
    MaxEntries = 8
    ReclaimTomb = 1
    MaxCrash = 1
INVARIANTS ReloadExact ImageReleasedOnce FreedOnce
PROPERTY Reopens
