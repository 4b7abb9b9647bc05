SPECIFICATION FairSpec
CONSTANTS
    Thread = {t1, t2}
    Key = {0, 1, 4, 5}
    None = None
    Code <- MCCode
    BucketOf <- MCOneBucket
    Calls <- MCCalls
    Loaded = {4, 5}
    NSlot = 1
    NBucket = 2
    InitDepth = 2
    InitLocal <- MCInitLocal
    MaxDepth = 3
    MaxWrites = 4

INVARIANTS
    OneSlot
    SplitOwnsLeft
    DirectoryShape
PROPERTIES
    Linearizable
    CallsReturn
