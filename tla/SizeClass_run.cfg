SPECIFICATION FairSpec
CONSTANT Sizes <- MCSizes
INVARIANTS ClassFits RegionsFit
PROPERTY CountEnds
CHECK_DEADLOCK FALSE
