SPECIFICATION Spec
CONSTANTS
  Thread = {t1, t2}
  Key = {k1, k2}
  Record = {r1, r2, r3}
  None = None
  OneLine = {r1}
  SlotOf <- MCSlotOf
  MaxLimbo = 1
  ReclaimTomb = 9
  Ops = {"upsert", "update", "remove"}
  MissingKeys = {"upsert"}
  Faults = {"crash", "close"}
  MaxWrites = 4
  LateWrites = "none"
SYMMETRY KeySymmetry
INVARIANTS NoTornRecord AckedDurable AckedVisible NewestIndexed
  ExclusiveRecord StableRead VersionCovers
