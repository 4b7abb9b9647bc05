SPECIFICATION Spec
CONSTANTS
  Thread = {t1, t2}
  Key = {k1, k2}
  Record = {r1, r2, r3}
  None = None
  OneLine = {r1}
  SlotOf <- MCSlotOf
  MaxLimbo = 1
  ReclaimTomb = 9
  Ops = {"upsert", "update", "remove"}
  MissingKeys = {"upsert"}
  Faults = {"crash"}
  MaxWrites = 4
  LateWrites = "any"
SYMMETRY Symmetry
INVARIANT AckedVisible
