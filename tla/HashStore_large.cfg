SPECIFICATION Spec
CONSTANTS
  Thread = {t1, t2}
  Key = {k1, k2}
  Record = {r1, r2, r3}
  None = None
  OneLine = {r1}
  SlotOf <- MCSlotOf
  MaxLimbo = 0
  ReclaimTomb = 0
  Ops = {"upsert", "update", "remove"}
  MissingKeys = {"upsert", "update"}
  Faults = {"crash", "close"}
  MaxWrites = 3
  LateWrites = "fresh"
SYMMETRY KeySymmetry
INVARIANTS NoLostRecord OlderReleased
