CONSTANTS
  Total = 2
  Null = Null
  Requests = {"small", "medium"}
  CrashModes = {"open", "down", "reboot", "resume"}
SPECIFICATION Spec
INVARIANTS HeldIsAllocated NoExtentLeak OneOutstanding MediumBlocks
PROPERTY ImplementsPool
