CONSTANTS
  Total = 3
  Null = Null
  Requests = {"small"}
  CrashModes = {"open", "closing", "down", "resume"}
SPECIFICATION FairSpec
INVARIANTS RebootReadsAll
PROPERTIES OpenTerminates
