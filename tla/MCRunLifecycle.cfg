CONSTANTS
  MaxAttempts = 2
  MaxRuns = 1
  MaxBusy = 3
  Enders = {"status", "error", "interrupt", "thrown", "stall", "cancel"}
  Dispatchers = {"user", "loop"}
SPECIFICATION FairSpec
CHECK_DEADLOCK FALSE
INVARIANTS
  TypeOK
  OneCancellation
  LateVerdict
PROPERTIES
  EveryRunEnds
