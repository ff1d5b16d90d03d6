CONSTANTS
  MaxAttempts = 2
  MaxRuns = 1
  MaxBusy = 2
  Enders = {"status", "cancel"}
  Dispatchers = {"user"}
SPECIFICATION Spec
CHECK_DEADLOCK FALSE
PROPERTIES
  CanceledNotRetried
