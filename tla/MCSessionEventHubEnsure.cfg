CONSTANTS
  Window = 1
  Retained = 2
  MaxMessages = 2
  MaxSeq = 2
  MaxResets = 2
SPECIFICATION Spec
CHECK_DEADLOCK FALSE
INVARIANTS
  EnsuredIsLive
