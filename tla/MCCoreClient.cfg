CONSTANTS
  Requests = {r1, r2}
  MaxGen = 4
  Faults = {"protocol", "close"}
SPECIFICATION Spec
SYMMETRY Symmetry
CHECK_DEADLOCK FALSE
INVARIANTS
  TypeOK
  SingleCore
  LossAnnouncedUndisturbed
  RestartBudget
