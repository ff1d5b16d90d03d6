CONSTANTS
  Runs = {r1, r2}
  Limit = 1
  Faults = {"call", "sleep"}
  MaxDeaths = 1
SPECIFICATION Spec
SYMMETRY Symmetry
CHECK_DEADLOCK FALSE
INVARIANTS
  TypeOK
  ClosedHoldsNothing
  NoPermitLeak
  PlaceReturned
  EnginesFit
PROPERTIES
  ReconciledBeforeDispatch
