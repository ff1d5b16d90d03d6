CONSTANTS
  Keys = {k1, k2}
  MaxRecords = 3
  MaxFile = 3
  Faults = {"torn"}
SPECIFICATION Spec
SYMMETRY Symmetry
INVARIANTS
  TypeOK
  ReadableAfterCrash
PROPERTIES
  ImplementsLedger
