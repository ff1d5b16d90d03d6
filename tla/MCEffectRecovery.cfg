CONSTANTS
  Keys = {k1}
  MaxRecords = 4
  MaxFile = 5
  Faults = {"torn", "sync"}
SPECIFICATION RSpec
INVARIANTS
  IntegratedIsMerged
  SpentIsRecorded
PROPERTIES
  NoBlindMerge
  NoBlindRetry
