CONSTANTS
  t1 = t1
  t2 = t2
  t3 = t3
  Tasks = {t1, t2, t3}
  Clash <- MCClash
  Nobody = Nobody
  Left = Left
SPECIFICATION Spec
INVARIANTS
  ReportedIsContained
  ConflictIsOne
  AbortedAlone
