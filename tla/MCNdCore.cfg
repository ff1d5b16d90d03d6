CONSTANTS
  p = p
  q = q
  r = r
  Procs = {p, q}
  Permits = {r}
  PermitOf <- MCPermitOf
  NoPermit = NoPermit
  Workers = {w0, w1}
  Foreground = w0
  Idle = Idle
  Gone = Gone
  Capacity <- MCCapacity
SPECIFICATION FairSpec
CHECK_DEADLOCK FALSE
INVARIANTS
  TypeOK
  Accounted
  StoppedLeavesNothing
PROPERTIES
  DiesWithPermit
  ExitIsTold
  ControlServed
  ShutdownEnds
