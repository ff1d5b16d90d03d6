CONSTANTS
  PermitIds = {p1, p2, p3}
  Pools = {k1, k2}
  Sessions = {s1}
  Clock = {0, 1, 2}
  TtlRequests = {0, 9}
  MaxLimit = 2
  MinTtl = 1
  MaxTtl = 2
SPECIFICATION Spec
SYMMETRY Symmetry
INVARIANTS
  TypeOK
  HereditaryCapacity
PROPERTIES
  LeaseHonoured
  ImplementsPool
