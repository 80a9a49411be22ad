SPECIFICATION Spec
CONSTANTS
  p1 = p1
  p2 = p2
  r1 = r1
  a1 = a1
  Peer = {p1, p2}
  Report = {r1}
  Appeal = {a1}
  Nobody = Nobody
  Request <- MCRequest
  Call = {c1, c2, c3}
  PoolSize = 2
  MaxCrashes = 1
INVARIANTS
  ScoresExact
  DecidedOnce
PROPERTIES
  TakesEffect
  EveryCallEnds
CHECK_DEADLOCK FALSE
