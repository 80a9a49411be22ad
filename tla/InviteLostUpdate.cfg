SPECIFICATION Spec
CONSTANTS
  Token = {t1, t2, t3}
  Client = {a}
  TTL = 2
  Window = 2
  RateLimit = 2
  MaxTime = 1
  MaxRequests = 2
  MaxCrashes = 0
SYMMETRY Symmetry
INVARIANTS
  PromisedIsOnFile
CHECK_DEADLOCK FALSE
