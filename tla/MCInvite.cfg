SPECIFICATION Spec
CONSTANTS
  Token = {t1, t2, t3}
  Client = {a}
  TTL = 2
  Window = 2
  RateLimit = 2
  MaxTime = 3
  MaxRequests = 2
  MaxCrashes = 1
SYMMETRY Symmetry
INVARIANTS
  RateLimited
  FileIsKnown
  UndisturbedStaysOnFile
CHECK_DEADLOCK FALSE
