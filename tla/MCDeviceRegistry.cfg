SPECIFICATION Spec
CONSTANTS
  a = a
  b = b
  c = c
  d = d
  e = e
  t1 = t1
  t2 = t2
  t3 = t3
  User = {a, b}
  DeviceId = {c, d, e}
  Registrant <- MCRegistrant
  Token = {t1, t2, t3}
  NoToken = NoToken
  Nobody = Nobody
  Registration <- MCRegistration
  Order <- MCOrder
  MaxDevices = 2
  StoreErrors = TRUE
  MaxCalls = 3
  MaxRequests = 2
  MaxRestarts = 1
INVARIANTS
  TokensStayUnique
  UnregisteredStaysDisabled
  CacheAgrees
PROPERTIES
  LoadLosesNothing
CHECK_DEADLOCK FALSE
