SPECIFICATION Spec
CONSTANTS
  Peer = {p1, p2}
  Conn = {c1, c2, c3}
  Frame <- MCFrame
  Nobody = nobody
  MaxSkew = 1
  NonceTTL = 1
  MaxTime = 3
SYMMETRY Symmetry
INVARIANTS
  TypeOK
  Routable
  NoFalseOffline
  OnlineXorLastSeen
  AcceptedOnce
CHECK_DEADLOCK FALSE
