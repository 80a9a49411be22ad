SPECIFICATION GroupSpec
CONSTANTS
  p1 = p1
  p2 = p2
  p3 = p3
  Peer = {p1, p2, p3}
  Id = {}
  Key <- MCKey
  EnvelopeKey <- MCEnvelopeKey
  Sorted <- MCSorted
  Group = {g1}
  List <- MCList
  Token <- MCToken
  MsgTTL = 1
  AckTTL = 1
  GroupTTL = 1
  TombstoneTTL = 1
  SaveErrors = TRUE
  MaxTime = 5
  MaxArrivals = 0
  MaxCrashes = 2
INVARIANTS
  WithinDelegation
PROPERTIES
  OwnerStays
