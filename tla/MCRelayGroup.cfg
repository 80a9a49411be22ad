SPECIFICATION GroupSpec
CONSTANTS
  p1 = p1
  p2 = p2
  p3 = p3
  Peer = {p1, p2, p3}
  Id = {m1}
  Key <- MCKey
  EnvelopeKey <- MCEnvelopeKey
  Sorted <- MCSorted
  Group = {g1}
  List <- MCNoList
  Token <- MCNoToken
  MsgTTL = 0
  AckTTL = 1
  GroupTTL = 0
  TombstoneTTL = 1
  SaveErrors = TRUE
  MaxTime = 1
  MaxArrivals = 2
  MaxCrashes = 1
CONSTRAINT
  RunBound
INVARIANTS
  UniqueIds
  AckedStaysGone
PROPERTY
  KeepsPromise
