SPECIFICATION Spec
CONSTANTS
  Peer = {p1}
  Id = {m1, m2}
  Key <- MCKey
  EnvelopeKey <- MCEnvelopeKey
  MsgTTL = 1
  AckTTL = 1
  SaveErrors = TRUE
  MaxTime = 2
  MaxArrivals = 3
  MaxCrashes = 2
SYMMETRY Symmetry
INVARIANTS
  TypeOK
  UniqueIds
  OwedIsDurable
  AckedStaysGone
PROPERTIES
  KeepsPromise
