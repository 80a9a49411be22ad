SPECIFICATION FairDeliverySpec
CONSTANTS
  Peer = {p1}
  Id = {m1, m2, m3}
  Key <- MCKey
  EnvelopeKey <- MCEnvelopeKey
  MsgTTL = 0
  AckTTL = 1
  SaveErrors = FALSE
  MaxTime = 1
  MaxArrivals = 3
  MaxCrashes = 1
  NoId = none
  Limits <- MCLimits
  Default = 1
  MaxLimit = 2
INVARIANT
  NoSkip
PROPERTIES
  EventuallyReceived
  ExpiredIsPruned
