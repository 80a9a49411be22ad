SPECIFICATION EventSpec
CONSTANTS
  Ann = Ann
  Bob = Bob
  phone = phone
  pad = pad
  ka = ka
  kb = kb
  i1 = i1
  i2 = i2
  i3 = i3
  t1 = t1
  t2 = t2
  v1 = v1
  seq = seq
  Peer = {Ann, Bob}
  Key = {ka, kb}
  NoKey = NoKey
  DerivedKey <- MCDerivedKey
  RequestId = {i1, i2, i3}
  Frame <- MCFrames
  Call = {c1, c2}
  c1 = c1
  c2 = c2
  Skew = 0
  IdTTL = 1
  MaxTime = 2
  MaxVerdicts = 2
  MaxRestarts = 1
  User = {Bob}
  DeviceId = {phone, pad}
  Registrant <- MCRegistrant
  Token = {t1, t2, v1}
  NoToken = NoToken
  Nobody = Nobody
  MaxDevices = 2
  Payload <- MCPayload
  NoSeq = NoSeq
  EventKey = {seq}
  Apple <- MCApple
  VoipTopic = TRUE
  DedupTTL = 1
  Loaded <- MCLoaded
SYMMETRY Symmetry
INVARIANTS
  AdmittedOnce
  BoundKeyOnly
  ClaimedOnce
  NothingForBarred
  LeftOutOnlyIfLate
PROPERTIES
  RefusalHitsItsToken
CHECK_DEADLOCK FALSE
