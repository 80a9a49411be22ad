SPECIFICATION Spec
CONSTANTS
  Snapshot <- MCVaried
  NoPolicy = NoPolicy
  AllowMissing = TRUE
  MaxRequests = 2
  MaxSyncs = 4
INVARIANT
  ThroughoutIsRespected
PROPERTY
  VersionsAdvance
