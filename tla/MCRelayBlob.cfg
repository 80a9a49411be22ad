SPECIFICATION Spec
CONSTANTS
  b1 = b1
  s1 = s1
  x = x
  y = y
  Blob = {b1}
  Session = {s1}
  BlobOf <- MCBlobOf
  Last = 1
  Bytes = {x, y}
  Missing = Missing
  Signed <- MCSigned
  TTL = 2
  UploadTTL = 1
  SaveErrors = TRUE
  MaxTime = 3
  MaxCrashes = 2
INVARIANTS
  ReceivedIsOnDisk
  BlobStays
PROPERTY
  NeverNeither
