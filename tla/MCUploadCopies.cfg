\* A text posted as it is and gzipped.
CONSTANTS
  c = c
  d = d
  u1 = u1
  u2 = u2
  u3 = u3
  Corrupt = Corrupt
  Unreadable = Unreadable
  NoLocation = NoLocation
  Contents <- BothContents
  Compressions <- RawOrGzip
  Uploads <- TwoUploads
  Requests <- TextRequests
  InitialDisks <- EmptyDisk
  MaxPowerLosses = 0
SPECIFICATION Spec
INVARIANTS
  StoredOnce
\* All requests may be over.
CHECK_DEADLOCK FALSE
