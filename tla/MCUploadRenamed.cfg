\* A PUT whose name is taken by a corrupt file.
CONSTANTS
  c = c
  d = d
  u1 = u1
  u2 = u2
  u3 = u3
  Corrupt = Corrupt
  Unreadable = Unreadable
  NoLocation = NoLocation
  Contents <- BothContents
  Compressions <- RawOrGzip
  Uploads <- TwoUploads
  Requests <- PlainRequests
  InitialDisks <- PlainDisks
  MaxPowerLosses = 0
SPECIFICATION Spec
INVARIANTS
  ReplicatedNameKept
\* All requests may be over.
CHECK_DEADLOCK FALSE
