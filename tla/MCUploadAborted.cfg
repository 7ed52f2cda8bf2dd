\* Uploads for which FileUploader fails once it has made the tempfile.
CONSTANTS
  c = c
  d = d
  u1 = u1
  u2 = u2
  u3 = u3
  Corrupt = Corrupt
  Unreadable = Unreadable
  NoLocation = NoLocation
  Contents <- BothContents
  Compressions <- RawOrGzip
  Uploads <- TwoUploads
  Requests <- SetUpRequests
  InitialDisks <- EmptyDisk
  MaxPowerLosses = 0
SPECIFICATION Spec
INVARIANTS
  NoTempfileLeft
\* All requests may be over.
CHECK_DEADLOCK FALSE
