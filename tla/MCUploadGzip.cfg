\* Two requests with gzip, by encoding or by type, and a power loss.
CONSTANTS
  c = c
  d = d
  u1 = u1
  u2 = u2
  u3 = u3
  Corrupt = Corrupt
  Unreadable = Unreadable
  NoLocation = NoLocation
  Contents <- BothContents
  Compressions <- RawOrGzip
  Uploads <- TwoUploads
  Requests <- GzipRequests
  InitialDisks <- GzipDisks
  MaxPowerLosses = 1
SPECIFICATION FairSpec
INVARIANTS
  OneCopy
  OnlySetUpLeavesTempfiles
PROPERTIES
  EveryUploadEnds
\* All requests may be over.
CHECK_DEADLOCK FALSE
