\* Three plain requests at once, and two power losses.
CONSTANTS
  c = c
  d = d
  u1 = u1
  u2 = u2
  u3 = u3
  Corrupt = Corrupt
  Unreadable = Unreadable
  NoLocation = NoLocation
  Contents <- BothContents
  Compressions <- RawOrGzip
  Uploads <- ThreeUploads
  Requests <- PlainRequests
  InitialDisks <- PlainDisks
  MaxPowerLosses = 2
SPECIFICATION Spec
INVARIANTS
  TypeOK
  AnsweredIsReadable
  NamesMatchContents
  OneEnqueuePerFile
  NoTempfileLeft
PROPERTIES
  FilesImmutable
SYMMETRY UploadSymmetry
\* All requests may be over.
CHECK_DEADLOCK FALSE
