\* Two files, a plain one and a gzipped one, one restart or SIGUSR1, every queue
\* of length one.
CONSTANTS
  a = a
  b = b
  r1 = r1
  r2 = r2
  permanent = permanent
  None = None
  Permanent = permanent
  Locations <- TwoLocations
  Files <- TwoFiles
  Unsendable <- NoLocations
  ResyncSlots <- OneSlot
  Workers = 2
  QueueCap = 1
  MissingCap = 1
  LocationsCap = 1
  BatchCap = 2
  CounterModulus = 16
  RepliesCanBeCut = FALSE
  MaxDisturbances = 1
SPECIFICATION Spec
INVARIANTS
  TypeOK
  NoFileForgotten
  AnswersSound
  OnlyStoredFilesQueued
  QueueLengthAccurate
\* An idle node waits for uploads, signals and answers.
CHECK_DEADLOCK FALSE
