\* A missing-files reply that ends early.
CONSTANTS
  a = a
  b = b
  r1 = r1
  r2 = r2
  permanent = permanent
  None = None
  Permanent = permanent
  Locations <- OneLocation
  Files <- OneFile
  Unsendable <- NoLocations
  ResyncSlots <- OneSlot
  Workers = 2
  QueueCap = 1
  MissingCap = 1
  LocationsCap = 1
  BatchCap = 2
  CounterModulus = 16
  RepliesCanBeCut = TRUE
  MaxDisturbances = 0
SPECIFICATION Spec
INVARIANTS
  NoFileForgotten
\* An idle node waits for uploads, signals and answers.
CHECK_DEADLOCK FALSE
