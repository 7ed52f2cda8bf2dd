\* A file the target refuses, and one it does not.
CONSTANTS
  a = a
  b = b
  r1 = r1
  r2 = r2
  permanent = permanent
  None = None
  Permanent = permanent
  Locations <- TwoLocations
  Files <- TwoFiles
  Unsendable <- BadLocation
  ResyncSlots <- OneSlot
  Workers = 2
  QueueCap = 1
  MissingCap = 1
  LocationsCap = 1
  BatchCap = 2
  CounterModulus = 16
  RepliesCanBeCut = FALSE
  MaxDisturbances = 0
SPECIFICATION FairSpec
PROPERTIES
  EventuallyReplicated
\* An idle node waits for uploads, signals and answers.
CHECK_DEADLOCK FALSE
