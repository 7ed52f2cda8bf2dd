\* Two files, no restart: everything is replicated in the end.
CONSTANTS
  a = a
  b = b
  r1 = r1
  r2 = r2
  permanent = permanent
  None = None
  Permanent = permanent
  Locations <- TwoLocations
  Files <- TwoFiles
  Unsendable <- NoLocations
  ResyncSlots <- OneSlot
  Workers = 2
  QueueCap = 1
  MissingCap = 1
  LocationsCap = 1
  BatchCap = 1
  CounterModulus = 16
  RepliesCanBeCut = FALSE
  MaxDisturbances = 0
SPECIFICATION FairSpec
PROPERTIES
  EventuallyReplicated
  EventuallyIdle
\* An idle node waits for uploads, signals and answers.
CHECK_DEADLOCK FALSE
