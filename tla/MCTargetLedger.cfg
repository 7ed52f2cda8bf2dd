\* One file, two workers, resyncs that overlap, two restarts or SIGUSR1s: the
\* abstract ledger is implemented.
CONSTANTS
  a = a
  b = b
  r1 = r1
  r2 = r2
  permanent = permanent
  None = None
  Permanent = permanent
  Locations <- OneLocation
  Files <- OneFile
  Unsendable <- NoLocations
  ResyncSlots <- TwoSlots
  Workers = 3
  QueueCap = 1
  MissingCap = 1
  LocationsCap = 1
  BatchCap = 2
  CounterModulus = 16
  RepliesCanBeCut = FALSE
  MaxDisturbances = 2
SPECIFICATION FairSpec
INVARIANTS
  QueueLengthAccurate
PROPERTIES
  ImplementsLedger
\* An idle node waits for uploads, signals and answers.
CHECK_DEADLOCK FALSE
