\* Two connections, and room for two signals.
CONSTANTS
  c1 = c1
  c2 = c2
  Connections <- TwoConnections
  SignalCap = 2
SPECIFICATION FairSpec
INVARIANTS
  TypeOK
  TrackerAccurate
  NothingLeftBehind
  ResponsesFinished
  CleanExit
PROPERTIES
  TermEndsProcess
\* The process ends.
CHECK_DEADLOCK FALSE
