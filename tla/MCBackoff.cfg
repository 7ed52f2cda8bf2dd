\* 16 bits for 64, and a second of 256 units: the second is even, and the
\* longest delay fits, as in the code.
CONSTANTS
  Width = 16
  Second = 256
  BaseDelay = 1
  MaxDelay = 120
  MaxFailures = 20
SPECIFICATION Spec
INVARIANTS
  BackoffHolds
CHECK_DEADLOCK FALSE
