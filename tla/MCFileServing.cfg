\* Files of up to three bytes, up to two ranges.
CONSTANTS
  None = None
  Sizes <- UpToThree
  Requests <- AllRequests
  HeadLength = 1
  Growths <- UpToTwo
  TrailerLength = 2
SPECIFICATION FairSpec
INVARIANTS
  TypeOK
  BytesAsAsked
  AnswerComplete
  RefusedForCause
PROPERTIES
  NothingLeftRunning
\* The request is over.
CHECK_DEADLOCK FALSE
