\* Three targets, the address of one of them unusable or not.
CONSTANTS
  t1 = t1
  t2 = t2
  t3 = t3
  Targets <- ThreeTargets
  Unusable <- NoneOrOne
SPECIFICATION FairSpec
INVARIANTS
  TypeOK
  NotFoundIsTrue
  OneOwnerPerBody
  NoSendOnClosedChannel
PROPERTIES
  EverythingReleased
\* The request is answered, and nothing more happens.
CHECK_DEADLOCK FALSE
