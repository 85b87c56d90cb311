SPECIFICATION FairSpec
CONSTANTS
  Window = 3
  LastSegment = 4
  Retries = 2
  NackBound = 1
INVARIANTS NoSegmentLost WindowKept
PROPERTIES ImplementsTransfer Termination
CHECK_DEADLOCK FALSE
