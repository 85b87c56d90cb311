SPECIFICATION FairSpec
CONSTANTS
  Window = 3
  Segments = 5
  Retries = 2
INVARIANTS NoSegmentLost
PROPERTIES ImplementsTransfer AllIsWritten
CHECK_DEADLOCK FALSE
