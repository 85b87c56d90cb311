SPECIFICATION FairQueueSpec
CONSTANTS
  Consumers = {c1, c2}
  NoThread = NoThread
  Offers = 3
  Spurious = 1
INVARIANTS ParkedIsFindable
PROPERTIES CoveredIsTaken ImplementsParking
CHECK_DEADLOCK FALSE
