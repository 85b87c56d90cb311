SPECIFICATION FairQueueSpec
CONSTANTS
  Consumers = {c1, c2}
  NoThread = NoThread
  Offers = 2
  Spurious = 0
PROPERTIES OfferedIsTaken
CHECK_DEADLOCK FALSE
