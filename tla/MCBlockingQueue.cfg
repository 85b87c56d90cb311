SPECIFICATION FairQueueSpec
CONSTANTS
  Producers = {p1, p2}
  Consumers = {c1, c2, c3}
  Bulk = 3
  Elements = 4
INVARIANTS ElementForEach NoLostWakeup
PROPERTIES ImplementsSemaphore EverythingDequeued
CHECK_DEADLOCK FALSE
