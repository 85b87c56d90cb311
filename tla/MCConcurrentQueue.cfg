SPECIFICATION Spec
CONSTANTS
  t1 = t1
  t2 = t2
  k1 = k1
  k2 = k2
  c1 = c1
  c2 = c2
  Threads = {t1, t2}
  Tokens = {k1, k2}
  Consumers = {c1, c2}
  TokenUsers = {c1}
  Casts <- MCCasts
  MaxProducers = 3
  MaxElements = 2
  INITIAL_IMPLICIT_PRODUCER_HASH_SIZE = 2
  Maxes = {1, 2}
  OffsetModulus = 3
  EXPLICIT_CONSUMER_CONSUMPTION_QUOTA_BEFORE_ROTATE = 2
INVARIANTS
  OneOwner
  FreeSlotInHash
  ListComplete
  FailsOnlyIfAllEmpty
PROPERTY CallsEnd
