SPECIFICATION PoolSpec
CONSTANTS
  Threads = {t1, t2, t3}
  initialBlockPoolSize = 1
  MaxBlocks = 2
  SHOULD_BE_ON_FREELIST = 8
INVARIANTS
  NoBlockGivenTwice
  NoBlockForgotten
PROPERTY LockFree
