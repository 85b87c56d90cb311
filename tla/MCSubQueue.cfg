SPECIFICATION Spec
CONSTANTS
  Consumers = {c1, c2}
  Blocks = {b1, b2, b3}
  NoBlock = NoBlock
  BLOCK_SIZE = 2
  MAX_SUBQUEUE_SIZE = 4
  Counts = {1, 3}
  Maxes = {2}
  MaxElements = 6
  MaxDequeues = 6
  IMPLICIT_INITIAL_INDEX_SIZE = 2
  EXPLICIT_INITIAL_INDEX_SIZE = 2
  BulkMayFail = FALSE
SYMMETRY Symmetry
INVARIANTS
  ReadsItsElements
  ReservationsBalance
  BlocksOwnedOnce
  EmptiedBlocksComeBack
PROPERTY ImplementsFifo
CHECK_DEADLOCK FALSE
