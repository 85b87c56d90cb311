SPECIFICATION Spec
CONSTANTS
  Window = 2
  Retries = 1
  Rtts = {2, 3}
  Packets = 6
  NackBound = 1
  Reports = 2
INVARIANTS EveryNameOnce RatesAddUp
CHECK_DEADLOCK FALSE
