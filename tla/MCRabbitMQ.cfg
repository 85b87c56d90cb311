SPECIFICATION FairSpec
CONSTANTS
  Workers = {w1, w2}
  Interests = {i1, i2, i3}
  None = None
  Prefetch = 2
  Failures = 2
INVARIANTS EachInterestOnce DeliveriesSuffice
PROPERTIES AnsweredLostOrPushed
CHECK_DEADLOCK FALSE
