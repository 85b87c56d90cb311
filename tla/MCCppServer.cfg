SPECIFICATION FairSpec
CONSTANTS
  Workers = {w1, w2}
  Interests = {i1, i2, i3}
  Unparsable = {i3}
  Dummy = Dummy
  None = None
INVARIANTS NoWorkerStuck NoDummySent
PROPERTIES ShutdownCompletes EveryInterestServed
CHECK_DEADLOCK FALSE
