SPECIFICATION FairSpec
CONSTANTS
  b1 = b1 s1 = s1 s2 = s2 s3 = s3 l1 = l1 o1 = o1
  present = present missing = missing
  Workers = {w1, w2}
  Benchmark = {b1}
  Segment = {s1, s2, s3}
  Length = {l1}
  Other = {o1}
  FileOf <- MCFileOf
  Existing = {present}
  NoName = NoName
  Arrivals = 3
INVARIANTS NameNotLost NoKeyLeft ChannelsBounded
PROPERTIES EveryNameAnswered
CHECK_DEADLOCK FALSE
