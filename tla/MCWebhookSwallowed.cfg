SPECIFICATION FairSpec
CONSTANTS
  d1 = d1
  d2 = d2
  w1 = w1
  w2 = w2
  s1 = s1
  s2 = s2
  None = None
  Delivery = {d1}
  KeyMatches = TRUE
  Worker = {w1}
  Scheduler = {s1}
  RetryDelays <- OneDelay
  Retained = 1
  MaxFaults = 0
PROPERTIES
  RetriesHappen
CHECK_DEADLOCK FALSE
