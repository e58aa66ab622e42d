SPECIFICATION FairSpec
CONSTANTS
  d1 = d1
  d2 = d2
  w1 = w1
  w2 = w2
  s1 = s1
  s2 = s2
  None = None
  Delivery = {d1, d2}
  KeyMatches = TRUE
  Worker = {w1, w2}
  Scheduler = {s1}
  RetryDelays <- OneDelay
  Retained = 1
  MaxFaults = 2
INVARIANTS
  OneSender
  OutcomeIsReal
  SixAttempts
PROPERTIES
  FirstAttemptHappens
CHECK_DEADLOCK FALSE
