SPECIFICATION Spec
CONSTANTS
  s1 = s1
  s2 = s2
  w1 = w1
  w2 = w2
  r1 = r1
  r2 = r2
  m1 = m1
  None = None
  Request = {r1}
  Mandate = {m1}
  MandateOf <- MCMandateOf
  MaxCharges <- NoLimit
  Worker = {w1, w2}
  Scheduler = {s1}
  ScheduledFor <- AllAtOnce
  RetryDelays <- OneDelay
  AuthorizationTTL = 1
  MaxSubmissions = 2
  MaxFaults = 0
SYMMETRY ProcessSymmetry
INVARIANTS
  FailedMeansNotCharged
CHECK_DEADLOCK FALSE
