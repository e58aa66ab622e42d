SPECIFICATION FairSpec
CONSTANTS
  t1 = t1
  t2 = t2
  p1 = p1
  p2 = p2
  None = None
  Tab = {t1, t2}
  Payer = {p1, p2}
  Total = 1
  MaxTries = 2
  MaxFaults = 1
INVARIANTS
  ScreensTellTheTruth
  SessionNamesItsPayer
  ResetBeforeRaise
  NoNeedlessMandate
PROPERTIES
  NeverStranded
CHECK_DEADLOCK FALSE
