SPECIFICATION FairSpec
CONSTANTS
  m1 = m1
  t1 = t1
  t2 = t2
  a1 = a1
  None = None
  Mandate = {m1}
  Tick = {t1, t2}
  Reader = {a1}
  PageLimit = 1
  Lookback = 0
  Retention = 1
  MaxEvents = 2
  MaxLedger = 3
  MaxFaults = 1
INVARIANTS
  AnnouncedOnce
  NothingSkipped
  IndexNotBehind
PROPERTIES
  EveryEventHandled
CHECK_DEADLOCK FALSE
