SPECIFICATION FairSpec
CONSTANTS
  a1 = a1
  a2 = a2
  c1 = c1
  c2 = c2
  g1 = g1
  g2 = g2
  l1 = l1
  l2 = l2
  None = None
  Attempt = {a1, a2}
  Wallet = {"shop"}
  Challenge = {c1, c2}
  Login = {l1, l2}
  Integrated = {"store"}
  Manager = {g1, g2}
  Call <- MCCall
INVARIANTS
  OneEffectPerKey
  CompletionsAgree
  OneSessionPerChallenge
  NeverWithoutAKey
PROPERTIES
  ImplementsPromise
  EveryRequestAnswered
CONSTRAINT Focus
CHECK_DEADLOCK FALSE
