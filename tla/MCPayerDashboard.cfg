SPECIFICATION FairSpec
CONSTANTS
  ann = ann
  bob = bob
  m1 = m1
  m2 = m2
  l1 = l1
  l2 = l2
  None = None
  Payer = {ann, bob}
  Mandate = {m1}
  PayerOf <- MCPayerOf
  Load = {l1, l2}
  MaxChanges = 1
  MaxFailures = 1
INVARIANTS
  CardKeepsUp
  OneWalletAtATime
PROPERTIES
  EverythingLoads
CHECK_DEADLOCK FALSE
