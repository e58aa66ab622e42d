SPECIFICATION Spec
CONSTANTS
  w1 = w1
  w2 = w2
  s1 = s1
  s2 = s2
  None = None
  Wallet = {w1, w2}
  Session = {s1, s2}
INVARIANTS
  TypeOK
  OneMerchantPerPage
  OnlyOwnRows
PROPERTIES
  NothingHangs
CHECK_DEADLOCK FALSE
