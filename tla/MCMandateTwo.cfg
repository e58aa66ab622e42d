SPECIFICATION Spec
CONSTANTS
  m1 = m1
  m2 = m2
  payer = payer
  shop = shop
  xlm = xlm
  None = None
  MandateId = {m1, m2}
  ChargeId = {c1, c2}
  RefundId = {r1, r2}
  Asset = {xlm}
  Account <- MCAccount
  PayerOf <- MCPayerOf
  MerchantOf <- MCMerchantOf
  AssetOf <- MCAssetOf
  Terms <- TwoMandateTerms
  Amount <- TwoAmount
  Allowance = {2}
  InitialBalance <- TwoBalance
  MaxU64 = 2
  MaxI128 = 4
  MaxU32 = 3
  Input <- NoInput
  MaxDuration = 1
  MaxDecimals = 2
  LedgerSeconds = 2
  SafetyBuffer = 1
  MaxTtl = 3
SYMMETRY TwoSymmetry
INVARIANTS
  BooksAgree
  TotalsMatchReceipts
PROPERTIES
  ImplementsAuthority
CHECK_DEADLOCK FALSE
