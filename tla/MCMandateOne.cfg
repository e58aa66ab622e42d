SPECIFICATION Spec
CONSTANTS
  m1 = m1
  m2 = m2
  payer = payer
  shop = shop
  xlm = xlm
  None = None
  MandateId = {m1}
  ChargeId = {c1, c2, c3}
  RefundId = {r1}
  Asset = {xlm}
  Account <- MCAccount
  PayerOf <- MCPayerOf
  MerchantOf <- MCMerchantOf
  AssetOf <- MCAssetOf
  Terms <- OneMandateTerms
  Amount <- MCAmount
  Allowance = {0, 4}
  InitialBalance <- MCBalance
  MaxU64 = 7
  MaxI128 = 6
  MaxU32 = 3
  Input <- MCInput
  MaxDuration = 1
  MaxDecimals = 2
  LedgerSeconds = 2
  SafetyBuffer = 1
  MaxTtl = 3
SYMMETRY IdSymmetry
INVARIANTS
  PeriodCapRespected
  ChargesSpaced
  PrecheckAgrees
  DashboardIsRight
  ExposureCoversCollection
  ProductsAreSignable
CHECK_DEADLOCK FALSE
