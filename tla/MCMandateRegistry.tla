------------------------- MODULE MCMandateRegistry -------------------------
(* TLC instances of MandateRegistry.                                       *)
EXTENDS ProductTerms, TLC

CONSTANTS m1, m2, payer, shop, xlm

MCAccount == {payer, shop}
MCPayerOf == [m \in MandateId |-> payer]
MCMerchantOf == [m \in MandateId |-> shop]
MCAssetOf == [m \in MandateId |-> xlm]

\* One mandate, alone with its clock: a weekly shop that may be late or
\* early, one whose interval overflows the clock, and one without a limit.
OneMandateTerms ==
  { [ rule |-> "Variable", per_charge |-> 2, max_per_period |-> 3,
      period_seconds |-> 2, min_interval_seconds |-> 0,
      start_at |-> 1, expires_at |-> 7, max_successful_charges |-> 3 ],
    [ rule |-> "Fixed", per_charge |-> 2, max_per_period |-> 2,
      period_seconds |-> 3, min_interval_seconds |-> 2,
      start_at |-> 0, expires_at |-> 5, max_successful_charges |-> 2 ],
    [ rule |-> "Variable", per_charge |-> 1, max_per_period |-> 2,
      period_seconds |-> 3, min_interval_seconds |-> 5,
      start_at |-> 2, expires_at |-> 7, max_successful_charges |-> 0 ] }

\* Two mandates of one payer share balance, allowance and refund ids.
TwoMandateTerms ==
  { [ rule |-> "Variable", per_charge |-> 2, max_per_period |-> 2,
      period_seconds |-> 1, min_interval_seconds |-> 1,
      start_at |-> 0, expires_at |-> 2, max_successful_charges |-> 2 ] }

\* charge() and refund() take any i128: zero and negative are tried too.
MCAmount == {-1, 0, 1, 2}
TwoAmount == {1, 2}
MCBalance == [p \in Account |-> IF p = payer THEN 5 ELSE 0]
TwoBalance == [p \in Account |-> IF p = payer THEN 3 ELSE 0]

\* Products a merchant may enter: whole and fractional amounts, zero, more
\* places than the asset has, and integers on both sides of their bounds.
Decimals == { [digits |-> 0, places |-> 0], [digits |-> 1, places |-> 0],
              [digits |-> 5, places |-> 1], [digits |-> 6, places |-> 1],
              [digits |-> 7, places |-> 2], None }
MCInput ==
  [ amount_type : {"fixed", "variable"}, amount : Decimals,
    max_per_period : Decimals, decimals : {-1, 1},
    period_seconds : {0, 1}, min_interval_seconds : {-1, 0},
    max_successful_charges : {0, 2}, duration : {0, 1, 2} ]
NoInput == {}

\* Ids are only compared for equality.
IdSymmetry == Permutations(ChargeId) \cup Permutations(RefundId)
TwoSymmetry == IdSymmetry \cup Permutations(MandateId)
=============================================================================
