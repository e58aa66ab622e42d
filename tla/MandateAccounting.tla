-------------------------- MODULE MandateAccounting --------------------------
(***************************************************************************)
(* The money MandateRegistry keeps books about: the totals the contract    *)
(* stores against the receipts it wrote, and the contract as an            *)
(* implementation of SpendingAuthority.                                    *)
(***************************************************************************)
EXTENDS MandateRegistry, FiniteSetsExt

AmountSum(receipts, ids) == MapThenSumSet(LAMBDA i : receipts[i].amount, ids)

ReceiptSum(m, ids) == AmountSum(payments[m], ids)

ReceiptsInPeriod(m, s) ==
  {c \in ReceiptsOf(m) :
     PeriodStart(mandates[m].terms, payments[m][c].timestamp) = s}

RefundsPaid(m, c) ==
  {r \in RefundId : /\ refunds[r] # None
                    /\ refunds[r].mandate = m /\ refunds[r].charge = c}

(***************************************************************************)
(* The running totals the contract stores are what its receipts add up to: *)
(* total_collected over all receipts of the mandate, the collected amount  *)
(* of the current period over the receipts of that period (and the history *)
(* variable over any period), RefundedTotal over the refund receipts of    *)
(* the payment, across refund ids that share one namespace.                *)
(***************************************************************************)
TotalsMatchReceipts ==
  /\ \A m \in Created :
       /\ mandates[m].total_collected = ReceiptSum(m, ReceiptsOf(m))
       /\ mandates[m].current_period_collected =
            ReceiptSum(m, ReceiptsInPeriod(m, mandates[m].current_period_start))
       /\ \A s \in Time : gross[m][s] = ReceiptSum(m, ReceiptsInPeriod(m, s))
  /\ \A m \in MandateId, c \in ChargeId :
       refundedTotal[m][c] = AmountSum(refunds, RefundsPaid(m, c))

-----------------------------------------------------------------------------
(* The refinement of SpendingAuthority.                                    *)

phaseOf(m) ==
  IF mandates[m] = None THEN "none"
  ELSE LET status == EffectiveStatus(mandates[m], now)
       IN  IF status = "Active" THEN "live"
           ELSE IF status = "Paused" THEN "suspended"
           ELSE "over"

limitOf(t) ==
  [per_period |-> t.max_per_period, pulls |-> t.max_successful_charges]

phaseBar == [m \in MandateId |-> phaseOf(m)]
limitBar == [m \in MandateId |->
  IF mandates[m] = None THEN None ELSE limitOf(mandates[m].terms)]
pullsBar == [m \in MandateId |->
  IF mandates[m] = None THEN 0 ELSE mandates[m].successful_charges]
paidBar == [m \in MandateId |-> [c \in ChargeId |->
  IF payments[m][c] = None THEN 0 ELSE payments[m][c].amount]]

Authority == INSTANCE SpendingAuthority WITH
  Period <- Time, NoLimit <- None,
  phase <- phaseBar, limit <- limitBar, pulls <- pullsBar,
  spent <- gross, paid <- paidBar, returned <- refundedTotal

(***************************************************************************)
(* The contract implements the authority a payer is promised: every step   *)
(* of it, the clock's and the token's included, is a step the authority    *)
(* allows or changes nothing in it.                                        *)
(***************************************************************************)
ImplementsAuthority ==
  /\ Authority!Init
  /\ [][Authority!Step({limitOf(t) : t \in Terms}, Amount)]_(Authority!vars)
=============================================================================
