--------------------------- MODULE MandateRegistry ---------------------------
(***************************************************************************)
(* The Soroban contract contracts/mandate-registry.  A payer creates a     *)
(* mandate; its merchant pulls money from the payer within the mandate's   *)
(* bounds and may refund what it pulled.  Each action is one invocation    *)
(* that succeeds: an invocation that returns an Error or traps is reverted *)
(* by the host and is a stuttering step.  The host serialises invocations  *)
(* and checks require_auth(), so an action stands for a call that the      *)
(* payer (create, pause, resume, revoke) or the merchant (charge, refund)  *)
(* has authorised.                                                         *)
(*                                                                         *)
(* A mandate id is the hash of payer, merchant, asset and nonce (id.rs),   *)
(* so those are functions of the id; a payment id is the hash of a mandate *)
(* id and a charge id, so a payment is named by the two.                   *)
(***************************************************************************)
EXTENDS Integers, FiniteSets

CONSTANTS
  MandateId, ChargeId, RefundId,
  Account, Asset,
  PayerOf, MerchantOf, AssetOf,  \* what a mandate id was derived from
  Terms,                         \* the create_mandate inputs considered
  Amount,                        \* the charge and refund amounts considered
  Allowance,                     \* the allowances a payer may approve
  InitialBalance,
  MaxU64, MaxI128, MaxU32,       \* the integer widths' limits
  None                           \* an absent storage entry

Time == 0 .. MaxU64

TermsType ==
  [ rule : {"Fixed", "Variable"}, per_charge : Int,
    max_per_period : Int, period_seconds : Time,
    min_interval_seconds : Time, start_at : Time, expires_at : Time,
    max_successful_charges : Nat ]

ASSUME WidthAssumption ==
  MaxU64 \in Nat /\ MaxI128 \in Nat /\ MaxU32 \in Nat

ASSUME IdAssumption ==
  /\ PayerOf \in [MandateId -> Account]
  /\ MerchantOf \in [MandateId -> Account]
  /\ AssetOf \in [MandateId -> Asset]

ASSUME InputAssumption ==
  /\ Terms \subseteq TermsType
  /\ \A t \in Terms : t.max_per_period <= MaxI128
  /\ Amount \subseteq Int
  /\ Allowance \subseteq Nat
  /\ InitialBalance \in [Account -> Nat]

Status == {"Active", "Paused", "Revoked", "Completed"}

NeverCharged == -1

Mandate ==
  [ terms : Terms, status : Status,
    successful_charges : Nat, total_collected : Nat,
    current_period_start : Time, current_period_collected : Nat,
    last_charged_at : Time \cup {NeverCharged} ]

Receipt == [amount : Nat, timestamp : Time]
RefundReceipt ==
  [mandate : MandateId, charge : ChargeId, amount : Nat, timestamp : Time]

ASSUME NoneAssumption ==
  None \notin Mandate /\ None \notin Receipt /\ None \notin RefundReceipt

VARIABLES
  now,            \* env.ledger().timestamp()
  mandates,       \* DataKey::Mandate
  usedCharges,    \* DataKey::UsedCharge, per mandate
  payments,       \* DataKey::Payment, per mandate and charge id
  usedRefunds,    \* DataKey::UsedRefund, one namespace for the contract
  refundedTotal,  \* DataKey::RefundedTotal, per payment
  refunds,        \* DataKey::Refund
  balance,        \* token balances, per asset and account
  allowance,      \* what the contract may spend, per asset and payer
  gross           \* history: collected per mandate and period boundary

chargeVars == <<usedCharges, payments, gross>>
refundVars == <<usedRefunds, refundedTotal, refunds>>
tokenVars  == <<balance, allowance>>
vars == <<now, mandates, chargeVars, refundVars, tokenVars>>

-----------------------------------------------------------------------------
(* Operators of the contract.                                              *)

\* Active and Paused read as Expired from expires_at on; never stored.
EffectiveStatus(md, at) ==
  IF md.status \in {"Active", "Paused"} /\ at >= md.terms.expires_at
  THEN "Expired"
  ELSE md.status

ValidInput(m, t) ==
  /\ t.per_charge > 0
  /\ t.max_per_period > 0
  /\ t.max_per_period >= t.per_charge
  /\ t.period_seconds # 0
  /\ t.expires_at > t.start_at
  /\ t.expires_at > now
  /\ PayerOf[m] # MerchantOf[m]

\* The boundary, aligned on start_at, of the billing period that holds `at`.
PeriodStart(t, at) ==
  t.start_at + ((at - t.start_at) \div t.period_seconds) * t.period_seconds

SatisfiesRule(t, amount) ==
  \/ t.rule = "Fixed" /\ amount = t.per_charge
  \/ t.rule = "Variable" /\ amount <= t.per_charge

\* Mutant: the eligibility time wraps around at the width of u64.
IntervalElapsed_Wraps(md, at) ==
  md.last_charged_at # NeverCharged =>
    at >= (md.last_charged_at + md.terms.min_interval_seconds) % (MaxU64 + 1)

\* checked_add_u64: an eligibility time past u64 is an error, not a wrap.
IntervalElapsed(md, at) ==
  LET next_eligible_at == md.last_charged_at + md.terms.min_interval_seconds
  IN  md.last_charged_at # NeverCharged =>
        next_eligible_at <= MaxU64 /\ at >= next_eligible_at

ChargesLeft(md) ==
  \/ md.terms.max_successful_charges = 0
  \/ md.successful_charges < md.terms.max_successful_charges

\* Mutant: every charge after the first of a mandate resets the period.
PeriodCollected_Resets(md, at) ==
  IF md.last_charged_at # at THEN 0 ELSE md.current_period_collected

\* What the period that holds `at` has collected, before this charge.
PeriodCollected(md, at) ==
  IF PeriodStart(md.terms, at) # md.current_period_start
  THEN 0
  ELSE md.current_period_collected

\* storage::has_used_charge; the mutant forgets the replay guard.
HasUsedCharge_Never(m, c) == FALSE
HasUsedCharge(m, c) == c \in usedCharges[m]

\* storage::has_used_refund; the mutant scopes the guard to one mandate.
HasUsedRefund_PerMandate(m, r) ==
  r \in usedRefunds /\ refunds[r].mandate = m
HasUsedRefund(m, r) == r \in usedRefunds

\* Step 7 of refund().
RefundFits(m, c, amount) ==
  LET total == refundedTotal[m][c] + amount
  IN  total <= MaxI128 /\ total <= payments[m][c].amount

-----------------------------------------------------------------------------
Init ==
  /\ now \in Time
  /\ mandates = [m \in MandateId |-> None]
  /\ usedCharges = [m \in MandateId |-> {}]
  /\ payments = [m \in MandateId |-> [c \in ChargeId |-> None]]
  /\ usedRefunds = {}
  /\ refundedTotal = [m \in MandateId |-> [c \in ChargeId |-> 0]]
  /\ refunds = [r \in RefundId |-> None]
  /\ balance = [a \in Asset |-> InitialBalance]
  /\ allowance = [a \in Asset |-> [p \in Account |-> 0]]
  /\ gross = [m \in MandateId |-> [s \in Time |-> 0]]

CreateMandate(m, t) ==
  /\ mandates[m] = None
  /\ ValidInput(m, t)
  /\ mandates' = [mandates EXCEPT ![m] =
       [ terms |-> t, status |-> "Active",
         successful_charges |-> 0, total_collected |-> 0,
         current_period_start |-> t.start_at,
         current_period_collected |-> 0,
         last_charged_at |-> NeverCharged ]]
  /\ UNCHANGED <<now, chargeVars, refundVars, tokenVars>>

SetStatus(m, from, to) ==
  /\ mandates[m] # None
  /\ EffectiveStatus(mandates[m], now) \in from
  /\ mandates' = [mandates EXCEPT ![m].status = to]
  /\ UNCHANGED <<now, chargeVars, refundVars, tokenVars>>

PauseMandate(m)  == SetStatus(m, {"Active"}, "Paused")

\* Mutant: a resume that only looks at the stored status of a live mandate.
ResumeMandate_FromRevoked(m) == SetStatus(m, {"Paused", "Revoked"}, "Active")

ResumeMandate(m) == SetStatus(m, {"Paused"}, "Active")
RevokeMandate(m) == SetStatus(m, {"Active", "Paused", "Expired"}, "Revoked")

\* Steps 1 to 14 of charge(): everything checked before the transfer.
ChargeAccepted(m, c, amount) ==
  LET md == mandates[m]
      t  == md.terms
  IN  /\ md # None
      /\ EffectiveStatus(md, now) = "Active"
      /\ now >= t.start_at
      /\ now < t.expires_at
      /\ ~HasUsedCharge(m, c)
      /\ amount > 0
      /\ SatisfiesRule(t, amount)
      /\ IntervalElapsed(md, now)
      /\ ChargesLeft(md)
      /\ PeriodCollected(md, now) + amount <= MaxI128
      /\ PeriodCollected(md, now) + amount <= t.max_per_period
      /\ allowance[AssetOf[m]][PayerOf[m]] >= amount
      /\ balance[AssetOf[m]][PayerOf[m]] >= amount

\* This charge is the last one allowed.
BecomesCompleted(md) ==
  /\ md.terms.max_successful_charges # 0
  /\ md.successful_charges + 1 = md.terms.max_successful_charges

\* The mandate as written back after a successful transfer.
AfterCharge(md, amount) ==
  [ terms |-> md.terms,
    status |-> IF BecomesCompleted(md) THEN "Completed" ELSE md.status,
    successful_charges |-> md.successful_charges + 1,
    total_collected |-> md.total_collected + amount,
    current_period_start |-> PeriodStart(md.terms, now),
    current_period_collected |-> PeriodCollected(md, now) + amount,
    last_charged_at |-> now ]

\* token.transfer and token.transfer_from
Moved(row, from, to, amount) ==
  [row EXCEPT ![from] = @ - amount, ![to] = @ + amount]
Move(a, from, to, amount) ==
  balance' = [balance EXCEPT ![a] = Moved(@, from, to, amount)]

Charge(m, c, amount) ==
  /\ ChargeAccepted(m, c, amount)
  /\ mandates[m].successful_charges < MaxU32
  /\ mandates[m].total_collected + amount <= MaxI128
  /\ Move(AssetOf[m], PayerOf[m], MerchantOf[m], amount)
  /\ allowance' = [allowance EXCEPT ![AssetOf[m]][PayerOf[m]] = @ - amount]
  /\ mandates' = [mandates EXCEPT ![m] = AfterCharge(@, amount)]
  /\ usedCharges' = [usedCharges EXCEPT ![m] = @ \cup {c}]
  /\ payments' = [payments EXCEPT ![m][c] =
                    [amount |-> amount, timestamp |-> now]]
  /\ gross' = [gross EXCEPT
                 ![m][PeriodStart(mandates[m].terms, now)] = @ + amount]
  /\ UNCHANGED <<now, refundVars>>

\* refund(mandate_id = m, payment_id = the payment <<pm, c>>, amount, r)
Refund(m, pm, c, amount, r) ==
  /\ mandates[m] # None
  /\ payments[pm][c] # None
  /\ pm = m
  /\ ~HasUsedRefund(m, r)
  /\ amount > 0
  /\ RefundFits(pm, c, amount)
  /\ balance[AssetOf[pm]][MerchantOf[pm]] >= amount
  /\ Move(AssetOf[pm], MerchantOf[pm], PayerOf[pm], amount)
  /\ refundedTotal' = [refundedTotal EXCEPT ![pm][c] = @ + amount]
  /\ usedRefunds' = usedRefunds \cup {r}
  /\ refunds' = [refunds EXCEPT ![r] =
       [mandate |-> pm, charge |-> c, amount |-> amount, timestamp |-> now]]
  /\ UNCHANGED <<now, mandates, chargeVars, allowance>>

-----------------------------------------------------------------------------
(* The ledger and the token, outside the contract.                         *)

AdvanceTime ==
  /\ \E at \in Time : at > now /\ now' = at
  /\ UNCHANGED <<mandates, chargeVars, refundVars, tokenVars>>

\* approve() by the payer, or the expiry of an earlier approval.
Approve(a, p, x) ==
  /\ allowance' = [allowance EXCEPT ![a][p] = x]
  /\ UNCHANGED <<now, mandates, chargeVars, refundVars, balance>>

\* A payment outside the contract.
Spend(a, from, to, x) ==
  /\ from # to
  /\ x > 0 /\ balance[a][from] >= x
  /\ Move(a, from, to, x)
  /\ UNCHANGED <<now, mandates, chargeVars, refundVars, allowance>>

Next ==
  \/ \E m \in MandateId :
       \/ \E t \in Terms : CreateMandate(m, t)
       \/ PauseMandate(m)
       \/ ResumeMandate(m)
       \/ RevokeMandate(m)
       \/ \E c \in ChargeId, x \in Amount : Charge(m, c, x)
       \/ \E pm \in MandateId, c \in ChargeId, x \in Amount, r \in RefundId :
            Refund(m, pm, c, x, r)
  \/ AdvanceTime
  \/ \E a \in Asset, p \in Account, x \in Allowance : Approve(a, p, x)
  \/ \E a \in Asset, p, q \in Account, x \in Amount : Spend(a, p, q, x)

Spec == Init /\ [][Next]_vars

-----------------------------------------------------------------------------
(* Properties.                                                             *)

Created == {m \in MandateId : mandates[m] # None}
ReceiptsOf(m) == {c \in ChargeId : payments[m][c] # None}

(***************************************************************************)
(* Every storage entry holds a value of its contracttype (types.rs).       *)
(***************************************************************************)
TypeOK ==
  /\ now \in Time
  /\ mandates \in [MandateId -> Mandate \cup {None}]
  /\ usedCharges \in [MandateId -> SUBSET ChargeId]
  /\ payments \in [MandateId -> [ChargeId -> Receipt \cup {None}]]
  /\ usedRefunds \in SUBSET RefundId
  /\ refundedTotal \in [MandateId -> [ChargeId -> Nat]]
  /\ refunds \in [RefundId -> RefundReceipt \cup {None}]
  /\ balance \in [Asset -> [Account -> Nat]]
  /\ allowance \in [Asset -> [Account -> Nat]]
  /\ gross \in [MandateId -> [Time -> Nat]]

(***************************************************************************)
(* The lazily kept period state is right without ever being refreshed: the *)
(* stored boundary is that of the last charge, the stored sum is what that *)
(* period collected, no later period has collected anything, and no charge *)
(* is later than the last one (steps 9 and 11 read nothing else).          *)
(***************************************************************************)
PeriodBooksOf(m) ==
  LET md == mandates[m]
      t  == md.terms
  IN  /\ IF md.last_charged_at = NeverCharged
         THEN /\ md.current_period_start = t.start_at
              /\ ReceiptsOf(m) = {}
         ELSE /\ t.start_at <= md.last_charged_at
              /\ md.last_charged_at <= now
              /\ md.current_period_start = PeriodStart(t, md.last_charged_at)
      /\ gross[m][md.current_period_start] = md.current_period_collected
      /\ \A s \in Time : s > md.current_period_start => gross[m][s] = 0
      /\ \A c \in ReceiptsOf(m) :
           payments[m][c].timestamp <= md.last_charged_at

PeriodBooks == \A m \in Created : PeriodBooksOf(m)

(***************************************************************************)
(* Whatever a merchant does, refunds included, no billing period collects  *)
(* more than max_per_period: the lazy rollover in charge() (steps 11, 12)  *)
(* compares one stored boundary and must stay right when whole periods     *)
(* pass without a charge, and a refund must give no headroom back.         *)
(***************************************************************************)
WithinCap(m) ==
  \A s \in Time : gross[m][s] <= mandates[m].terms.max_per_period
PeriodCapRespected == \A m \in Created : WithinCap(m)

(***************************************************************************)
(* Any two charges of a mandate are min_interval_seconds apart, also when  *)
(* last_charged_at + min_interval_seconds does not fit into u64 (step 9).  *)
(***************************************************************************)
SpacedOf(m) ==
  \A c, d \in ReceiptsOf(m) :
    \/ c = d
    \/ payments[m][d].timestamp - payments[m][c].timestamp
         >= mandates[m].terms.min_interval_seconds
    \/ payments[m][c].timestamp - payments[m][d].timestamp
         >= mandates[m].terms.min_interval_seconds
ChargesSpaced == \A m \in Created : SpacedOf(m)

(***************************************************************************)
(* Each receipt records a charge the terms allow: inside [start, expiry)   *)
(* and of an amount that fits the fixed or variable rule (steps 3, 4, 8).  *)
(***************************************************************************)
WithinTermsOf(m) ==
  \A c \in ReceiptsOf(m) :
    /\ payments[m][c].timestamp >= mandates[m].terms.start_at
    /\ payments[m][c].timestamp < mandates[m].terms.expires_at
    /\ payments[m][c].amount > 0
    /\ payments[m][c].amount <= mandates[m].terms.per_charge
    /\ mandates[m].terms.rule = "Fixed" =>
         payments[m][c].amount = mandates[m].terms.per_charge
ReceiptsWithinTerms == \A m \in Created : WithinTermsOf(m)

(***************************************************************************)
(* The replay guards, the receipts and the mandate's own counter are       *)
(* separate storage entries that record the same facts and always agree    *)
(* (the writes after the transfer in charge() and refund()).               *)
(***************************************************************************)
BooksAgree ==
  /\ \A m \in MandateId :
       /\ usedCharges[m] = ReceiptsOf(m)
       /\ mandates[m] # None =>
            mandates[m].successful_charges = Cardinality(ReceiptsOf(m))
       /\ mandates[m] = None => ReceiptsOf(m) = {}
  /\ usedRefunds = {r \in RefundId : refunds[r] # None}

(***************************************************************************)
(* A mandate is Completed exactly when it has a charge limit and reached   *)
(* it, and never goes over it, whatever pauses and resumes came between.   *)
(***************************************************************************)
CompletedOf(m) ==
  LET max == mandates[m].terms.max_successful_charges
  IN  /\ mandates[m].status = "Completed" <=>
           max # 0 /\ mandates[m].successful_charges = max
      /\ max # 0 => mandates[m].successful_charges <= max
CompletedAtLimit == \A m \in Created : CompletedOf(m)

(***************************************************************************)
(* Refunds never give back more than the payment they refer to, over any   *)
(* number of refund ids (refund() step 7), and only to a recorded payment. *)
(***************************************************************************)
RefundsOf(m) ==
  \A c \in ChargeId :
    refundedTotal[m][c] <= IF payments[m][c] = None
                           THEN 0 ELSE payments[m][c].amount
RefundsBounded == \A m \in MandateId : RefundsOf(m)

(***************************************************************************)
(* History is final: receipts and replay guards of charges and refunds are *)
(* never overwritten or removed (storage.rs: everything is persistent),    *)
(* and a mandate that was revoked, completed or expired charges no more    *)
(* and never becomes chargeable again.                                     *)
(***************************************************************************)
Chargeable(m) == mandates[m] # None
                 /\ EffectiveStatus(mandates[m], now) \in {"Active", "Paused"}

HistoryIsFinal ==
  [][ /\ \A m \in MandateId, c \in ChargeId :
           payments[m][c] # None => payments'[m][c] = payments[m][c]
      /\ \A r \in RefundId :
           refunds[r] # None => refunds'[r] = refunds[r]
      /\ \A m \in Created : ~Chargeable(m) =>
           ~Chargeable(m)' /\ payments'[m] = payments[m]
    ]_vars

=============================================================================
