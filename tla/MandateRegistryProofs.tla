----------------------- MODULE MandateRegistryProofs -----------------------
(***************************************************************************)
(* Proofs about the contract, for every set of ids, accounts, terms and    *)
(* amounts and every integer width.  Part I is about MandateRegistry by    *)
(* itself.  Part II is about what MandateAccounting, MandateViews and      *)
(* ProductTerms state of it: that it implements SpendingAuthority, that no *)
(* mandate collects more than the exposure the payer was shown, that the   *)
(* precheck and the dashboard mirror it, that its running totals are the   *)
(* sums of its receipts, and that a product the API has stored can be      *)
(* signed.                                                                 *)
(***************************************************************************)
EXTENDS ProductTerms, FiniteSetTheorems, WellFoundedInduction, TLAPS

(***************************************************************************)
(* Part I: MandateRegistry                                                 *)
(***************************************************************************)

-----------------------------------------------------------------------------
(* Billing periods.                                                        *)

(***************************************************************************)
(* The boundary of a period lies between start_at and the instant it is    *)
(* computed for, and never moves back as time passes.                      *)
(***************************************************************************)
LEMMA PeriodStartBounds ==
  ASSUME NEW t \in TermsType, t.period_seconds # 0,
         NEW x \in Time, NEW y \in Time, t.start_at <= x, x <= y
  PROVE  /\ PeriodStart(t, x) \in Time
         /\ t.start_at <= PeriodStart(t, x)
         /\ PeriodStart(t, x) <= x
         /\ PeriodStart(t, x) <= PeriodStart(t, y)
<1> DEFINE d == t.period_seconds
           a == x - t.start_at
           b == y - t.start_at
<1>1. /\ a \in Nat /\ b \in Nat /\ d \in Nat /\ d > 0 /\ a <= b
      /\ t.start_at \in Nat
  BY WidthAssumption DEF TermsType, Time
<1> HIDE DEF d, a, b
<1>2. a \div d \in Nat /\ b \div d \in Nat
  BY <1>1
<1>3. /\ (a \div d) * d <= a
      /\ (b \div d) * d <= b
      /\ b < (b \div d) * d + d
  BY <1>1, <1>2
<1>4. (a \div d) * d \in Nat
  BY <1>1, <1>2
<1>5. a \div d <= b \div d
  BY <1>1, <1>2, <1>3
<1>6. \A i, j, k \in Nat : i <= j => i * k <= j * k
  OBVIOUS
<1>7. (a \div d) * d <= (b \div d) * d
  BY <1>1, <1>2, <1>5, <1>6
<1>8. (b \div d) * d \in Nat
  BY <1>1, <1>2
<1>9. /\ PeriodStart(t, x) = t.start_at + (a \div d) * d
      /\ PeriodStart(t, y) = t.start_at + (b \div d) * d
  BY DEF PeriodStart, a, b, d
<1>10. x = t.start_at + a /\ x <= MaxU64
  BY <1>1, WidthAssumption DEF a, Time, TermsType
<1> QED
  BY <1>1, <1>3, <1>4, <1>7, <1>8, <1>9, <1>10, WidthAssumption DEF Time

-----------------------------------------------------------------------------
(* Types.                                                                  *)

\* What ValidInput established at creation and nothing changes later.
TermsSane ==
  \A m \in Created :
    LET t == mandates[m].terms
    IN  /\ t.per_charge > 0
        /\ t.max_per_period >= t.per_charge
        /\ t.period_seconds # 0
        /\ t.start_at < t.expires_at

TypeInv == TypeOK /\ TermsSane

\* A created mandate is a record of the right type.
LEMMA CreatedMandate ==
  ASSUME TypeInv, NEW m \in MandateId, mandates[m] # None
  PROVE  /\ mandates[m] \in Mandate
         /\ mandates[m].terms \in TermsType
         /\ mandates[m].terms.per_charge > 0
         /\ mandates[m].terms.max_per_period >= mandates[m].terms.per_charge
         /\ mandates[m].terms.period_seconds # 0
         /\ mandates[m].terms.start_at < mandates[m].terms.expires_at
<1>1. mandates[m] \in Mandate
  BY DEF TypeInv, TypeOK
<1>2. mandates[m].terms \in TermsType
  BY <1>1, InputAssumption DEF Mandate
<1> QED
  BY <1>1, <1>2 DEF TypeInv, TermsSane, Created

\* A charge leaves a well-typed mandate that keeps its terms.
LEMMA AfterChargeType ==
  ASSUME TypeInv, NEW m \in MandateId, NEW c \in ChargeId, NEW x \in Amount,
         Charge(m, c, x)
  PROVE  /\ AfterCharge(mandates[m], x) \in Mandate
         /\ AfterCharge(mandates[m], x).terms = mandates[m].terms
         /\ PeriodStart(mandates[m].terms, now) \in Time
         /\ x \in Nat /\ x > 0
<1> DEFINE md == mandates[m]
           t  == md.terms
<1>1. md # None /\ x > 0 /\ now >= t.start_at
  BY DEF Charge, ChargeAccepted
<1>2. md \in Mandate /\ t \in TermsType /\ t.period_seconds # 0
  BY <1>1, CreatedMandate
<1>3. now \in Time
  BY DEF TypeInv, TypeOK
<1>4. PeriodStart(t, now) \in Time
  BY <1>1, <1>2, <1>3, PeriodStartBounds DEF TermsType, Time
<1>5. x \in Nat
  BY <1>1, InputAssumption
<1>6. PeriodCollected(md, now) + x \in Nat
  BY <1>2, <1>5 DEF PeriodCollected, Mandate
<1>7. AfterCharge(md, x).status \in Status
  BY <1>2 DEF AfterCharge, Mandate, Status
<1> QED
  BY <1>1, <1>2, <1>3, <1>4, <1>5, <1>6, <1>7 DEF AfterCharge, Mandate

\* A token move that its balance check allowed keeps balances natural.
LEMMA MoveType ==
  ASSUME balance \in [Asset -> [Account -> Nat]],
         NEW a \in Asset, NEW p \in Account, NEW q \in Account,
         NEW x \in Nat, balance[a][p] >= x, Move(a, p, q, x)
  PROVE  balance' \in [Asset -> [Account -> Nat]]
<1>1. balance[a] \in [Account -> Nat]
  OBVIOUS
<1>2. Moved(balance[a], p, q, x) \in [Account -> Nat]
  BY <1>1 DEF Moved
<1> QED
  BY <1>2 DEF Move

LEMMA TypeInvCreate ==
  ASSUME TypeInv, NEW m \in MandateId, NEW t \in Terms, CreateMandate(m, t)
  PROVE  TypeInv'
<1> DEFINE new == [ terms |-> t, status |-> "Active",
         successful_charges |-> 0, total_collected |-> 0,
         current_period_start |-> t.start_at,
         current_period_collected |-> 0,
         last_charged_at |-> NeverCharged ]
<1>1. t \in TermsType /\ ValidInput(m, t) /\ mandates' = [mandates EXCEPT ![m] = new]
  BY InputAssumption DEF CreateMandate
<1>2. new \in Mandate
  BY <1>1 DEF Mandate, TermsType, Status
<1>3. mandates' \in [MandateId -> Mandate \cup {None}]
  BY <1>1, <1>2 DEF TypeInv, TypeOK
<1>4. TermsSane'
  <2> SUFFICES ASSUME NEW k \in MandateId, mandates'[k] # None
               PROVE  LET u == mandates'[k].terms
                      IN  /\ u.per_charge > 0
                          /\ u.max_per_period >= u.per_charge
                          /\ u.period_seconds # 0
                          /\ u.start_at < u.expires_at
    BY DEF TermsSane, Created
  <2>1. CASE k = m
    <3>1. mandates'[k].terms = t
      BY <1>1, <2>1 DEF TypeInv, TypeOK
    <3> QED
      BY <1>1, <3>1 DEF ValidInput, TermsType, Time
  <2>2. CASE k # m
    BY <1>1, <2>2 DEF TypeInv, TypeOK, TermsSane, Created
  <2> QED
    BY <2>1, <2>2
<1> QED
  BY <1>3, <1>4 DEF TypeInv, TypeOK, CreateMandate, chargeVars, refundVars,
    tokenVars

LEMMA TypeInvSetStatus ==
  ASSUME TypeInv, NEW m \in MandateId, NEW from, NEW to \in Status,
         SetStatus(m, from, to)
  PROVE  TypeInv'
<1>1. mandates[m] \in Mandate
  BY DEF SetStatus, TypeInv, TypeOK
<1>2. [mandates[m] EXCEPT !.status = to] \in Mandate
  BY <1>1 DEF Mandate
<1>3. mandates' = [mandates EXCEPT ![m] = [mandates[m] EXCEPT !.status = to]]
  BY DEF SetStatus
<1>4. mandates' \in [MandateId -> Mandate \cup {None}]
  BY <1>2, <1>3 DEF TypeInv, TypeOK
<1>5. \A k \in MandateId :
         mandates'[k] # None =>
           mandates[k] # None /\ mandates'[k].terms = mandates[k].terms
  BY <1>1, <1>3 DEF TypeInv, TypeOK, SetStatus, Mandate
<1>6. TermsSane'
  BY <1>5 DEF TypeInv, TermsSane, Created
<1> QED
  BY <1>4, <1>6 DEF TypeInv, TypeOK, SetStatus, chargeVars, refundVars,
    tokenVars

LEMMA TypeInvCharge ==
  ASSUME TypeInv, NEW m \in MandateId, NEW c \in ChargeId, NEW x \in Amount,
         Charge(m, c, x)
  PROVE  TypeInv'
<1> DEFINE s == PeriodStart(mandates[m].terms, now)
           md == AfterCharge(mandates[m], x)
<1>1. /\ md \in Mandate /\ md.terms = mandates[m].terms
      /\ s \in Time /\ x \in Nat
      /\ mandates[m] # None
  BY AfterChargeType DEF Charge, ChargeAccepted
<1> HIDE DEF s, md
<1>2. mandates' = [mandates EXCEPT ![m] = md]
  BY DEF Charge, md
<1>3. mandates' \in [MandateId -> Mandate \cup {None}]
  BY <1>1, <1>2 DEF TypeInv, TypeOK
<1>4. \A k \in MandateId :
         mandates'[k] # None =>
           mandates[k] # None /\ mandates'[k].terms = mandates[k].terms
  BY <1>1, <1>2 DEF TypeInv, TypeOK
<1>5. TermsSane'
  BY <1>4 DEF TypeInv, TermsSane, Created
<1>6. usedCharges' \in [MandateId -> SUBSET ChargeId]
  BY DEF Charge, TypeInv, TypeOK
<1>7. payments' \in [MandateId -> [ChargeId -> Receipt \cup {None}]]
  <2>1. now \in Time /\ [amount |-> x, timestamp |-> now] \in Receipt
    BY <1>1 DEF TypeInv, TypeOK, Receipt
  <2> QED
    BY <2>1 DEF Charge, TypeInv, TypeOK
<1>8. gross' \in [MandateId -> [Time -> Nat]]
  <2>1. gross' = [gross EXCEPT ![m][s] = @ + x]
    BY DEF Charge, s
  <2> QED
    BY <1>1, <2>1 DEF TypeInv, TypeOK
<1>9. /\ AssetOf[m] \in Asset
      /\ PayerOf[m] \in Account
      /\ MerchantOf[m] \in Account
  BY IdAssumption
<1>10. /\ balance[AssetOf[m]][PayerOf[m]] >= x
       /\ allowance[AssetOf[m]][PayerOf[m]] >= x
       /\ Move(AssetOf[m], PayerOf[m], MerchantOf[m], x)
  BY DEF Charge, ChargeAccepted
<1>11. balance' \in [Asset -> [Account -> Nat]]
  BY <1>1, <1>9, <1>10, MoveType DEF TypeInv, TypeOK
<1>12. allowance' \in [Asset -> [Account -> Nat]]
  <2>1. allowance' = [allowance EXCEPT ![AssetOf[m]][PayerOf[m]] = @ - x]
    BY DEF Charge
  <2>2. allowance[AssetOf[m]][PayerOf[m]] - x \in Nat
    BY <1>1, <1>9, <1>10 DEF TypeInv, TypeOK
  <2> QED
    BY <1>9, <2>1, <2>2 DEF TypeInv, TypeOK
<1> QED
  BY <1>3, <1>5, <1>6, <1>7, <1>8, <1>11, <1>12
  DEF Charge, TypeInv, TypeOK, refundVars

LEMMA TypeInvRefund ==
  ASSUME TypeInv, NEW m \in MandateId, NEW pm \in MandateId,
         NEW c \in ChargeId, NEW x \in Amount, NEW r \in RefundId,
         Refund(m, pm, c, x, r)
  PROVE  TypeInv'
<1>1. x \in Nat /\ balance[AssetOf[pm]][MerchantOf[pm]] >= x
  BY InputAssumption DEF Refund
<1>2. /\ AssetOf[pm] \in Asset
      /\ PayerOf[pm] \in Account
      /\ MerchantOf[pm] \in Account
  BY IdAssumption
<1>3. Move(AssetOf[pm], MerchantOf[pm], PayerOf[pm], x)
  BY DEF Refund
<1>4. balance' \in [Asset -> [Account -> Nat]]
  BY <1>1, <1>2, <1>3, MoveType DEF TypeInv, TypeOK
<1>5. refundedTotal' \in [MandateId -> [ChargeId -> Nat]]
  BY <1>1 DEF Refund, TypeInv, TypeOK
<1>6. refunds' \in [RefundId -> RefundReceipt \cup {None}]
  <2>1. [mandate |-> pm, charge |-> c, amount |-> x, timestamp |-> now]
          \in RefundReceipt
    BY <1>1 DEF RefundReceipt, TypeInv, TypeOK
  <2> QED
    BY <2>1 DEF Refund, TypeInv, TypeOK
<1>7. usedRefunds' \in SUBSET RefundId
  BY DEF Refund, TypeInv, TypeOK
<1>8. UNCHANGED <<now, mandates, usedCharges, payments, gross, allowance>>
  BY DEF Refund, chargeVars
<1> QED
  BY <1>4, <1>5, <1>6, <1>7, <1>8 DEF TypeInv, TypeOK, TermsSane, Created

\* Steps of the ledger and the token leave the contract's storage alone.
Outside ==
  /\ now' >= now
  /\ now' \in Time
  /\ UNCHANGED <<mandates, chargeVars, refundVars>>

LEMMA OutsideSteps ==
  ASSUME TypeInv
  PROVE  /\ AdvanceTime => Outside
         /\ \A a \in Asset, p \in Account, x \in Allowance :
              Approve(a, p, x) => Outside
         /\ \A a \in Asset, p, q \in Account, x \in Amount :
              Spend(a, p, q, x) => Outside
         /\ UNCHANGED vars => Outside
BY WidthAssumption
   DEF AdvanceTime, Approve, Spend, Outside, vars, TypeInv, TypeOK, Time

THEOREM TypeInvariance == Spec => []TypeInv
<1>1. Init => TypeInv
  BY WidthAssumption, InputAssumption, NoneAssumption
  DEF Init, TypeInv, TypeOK, TermsSane, Created, Time
<1>2. TypeInv /\ [Next]_vars => TypeInv'
  <2> SUFFICES ASSUME TypeInv, [Next]_vars PROVE TypeInv'
    OBVIOUS
  <2>1. ASSUME NEW m \in MandateId, NEW t \in Terms, CreateMandate(m, t)
        PROVE  TypeInv'
    BY <2>1, TypeInvCreate
  <2>2. ASSUME NEW m \in MandateId,
               PauseMandate(m) \/ ResumeMandate(m) \/ RevokeMandate(m)
        PROVE  TypeInv'
    BY <2>2, TypeInvSetStatus
    DEF PauseMandate, ResumeMandate, RevokeMandate, Status
  <2>3. ASSUME NEW m \in MandateId, NEW c \in ChargeId, NEW x \in Amount,
               Charge(m, c, x)
        PROVE  TypeInv'
    BY <2>3, TypeInvCharge
  <2>4. ASSUME NEW m \in MandateId, NEW pm \in MandateId, NEW c \in ChargeId,
               NEW x \in Amount, NEW r \in RefundId, Refund(m, pm, c, x, r)
        PROVE  TypeInv'
    BY <2>4, TypeInvRefund
  <2>5. CASE AdvanceTime
    BY <2>5, WidthAssumption
    DEF AdvanceTime, TypeInv, TypeOK, TermsSane, Created, chargeVars,
        refundVars, tokenVars
  <2>6. ASSUME NEW a \in Asset, NEW p \in Account, NEW x \in Allowance,
               Approve(a, p, x)
        PROVE  TypeInv'
    BY <2>6, InputAssumption
    DEF Approve, TypeInv, TypeOK, TermsSane, Created, chargeVars, refundVars
  <2>7. ASSUME NEW a \in Asset, NEW p \in Account, NEW q \in Account,
               NEW x \in Amount, Spend(a, p, q, x)
        PROVE  TypeInv'
    <3>1. balance' \in [Asset -> [Account -> Nat]]
      BY <2>7, InputAssumption, MoveType DEF Spend, TypeInv, TypeOK
    <3> QED
      BY <2>7, <3>1
      DEF Spend, TypeInv, TypeOK, TermsSane, Created, chargeVars, refundVars
  <2>8. CASE UNCHANGED vars
    BY <2>8
    DEF vars, TypeInv, TypeOK, TermsSane, Created, chargeVars, refundVars,
        tokenVars
  <2> QED
    BY <2>1, <2>2, <2>3, <2>4, <2>5, <2>6, <2>7, <2>8 DEF Next
<1> QED
  BY <1>1, <1>2, PTL DEF Spec

\* Every entry of the contract's storage stays well typed.
THEOREM TypeCorrect == Spec => []TypeOK
<1>1. TypeInv => TypeOK
  BY DEF TypeInv
<1> QED
  BY <1>1, TypeInvariance, PTL

-----------------------------------------------------------------------------
(* What each kind of step does to one mandate.                             *)

StatusStep(m) == PauseMandate(m) \/ ResumeMandate(m) \/ RevokeMandate(m)

\* The mandate keeps everything a charge depends on, except its status.
SameButStatus(k) ==
  /\ mandates'[k] = None <=> mandates[k] = None
  /\ mandates[k] # None =>
       /\ mandates'[k].terms = mandates[k].terms
       /\ mandates'[k].successful_charges = mandates[k].successful_charges
       /\ mandates'[k].total_collected = mandates[k].total_collected
       /\ mandates'[k].current_period_start = mandates[k].current_period_start
       /\ mandates'[k].current_period_collected
            = mandates[k].current_period_collected
       /\ mandates'[k].last_charged_at = mandates[k].last_charged_at

\* No charge of k: its receipts, replay guards and sums stay.
NoChargeOf(k) ==
  /\ usedCharges'[k] = usedCharges[k]
  /\ payments'[k] = payments[k]
  /\ gross'[k] = gross[k]
  /\ now' >= now

LEMMA StepKinds ==
  ASSUME TypeInv, [Next]_vars
  PROVE  \/ \E m \in MandateId, t \in Terms : CreateMandate(m, t)
         \/ \E m \in MandateId : StatusStep(m)
         \/ \E m \in MandateId, c \in ChargeId, x \in Amount : Charge(m, c, x)
         \/ \E m, pm \in MandateId, c \in ChargeId, x \in Amount,
               r \in RefundId : Refund(m, pm, c, x, r)
         \/ Outside
BY OutsideSteps DEF Next, StatusStep

LEMMA StatusEffect ==
  ASSUME TypeInv, NEW m \in MandateId, StatusStep(m)
  PROVE  /\ mandates[m] # None
         /\ EffectiveStatus(mandates[m], now) # "Completed"
         /\ EffectiveStatus(mandates[m], now) # "Revoked"
         /\ mandates'[m].status \in {"Active", "Paused", "Revoked"}
         /\ mandates'[m].status # "Revoked" =>
              EffectiveStatus(mandates[m], now) \in {"Active", "Paused"}
         /\ \A k \in MandateId : k # m => mandates'[k] = mandates[k]
         /\ \A k \in MandateId : SameButStatus(k) /\ NoChargeOf(k)
         /\ UNCHANGED <<now, chargeVars, refundVars>>
<1>1. PICK from \in SUBSET {"Active", "Paused", "Expired"},
           to \in {"Active", "Paused", "Revoked"} :
        /\ SetStatus(m, from, to)
        /\ to # "Revoked" => from \subseteq {"Active", "Paused"}
  BY DEF StatusStep, PauseMandate, ResumeMandate, RevokeMandate
<1>2. mandates[m] # None /\ EffectiveStatus(mandates[m], now) \in from
  BY <1>1 DEF SetStatus
<1>3. mandates[m] \in Mandate
  BY <1>2 DEF TypeInv, TypeOK
<1>4. mandates' = [mandates EXCEPT ![m] = [mandates[m] EXCEPT !.status = to]]
  BY <1>1 DEF SetStatus
<1>5. mandates'[m] = [mandates[m] EXCEPT !.status = to]
  BY <1>4 DEF TypeInv, TypeOK
<1>6. [mandates[m] EXCEPT !.status = to] \in Mandate
  BY <1>3 DEF Mandate, Status
<1>7. mandates'[m] # None
  BY <1>5, <1>6, NoneAssumption
<1>8. \A k \in MandateId : k # m => mandates'[k] = mandates[k]
  BY <1>4 DEF TypeInv, TypeOK
<1>9. SameButStatus(m)
  BY <1>2, <1>3, <1>5, <1>7 DEF SameButStatus, Mandate
<1>10. UNCHANGED <<now, chargeVars, refundVars>>
  BY <1>1 DEF SetStatus
<1>11. \A k \in MandateId : SameButStatus(k) /\ NoChargeOf(k)
  BY <1>8, <1>9, <1>10
  DEF SameButStatus, NoChargeOf, chargeVars, TypeInv, TypeOK, Time
<1> QED
  BY <1>1, <1>2, <1>3, <1>5, <1>8, <1>10, <1>11 DEF Mandate

\* Creating m, charging m and refunding leave every other mandate alone.
LEMMA OtherMandates ==
  ASSUME TypeInv, NEW m \in MandateId, NEW k \in MandateId, k # m,
         \/ \E t \in Terms : CreateMandate(m, t)
         \/ \E c \in ChargeId, x \in Amount : Charge(m, c, x)
  PROVE  mandates'[k] = mandates[k] /\ SameButStatus(k) /\ NoChargeOf(k)
<1>1. mandates'[k] = mandates[k]
  BY DEF CreateMandate, Charge, TypeInv, TypeOK
<1>2. now' = now /\ now \in Int
  <2>1. now' = now
    BY DEF CreateMandate, Charge
  <2> QED
    BY <2>1 DEF TypeInv, TypeOK, Time
<1>3. CASE \E t \in Terms : CreateMandate(m, t)
  BY <1>1, <1>2, <1>3 DEF CreateMandate, NoChargeOf, SameButStatus, chargeVars
<1>4. CASE \E c \in ChargeId, x \in Amount : Charge(m, c, x)
  <2>1. PICK c \in ChargeId, x \in Amount : Charge(m, c, x)
    BY <1>4
  <2>2. usedCharges'[k] = usedCharges[k]
    BY <2>1 DEF Charge, TypeInv, TypeOK
  <2>3. payments'[k] = payments[k]
    BY <2>1 DEF Charge, TypeInv, TypeOK
  <2>4. gross'[k] = gross[k]
    BY <2>1 DEF Charge, TypeInv, TypeOK
  <2> QED
    BY <1>1, <1>2, <2>2, <2>3, <2>4 DEF NoChargeOf, SameButStatus
<1> QED
  BY <1>1, <1>3, <1>4

LEMMA NoChargeSteps ==
  ASSUME TypeInv, NEW k \in MandateId,
         \/ Outside
         \/ \E m, pm \in MandateId, c \in ChargeId, x \in Amount,
               r \in RefundId : Refund(m, pm, c, x, r)
  PROVE  mandates'[k] = mandates[k] /\ SameButStatus(k) /\ NoChargeOf(k)
BY DEF Outside, Refund, SameButStatus, NoChargeOf, chargeVars, TypeInv,
       TypeOK, Time

\* Mandate m right after CreateMandate and right after Charge.
LEMMA CreateEffect ==
  ASSUME TypeInv, NEW m \in MandateId, NEW t \in Terms, CreateMandate(m, t)
  PROVE  /\ mandates[m] = None
         /\ ValidInput(m, t)
         /\ mandates'[m] = [ terms |-> t, status |-> "Active",
              successful_charges |-> 0, total_collected |-> 0,
              current_period_start |-> t.start_at,
              current_period_collected |-> 0,
              last_charged_at |-> NeverCharged ]
         /\ UNCHANGED <<now, chargeVars, refundVars>>
BY DEF CreateMandate, TypeInv, TypeOK

ChargeFacts(m, c, x) ==
  /\ ChargeAccepted(m, c, x)
  /\ mandates[m] # None
  /\ mandates'[m] # None
  /\ mandates'[m] = AfterCharge(mandates[m], x)
  /\ usedCharges'[m] = usedCharges[m] \cup {c}
  /\ payments'[m] =
       [payments[m] EXCEPT ![c] = [amount |-> x, timestamp |-> now]]
  /\ payments'[m][c] = [amount |-> x, timestamp |-> now]
  /\ [amount |-> x, timestamp |-> now] # None
  /\ gross'[m] = [gross[m] EXCEPT
       ![PeriodStart(mandates[m].terms, now)] = @ + x]
  /\ now' = now /\ UNCHANGED refundVars

LEMMA ChargeEffect ==
  ASSUME TypeInv, NEW m \in MandateId, NEW c \in ChargeId, NEW x \in Amount,
         Charge(m, c, x)
  PROVE  ChargeFacts(m, c, x)
<1>1. /\ AfterCharge(mandates[m], x) \in Mandate
      /\ PeriodStart(mandates[m].terms, now) \in Time
      /\ x \in Nat
  BY AfterChargeType
<1>2. AfterCharge(mandates[m], x) # None
  BY <1>1, NoneAssumption
<1>3. mandates'[m] = AfterCharge(mandates[m], x)
  BY DEF Charge, TypeInv, TypeOK
<1>4. [amount |-> x, timestamp |-> now] \in Receipt
  BY <1>1 DEF Receipt, TypeInv, TypeOK
<1>5. /\ payments'[m] =
           [payments[m] EXCEPT ![c] = [amount |-> x, timestamp |-> now]]
      /\ payments'[m][c] = [amount |-> x, timestamp |-> now]
  BY DEF Charge, TypeInv, TypeOK
<1>6. gross'[m] = [gross[m] EXCEPT
                     ![PeriodStart(mandates[m].terms, now)] = @ + x]
  BY DEF Charge, TypeInv, TypeOK
<1>7. usedCharges'[m] = usedCharges[m] \cup {c}
  BY DEF Charge, TypeInv, TypeOK
<1>8. ChargeAccepted(m, c, x) /\ mandates[m] # None
  BY DEF Charge, ChargeAccepted
<1>9. now' = now /\ UNCHANGED refundVars
  BY DEF Charge
<1>10. [amount |-> x, timestamp |-> now] # None
  BY <1>4, NoneAssumption
<1>11. mandates'[m] # None
  BY <1>2, <1>3
<1> QED
  BY <1>3, <1>5, <1>6, <1>7, <1>8, <1>9, <1>10, <1>11 DEF ChargeFacts

-----------------------------------------------------------------------------
(* No billing period collects more than its cap.                           *)

PeriodInvOf(m) ==
  IF mandates[m] = None
  THEN ReceiptsOf(m) = {} /\ \A s \in Time : gross[m][s] = 0
  ELSE PeriodBooksOf(m) /\ WithinCap(m)

PeriodInv == TypeInv /\ \A m \in MandateId : PeriodInvOf(m)

\* Without a charge the books stay right, whatever the clock does.
LEMMA PeriodInvFrame ==
  ASSUME PeriodInv, NEW k \in MandateId, SameButStatus(k), NoChargeOf(k),
         now' \in Time
  PROVE  PeriodInvOf(k)'
<1>1. ReceiptsOf(k)' = ReceiptsOf(k)
  BY DEF ReceiptsOf, NoChargeOf
<1>2. CASE mandates[k] = None
  BY <1>1, <1>2 DEF SameButStatus, NoChargeOf, PeriodInv, PeriodInvOf
<1>3. CASE mandates[k] # None
  <2>1. PeriodBooksOf(k) /\ WithinCap(k) /\ mandates'[k] # None
    BY <1>3 DEF PeriodInv, PeriodInvOf, SameButStatus
  <2>2. WithinCap(k)'
    BY <1>3, <2>1 DEF WithinCap, SameButStatus, NoChargeOf
  <2>3. mandates[k].last_charged_at \in Int
    BY <1>3, CreatedMandate DEF PeriodInv, Mandate, Time, NeverCharged
  <2>4. now \in Int /\ now' \in Int
    BY DEF PeriodInv, TypeInv, TypeOK, Time
  <2>5. PeriodBooksOf(k)'
    BY <1>1, <1>3, <2>1, <2>3, <2>4
    DEF PeriodBooksOf, SameButStatus, NoChargeOf, PeriodStart
  <2> QED
    BY <2>1, <2>2, <2>5 DEF PeriodInvOf
<1> QED
  BY <1>2, <1>3

LEMMA PeriodInvCreate ==
  ASSUME PeriodInv, NEW m \in MandateId, NEW t \in Terms, CreateMandate(m, t)
  PROVE  PeriodInvOf(m)'
<1>1. t \in TermsType /\ t.max_per_period > 0
  BY InputAssumption, CreateEffect DEF ValidInput, PeriodInv
<1>2. /\ mandates[m] = None
      /\ mandates'[m] = [ terms |-> t, status |-> "Active",
              successful_charges |-> 0, total_collected |-> 0,
              current_period_start |-> t.start_at,
              current_period_collected |-> 0,
              last_charged_at |-> NeverCharged ]
      /\ UNCHANGED <<now, usedCharges, payments, gross>>
  BY CreateEffect DEF PeriodInv, chargeVars
<1>3. ReceiptsOf(m) = {} /\ \A s \in Time : gross[m][s] = 0
  BY <1>2 DEF PeriodInv, PeriodInvOf
<1>4. ReceiptsOf(m)' = {}
  BY <1>2, <1>3 DEF ReceiptsOf
<1>5. mandates'[m] # None
  <2>1. mandates'[m] \in Mandate
    BY <1>1, <1>2 DEF Mandate, TermsType, Status
  <2> QED
    BY <2>1, NoneAssumption
<1>6. PeriodBooksOf(m)'
  BY <1>1, <1>2, <1>3, <1>4 DEF PeriodBooksOf, TermsType
<1>7. WithinCap(m)'
  BY <1>1, <1>2, <1>3 DEF WithinCap, TermsType
<1> QED
  BY <1>5, <1>6, <1>7 DEF PeriodInvOf

\* The heart of it: the effective sum a charge adds to is what the period
\* that holds `now` has really collected.
LEMMA EffectiveSum ==
  ASSUME PeriodInv, NEW m \in MandateId, mandates[m] # None,
         mandates[m].terms.start_at <= now
  PROVE  LET s == PeriodStart(mandates[m].terms, now)
         IN  /\ s \in Time
             /\ s >= mandates[m].current_period_start
             /\ PeriodCollected(mandates[m], now) = gross[m][s]
<1> DEFINE md == mandates[m]
           t == md.terms
           s == PeriodStart(t, now)
<1>1. md \in Mandate /\ t \in TermsType /\ t.period_seconds # 0
  BY CreatedMandate DEF PeriodInv
<1>2. now \in Time /\ t.start_at \in Time
  BY <1>1 DEF PeriodInv, TypeInv, TypeOK, TermsType
<1>3. s \in Time /\ t.start_at <= s
  BY <1>1, <1>2, PeriodStartBounds DEF Time
<1>4. PeriodBooksOf(m)
  BY DEF PeriodInv, PeriodInvOf
<1>5. s >= md.current_period_start
  <2>1. CASE md.last_charged_at = NeverCharged
    BY <1>2, <1>3, <1>4, <2>1 DEF PeriodBooksOf, Time
  <2>2. CASE md.last_charged_at # NeverCharged
    <3>1. /\ md.last_charged_at \in Time
          /\ t.start_at <= md.last_charged_at
          /\ md.last_charged_at <= now
          /\ md.current_period_start = PeriodStart(t, md.last_charged_at)
      BY <1>1, <1>4, <2>2 DEF PeriodBooksOf, Mandate
    <3>2. PeriodStart(t, md.last_charged_at) \in Time
          /\ PeriodStart(t, md.last_charged_at) <= s
      BY <1>1, <1>2, <3>1, PeriodStartBounds
    <3> QED
      BY <1>3, <3>1, <3>2 DEF Time
  <2> QED
    BY <2>1, <2>2
<1>6. PeriodCollected(md, now) = gross[m][s]
  <2>1. CASE s = md.current_period_start
    BY <1>4, <2>1 DEF PeriodBooksOf, PeriodCollected
  <2>2. CASE s # md.current_period_start
    <3>1. s > md.current_period_start
      BY <1>1, <1>3, <1>5, <2>2 DEF Mandate, Time
    <3> QED
      BY <1>3, <1>4, <2>2, <3>1 DEF PeriodBooksOf, PeriodCollected
  <2> QED
    BY <2>1, <2>2
<1> QED
  BY <1>3, <1>5, <1>6

LEMMA PeriodInvCharge ==
  ASSUME PeriodInv, NEW m \in MandateId, NEW c \in ChargeId, NEW x \in Amount,
         Charge(m, c, x)
  PROVE  PeriodInvOf(m)'
<1> DEFINE md == mandates[m]
           t == md.terms
           s == PeriodStart(t, now)
<1>1. /\ ChargeAccepted(m, c, x)
      /\ md # None /\ mandates'[m] # None
      /\ mandates'[m] = AfterCharge(md, x)
      /\ payments'[m] =
           [payments[m] EXCEPT ![c] = [amount |-> x, timestamp |-> now]]
      /\ gross'[m] = [gross[m] EXCEPT ![s] = @ + x]
      /\ now' = now
  <2>1. TypeInv
    BY DEF PeriodInv
  <2>2. ChargeFacts(m, c, x)
    BY <2>1, ChargeEffect
  <2> QED
    BY <2>2 DEF ChargeFacts
<1>2. /\ t.start_at <= now
      /\ PeriodCollected(md, now) + x <= t.max_per_period
      /\ x \in Nat
  BY <1>1, AfterChargeType DEF ChargeAccepted, PeriodInv
<1>3. /\ s \in Time /\ s >= md.current_period_start
      /\ PeriodCollected(md, now) = gross[m][s]
  BY <1>1, <1>2, EffectiveSum
<1>4. md \in Mandate /\ t \in TermsType
  BY <1>1, CreatedMandate DEF PeriodInv
<1>5. now \in Time /\ gross[m] \in [Time -> Nat]
      /\ payments[m] \in [ChargeId -> Receipt \cup {None}]
  BY DEF PeriodInv, TypeInv, TypeOK
<1>6. PeriodBooksOf(m) /\ WithinCap(m)
  BY <1>1 DEF PeriodInv, PeriodInvOf
<1>7. /\ mandates'[m].terms = t
      /\ mandates'[m].current_period_start = s
      /\ mandates'[m].current_period_collected = gross[m][s] + x
      /\ mandates'[m].last_charged_at = now
  BY <1>1, <1>3 DEF AfterCharge
<1> HIDE DEF md, t, s
<1>8. gross'[m][s] = gross[m][s] + x
  BY <1>1, <1>3, <1>5
<1>9. \A r \in Time : r # s => gross'[m][r] = gross[m][r]
  BY <1>1, <1>3, <1>5
<1>10. WithinCap(m)'
  BY <1>2, <1>3, <1>6, <1>7, <1>8, <1>9 DEF WithinCap, md, t
<1>11. \A r \in Time : r > s => gross'[m][r] = 0
  <2> SUFFICES ASSUME NEW r \in Time, r > s PROVE gross'[m][r] = 0
    OBVIOUS
  <2>1. r # s /\ r > md.current_period_start
    BY <1>3, <1>4 DEF Mandate, Time
  <2> QED
    BY <1>6, <1>9, <2>1 DEF PeriodBooksOf, md
<1>12. now # NeverCharged /\ t.start_at <= now /\ now <= now
  BY <1>2, <1>5 DEF Time, NeverCharged
<1>13. \A d \in ReceiptsOf(m)' : payments'[m][d].timestamp <= now
  <2> SUFFICES ASSUME NEW d \in ChargeId, payments'[m][d] # None
               PROVE  payments'[m][d].timestamp <= now
    BY DEF ReceiptsOf
  <2>1. CASE d = c
    BY <1>1, <1>5, <2>1 DEF Time
  <2>2. CASE d # c
    <3>1. payments'[m][d] = payments[m][d] /\ d \in ReceiptsOf(m)
      BY <1>1, <1>5, <2>2 DEF ReceiptsOf
    <3>2. /\ md.last_charged_at # NeverCharged
          /\ md.last_charged_at <= now
          /\ payments[m][d].timestamp <= md.last_charged_at
      BY <1>6, <3>1 DEF PeriodBooksOf, md
    <3>3. payments[m][d].timestamp \in Int
      BY <1>5, <3>1 DEF ReceiptsOf, Receipt, Time
    <3>4. md.last_charged_at \in Int
      BY <1>4, <3>2 DEF Mandate, Time
    <3> QED
      BY <1>5, <3>1, <3>2, <3>3, <3>4 DEF Time
  <2> QED
    BY <2>1, <2>2
<1>14. PeriodBooksOf(m)'
  BY <1>1, <1>7, <1>8, <1>11, <1>12, <1>13 DEF PeriodBooksOf, s, t
<1> QED
  BY <1>1, <1>10, <1>14 DEF PeriodInvOf, md

LEMMA PeriodInvStep ==
  ASSUME PeriodInv, TypeInv', [Next]_vars
  PROVE  PeriodInv'
<1> SUFFICES ASSUME NEW k \in MandateId PROVE PeriodInvOf(k)'
  BY DEF PeriodInv
<1> USE DEF PeriodInv
<1>1. now' \in Time
  BY DEF TypeInv, TypeOK
<1>2. CASE SameButStatus(k) /\ NoChargeOf(k)
  BY <1>1, <1>2, PeriodInvFrame
<1>3. ASSUME NEW m \in MandateId, NEW t \in Terms, CreateMandate(m, t)
      PROVE  PeriodInvOf(k)'
  BY <1>2, <1>3, PeriodInvCreate, OtherMandates
<1>4. ASSUME NEW m \in MandateId, NEW c \in ChargeId, NEW x \in Amount,
             Charge(m, c, x)
      PROVE  PeriodInvOf(k)'
  BY <1>2, <1>4, PeriodInvCharge, OtherMandates
<1>5. ASSUME NEW m \in MandateId, StatusStep(m)
      PROVE  PeriodInvOf(k)'
  BY <1>2, <1>5, StatusEffect
<1>6. CASE \/ Outside
           \/ \E m, pm \in MandateId, c \in ChargeId, x \in Amount,
                 r \in RefundId : Refund(m, pm, c, x, r)
  BY <1>2, <1>6, NoChargeSteps
<1> QED
  BY <1>3, <1>4, <1>5, <1>6, StepKinds

LEMMA PeriodInvariance == Spec => []PeriodInv
<1>1. Init => \A m \in MandateId : PeriodInvOf(m)
  BY DEF Init, PeriodInvOf, ReceiptsOf
<1>2. TypeInv /\ (\A m \in MandateId : PeriodInvOf(m)) => PeriodInv
  BY DEF PeriodInv
<1>3. PeriodInv /\ TypeInv' /\ [Next]_vars => PeriodInv'
  BY PeriodInvStep
<1>4. Init => TypeInv
  BY WidthAssumption, InputAssumption, NoneAssumption
  DEF Init, TypeInv, TypeOK, TermsSane, Created, Time
<1> QED
  BY <1>1, <1>2, <1>3, <1>4, TypeInvariance, PTL DEF Spec

\* The lazily kept period state is that of the last charge (charge.rs, 11).
THEOREM PeriodBooksCorrect == Spec => []PeriodBooks
<1>1. PeriodInv => PeriodBooks
  BY DEF PeriodInv, PeriodInvOf, PeriodBooks, Created
<1> QED
  BY <1>1, PeriodInvariance, PTL

\* No period collects more than max_per_period (charge.rs, steps 11 and 12).
THEOREM PeriodCapHolds == Spec => []PeriodCapRespected
<1>1. PeriodInv => PeriodCapRespected
  BY DEF PeriodInv, PeriodInvOf, WithinCap, PeriodCapRespected, Created
<1> QED
  BY <1>1, PeriodInvariance, PTL

-----------------------------------------------------------------------------
(* The replay guards, the receipts and the counter agree.                  *)

BooksOf(m) ==
  /\ usedCharges[m] = ReceiptsOf(m)
  /\ IsFiniteSet(ReceiptsOf(m))
  /\ IF mandates[m] = None
     THEN ReceiptsOf(m) = {}
     ELSE mandates[m].successful_charges = Cardinality(ReceiptsOf(m))

RefundBooks == usedRefunds = {r \in RefundId : refunds[r] # None}

BooksInv == TypeInv /\ RefundBooks /\ \A m \in MandateId : BooksOf(m)

\* A charge adds one receipt, under an id that had none.
LEMMA ChargeAddsReceipt ==
  ASSUME BooksInv, NEW m \in MandateId, NEW c \in ChargeId, NEW x \in Amount,
         Charge(m, c, x)
  PROVE  /\ c \notin ReceiptsOf(m)
         /\ ReceiptsOf(m)' = ReceiptsOf(m) \cup {c}
         /\ \A d \in ReceiptsOf(m) : payments'[m][d] = payments[m][d]
<1>1. /\ ChargeAccepted(m, c, x)
      /\ payments'[m] =
           [payments[m] EXCEPT ![c] = [amount |-> x, timestamp |-> now]]
      /\ [amount |-> x, timestamp |-> now] # None
  <2>1. TypeInv
    BY DEF BooksInv
  <2>2. ChargeFacts(m, c, x)
    BY <2>1, ChargeEffect
  <2> QED
    BY <2>2 DEF ChargeFacts
<1>2. c \notin ReceiptsOf(m)
  BY <1>1 DEF ChargeAccepted, HasUsedCharge, BooksInv, BooksOf
<1>3. payments[m] \in [ChargeId -> Receipt \cup {None}]
  BY DEF BooksInv, TypeInv, TypeOK
<1>4. ReceiptsOf(m)' = ReceiptsOf(m) \cup {c}
  BY <1>1, <1>3 DEF ReceiptsOf
<1> QED
  BY <1>1, <1>2, <1>3, <1>4 DEF ReceiptsOf

LEMMA BooksCharge ==
  ASSUME BooksInv, NEW m \in MandateId, NEW c \in ChargeId, NEW x \in Amount,
         Charge(m, c, x)
  PROVE  BooksOf(m)'
<1>1. /\ c \notin ReceiptsOf(m)
      /\ ReceiptsOf(m)' = ReceiptsOf(m) \cup {c}
  BY ChargeAddsReceipt
<1>2. /\ mandates[m] # None /\ mandates'[m] # None
      /\ mandates'[m] = AfterCharge(mandates[m], x)
      /\ usedCharges'[m] = usedCharges[m] \cup {c}
  <2>1. TypeInv
    BY DEF BooksInv
  <2>2. ChargeFacts(m, c, x)
    BY <2>1, ChargeEffect
  <2> QED
    BY <2>2 DEF ChargeFacts
<1>3. /\ usedCharges[m] = ReceiptsOf(m)
      /\ IsFiniteSet(ReceiptsOf(m))
      /\ mandates[m].successful_charges = Cardinality(ReceiptsOf(m))
  BY <1>2 DEF BooksInv, BooksOf
<1>4. /\ IsFiniteSet(ReceiptsOf(m) \cup {c})
      /\ Cardinality(ReceiptsOf(m) \cup {c}) = Cardinality(ReceiptsOf(m)) + 1
  BY <1>1, <1>3, FS_AddElement
<1>5. mandates'[m].successful_charges = mandates[m].successful_charges + 1
  BY <1>2 DEF AfterCharge
<1> QED
  BY <1>1, <1>2, <1>3, <1>4, <1>5 DEF BooksOf

LEMMA RefundBooksStep ==
  ASSUME TypeInv, RefundBooks, [Next]_vars
  PROVE  RefundBooks'
<1>1. ASSUME NEW m \in MandateId, NEW pm \in MandateId, NEW c \in ChargeId,
             NEW x \in Amount, NEW r \in RefundId, Refund(m, pm, c, x, r)
      PROVE  RefundBooks'
  <2> DEFINE new == [mandate |-> pm, charge |-> c, amount |-> x,
                     timestamp |-> now]
  <2>1. new # None
    <3>1. x \in Nat /\ now \in Time
      BY <1>1, InputAssumption DEF Refund, TypeInv, TypeOK
    <3> QED
      BY <3>1, NoneAssumption DEF RefundReceipt
  <2>2. /\ refunds' = [refunds EXCEPT ![r] = new]
        /\ usedRefunds' = usedRefunds \cup {r}
    BY <1>1 DEF Refund
  <2> HIDE DEF new
  <2>3. refunds \in [RefundId -> RefundReceipt \cup {None}]
    BY DEF TypeInv, TypeOK
  <2> QED
    BY <2>1, <2>2, <2>3 DEF RefundBooks
<1>2. CASE UNCHANGED refundVars
  BY <1>2 DEF RefundBooks, refundVars
<1>3. ASSUME NEW m \in MandateId, NEW t \in Terms, CreateMandate(m, t)
      PROVE  UNCHANGED refundVars
  BY <1>3, CreateEffect
<1>4. ASSUME NEW m \in MandateId, NEW c \in ChargeId, NEW x \in Amount,
             Charge(m, c, x)
      PROVE  UNCHANGED refundVars
  <2>1. ChargeFacts(m, c, x)
    BY <1>4, ChargeEffect
  <2> QED
    BY <2>1 DEF ChargeFacts
<1>5. ASSUME NEW m \in MandateId, StatusStep(m)
      PROVE  UNCHANGED refundVars
  BY <1>5, StatusEffect
<1>6. Outside => UNCHANGED refundVars
  BY DEF Outside
<1> QED
  BY <1>1, <1>2, <1>3, <1>4, <1>5, <1>6, StepKinds

LEMMA BooksStep ==
  ASSUME BooksInv, TypeInv', [Next]_vars
  PROVE  BooksInv'
<1> SUFFICES ASSUME NEW k \in MandateId PROVE BooksOf(k)'
  BY RefundBooksStep DEF BooksInv
<1>1. TypeInv
  BY DEF BooksInv
<1>2. CASE SameButStatus(k) /\ NoChargeOf(k)
  <2>1. ReceiptsOf(k)' = ReceiptsOf(k)
    BY <1>2 DEF ReceiptsOf, NoChargeOf
  <2> QED
    BY <1>2, <2>1 DEF BooksInv, BooksOf, SameButStatus, NoChargeOf
<1>3. ASSUME NEW m \in MandateId, NEW t \in Terms, CreateMandate(m, t)
      PROVE  BooksOf(k)'
  <2>1. CASE k # m
    BY <1>1, <1>2, <1>3, <2>1, OtherMandates
  <2>2. CASE k = m
    <3>1. /\ mandates[k] = None
          /\ UNCHANGED <<usedCharges, payments>>
          /\ mandates'[k].successful_charges = 0
      <4>1. CreateMandate(k, t)
        BY <1>3, <2>2
      <4>2. mandates'[k] = [ terms |-> t, status |-> "Active",
              successful_charges |-> 0, total_collected |-> 0,
              current_period_start |-> t.start_at,
              current_period_collected |-> 0,
              last_charged_at |-> NeverCharged ]
        BY <1>1, <4>1, CreateEffect
      <4> QED
        BY <4>1, <4>2 DEF CreateMandate, chargeVars
    <3>2. ReceiptsOf(k) = {} /\ ReceiptsOf(k)' = {} /\ usedCharges'[k] = {}
      BY <3>1 DEF BooksInv, BooksOf, ReceiptsOf
    <3> QED
      BY <3>1, <3>2, FS_EmptySet DEF BooksOf
  <2> QED
    BY <2>1, <2>2
<1>4. ASSUME NEW m \in MandateId, NEW c \in ChargeId, NEW x \in Amount,
             Charge(m, c, x)
      PROVE  BooksOf(k)'
  BY <1>1, <1>2, <1>4, BooksCharge, OtherMandates
<1>5. ASSUME NEW m \in MandateId, StatusStep(m)
      PROVE  BooksOf(k)'
  BY <1>1, <1>2, <1>5, StatusEffect
<1>6. CASE \/ Outside
           \/ \E m, pm \in MandateId, c \in ChargeId, x \in Amount,
                 r \in RefundId : Refund(m, pm, c, x, r)
  BY <1>1, <1>2, <1>6, NoChargeSteps
<1> QED
  BY <1>1, <1>3, <1>4, <1>5, <1>6, StepKinds

LEMMA BooksInvariance == Spec => []BooksInv
<1>1. Init => \A m \in MandateId : BooksOf(m)
  <2> SUFFICES ASSUME Init, NEW m \in MandateId PROVE BooksOf(m)
    OBVIOUS
  <2>1. ReceiptsOf(m) = {} /\ usedCharges[m] = {} /\ mandates[m] = None
    BY DEF Init, ReceiptsOf
  <2> QED
    BY <2>1, FS_EmptySet DEF BooksOf
<1>2. /\ Init => RefundBooks
      /\ TypeInv /\ RefundBooks /\ (\A m \in MandateId : BooksOf(m)) => BooksInv
  BY DEF Init, RefundBooks, BooksInv
<1>3. BooksInv /\ TypeInv' /\ [Next]_vars => BooksInv'
  BY BooksStep
<1>4. Init => TypeInv
  BY WidthAssumption, InputAssumption, NoneAssumption
  DEF Init, TypeInv, TypeOK, TermsSane, Created, Time
<1> QED
  BY <1>1, <1>2, <1>3, <1>4, TypeInvariance, PTL DEF Spec

\* A charge id succeeds at most once per mandate, and the counter counts
\* exactly the receipts.
THEOREM BooksCorrect == Spec => []BooksAgree
<1>1. BooksInv => BooksAgree
  BY DEF BooksInv, BooksOf, RefundBooks, BooksAgree
<1> QED
  BY <1>1, BooksInvariance, PTL

-----------------------------------------------------------------------------
(* Every receipt is within the terms and away from every other; completion *)
(* and refunds follow the receipts.                                        *)

HistoryOf(m) ==
  /\ mandates[m] # None => WithinTermsOf(m) /\ SpacedOf(m) /\ CompletedOf(m)
  /\ RefundsOf(m)

HistoryInv == BooksInv /\ PeriodInv /\ \A m \in MandateId : HistoryOf(m)

LEMMA WithinTermsCharge ==
  ASSUME HistoryInv, NEW m \in MandateId, NEW c \in ChargeId,
         NEW x \in Amount, Charge(m, c, x)
  PROVE  WithinTermsOf(m)'
<1>1. TypeInv /\ BooksInv
  BY DEF HistoryInv, BooksInv
<1>2. /\ ChargeAccepted(m, c, x) /\ mandates[m] # None
      /\ mandates'[m] = AfterCharge(mandates[m], x)
      /\ payments'[m][c] = [amount |-> x, timestamp |-> now]
  <2>1. ChargeFacts(m, c, x)
    BY <1>1, ChargeEffect
  <2> QED
    BY <2>1 DEF ChargeFacts
<1>3. /\ ReceiptsOf(m)' = ReceiptsOf(m) \cup {c}
      /\ \A d \in ReceiptsOf(m) : payments'[m][d] = payments[m][d]
  BY <1>1, ChargeAddsReceipt
<1>4. mandates'[m].terms = mandates[m].terms
  BY <1>2 DEF AfterCharge
<1>5. WithinTermsOf(m)
  BY <1>2 DEF HistoryInv, HistoryOf
<1>6. /\ now >= mandates[m].terms.start_at
      /\ now < mandates[m].terms.expires_at
      /\ x > 0
      /\ x <= mandates[m].terms.per_charge
      /\ mandates[m].terms.rule = "Fixed" => x = mandates[m].terms.per_charge
  <2>1. mandates[m].terms \in TermsType /\ x \in Int
    BY <1>1, <1>2, CreatedMandate, InputAssumption
  <2> QED
    BY <1>2, <2>1 DEF ChargeAccepted, SatisfiesRule, TermsType
<1> QED
  BY <1>2, <1>3, <1>4, <1>5, <1>6 DEF WithinTermsOf

\* The new receipt is min_interval_seconds after last_charged_at, and no
\* older receipt is later than that.
LEMMA SpacedCharge ==
  ASSUME HistoryInv, NEW m \in MandateId, NEW c \in ChargeId,
         NEW x \in Amount, Charge(m, c, x)
  PROVE  SpacedOf(m)'
<1> DEFINE md == mandates[m]
           gap == mandates[m].terms.min_interval_seconds
<1>1. TypeInv /\ BooksInv /\ PeriodInv
  BY DEF HistoryInv, BooksInv
<1>2. /\ ChargeAccepted(m, c, x) /\ mandates[m] # None
      /\ mandates'[m] = AfterCharge(mandates[m], x)
      /\ payments'[m][c] = [amount |-> x, timestamp |-> now]
  <2>1. ChargeFacts(m, c, x)
    BY <1>1, ChargeEffect
  <2> QED
    BY <2>1 DEF ChargeFacts
<1>3. /\ ReceiptsOf(m)' = ReceiptsOf(m) \cup {c}
      /\ \A d \in ReceiptsOf(m) : payments'[m][d] = payments[m][d]
  BY <1>1, ChargeAddsReceipt
<1>4. mandates'[m].terms = mandates[m].terms
  BY <1>2 DEF AfterCharge
<1>5. SpacedOf(m) /\ PeriodBooksOf(m)
  BY <1>2 DEF HistoryInv, HistoryOf, PeriodInv, PeriodInvOf
<1>6. \A d \in ReceiptsOf(m) : now - payments[m][d].timestamp >= gap
  <2> SUFFICES ASSUME NEW d \in ReceiptsOf(m)
               PROVE  now - payments[m][d].timestamp >= gap
    OBVIOUS
  <2>1. /\ md.last_charged_at # NeverCharged
        /\ payments[m][d].timestamp <= md.last_charged_at
    BY <1>5 DEF PeriodBooksOf
  <2>2. now >= md.last_charged_at + gap
    BY <1>2, <2>1 DEF ChargeAccepted, IntervalElapsed
  <2>3. /\ md.last_charged_at \in Int /\ gap \in Int
    BY <1>1, <1>2, <2>1, CreatedMandate DEF Mandate, TermsType, Time
  <2>4. now \in Int /\ payments[m][d].timestamp \in Int
    BY <1>1 DEF TypeInv, TypeOK, ReceiptsOf, Receipt, Time
  <2> QED
    BY <2>1, <2>2, <2>3, <2>4
<1> QED
  BY <1>2, <1>3, <1>4, <1>5, <1>6 DEF SpacedOf

LEMMA CompletedCharge ==
  ASSUME HistoryInv, NEW m \in MandateId, NEW c \in ChargeId,
         NEW x \in Amount, Charge(m, c, x)
  PROVE  CompletedOf(m)'
<1>1. TypeInv
  BY DEF HistoryInv, BooksInv
<1>2. /\ ChargeAccepted(m, c, x) /\ mandates[m] # None
      /\ mandates'[m] = AfterCharge(mandates[m], x)
  <2>1. ChargeFacts(m, c, x)
    BY <1>1, ChargeEffect
  <2> QED
    BY <2>1 DEF ChargeFacts
<1>3. mandates[m] \in Mandate /\ mandates[m].terms \in TermsType
  BY <1>1, <1>2, CreatedMandate
<1>4. mandates[m].status = "Active" /\ ChargesLeft(mandates[m])
  BY <1>2, <1>3 DEF ChargeAccepted, EffectiveStatus, Mandate, Status
<1> DEFINE max == mandates[m].terms.max_successful_charges
           old == mandates[m].successful_charges
<1>5. max \in Nat /\ old \in Nat /\ (max = 0 \/ old < max)
  BY <1>3, <1>4 DEF ChargesLeft, Mandate, TermsType
<1>6. /\ mandates'[m].terms = mandates[m].terms
      /\ mandates'[m].successful_charges = old + 1
      /\ mandates'[m].status =
           IF max # 0 /\ old + 1 = max THEN "Completed" ELSE "Active"
  BY <1>2, <1>4 DEF AfterCharge, BecomesCompleted
<1> QED
  BY <1>5, <1>6 DEF CompletedOf

LEMMA RefundsCharge ==
  ASSUME HistoryInv, NEW m \in MandateId, NEW c \in ChargeId,
         NEW x \in Amount, Charge(m, c, x)
  PROVE  RefundsOf(m)'
<1>1. TypeInv /\ BooksInv
  BY DEF HistoryInv, BooksInv
<1>2. /\ payments'[m] =
           [payments[m] EXCEPT ![c] = [amount |-> x, timestamp |-> now]]
      /\ payments'[m][c] = [amount |-> x, timestamp |-> now]
      /\ [amount |-> x, timestamp |-> now] # None
      /\ refundedTotal' = refundedTotal
  <2>1. ChargeFacts(m, c, x)
    BY <1>1, ChargeEffect
  <2> QED
    BY <2>1 DEF ChargeFacts, refundVars
<1>3. x \in Nat
  BY <1>1, AfterChargeType
<1>4. payments[m] \in [ChargeId -> Receipt \cup {None}]
      /\ refundedTotal[m] \in [ChargeId -> Nat]
  BY <1>1 DEF TypeInv, TypeOK
<1>5. payments[m][c] = None
  BY <1>1, ChargeAddsReceipt DEF ReceiptsOf
<1>6. RefundsOf(m)
  BY DEF HistoryInv, HistoryOf
<1> SUFFICES ASSUME NEW d \in ChargeId
             PROVE  refundedTotal'[m][d] <=
                      IF payments'[m][d] = None
                      THEN 0 ELSE payments'[m][d].amount
  BY DEF RefundsOf
<1>7. CASE d = c
  <2>1. refundedTotal[m][c] <= 0 /\ refundedTotal[m][c] \in Nat
    BY <1>4, <1>5, <1>6 DEF RefundsOf
  <2>2. payments'[m][d] # None /\ payments'[m][d].amount = x
    BY <1>2, <1>7
  <2> QED
    BY <1>2, <1>3, <1>7, <2>1, <2>2
<1>8. CASE d # c
  BY <1>2, <1>4, <1>6, <1>8 DEF RefundsOf
<1> QED
  BY <1>7, <1>8

LEMMA RefundsRefund ==
  ASSUME HistoryInv, NEW k \in MandateId, NEW m \in MandateId,
         NEW pm \in MandateId, NEW c \in ChargeId, NEW x \in Amount,
         NEW r \in RefundId, Refund(m, pm, c, x, r)
  PROVE  RefundsOf(k)'
<1>1. TypeInv
  BY DEF HistoryInv, BooksInv
<1>2. /\ payments' = payments
      /\ payments[pm][c] # None
      /\ RefundFits(pm, c, x)
      /\ refundedTotal' = [refundedTotal EXCEPT ![pm][c] = @ + x]
  BY DEF Refund, chargeVars
<1>3. refundedTotal \in [MandateId -> [ChargeId -> Nat]]
  BY <1>1 DEF TypeInv, TypeOK
<1>4. RefundsOf(k)
  BY DEF HistoryInv, HistoryOf
<1> SUFFICES ASSUME NEW d \in ChargeId
             PROVE  refundedTotal'[k][d] <=
                      IF payments[k][d] = None
                      THEN 0 ELSE payments[k][d].amount
  BY <1>2 DEF RefundsOf
<1>5. CASE k = pm /\ d = c
  BY <1>2, <1>3, <1>5 DEF RefundFits
<1>6. CASE ~(k = pm /\ d = c)
  <2>1. refundedTotal'[k][d] = refundedTotal[k][d]
    BY <1>2, <1>3, <1>6
  <2> QED
    BY <1>4, <2>1 DEF RefundsOf
<1> QED
  BY <1>5, <1>6

\* Steps without a charge of k that leave its status alone.
LEMMA HistoryFrame ==
  ASSUME HistoryInv, NEW k \in MandateId, mandates'[k] = mandates[k],
         NoChargeOf(k), RefundsOf(k)'
  PROVE  HistoryOf(k)'
<1>1. ReceiptsOf(k)' = ReceiptsOf(k) /\ payments'[k] = payments[k]
  BY DEF ReceiptsOf, NoChargeOf
<1>2. HistoryOf(k)
  BY DEF HistoryInv
<1>3. mandates[k] # None => WithinTermsOf(k)'
  BY <1>1, <1>2 DEF HistoryOf, WithinTermsOf
<1>4. mandates[k] # None => SpacedOf(k)'
  BY <1>1, <1>2 DEF HistoryOf, SpacedOf
<1>5. mandates[k] # None => CompletedOf(k)'
  BY <1>2 DEF HistoryOf, CompletedOf
<1> QED
  BY <1>3, <1>4, <1>5 DEF HistoryOf

\* Pause, resume and revoke neither complete a mandate nor undo completion.
LEMMA HistoryStatus ==
  ASSUME HistoryInv, NEW m \in MandateId, StatusStep(m)
  PROVE  HistoryOf(m)'
<1>1. TypeInv /\ HistoryOf(m)
  BY DEF HistoryInv, BooksInv
<1>2. /\ mandates[m] # None
      /\ EffectiveStatus(mandates[m], now) # "Completed"
      /\ mandates'[m].status \in {"Active", "Paused", "Revoked"}
      /\ SameButStatus(m) /\ NoChargeOf(m)
      /\ UNCHANGED refundVars
  BY <1>1, StatusEffect
<1>3. ReceiptsOf(m)' = ReceiptsOf(m) /\ payments'[m] = payments[m]
  BY <1>2 DEF ReceiptsOf, NoChargeOf
<1>4. mandates'[m].terms = mandates[m].terms
      /\ mandates'[m].successful_charges = mandates[m].successful_charges
  BY <1>2 DEF SameButStatus
<1>5. mandates[m].status # "Completed" /\ mandates'[m].status # "Completed"
  BY <1>2 DEF EffectiveStatus
<1>6. WithinTermsOf(m)'
  BY <1>1, <1>2, <1>3, <1>4 DEF HistoryOf, WithinTermsOf
<1>7. SpacedOf(m)'
  BY <1>1, <1>2, <1>3, <1>4 DEF HistoryOf, SpacedOf
<1>8. CompletedOf(m)'
  <2>1. CompletedOf(m)
    BY <1>1, <1>2 DEF HistoryOf
  <2> QED
    BY <1>4, <1>5, <2>1 DEF CompletedOf
<1>9. RefundsOf(m)'
  BY <1>1, <1>2, <1>3 DEF HistoryOf, RefundsOf, refundVars
<1> QED
  BY <1>6, <1>7, <1>8, <1>9 DEF HistoryOf

LEMMA HistoryCreate ==
  ASSUME HistoryInv, NEW m \in MandateId, NEW t \in Terms, CreateMandate(m, t)
  PROVE  HistoryOf(m)'
<1>1. TypeInv /\ PeriodInvOf(m) /\ RefundsOf(m)
  BY DEF HistoryInv, PeriodInv, HistoryOf
<1>2. mandates[m] = None /\ UNCHANGED <<payments, refundedTotal>>
  BY DEF CreateMandate, chargeVars, refundVars
<1>3. ReceiptsOf(m)' = {}
  BY <1>1, <1>2 DEF PeriodInvOf, ReceiptsOf
<1>4. WithinTermsOf(m)' /\ SpacedOf(m)'
  BY <1>3 DEF WithinTermsOf, SpacedOf
<1>5. t \in TermsType
  BY InputAssumption
<1>6. mandates'[m] = [ terms |-> t, status |-> "Active",
              successful_charges |-> 0, total_collected |-> 0,
              current_period_start |-> t.start_at,
              current_period_collected |-> 0,
              last_charged_at |-> NeverCharged ]
  BY <1>1, CreateEffect
<1>7. CompletedOf(m)'
  BY <1>5, <1>6 DEF CompletedOf, TermsType
<1>8. RefundsOf(m)'
  BY <1>1, <1>2 DEF RefundsOf
<1> QED
  BY <1>4, <1>7, <1>8 DEF HistoryOf

LEMMA HistoryStep ==
  ASSUME HistoryInv, BooksInv', PeriodInv', [Next]_vars
  PROVE  HistoryInv'
<1> SUFFICES ASSUME NEW k \in MandateId PROVE HistoryOf(k)'
  BY DEF HistoryInv
<1>1. TypeInv /\ RefundsOf(k)
  BY DEF HistoryInv, BooksInv, HistoryOf
<1>2. CASE /\ mandates'[k] = mandates[k] /\ NoChargeOf(k)
           /\ refundedTotal' = refundedTotal
  <2>1. RefundsOf(k)'
    BY <1>1, <1>2 DEF RefundsOf, NoChargeOf
  <2> QED
    BY <1>2, <2>1, HistoryFrame
<1>3. ASSUME NEW m \in MandateId, NEW t \in Terms, CreateMandate(m, t)
      PROVE  HistoryOf(k)'
  <2>1. refundedTotal' = refundedTotal
    BY <1>3 DEF CreateMandate, refundVars
  <2> QED
    BY <1>1, <1>2, <1>3, <2>1, HistoryCreate, OtherMandates
<1>4. ASSUME NEW m \in MandateId, NEW c \in ChargeId, NEW x \in Amount,
             Charge(m, c, x)
      PROVE  HistoryOf(k)'
  <2>1. refundedTotal' = refundedTotal
    BY <1>4 DEF Charge, refundVars
  <2>2. CASE k = m
    BY <1>4, <2>2, WithinTermsCharge, SpacedCharge, CompletedCharge,
       RefundsCharge DEF HistoryOf
  <2> QED
    BY <1>1, <1>2, <1>4, <2>1, <2>2, OtherMandates
<1>5. ASSUME NEW m \in MandateId, StatusStep(m)
      PROVE  HistoryOf(k)'
  <2>1. refundedTotal' = refundedTotal
    BY <1>1, <1>5, StatusEffect DEF refundVars
  <2> QED
    BY <1>1, <1>2, <1>5, <2>1, HistoryStatus, StatusEffect
<1>6. CASE Outside
  BY <1>1, <1>2, <1>6, NoChargeSteps DEF Outside, refundVars
<1>7. ASSUME NEW m \in MandateId, NEW pm \in MandateId, NEW c \in ChargeId,
             NEW x \in Amount, NEW r \in RefundId, Refund(m, pm, c, x, r)
      PROVE  HistoryOf(k)'
  <2>1. RefundsOf(k)'
    BY <1>7, RefundsRefund
  <2>2. mandates'[k] = mandates[k] /\ NoChargeOf(k)
    BY <1>1, <1>7, NoChargeSteps
  <2> QED
    BY <2>1, <2>2, HistoryFrame
<1> QED
  BY <1>1, <1>3, <1>4, <1>5, <1>6, <1>7, StepKinds

LEMMA HistoryInvariance == Spec => []HistoryInv
<1>1. Init => \A m \in MandateId : HistoryOf(m)
  BY DEF Init, HistoryOf, RefundsOf
<1>2. BooksInv /\ PeriodInv /\ (\A m \in MandateId : HistoryOf(m))
        => HistoryInv
  BY DEF HistoryInv
<1>3. HistoryInv /\ BooksInv' /\ PeriodInv' /\ [Next]_vars => HistoryInv'
  BY HistoryStep
<1> QED
  BY <1>1, <1>2, <1>3, BooksInvariance, PeriodInvariance, PTL DEF Spec

\* Receipts are inside the mandate's life and fit its amount rule.
THEOREM ReceiptsCorrect == Spec => []ReceiptsWithinTerms
<1>1. HistoryInv => ReceiptsWithinTerms
  BY DEF HistoryInv, HistoryOf, ReceiptsWithinTerms, Created
<1> QED
  BY <1>1, HistoryInvariance, PTL

\* Two charges of one mandate are min_interval_seconds apart.
THEOREM SpacingCorrect == Spec => []ChargesSpaced
<1>1. HistoryInv => ChargesSpaced
  BY DEF HistoryInv, HistoryOf, ChargesSpaced, Created
<1> QED
  BY <1>1, HistoryInvariance, PTL

\* Completed exactly at the charge limit, which is never exceeded.
THEOREM CompletionCorrect == Spec => []CompletedAtLimit
<1>1. HistoryInv => CompletedAtLimit
  BY DEF HistoryInv, HistoryOf, CompletedAtLimit, Created
<1> QED
  BY <1>1, HistoryInvariance, PTL

\* No payment is refunded beyond its amount.
THEOREM RefundsCorrect == Spec => []RefundsBounded
<1>1. HistoryInv => RefundsBounded
  BY DEF HistoryInv, HistoryOf, RefundsBounded
<1> QED
  BY <1>1, HistoryInvariance, PTL

-----------------------------------------------------------------------------
(* History is final.                                                       *)

\* A mandate that is not chargeable stays so.
LEMMA UnchargeableStays ==
  ASSUME TypeInv, [Next]_vars, NEW k \in MandateId, mandates[k] # None,
         ~Chargeable(k)
  PROVE  ~Chargeable(k)' /\ payments'[k] = payments[k]
<1>1. ASSUME mandates'[k] = mandates[k], NoChargeOf(k), now' \in Int
      PROVE  ~Chargeable(k)' /\ payments'[k] = payments[k]
  <2>1. mandates[k].terms.expires_at \in Int /\ now \in Int
    BY CreatedMandate DEF TermsType, Time, TypeInv, TypeOK
  <2> QED
    BY <1>1, <2>1 DEF NoChargeOf, Chargeable, EffectiveStatus
<1>2. now \in Int
  BY DEF TypeInv, TypeOK, Time
<1>3. ASSUME NEW m \in MandateId, NEW t \in Terms, CreateMandate(m, t)
      PROVE  ~Chargeable(k)' /\ payments'[k] = payments[k]
  <2>1. k # m /\ now' = now
    BY <1>3 DEF CreateMandate
  <2> QED
    BY <1>1, <1>2, <1>3, <2>1, OtherMandates
<1>4. ASSUME NEW m \in MandateId, NEW c \in ChargeId, NEW x \in Amount,
             Charge(m, c, x)
      PROVE  ~Chargeable(k)' /\ payments'[k] = payments[k]
  <2>1. k # m /\ now' = now
    BY <1>4 DEF Charge, ChargeAccepted, Chargeable
  <2> QED
    BY <1>1, <1>2, <1>4, <2>1, OtherMandates
<1>5. ASSUME NEW m \in MandateId, StatusStep(m)
      PROVE  ~Chargeable(k)' /\ payments'[k] = payments[k]
  <2>1. now' = now /\ NoChargeOf(k)
    BY <1>5, StatusEffect
  <2>2. CASE k # m
    BY <1>1, <1>2, <1>5, <2>1, <2>2, StatusEffect
  <2>3. CASE k = m
    <3>1. mandates'[k].status = "Revoked"
      BY <1>5, <2>3, StatusEffect DEF Chargeable
    <3> QED
      BY <2>1, <3>1 DEF Chargeable, EffectiveStatus, NoChargeOf
  <2> QED
    BY <2>2, <2>3
<1>6. CASE Outside
  <2>1. now' \in Int
    BY <1>6 DEF Outside, Time
  <2> QED
    BY <1>1, <1>6, <2>1, NoChargeSteps
<1>7. ASSUME NEW m \in MandateId, NEW pm \in MandateId, NEW c \in ChargeId,
             NEW x \in Amount, NEW r \in RefundId, Refund(m, pm, c, x, r)
      PROVE  ~Chargeable(k)' /\ payments'[k] = payments[k]
  <2>1. now' = now
    BY <1>7 DEF Refund
  <2> QED
    BY <1>1, <1>2, <1>7, <2>1, NoChargeSteps
<1> QED
  BY <1>3, <1>4, <1>5, <1>6, <1>7, StepKinds

LEMMA ReceiptsPermanent ==
  ASSUME BooksInv, [Next]_vars, NEW k \in MandateId, NEW d \in ChargeId,
         payments[k][d] # None
  PROVE  payments'[k][d] = payments[k][d]
<1>1. TypeInv
  BY DEF BooksInv
<1>2. NoChargeOf(k) => payments'[k][d] = payments[k][d]
  BY DEF NoChargeOf
<1>3. ASSUME NEW m \in MandateId, NEW t \in Terms, CreateMandate(m, t)
      PROVE  payments'[k][d] = payments[k][d]
  BY <1>3 DEF CreateMandate, chargeVars
<1>4. ASSUME NEW m \in MandateId, NEW c \in ChargeId, NEW x \in Amount,
             Charge(m, c, x)
      PROVE  payments'[k][d] = payments[k][d]
  <2>1. CASE k # m
    BY <1>1, <1>2, <1>4, <2>1, OtherMandates
  <2>2. CASE k = m
    BY <1>4, <2>2, ChargeAddsReceipt DEF ReceiptsOf
  <2> QED
    BY <2>1, <2>2
<1>5. ASSUME NEW m \in MandateId, StatusStep(m)
      PROVE  payments'[k][d] = payments[k][d]
  BY <1>1, <1>2, <1>5, StatusEffect
<1>6. CASE \/ Outside
           \/ \E m, pm \in MandateId, c \in ChargeId, x \in Amount,
                 r \in RefundId : Refund(m, pm, c, x, r)
  BY <1>1, <1>2, <1>6, NoChargeSteps
<1> QED
  BY <1>1, <1>3, <1>4, <1>5, <1>6, StepKinds

LEMMA RefundsPermanent ==
  ASSUME BooksInv, [Next]_vars, NEW i \in RefundId, refunds[i] # None
  PROVE  refunds'[i] = refunds[i]
<1>1. TypeInv /\ i \in usedRefunds
  BY DEF BooksInv, RefundBooks
<1>2. ASSUME NEW m \in MandateId, NEW pm \in MandateId, NEW c \in ChargeId,
             NEW x \in Amount, NEW r \in RefundId, Refund(m, pm, c, x, r)
      PROVE  refunds'[i] = refunds[i]
  <2>1. i # r
    BY <1>1, <1>2 DEF Refund, HasUsedRefund
  <2> QED
    BY <1>1, <1>2, <2>1 DEF Refund, TypeInv, TypeOK
<1>3. ASSUME NEW m \in MandateId, StatusStep(m)
      PROVE  refunds' = refunds
  BY <1>1, <1>3, StatusEffect DEF refundVars
<1>4. ASSUME \/ Outside
             \/ \E m \in MandateId, t \in Terms : CreateMandate(m, t)
             \/ \E m \in MandateId, c \in ChargeId, x \in Amount :
                  Charge(m, c, x)
      PROVE  refunds' = refunds
  BY <1>4 DEF Outside, CreateMandate, Charge, refundVars
<1> QED
  BY <1>1, <1>2, <1>3, <1>4, StepKinds

\* Receipts are never overwritten, and what is revoked, completed or
\* expired never charges again.
THEOREM HistoryFinal == Spec => HistoryIsFinal
<1>1. BooksInv /\ [Next]_vars =>
        [ /\ \A m \in MandateId, c \in ChargeId :
               payments[m][c] # None => payments'[m][c] = payments[m][c]
          /\ \A r \in RefundId :
               refunds[r] # None => refunds'[r] = refunds[r]
          /\ \A m \in Created : ~Chargeable(m) =>
               ~Chargeable(m)' /\ payments'[m] = payments[m]
        ]_vars
  BY UnchargeableStays, ReceiptsPermanent, RefundsPermanent
  DEF BooksInv, Created
<1> QED
  BY <1>1, BooksInvariance, PTL DEF Spec, HistoryIsFinal

-----------------------------------------------------------------------------
(***************************************************************************)
(* Part II: refinement, views and totals                                   *)
(***************************************************************************)

Limits == {limitOf(t) : t \in Terms}
AuthorityStep == Authority!Step(Limits, Amount)

LEMMA BarInit == Init => Authority!Init
BY DEF Init, Authority!Init, phaseBar, phaseOf, limitBar, pullsBar, paidBar

\* The payer's view of a mandate other than its phase does not change.
SameView ==
  /\ limitBar' = limitBar /\ pullsBar' = pullsBar
  /\ gross' = gross /\ paidBar' = paidBar
  /\ refundedTotal' = refundedTotal

LEMMA SameViewFacts ==
  ASSUME \A k \in MandateId : SameButStatus(k),
         payments' = payments, gross' = gross, refundedTotal' = refundedTotal
  PROVE  SameView
<1>1. limitBar' = limitBar
  BY DEF limitBar, SameButStatus
<1>2. pullsBar' = pullsBar
  BY DEF pullsBar, SameButStatus
<1>3. paidBar' = paidBar
  BY DEF paidBar
<1> QED
  BY <1>1, <1>2, <1>3 DEF SameView

LEMMA CreateGrants ==
  ASSUME TypeInv, NEW m \in MandateId, NEW t \in Terms, CreateMandate(m, t)
  PROVE  AuthorityStep
<1>1. /\ mandates[m] = None /\ t.expires_at > now /\ t.max_per_period > 0
      /\ UNCHANGED <<now, payments, gross, refundedTotal>>
  BY DEF CreateMandate, ValidInput, chargeVars, refundVars
<1> DEFINE new == [ terms |-> t, status |-> "Active",
         successful_charges |-> 0, total_collected |-> 0,
         current_period_start |-> t.start_at,
         current_period_collected |-> 0,
         last_charged_at |-> NeverCharged ]
<1>2. /\ mandates'[m] = new
      /\ \A k \in MandateId : k # m => mandates'[k] = mandates[k]
  BY DEF CreateMandate, TypeInv, TypeOK
<1>3. new # None
  <2>1. t \in TermsType
    BY InputAssumption
  <2>2. new \in Mandate
    BY <2>1 DEF Mandate, TermsType, Status
  <2> QED
    BY <2>2, NoneAssumption
<1>4. phaseBar' = [phaseBar EXCEPT ![m] = "live"]
  <2>1. t.expires_at \in Int /\ now \in Int
    BY InputAssumption DEF TermsType, Time, TypeInv, TypeOK
  <2>2. phaseOf(m)' = "live"
    BY <1>1, <1>2, <1>3, <2>1 DEF phaseOf, EffectiveStatus
  <2>3. \A k \in MandateId : k # m => phaseOf(k)' = phaseOf(k)
    BY <1>1, <1>2 DEF phaseOf
  <2> QED
    BY <2>2, <2>3 DEF phaseBar
<1>5. limitBar' = [limitBar EXCEPT ![m] = limitOf(t)]
  <2>1. mandates'[m] # None /\ mandates'[m].terms = t
    BY <1>2, <1>3
  <2>2. \A k \in MandateId : k # m => mandates'[k] = mandates[k]
    BY <1>2
  <2> HIDE DEF new
  <2> QED
    BY <2>1, <2>2 DEF limitBar
<1>6. pullsBar' = pullsBar
  <2>1. (IF mandates[m] = None THEN 0 ELSE mandates[m].successful_charges)' =
         (IF mandates[m] = None THEN 0 ELSE mandates[m].successful_charges)
    BY <1>1, <1>2, <1>3
  <2>2. \A k \in MandateId : k # m => mandates'[k] = mandates[k]
    BY <1>2
  <2> QED
    BY <2>1, <2>2 DEF pullsBar
<1>7. paidBar' = paidBar
  BY <1>1 DEF paidBar
<1>8. phaseBar[m] = "none"
  BY <1>1 DEF phaseBar, phaseOf
<1>9. limitOf(t) \in Limits /\ limitOf(t).per_period > 0
  BY <1>1 DEF Limits, limitOf
<1>10. Authority!Grant(m, limitOf(t))
  BY <1>1, <1>4, <1>5, <1>6, <1>7, <1>8, <1>9 DEF Authority!Grant
<1> QED
  BY <1>9, <1>10 DEF AuthorityStep, Authority!Step

LEMMA StatusSwitches ==
  ASSUME TypeInv, NEW m \in MandateId, StatusStep(m)
  PROVE  AuthorityStep \/ UNCHANGED Authority!vars
<1>1. /\ mandates[m] # None /\ mandates'[m] # None
      /\ \A k \in MandateId : k # m => mandates'[k] = mandates[k]
      /\ UNCHANGED <<now, payments, gross, refundedTotal>>
      /\ \A k \in MandateId : SameButStatus(k)
  BY StatusEffect DEF SameButStatus, chargeVars, refundVars
<1>2. SameView
  BY <1>1, SameViewFacts
<1>3. \A k \in MandateId : k # m => phaseOf(k)' = phaseOf(k)
  BY <1>1 DEF phaseOf
<1>4. mandates[m] \in Mandate /\ mandates'[m].terms = mandates[m].terms
  BY <1>1, CreatedMandate DEF SameButStatus
<1>5. CASE PauseMandate(m) \/ ResumeMandate(m)
  <2>1. PICK old \in {"Active", "Paused"}, new \in {"Active", "Paused"} :
          /\ EffectiveStatus(mandates[m], now) = old
          /\ mandates'[m].status = new
          /\ new # old
    BY <1>4, <1>5 DEF PauseMandate, ResumeMandate, SetStatus, TypeInv, TypeOK,
       Mandate
  <2> DEFINE Word(s) == IF s = "Active" THEN "live" ELSE "suspended"
  <2>2. phaseOf(m) = Word(old)
    BY <1>1, <2>1 DEF phaseOf
  <2>3. EffectiveStatus(mandates'[m], now) = new
    BY <1>4, <2>1 DEF EffectiveStatus
  <2>4. phaseOf(m)' = Word(new)
    BY <1>1, <2>1, <2>3 DEF phaseOf
  <2>5. phaseBar[m] = Word(old) /\ phaseBar' = [phaseBar EXCEPT ![m] = Word(new)]
    BY <1>3, <2>2, <2>4 DEF phaseBar
  <2>6. Authority!Switch(m, Word(old), Word(new))
    BY <1>2, <2>5 DEF Authority!Switch, SameView
  <2> QED
    BY <2>1, <2>6 DEF AuthorityStep, Authority!Step
<1>6. CASE RevokeMandate(m)
  <2>1. /\ EffectiveStatus(mandates[m], now) \in {"Active", "Paused", "Expired"}
        /\ mandates'[m].status = "Revoked"
    BY <1>4, <1>6 DEF RevokeMandate, SetStatus, TypeInv, TypeOK, Mandate
  <2>2. phaseOf(m)' = "over"
    BY <1>1, <2>1 DEF phaseOf, EffectiveStatus
  <2>3. CASE EffectiveStatus(mandates[m], now) = "Expired"
    <3>1. phaseOf(m) = "over"
      BY <1>1, <2>3 DEF phaseOf
    <3>2. phaseBar' = phaseBar
      BY <1>3, <2>2, <3>1 DEF phaseBar
    <3> QED
      BY <1>2, <3>2 DEF Authority!vars, SameView
  <2>4. CASE EffectiveStatus(mandates[m], now) # "Expired"
    <3>1. phaseOf(m) \in {"live", "suspended"}
      BY <1>1, <2>1, <2>4 DEF phaseOf
    <3>2. phaseBar[m] \in {"live", "suspended"}
      BY <3>1 DEF phaseBar
    <3>3. phaseBar' =
            [k \in MandateId |-> IF k \in {m} THEN "over" ELSE phaseBar[k]]
      BY <1>3, <2>2 DEF phaseBar
    <3>4. Authority!End({m})
      BY <1>2, <3>2, <3>3 DEF Authority!End, SameView
    <3> QED
      BY <3>4 DEF AuthorityStep, Authority!Step
  <2> QED
    BY <2>3, <2>4
<1> QED
  BY <1>5, <1>6 DEF StatusStep

\* A charge is a pull; the one that completes the mandate ends it.
LEMMA ChargePulls ==
  ASSUME HistoryInv, TypeInv', NEW m \in MandateId, NEW c \in ChargeId,
         NEW x \in Amount, Charge(m, c, x)
  PROVE  AuthorityStep
<1> DEFINE md == mandates[m]
           t == md.terms
           s == PeriodStart(t, now)
           most == t.max_successful_charges
           count == md.successful_charges + 1
<1>1. TypeInv /\ BooksInv /\ PeriodInv
  BY DEF HistoryInv, BooksInv
<1>2. /\ ChargeAccepted(m, c, x)
      /\ md # None /\ mandates'[m] # None
      /\ mandates'[m] = AfterCharge(md, x)
      /\ payments'[m][c] = [amount |-> x, timestamp |-> now]
      /\ [amount |-> x, timestamp |-> now] # None
      /\ now' = now
  <2>1. ChargeFacts(m, c, x)
    BY <1>1, ChargeEffect
  <2> QED
    BY <2>1 DEF ChargeFacts
<1>3. md \in Mandate /\ t \in TermsType
  BY <1>1, <1>2, CreatedMandate
<1>4. /\ md.status = "Active" /\ EffectiveStatus(md, now) = "Active"
      /\ now < t.expires_at /\ t.start_at <= now
      /\ x > 0 /\ ChargesLeft(md)
      /\ PeriodCollected(md, now) + x <= t.max_per_period
  <2>1. ~(now >= t.expires_at)
    BY <1>2, <1>3 DEF ChargeAccepted, EffectiveStatus, Mandate, Status
  <2>2. now \in Int /\ t.start_at \in Int /\ t.expires_at \in Int
    <3>1. t.start_at \in Time /\ t.expires_at \in Time
      BY <1>3 DEF TermsType
    <3>2. now \in Time
      BY <1>1 DEF TypeInv, TypeOK
    <3> QED
      BY <3>1, <3>2 DEF Time
  <2> QED
    BY <1>2, <1>3, <2>1, <2>2
    DEF ChargeAccepted, EffectiveStatus, Mandate, Status
<1>5. s \in Time /\ PeriodCollected(md, now) = gross[m][s]
  BY <1>1, <1>2, <1>4, EffectiveSum
<1>6. \A k \in MandateId : k # m => mandates'[k] = mandates[k]
  BY <1>1, OtherMandates
<1>7. /\ mandates'[m].terms = t
      /\ mandates'[m].successful_charges = count
      /\ mandates'[m].status =
           IF most # 0 /\ count = most THEN "Completed" ELSE "Active"
  BY <1>2, <1>4 DEF AfterCharge, BecomesCompleted
<1>8. phaseOf(m)' = IF most # 0 /\ count = most THEN "over" ELSE "live"
  <2>1. now \in Int /\ t.expires_at \in Int
    <3>1. t.expires_at \in Time
      BY <1>3 DEF TermsType
    <3>2. now \in Time
      BY <1>1 DEF TypeInv, TypeOK
    <3> QED
      BY <3>1, <3>2 DEF Time
  <2>2. EffectiveStatus(mandates'[m], now) = mandates'[m].status
    BY <1>4, <1>7, <2>1 DEF EffectiveStatus
  <2> QED
    BY <1>2, <1>7, <2>2 DEF phaseOf
<1>9. /\ phaseBar[m] = "live"
      /\ limitBar[m].per_period = t.max_per_period
      /\ limitBar[m].pulls = most
      /\ pullsBar[m] = md.successful_charges
  BY <1>2, <1>4 DEF phaseBar, phaseOf, limitBar, limitOf, pullsBar
<1>10. phaseBar' = [phaseBar EXCEPT ![m] =
                      IF most # 0 /\ count = most THEN "over" ELSE "live"]
  <2>1. \A k \in MandateId : k # m => phaseOf(k)' = phaseOf(k)
    BY <1>2, <1>6 DEF phaseOf
  <2> QED
    BY <1>8, <2>1 DEF phaseBar
<1>11. limitBar' = limitBar
  BY <1>2, <1>6, <1>7 DEF limitBar
<1>12. pullsBar' = [pullsBar EXCEPT ![m] = count]
  BY <1>2, <1>6, <1>7 DEF pullsBar
<1>13. payments[m][c] = None
  BY <1>1, ChargeAddsReceipt DEF ReceiptsOf
<1>14. paidBar[m][c] = 0
  BY <1>13 DEF paidBar
<1>15. paidBar' = [paidBar EXCEPT ![m][c] = x]
  <2>1. \A k \in MandateId, d \in ChargeId : ~(k = m /\ d = c) =>
          payments'[k][d] = payments[k][d]
    BY <1>1 DEF Charge, TypeInv, TypeOK
  <2>2. payments'[m][c].amount = x /\ payments'[m][c] # None
    BY <1>2
  <2> DEFINE sum(k, d) ==
               IF payments[k][d] = None THEN 0 ELSE payments[k][d].amount
  <2>3. sum(m, c)' = x
    BY <2>2
  <2>4. \A k \in MandateId, d \in ChargeId :
           ~(k = m /\ d = c) => sum(k, d)' = sum(k, d)
    BY <2>1
  <2>5. /\ paidBar = [k \in MandateId |-> [d \in ChargeId |-> sum(k, d)]]
        /\ paidBar' = [k \in MandateId |-> [d \in ChargeId |-> sum(k, d)']]
    BY DEF paidBar
  <2> HIDE DEF sum
  <2>6. \A k \in MandateId :
           paidBar'[k] = IF k = m THEN [paidBar[m] EXCEPT ![c] = x]
                         ELSE paidBar[k]
    BY <2>3, <2>4, <2>5
  <2> QED
    BY <2>5, <2>6
<1>16. gross' = [gross EXCEPT ![m][s] = @ + x] /\ refundedTotal' = refundedTotal
  BY DEF Charge, refundVars
<1>17. most \in Nat /\ count \in Nat /\ (most # 0 => count <= most)
  BY <1>3, <1>4 DEF Mandate, TermsType, ChargesLeft
<1>18. Authority!Pull(m, c, s, x)
  BY <1>4, <1>5, <1>9, <1>10, <1>11, <1>12, <1>14, <1>15, <1>16, <1>17
  DEF Authority!Pull
<1> QED
  BY <1>5, <1>18 DEF AuthorityStep, Authority!Step

LEMMA RefundGivesBack ==
  ASSUME HistoryInv, NEW m \in MandateId, NEW pm \in MandateId,
         NEW c \in ChargeId, NEW x \in Amount, NEW r \in RefundId,
         Refund(m, pm, c, x, r)
  PROVE  AuthorityStep
<1>1. UNCHANGED <<now, mandates, payments, gross>>
  BY DEF Refund, chargeVars
<1>2. UNCHANGED <<phaseBar, limitBar, pullsBar, paidBar>>
  BY <1>1 DEF phaseBar, phaseOf, limitBar, pullsBar, paidBar
<1>3. /\ x > 0 /\ payments[pm][c] # None
      /\ refundedTotal[pm][c] + x <= payments[pm][c].amount
      /\ refundedTotal' = [refundedTotal EXCEPT ![pm][c] = @ + x]
  BY DEF Refund, RefundFits
<1>4. paidBar[pm][c] = payments[pm][c].amount
  BY <1>3 DEF paidBar
<1>5. Authority!GiveBack(pm, c, x)
  BY <1>1, <1>2, <1>3, <1>4 DEF Authority!GiveBack
<1> QED
  BY <1>5 DEF AuthorityStep, Authority!Step

\* Time ends exactly the mandates it expires; the token's own steps are
\* invisible to the authority.
LEMMA OutsideEnds ==
  ASSUME TypeInv, Outside
  PROVE  AuthorityStep \/ UNCHANGED Authority!vars
<1> DEFINE S == {m \in MandateId : phaseOf(m)' # phaseOf(m)}
<1>1. /\ UNCHANGED <<mandates, payments, gross, refundedTotal>>
      /\ now' >= now /\ now' \in Int /\ now \in Int
  BY DEF Outside, chargeVars, refundVars, TypeInv, TypeOK, Time
<1>2. SameView
  BY <1>1 DEF SameView, limitBar, pullsBar, paidBar
<1>3. \A m \in MandateId :
        phaseOf(m)' # phaseOf(m) =>
          phaseOf(m) \in {"live", "suspended"} /\ phaseOf(m)' = "over"
  <2> SUFFICES ASSUME NEW m \in MandateId, mandates[m] # None,
                      phaseOf(m)' # phaseOf(m)
               PROVE  phaseOf(m) \in {"live", "suspended"}
                      /\ phaseOf(m)' = "over"
    BY <1>1 DEF phaseOf
  <2>1. mandates[m].terms.expires_at \in Int /\ mandates[m].status \in Status
    BY CreatedMandate DEF Mandate, TermsType, Time
  <2> QED
    BY <1>1, <2>1 DEF phaseOf, EffectiveStatus, Status
<1>4. CASE S = {}
  <2>1. phaseBar' = phaseBar
    BY <1>4 DEF phaseBar
  <2> QED
    BY <1>2, <2>1 DEF Authority!vars, SameView
<1>5. CASE S # {}
  <2>1. phaseBar' =
          [k \in MandateId |-> IF k \in S THEN "over" ELSE phaseBar[k]]
    BY <1>3 DEF phaseBar
  <2>2. \A k \in S : phaseBar[k] \in {"live", "suspended"}
    BY <1>3 DEF phaseBar
  <2>3. Authority!End(S)
    BY <1>2, <1>5, <2>1, <2>2 DEF Authority!End, SameView
  <2> QED
    BY <2>3 DEF AuthorityStep, Authority!Step
<1> QED
  BY <1>4, <1>5

\* Every step of the contract, the ledger or the token is one the payer's
\* authority allows.
THEOREM ImplementationCorrect == Spec => ImplementsAuthority
<1>1. Init => Authority!Init
  BY BarInit
<1>2. HistoryInv /\ TypeInv' /\ [Next]_vars
        => [Authority!Step(Limits, Amount)]_(Authority!vars)
  <2> SUFFICES ASSUME HistoryInv, TypeInv', [Next]_vars
               PROVE  AuthorityStep \/ UNCHANGED Authority!vars
    BY DEF AuthorityStep
  <2>1. TypeInv
    BY DEF HistoryInv, BooksInv
  <2> QED
    BY <2>1, StepKinds, CreateGrants, StatusSwitches, ChargePulls,
       RefundGivesBack, OutsideEnds
<1> QED
  BY <1>1, <1>2, HistoryInvariance, TypeInvariance, PTL
  DEF Spec, ImplementsAuthority, Limits

-----------------------------------------------------------------------------
(* The exposure the payer is shown.                                        *)
(*                                                                         *)
(* The argument.  No sum over the receipts is needed.  What a mandate has  *)
(* collected in all is at most one amount per successful charge, and at    *)
(* most one cap for each period that has gone by and the sum of the period *)
(* at hand; a charge that opens a later period leaves a full cap behind.   *)

LEMMA Products ==
  /\ \A i, j, k \in Nat : i <= j => k * i <= k * j
  /\ \A i, j, k \in Nat : i * k < j * k => i + 1 <= j
  /\ \A i, j \in Nat : i * j \in Nat /\ i * (j + 1) = i * j + i
<1>1. \A i, j, k \in Nat : i <= j => k * i <= k * j
  OBVIOUS
<1>2. \A i, j, k \in Nat : j <= i => j * k <= i * k
  OBVIOUS
<1>3. \A i, j \in Nat : i * j \in Nat /\ i * (j + 1) = i * j + i
  OBVIOUS
<1>4. ASSUME NEW i \in Nat, NEW j \in Nat, NEW k \in Nat, i * k < j * k
      PROVE  i + 1 <= j
  <2>1. i * k \in Nat /\ j * k \in Nat
    BY <1>3
  <2>2. ~(j <= i)
    BY <1>2, <1>4, <2>1
  <2> QED
    BY <2>2
<1> QED
  BY <1>1, <1>3, <1>4

LEMMA LeastOfTwo ==
  ASSUME NEW a \in Int, NEW b \in Int
  PROVE  Min({a, b}) = IF a <= b THEN a ELSE b
<1>1. Min({a, b}) = CHOOSE x \in {a, b} : \A y \in {a, b} : x <= y
  BY DEF Min
<1> QED
  BY <1>1

LEMMA GreatestOfTwo ==
  ASSUME NEW a \in Int, NEW b \in Int
  PROVE  Max({a, b}) = IF a <= b THEN b ELSE a
<1>1. Max({a, b}) = CHOOSE x \in {a, b} : \A y \in {a, b} : x >= y
  BY DEF Max
<1> QED
  BY <1>1

\* The period of `at` is the j-th after the first.
LEMMA PeriodIndex ==
  ASSUME NEW t \in TermsType, t.period_seconds # 0,
         NEW at \in Time, t.start_at <= at
  PROVE  \E j \in Nat : PeriodStart(t, at) = t.start_at + j * t.period_seconds
<1> DEFINE d == t.period_seconds
           a == at - t.start_at
<1>1. a \in Nat /\ d \in Nat /\ d > 0
  BY WidthAssumption DEF TermsType, Time
<1>2. PeriodStart(t, at) = t.start_at + (a \div d) * d
  BY DEF PeriodStart
<1> HIDE DEF a, d
<1>3. a \div d \in Nat
  BY <1>1
<1> QED
  BY <1>2, <1>3 DEF d

\* j periods have gone by before the one the mandate stores.
AtMostCaps(m, j) ==
  LET md == mandates[m]
      t  == md.terms
  IN  /\ md.current_period_start = t.start_at + j * t.period_seconds
      /\ md.total_collected <= t.max_per_period * j + md.current_period_collected

ExposureOf(m) ==
  LET md == mandates[m]
  IN  /\ md.total_collected <= md.terms.per_charge * md.successful_charges
      /\ md.current_period_start < md.terms.expires_at
      /\ \E j \in Nat : AtMostCaps(m, j)

ExposureInv ==
  \A m \in MandateId : mandates[m] # None => ExposureOf(m)

LEMMA ExposureSame ==
  ASSUME ExposureInv, NEW k \in MandateId, SameButStatus(k)
  PROVE  (mandates[k] # None => ExposureOf(k))'
<1> SUFFICES ASSUME mandates[k] # None PROVE ExposureOf(k)'
  BY DEF SameButStatus
<1>1. ExposureOf(k)
  BY DEF ExposureInv
<1>2. PICK j \in Nat : AtMostCaps(k, j)
  BY <1>1 DEF ExposureOf
<1>3. AtMostCaps(k, j)'
  BY <1>2 DEF AtMostCaps, SameButStatus
<1> QED
  BY <1>1, <1>3 DEF ExposureOf, SameButStatus

LEMMA ExposureCreate ==
  ASSUME TypeInv, NEW m \in MandateId, NEW t \in Terms, CreateMandate(m, t)
  PROVE  ExposureOf(m)'
<1>1. /\ t \in TermsType /\ t.start_at < t.expires_at
      /\ mandates'[m] = [ terms |-> t, status |-> "Active",
              successful_charges |-> 0, total_collected |-> 0,
              current_period_start |-> t.start_at,
              current_period_collected |-> 0,
              last_charged_at |-> NeverCharged ]
  BY InputAssumption, CreateEffect DEF ValidInput, TermsType, Time
<1>2. /\ t.per_charge * 0 = 0 /\ t.max_per_period * 0 = 0
      /\ t.period_seconds * 0 = 0 /\ 0 * t.period_seconds = 0
      /\ t.start_at + 0 = t.start_at
  BY <1>1, WidthAssumption DEF TermsType, Time
<1>3. AtMostCaps(m, 0)'
  BY <1>1, <1>2 DEF AtMostCaps
<1> QED
  BY <1>1, <1>2, <1>3 DEF ExposureOf

LEMMA ExposureCharge ==
  ASSUME PeriodInv, ExposureInv, NEW m \in MandateId, NEW c \in ChargeId,
         NEW x \in Amount, Charge(m, c, x)
  PROVE  ExposureOf(m)'
<1> DEFINE md == mandates[m]
           t  == md.terms
           s  == PeriodStart(t, now)
<1>1. TypeInv /\ ChargeFacts(m, c, x) /\ md # None
  BY ChargeEffect DEF PeriodInv, ChargeFacts
<1>2. /\ md \in Mandate /\ t \in TermsType /\ t.period_seconds # 0
      /\ t.per_charge > 0 /\ t.max_per_period >= t.per_charge
  BY <1>1, CreatedMandate
<1>3. /\ t.start_at <= now /\ now < t.expires_at /\ now \in Time
      /\ x \in Nat /\ x <= t.per_charge
  <2>1. /\ t.start_at <= now /\ now < t.expires_at /\ SatisfiesRule(t, x)
    BY <1>1, <1>2 DEF ChargeFacts, ChargeAccepted, TermsType, Time
  <2>2. x \in Nat /\ now \in Time
    BY <1>1, AfterChargeType DEF TypeInv, TypeOK
  <2> QED
    BY <1>2, <2>1, <2>2 DEF SatisfiesRule, TermsType
<1>4. /\ s \in Time /\ s >= md.current_period_start
      /\ PeriodCollected(md, now) = gross[m][s]
  BY <1>1, <1>3, EffectiveSum
<1>5. s <= now
  BY <1>2, <1>3, PeriodStartBounds DEF Time
<1>6. /\ mandates'[m].terms = t
      /\ mandates'[m].successful_charges = md.successful_charges + 1
      /\ mandates'[m].total_collected = md.total_collected + x
      /\ mandates'[m].current_period_start = s
      /\ mandates'[m].current_period_collected = PeriodCollected(md, now) + x
  BY <1>1 DEF ChargeFacts, AfterCharge
<1>7. /\ md.total_collected \in Nat /\ md.successful_charges \in Nat
      /\ md.current_period_collected \in Nat /\ md.current_period_start \in Time
      /\ t.per_charge \in Nat /\ t.max_per_period \in Nat
      /\ t.period_seconds \in Nat /\ t.start_at \in Nat /\ t.expires_at \in Nat
  BY <1>2, WidthAssumption DEF Mandate, TermsType, Time
<1>8. md.current_period_collected <= t.max_per_period
  BY <1>1, <1>7 DEF PeriodInv, PeriodInvOf, PeriodBooksOf, WithinCap
<1>9. ExposureOf(m)
  BY <1>1 DEF ExposureInv
<1>10. PICK j \in Nat : AtMostCaps(m, j)
  BY <1>9 DEF ExposureOf
<1>11. PICK q \in Nat : s = t.start_at + q * t.period_seconds
  BY <1>2, <1>3, PeriodIndex
<1>12. PeriodCollected(md, now) = IF s = md.current_period_start
                                  THEN md.current_period_collected ELSE 0
  BY DEF PeriodCollected
<1>13. /\ md.current_period_start = t.start_at + j * t.period_seconds
       /\ md.total_collected <= t.max_per_period * j + md.current_period_collected
       /\ md.total_collected <= t.per_charge * md.successful_charges
  BY <1>9, <1>10 DEF AtMostCaps, ExposureOf
<1> HIDE DEF md, t, s
<1>14. mandates'[m].total_collected
         <= t.per_charge * (md.successful_charges + 1)
  BY <1>3, <1>6, <1>7, <1>13, Products
<1>15. \E i \in Nat : AtMostCaps(m, i)'
  <2>1. CASE s = md.current_period_start
    <3>1. t.max_per_period * j \in Nat
      BY <1>7, Products
    <3>2. md.total_collected + x
            <= t.max_per_period * j + (md.current_period_collected + x)
      BY <1>3, <1>7, <1>13, <3>1
    <3>3. AtMostCaps(m, j)'
      BY <1>6, <1>12, <1>13, <2>1, <3>2 DEF AtMostCaps
    <3> QED
      BY <3>3
  <2>2. CASE s # md.current_period_start
    <3>1. s > md.current_period_start
      BY <1>4, <1>7, <2>2, WidthAssumption DEF Time
    <3>2. j * t.period_seconds \in Nat /\ q * t.period_seconds \in Nat
      BY <1>7, Products
    <3>3. j + 1 <= q
      <4>1. j * t.period_seconds < q * t.period_seconds
        BY <1>7, <1>11, <1>13, <3>1, <3>2
      <4> QED
        BY <1>7, <4>1, Products
    <3>4. /\ t.max_per_period * j \in Nat /\ t.max_per_period * q \in Nat
          /\ t.max_per_period * (j + 1) = t.max_per_period * j + t.max_per_period
      BY <1>7, Products
    <3>5. t.max_per_period * (j + 1) <= t.max_per_period * q
      BY <1>7, <3>3, Products
    <3>6. md.total_collected + x <= t.max_per_period * q + (0 + x)
      BY <1>3, <1>7, <1>8, <1>13, <3>4, <3>5
    <3>7. AtMostCaps(m, q)'
      BY <1>6, <1>11, <1>12, <2>2, <3>6 DEF AtMostCaps
    <3> QED
      BY <3>7
  <2> QED
    BY <2>1, <2>2
<1>16. s < t.expires_at
  BY <1>3, <1>4, <1>5, <1>7, WidthAssumption DEF Time
<1> QED
  BY <1>6, <1>14, <1>15, <1>16 DEF ExposureOf

LEMMA ExposureStep ==
  ASSUME PeriodInv, ExposureInv, [Next]_vars
  PROVE  ExposureInv'
<1> SUFFICES ASSUME NEW k \in MandateId
             PROVE  (mandates[k] # None => ExposureOf(k))'
  BY DEF ExposureInv
<1>1. TypeInv
  BY DEF PeriodInv
<1>2. ASSUME NEW m \in MandateId, NEW t \in Terms, CreateMandate(m, t)
      PROVE  (mandates[k] # None => ExposureOf(k))'
  BY <1>1, <1>2, ExposureCreate, OtherMandates, ExposureSame
<1>3. ASSUME NEW m \in MandateId, NEW c \in ChargeId, NEW x \in Amount,
             Charge(m, c, x)
      PROVE  (mandates[k] # None => ExposureOf(k))'
  BY <1>1, <1>3, ExposureCharge, OtherMandates, ExposureSame
<1>4. ASSUME NEW m \in MandateId, StatusStep(m)
      PROVE  (mandates[k] # None => ExposureOf(k))'
  BY <1>1, <1>4, StatusEffect, ExposureSame
<1>5. CASE \/ Outside
           \/ \E m, pm \in MandateId, c \in ChargeId, x \in Amount,
                 r \in RefundId : Refund(m, pm, c, x, r)
  BY <1>1, <1>5, NoChargeSteps, ExposureSame
<1> QED
  BY <1>1, <1>2, <1>3, <1>4, <1>5, StepKinds

LEMMA ExposureInvariance == Spec => []ExposureInv
<1>1. Init => ExposureInv
  BY DEF Init, ExposureInv
<1>2. PeriodInv /\ ExposureInv /\ [Next]_vars => ExposureInv'
  BY ExposureStep
<1> QED
  BY <1>1, <1>2, PeriodInvariance, PTL DEF Spec

\* As many periods as have begun before the mandate's end are counted.
LEMMA PeriodsCovered ==
  ASSUME NEW t \in TermsType, t.period_seconds # 0,
         t.start_at < t.expires_at, NEW j \in Nat,
         t.start_at + j * t.period_seconds < t.expires_at
  PROVE  PeriodsUntilExpiry(t) \in Nat /\ j + 1 <= PeriodsUntilExpiry(t)
<1> DEFINE d == t.period_seconds
           life == t.expires_at - t.start_at
           b == life + d - 1
           k == b \div d
<1>1. /\ d \in Nat /\ d > 0 /\ life \in Nat /\ life > 0
      /\ t.start_at \in Nat /\ t.expires_at \in Nat
  BY WidthAssumption DEF TermsType, Time
<1>2. PeriodsUntilExpiry(t) = k
  BY <1>1 DEF PeriodsUntilExpiry, CeilDiv
<1>3. j * d \in Nat /\ j * d < life
  BY <1>1, Products
<1> HIDE DEF life
<1>4. b \in Nat
  BY <1>1
<1> HIDE DEF b, d
<1>5. k \in Nat /\ k * d \in Nat /\ b < k * d + d
  BY <1>1, <1>4, Products
<1> HIDE DEF k
<1>6. (j + 1) * d = j * d + d /\ (k + 1) * d = k * d + d
  BY <1>1, <1>5
<1>7. b = life + d - 1
  BY DEF b
<1>8. j * d < (k + 1) * d
  BY <1>1, <1>3, <1>5, <1>6, <1>7
<1>9. j + 1 <= k + 1
  BY <1>1, <1>5, <1>8, Products
<1>10. j # k
  BY <1>1, <1>3, <1>5, <1>7
<1> QED
  BY <1>2, <1>5, <1>9, <1>10

LEMMA CollectionCovered ==
  ASSUME TypeInv, NEW m \in MandateId, mandates[m] # None,
         PeriodInvOf(m), CompletedOf(m), ExposureOf(m)
  PROVE  /\ MaxExposure(mandates[m].terms) \in Nat
         /\ mandates[m].total_collected <= MaxExposure(mandates[m].terms)
<1> DEFINE md == mandates[m]
           t  == md.terms
           n  == PeriodsUntilExpiry(t)
<1>1. /\ md \in Mandate /\ t \in TermsType /\ t.period_seconds # 0
      /\ t.per_charge > 0 /\ t.max_per_period >= t.per_charge
      /\ t.start_at < t.expires_at
  BY CreatedMandate
<1>2. /\ md.total_collected \in Nat /\ md.successful_charges \in Nat
      /\ md.current_period_collected \in Nat /\ md.current_period_start \in Time
      /\ t.per_charge \in Nat /\ t.max_per_period \in Nat
      /\ t.max_successful_charges \in Nat
  BY <1>1 DEF Mandate, TermsType
<1>3. md.current_period_collected <= t.max_per_period
  BY <1>2 DEF PeriodInvOf, PeriodBooksOf, WithinCap
<1>4. PICK j \in Nat : AtMostCaps(m, j)
  BY DEF ExposureOf
<1>5. n \in Nat /\ j + 1 <= n
  <2>1. t.start_at + j * t.period_seconds < t.expires_at
    BY <1>4 DEF AtMostCaps, ExposureOf
  <2> QED
    BY <1>1, <2>1, PeriodsCovered
<1>6. /\ md.total_collected <= t.max_per_period * j + md.current_period_collected
      /\ md.total_collected <= t.per_charge * md.successful_charges
      /\ t.max_successful_charges # 0 =>
           md.successful_charges <= t.max_successful_charges
  BY <1>4 DEF AtMostCaps, ExposureOf, CompletedOf
<1> DEFINE byPeriod == t.max_per_period * n
           byCount == t.per_charge * t.max_successful_charges
<1>7. MaxExposure(t) = IF t.max_successful_charges = 0 THEN byPeriod
                       ELSE Min({byCount, byPeriod})
  BY DEF MaxExposure
<1> HIDE DEF md, t, n
<1>8. byPeriod \in Nat /\ byCount \in Nat
  BY <1>2, <1>5, Products
<1>9. md.total_collected <= byPeriod
  <2>1. /\ t.max_per_period * j \in Nat
        /\ t.max_per_period * (j + 1) = t.max_per_period * j + t.max_per_period
    BY <1>2, Products
  <2>2. t.max_per_period * (j + 1) <= byPeriod
    BY <1>2, <1>5, Products
  <2> HIDE DEF byPeriod
  <2> QED
    BY <1>2, <1>3, <1>6, <1>8, <2>1, <2>2
<1>10. t.max_successful_charges # 0 => md.total_collected <= byCount
  <2> SUFFICES ASSUME t.max_successful_charges # 0
               PROVE  md.total_collected <= byCount
    OBVIOUS
  <2>1. t.per_charge * md.successful_charges <= byCount
    BY <1>2, <1>6, Products
  <2>2. t.per_charge * md.successful_charges \in Nat
    BY <1>2, Products
  <2> HIDE DEF byCount
  <2> QED
    BY <1>2, <1>6, <1>8, <2>1, <2>2
<1> HIDE DEF byPeriod, byCount
<1>11. Min({byCount, byPeriod}) = IF byCount <= byPeriod THEN byCount ELSE byPeriod
  BY <1>8, LeastOfTwo
<1> QED
  BY <1>7, <1>8, <1>9, <1>10, <1>11 DEF t, md

\* The approval lives as long as the mandate.
LEMMA ApprovalOutlives ==
  ASSUME NEW at \in Nat, NEW expiry \in Nat, at < expiry,
         LedgersIn(expiry - at) <= MaxTtl
  PROVE  ApprovalLife(at, expiry) >= LedgersIn(expiry - 1 - at)
<1> DEFINE x == expiry - at
           long == x \div LedgerSeconds
           short == (x - 1) \div LedgerSeconds
<1>1. x \in Nat /\ x > 0 /\ x - 1 \in Nat /\ expiry - 1 - at = x - 1
  OBVIOUS
<1>2. Max({0, expiry - at}) = x
  BY <1>1, GreatestOfTwo
<1> HIDE DEF x
<1>3. /\ long \in Nat /\ short \in Nat
      /\ long * LedgerSeconds <= x /\ x < long * LedgerSeconds + LedgerSeconds
      /\ short * LedgerSeconds <= x - 1
  BY <1>1, ApprovalAssumption
<1> HIDE DEF long, short
<1>4. short <= long
  <2>1. /\ short * LedgerSeconds \in Nat /\ long * LedgerSeconds \in Nat
        /\ (long + 1) * LedgerSeconds = long * LedgerSeconds + LedgerSeconds
    BY <1>3, ApprovalAssumption, Products
  <2>2. short * LedgerSeconds < (long + 1) * LedgerSeconds
    BY <1>1, <1>3, <2>1, ApprovalAssumption
  <2>3. short + 1 <= long + 1
    BY <1>3, <2>2, ApprovalAssumption, Products
  <2> QED
    BY <1>3, <2>3
<1>5. /\ LedgersIn(expiry - at) = long + 1
      /\ LedgersIn(expiry - 1 - at) = short + 1
  BY <1>1 DEF LedgersIn, x, long, short
<1>6. ApprovalLife(at, expiry) = Min({long + SafetyBuffer, MaxTtl})
  BY <1>2 DEF ApprovalLife, long
<1>7. Min({long + SafetyBuffer, MaxTtl}) =
        IF long + SafetyBuffer <= MaxTtl THEN long + SafetyBuffer ELSE MaxTtl
  BY <1>3, LeastOfTwo, ApprovalAssumption
<1> QED
  BY <1>3, <1>4, <1>5, <1>6, <1>7, ApprovalAssumption

(***************************************************************************)
(* The number a payer signs for is a true ceiling of what charge() may     *)
(* ever collect, the bounded allowance covers it, and the approval that    *)
(* mandate-terms.ts and token.ts compute outlives the mandate.             *)
(***************************************************************************)
THEOREM ExposureCovers == Spec => []ExposureCoversCollection
<1>1. HistoryInv /\ ExposureInv => ExposureCoversCollection
  <2> SUFFICES ASSUME HistoryInv, ExposureInv, NEW m \in Created
               PROVE  LET t == mandates[m].terms
                      IN  /\ mandates[m].total_collected <= MaxExposure(t)
                          /\ MaxExposure(t) <= BoundedAllowance(t)
                          /\ /\ now < t.expires_at
                             /\ LedgersIn(t.expires_at - now) <= MaxTtl
                             => ApprovalLife(now, t.expires_at)
                                  >= LedgersIn(t.expires_at - 1 - now)
    BY DEF ExposureCoversCollection
  <2> DEFINE t == mandates[m].terms
  <2>1. m \in MandateId /\ mandates[m] # None
    BY DEF Created
  <2>2. TypeInv /\ PeriodInvOf(m) /\ CompletedOf(m) /\ ExposureOf(m)
    BY <2>1 DEF HistoryInv, PeriodInv, HistoryOf, ExposureInv
  <2>3. MaxExposure(t) \in Nat /\ mandates[m].total_collected <= MaxExposure(t)
    BY <2>1, <2>2, CollectionCovered
  <2>4. MaxExposure(t) <= BoundedAllowance(t)
    <3>1. \A e \in Nat : e <= e + CeilDiv(e * 100, 10000)
      BY DEF CeilDiv
    <3> QED
      BY <2>3, <3>1 DEF BoundedAllowance
  <2>5. now \in Nat /\ t.expires_at \in Nat
    BY <2>1, <2>2, CreatedMandate, WidthAssumption
    DEF TypeInv, TypeOK, TermsType, Time
  <2> QED
    BY <2>3, <2>4, <2>5, ApprovalOutlives
<1> QED
  BY <1>1, HistoryInvariance, ExposureInvariance, PTL

-----------------------------------------------------------------------------
(* The precheck mirrors the contract.                                      *)
(*                                                                         *)
(* The argument.  Both sides report the first of their checks that fires.  *)
(* The precheck's are those of charge() that need only the mandate, in the *)
(* same order and with the same conditions.                                *)

LEMMA LeastIs ==
  ASSUME NEW S, S \subseteq Int, NEW k \in S, \A i \in S : k <= i
  PROVE  Min(S) = k
<1> DEFINE P(x) == x \in S /\ \A i \in S : x <= i
<1>1. Min(S) = CHOOSE x : P(x)
  BY DEF Min
<1>2. P(k)
  OBVIOUS
<1>3. P(CHOOSE x : P(x))
  <2> HIDE DEF P
  <2> QED
    BY <1>2
<1>4. P(Min(S))
  BY <1>1, <1>3
<1>5. Min(S) \in S /\ Min(S) <= k
  BY <1>4
<1>6. k <= Min(S)
  BY <1>5
<1>7. Min(S) \in Int /\ k \in Int
  BY <1>5
<1> HIDE DEF P
<1> QED
  BY <1>5, <1>6, <1>7

LEMMA FirstFires ==
  ASSUME NEW checks, NEW n \in Nat, DOMAIN checks = 1 .. n
  PROVE  /\ (\A i \in 1 .. n : ~checks[i][1]) => FirstError(checks) = None
         /\ \A k \in 1 .. n :
              checks[k][1] /\ (\A i \in 1 .. k - 1 : ~checks[i][1])
                => FirstError(checks) = checks[k][2]
<1> DEFINE fires == {i \in DOMAIN checks : checks[i][1]}
<1>1. FirstError(checks) = IF fires = {} THEN None ELSE checks[Min(fires)][2]
  BY DEF FirstError
<1>2. ASSUME NEW k \in 1 .. n, checks[k][1], \A i \in 1 .. k - 1 : ~checks[i][1]
      PROVE  Min(fires) = k
  <2>1. k \in fires /\ \A i \in fires : k <= i
    BY <1>2
  <2>2. \A i \in fires : i \in Int
    OBVIOUS
  <2> HIDE DEF fires
  <2> QED
    BY <2>1, <2>2, LeastIs
<1>3. \A k \in 1 .. n : checks[k][1] => k \in fires
  OBVIOUS
<1>4. (\A i \in 1 .. n : ~checks[i][1]) => fires = {}
  OBVIOUS
<1> HIDE DEF fires
<1> QED
  BY <1>1, <1>2, <1>3, <1>4

LEMMA EightChecks ==
  ASSUME NEW checks, DOMAIN checks = 1 .. 8
  PROVE  FirstError(checks) =
           IF checks[1][1] THEN checks[1][2]
           ELSE IF checks[2][1] THEN checks[2][2]
           ELSE IF checks[3][1] THEN checks[3][2]
           ELSE IF checks[4][1] THEN checks[4][2]
           ELSE IF checks[5][1] THEN checks[5][2]
           ELSE IF checks[6][1] THEN checks[6][2]
           ELSE IF checks[7][1] THEN checks[7][2]
           ELSE IF checks[8][1] THEN checks[8][2]
           ELSE None
<1>1. /\ (\A i \in 1 .. 8 : ~checks[i][1]) => FirstError(checks) = None
      /\ \A k \in 1 .. 8 :
           checks[k][1] /\ (\A i \in 1 .. k - 1 : ~checks[i][1])
             => FirstError(checks) = checks[k][2]
  BY FirstFires
<1> QED
  BY <1>1

LEMMA ThirteenChecks ==
  ASSUME NEW checks, DOMAIN checks = 1 .. 13
  PROVE  FirstError(checks) =
           IF checks[1][1] THEN checks[1][2]
           ELSE IF checks[2][1] THEN checks[2][2]
           ELSE IF checks[3][1] THEN checks[3][2]
           ELSE IF checks[4][1] THEN checks[4][2]
           ELSE IF checks[5][1] THEN checks[5][2]
           ELSE IF checks[6][1] THEN checks[6][2]
           ELSE IF checks[7][1] THEN checks[7][2]
           ELSE IF checks[8][1] THEN checks[8][2]
           ELSE IF checks[9][1] THEN checks[9][2]
           ELSE IF checks[10][1] THEN checks[10][2]
           ELSE IF checks[11][1] THEN checks[11][2]
           ELSE IF checks[12][1] THEN checks[12][2]
           ELSE IF checks[13][1] THEN checks[13][2]
           ELSE None
<1>1. /\ (\A i \in 1 .. 13 : ~checks[i][1]) => FirstError(checks) = None
      /\ \A k \in 1 .. 13 :
           checks[k][1] /\ (\A i \in 1 .. k - 1 : ~checks[i][1])
             => FirstError(checks) = checks[k][2]
  BY FirstFires
<1> QED
  BY <1>1

LEMMA PrecheckErrors ==
  ASSUME NEW md, NEW amount, NEW at
  PROVE  PrecheckCharge(md, amount, at) =
    LET t == md.terms
    IN IF md.status # "Active"
        THEN StatusError(md.status)
      ELSE IF at < t.start_at
        THEN "ChargeBeforeStart"
      ELSE IF at >= t.expires_at
        THEN "MandateExpired"
      ELSE IF amount <= 0
        THEN "InvalidAmount"
      ELSE IF (IF t.rule = "Fixed" THEN amount # t.per_charge
                   ELSE amount > t.per_charge)
        THEN "AmountExceedsChargeLimit"
      ELSE IF (/\ md.last_charged_at # NeverCharged
                   /\ at < md.last_charged_at + t.min_interval_seconds)
        THEN "ChargeTooSoon"
      ELSE IF CountReached(md)
        THEN "ChargeCountExceeded"
      ELSE IF PeriodSum(md, at) + amount > t.max_per_period
        THEN "AmountExceedsPeriodLimit"
      ELSE None
<1> DEFINE t == md.terms
           p1 == md.status # "Active"
           p2 == at < t.start_at
           p3 == at >= t.expires_at
           p4 == amount <= 0
           p5 == IF t.rule = "Fixed" THEN amount # t.per_charge
           ELSE amount > t.per_charge
           p6 == /\ md.last_charged_at # NeverCharged
           /\ at < md.last_charged_at + t.min_interval_seconds
           p7 == CountReached(md)
           p8 == PeriodSum(md, at) + amount > t.max_per_period
           e1 == StatusError(md.status)
           checks == <<
             <<p1, e1>>,
             <<p2, "ChargeBeforeStart">>,
             <<p3, "MandateExpired">>,
             <<p4, "InvalidAmount">>,
             <<p5, "AmountExceedsChargeLimit">>,
             <<p6, "ChargeTooSoon">>,
             <<p7, "ChargeCountExceeded">>,
             <<p8, "AmountExceedsPeriodLimit">> >>
<1>1. PrecheckCharge(md, amount, at) = FirstError(checks)
  BY DEF PrecheckCharge
<1> HIDE DEF p1, p2, p3, p4, p5, p6, p7, p8, e1
<1>2. DOMAIN checks = 1 .. 8
  OBVIOUS
<1>3. /\ (checks[1][1] <=> p1) /\ checks[1][2] = e1
      /\ (checks[2][1] <=> p2) /\ checks[2][2] = "ChargeBeforeStart"
      /\ (checks[3][1] <=> p3) /\ checks[3][2] = "MandateExpired"
      /\ (checks[4][1] <=> p4) /\ checks[4][2] = "InvalidAmount"
      /\ (checks[5][1] <=> p5) /\ checks[5][2] = "AmountExceedsChargeLimit"
      /\ (checks[6][1] <=> p6) /\ checks[6][2] = "ChargeTooSoon"
      /\ (checks[7][1] <=> p7) /\ checks[7][2] = "ChargeCountExceeded"
      /\ (checks[8][1] <=> p8) /\ checks[8][2] = "AmountExceedsPeriodLimit"
  OBVIOUS
<1> HIDE DEF checks
<1>4. FirstError(checks) =
        IF p1 THEN e1
        ELSE IF p2 THEN "ChargeBeforeStart"
        ELSE IF p3 THEN "MandateExpired"
        ELSE IF p4 THEN "InvalidAmount"
        ELSE IF p5 THEN "AmountExceedsChargeLimit"
        ELSE IF p6 THEN "ChargeTooSoon"
        ELSE IF p7 THEN "ChargeCountExceeded"
        ELSE IF p8 THEN "AmountExceedsPeriodLimit"
        ELSE None
  BY <1>2, <1>3, EightChecks
<1> QED
  BY <1>1, <1>4 DEF p1, p2, p3, p4, p5, p6, p7, p8, e1

LEMMA ChargeErrors ==
  ASSUME NEW m, NEW c, NEW amount
  PROVE  ChargeError(m, c, amount) =
    LET md == mandates[m]
        t == md.terms
        status == EffectiveStatus(md, now)
        next == md.last_charged_at + t.min_interval_seconds
        paid == PeriodCollected(md, now) + amount
    IN IF status # "Active"
        THEN StatusError(status)
      ELSE IF now < t.start_at
        THEN "ChargeBeforeStart"
      ELSE IF now >= t.expires_at
        THEN "MandateExpired"
      ELSE IF HasUsedCharge(m, c)
        THEN "DuplicateCharge"
      ELSE IF amount <= 0
        THEN "InvalidAmount"
      ELSE IF ~SatisfiesRule(t, amount)
        THEN "AmountExceedsChargeLimit"
      ELSE IF md.last_charged_at # NeverCharged /\ next > MaxU64
        THEN "ArithmeticOverflow"
      ELSE IF md.last_charged_at # NeverCharged /\ now < next
        THEN "ChargeTooSoon"
      ELSE IF ~ChargesLeft(md)
        THEN "ChargeCountExceeded"
      ELSE IF paid > MaxI128
        THEN "ArithmeticOverflow"
      ELSE IF paid > t.max_per_period
        THEN "AmountExceedsPeriodLimit"
      ELSE IF allowance[AssetOf[m]][PayerOf[m]] < amount
        THEN "InsufficientAllowance"
      ELSE IF balance[AssetOf[m]][PayerOf[m]] < amount
        THEN "InsufficientBalance"
      ELSE None
<1> DEFINE md == mandates[m]
           t == md.terms
           status == EffectiveStatus(md, now)
           next == md.last_charged_at + t.min_interval_seconds
           paid == PeriodCollected(md, now) + amount
           p1 == status # "Active"
           p2 == now < t.start_at
           p3 == now >= t.expires_at
           p4 == HasUsedCharge(m, c)
           p5 == amount <= 0
           p6 == ~SatisfiesRule(t, amount)
           p7 == md.last_charged_at # NeverCharged /\ next > MaxU64
           p8 == md.last_charged_at # NeverCharged /\ now < next
           p9 == ~ChargesLeft(md)
           p10 == paid > MaxI128
           p11 == paid > t.max_per_period
           p12 == allowance[AssetOf[m]][PayerOf[m]] < amount
           p13 == balance[AssetOf[m]][PayerOf[m]] < amount
           e1 == StatusError(status)
           checks == <<
             <<p1, e1>>,
             <<p2, "ChargeBeforeStart">>,
             <<p3, "MandateExpired">>,
             <<p4, "DuplicateCharge">>,
             <<p5, "InvalidAmount">>,
             <<p6, "AmountExceedsChargeLimit">>,
             <<p7, "ArithmeticOverflow">>,
             <<p8, "ChargeTooSoon">>,
             <<p9, "ChargeCountExceeded">>,
             <<p10, "ArithmeticOverflow">>,
             <<p11, "AmountExceedsPeriodLimit">>,
             <<p12, "InsufficientAllowance">>,
             <<p13, "InsufficientBalance">> >>
<1>1. ChargeError(m, c, amount) = FirstError(checks)
  BY DEF ChargeError
<1> HIDE DEF p1, p2, p3, p4, p5, p6, p7, p8, p9, p10, p11, p12, p13, e1
<1>2. DOMAIN checks = 1 .. 13
  OBVIOUS
<1>3. /\ (checks[1][1] <=> p1) /\ checks[1][2] = e1
      /\ (checks[2][1] <=> p2) /\ checks[2][2] = "ChargeBeforeStart"
      /\ (checks[3][1] <=> p3) /\ checks[3][2] = "MandateExpired"
      /\ (checks[4][1] <=> p4) /\ checks[4][2] = "DuplicateCharge"
      /\ (checks[5][1] <=> p5) /\ checks[5][2] = "InvalidAmount"
      /\ (checks[6][1] <=> p6) /\ checks[6][2] = "AmountExceedsChargeLimit"
      /\ (checks[7][1] <=> p7) /\ checks[7][2] = "ArithmeticOverflow"
      /\ (checks[8][1] <=> p8) /\ checks[8][2] = "ChargeTooSoon"
      /\ (checks[9][1] <=> p9) /\ checks[9][2] = "ChargeCountExceeded"
      /\ (checks[10][1] <=> p10) /\ checks[10][2] = "ArithmeticOverflow"
      /\ (checks[11][1] <=> p11) /\ checks[11][2] = "AmountExceedsPeriodLimit"
      /\ (checks[12][1] <=> p12) /\ checks[12][2] = "InsufficientAllowance"
      /\ (checks[13][1] <=> p13) /\ checks[13][2] = "InsufficientBalance"
  OBVIOUS
<1> HIDE DEF checks
<1>4. FirstError(checks) =
        IF p1 THEN e1
        ELSE IF p2 THEN "ChargeBeforeStart"
        ELSE IF p3 THEN "MandateExpired"
        ELSE IF p4 THEN "DuplicateCharge"
        ELSE IF p5 THEN "InvalidAmount"
        ELSE IF p6 THEN "AmountExceedsChargeLimit"
        ELSE IF p7 THEN "ArithmeticOverflow"
        ELSE IF p8 THEN "ChargeTooSoon"
        ELSE IF p9 THEN "ChargeCountExceeded"
        ELSE IF p10 THEN "ArithmeticOverflow"
        ELSE IF p11 THEN "AmountExceedsPeriodLimit"
        ELSE IF p12 THEN "InsufficientAllowance"
        ELSE IF p13 THEN "InsufficientBalance"
        ELSE None
  BY <1>2, <1>3, ThirteenChecks
<1> QED
  BY <1>1, <1>4 DEF p1, p2, p3, p4, p5, p6, p7, p8, p9, p10, p11, p12, p13, e1

\* What both sides compare, of a created mandate.
LEMMA ReadTypes ==
  ASSUME TypeInv, NEW m \in MandateId, mandates[m] # None
  PROVE  LET md == mandates[m]
             t  == md.terms
         IN  /\ now \in Int /\ now <= MaxU64 /\ MaxU64 \in Int /\ MaxI128 \in Int
             /\ t.rule \in {"Fixed", "Variable"}
             /\ t.per_charge \in Int /\ t.max_per_period \in Int
             /\ t.max_per_period <= MaxI128
             /\ t.start_at \in Int /\ t.expires_at \in Int
             /\ t.min_interval_seconds \in Int
             /\ t.max_successful_charges \in Nat
             /\ md.last_charged_at \in Int /\ md.successful_charges \in Nat
             /\ PeriodCollected(md, now) \in Int
             /\ Read(m, now) = [md EXCEPT !.status = EffectiveStatus(md, now)]
             /\ EffectiveStatus(md, now) \in Status \cup {"Expired"}
             /\ allowance[AssetOf[m]][PayerOf[m]] \in Int
             /\ balance[AssetOf[m]][PayerOf[m]] \in Int
<1>1. /\ mandates[m] \in Mandate /\ mandates[m].terms \in TermsType
      /\ mandates[m].terms.max_per_period <= MaxI128
  BY CreatedMandate, InputAssumption DEF Mandate
<1>2. now \in Int /\ now <= MaxU64 /\ MaxU64 \in Int /\ MaxI128 \in Int
  BY WidthAssumption DEF TypeInv, TypeOK, Time
<1>3. /\ allowance[AssetOf[m]][PayerOf[m]] \in Int
      /\ balance[AssetOf[m]][PayerOf[m]] \in Int
  BY IdAssumption DEF TypeInv, TypeOK
<1>4. /\ mandates[m].last_charged_at \in Int
      /\ PeriodCollected(mandates[m], now) \in Int
  BY <1>1 DEF Mandate, Time, NeverCharged, PeriodCollected
<1>5. EffectiveStatus(mandates[m], now) \in Status \cup {"Expired"}
  BY <1>1 DEF Mandate, EffectiveStatus
<1> QED
  BY <1>1, <1>2, <1>3, <1>4, <1>5, WidthAssumption DEF Mandate, TermsType, Time, Read

LEMMA ReadSame ==
  ASSUME TypeInv, NEW m \in MandateId, mandates[m] # None
  PROVE  LET md == Read(m, now)
         IN  /\ md.terms = mandates[m].terms
             /\ md.status = EffectiveStatus(mandates[m], now)
             /\ md.last_charged_at = mandates[m].last_charged_at
             /\ CountReached(md) <=> ~ChargesLeft(mandates[m])
             /\ PeriodSum(md, now) = PeriodCollected(mandates[m], now)
<1> DEFINE md == Read(m, now)
           old == mandates[m]
<1>1. old \in Mandate /\ old.terms \in TermsType
  BY CreatedMandate
<1>2. /\ md.terms = old.terms /\ md.status = EffectiveStatus(old, now)
      /\ md.last_charged_at = old.last_charged_at
      /\ md.successful_charges = old.successful_charges
      /\ md.current_period_start = old.current_period_start
      /\ md.current_period_collected = old.current_period_collected
  BY <1>1 DEF Mandate, Read
<1> HIDE DEF md
<1>3. CountReached(md) <=> ~ChargesLeft(old)
  BY <1>1, <1>2 DEF CountReached, ChargesLeft, Mandate, TermsType
<1>4. PeriodSum(md, now) = PeriodCollected(old, now)
  BY <1>2 DEF PeriodSum, PeriodCollected
<1> QED
  BY <1>2, <1>3, <1>4 DEF md

(***************************************************************************)
(* precheckCharge of the API turns a charge away exactly when charge() of  *)
(* the contract would for a reason that needs only the mandate, and with   *)
(* its error, for every mandate, amount and instant.                       *)
(***************************************************************************)
THEOREM PrecheckMirrors == Spec => []PrecheckAgrees
<1>1. ASSUME TypeInv, NEW m \in Created, NEW c \in ChargeId, NEW x \in Amount
      PROVE  LET error == ChargeError(m, c, x)
                 early == PrecheckCharge(Read(m, now), x, now)
             IN  /\ error = None <=> ChargeAccepted(m, c, x)
                 /\ IF early = None THEN error \in NotMirrored
                    ELSE error \in {early, "DuplicateCharge", "ArithmeticOverflow"}
  <2> DEFINE md == mandates[m]
             t  == md.terms
             status == EffectiveStatus(md, now)
             next == md.last_charged_at + t.min_interval_seconds
             paid == PeriodCollected(md, now) + x
             error == ChargeError(m, c, x)
             early == PrecheckCharge(Read(m, now), x, now)
  <2>1. m \in MandateId /\ md # None /\ x \in Int
    BY <1>1, InputAssumption DEF Created
  <2>2. /\ now \in Int /\ now <= MaxU64 /\ MaxU64 \in Int /\ MaxI128 \in Int
        /\ t.rule \in {"Fixed", "Variable"}
        /\ t.per_charge \in Int /\ t.max_per_period \in Int
        /\ t.max_per_period <= MaxI128
        /\ t.start_at \in Int /\ t.expires_at \in Int
        /\ next \in Int /\ paid \in Int
        /\ allowance[AssetOf[m]][PayerOf[m]] \in Int
        /\ balance[AssetOf[m]][PayerOf[m]] \in Int
    BY <1>1, <2>1, ReadTypes
  <2>3. /\ status \in Status \cup {"Expired"}
        /\ status # "Active" => StatusError(status) \in Error
    BY <1>1, <2>1, ReadTypes DEF Status, StatusError, Error
  <2> DEFINE e1 == StatusError(status)
  <2>4. status # "Active" => e1 \in Error
    BY <2>3
  <2> DEFINE tooMuch == ~SatisfiesRule(t, x)
             tooSoon == md.last_charged_at # NeverCharged /\ now < next
             tooLate == md.last_charged_at # NeverCharged /\ next > MaxU64
             noneLeft == ~ChargesLeft(md)
             used == HasUsedCharge(m, c)
             poor == allowance[AssetOf[m]][PayerOf[m]] < x
             broke == balance[AssetOf[m]][PayerOf[m]] < x
  <2>5. error =
          IF status # "Active" THEN e1
          ELSE IF now < t.start_at THEN "ChargeBeforeStart"
          ELSE IF now >= t.expires_at THEN "MandateExpired"
          ELSE IF used THEN "DuplicateCharge"
          ELSE IF x <= 0 THEN "InvalidAmount"
          ELSE IF tooMuch THEN "AmountExceedsChargeLimit"
          ELSE IF tooLate THEN "ArithmeticOverflow"
          ELSE IF tooSoon THEN "ChargeTooSoon"
          ELSE IF noneLeft THEN "ChargeCountExceeded"
          ELSE IF paid > MaxI128 THEN "ArithmeticOverflow"
          ELSE IF paid > t.max_per_period THEN "AmountExceedsPeriodLimit"
          ELSE IF poor THEN "InsufficientAllowance"
          ELSE IF broke THEN "InsufficientBalance" ELSE None
    BY ChargeErrors
  <2>6. (IF t.rule = "Fixed" THEN x # t.per_charge ELSE x > t.per_charge)
          <=> tooMuch
    BY <2>1, <2>2 DEF SatisfiesRule
  <2>7. early =
          IF status # "Active" THEN e1
          ELSE IF now < t.start_at THEN "ChargeBeforeStart"
          ELSE IF now >= t.expires_at THEN "MandateExpired"
          ELSE IF x <= 0 THEN "InvalidAmount"
          ELSE IF tooMuch THEN "AmountExceedsChargeLimit"
          ELSE IF tooSoon THEN "ChargeTooSoon"
          ELSE IF noneLeft THEN "ChargeCountExceeded"
          ELSE IF paid > t.max_per_period THEN "AmountExceedsPeriodLimit"
          ELSE None
    BY <1>1, <2>1, <2>6, PrecheckErrors, ReadSame
  <2>8. ChargeAccepted(m, c, x) <=>
          /\ status = "Active" /\ ~(now < t.start_at) /\ ~(now >= t.expires_at)
          /\ ~used /\ ~(x <= 0) /\ ~tooMuch /\ ~tooLate /\ ~tooSoon /\ ~noneLeft
          /\ ~(paid > MaxI128) /\ ~(paid > t.max_per_period) /\ ~poor /\ ~broke
    BY <2>1, <2>2 DEF ChargeAccepted, IntervalElapsed
  <2>9. tooLate => tooSoon
    BY <2>2
  <2>10. paid > MaxI128 => paid > t.max_per_period
    BY <2>2
  <2> HIDE DEF error, early, tooMuch, tooSoon, tooLate, noneLeft, used, poor,
               broke, paid, e1, status, t, md, next
  <2>11. \A e \in Error : e # None
    BY ErrorAssumption
  <2>12. (error = None) <=> ChargeAccepted(m, c, x)
    <3>1. status # "Active" => error # None
      BY <2>4, <2>5, <2>11
    <3>2. status = "Active" => ((error = None) <=> ChargeAccepted(m, c, x))
      BY <2>5, <2>8, <2>11 DEF Error
    <3> QED
      BY <2>8, <3>1, <3>2
  <2>13. CASE early = None
    <3>1. status = "Active"
      BY <2>4, <2>7, <2>11, <2>13
    <3>2. error \in NotMirrored
      BY <2>5, <2>7, <2>9, <2>10, <2>11, <2>13, <3>1 DEF Error, NotMirrored
    <3> QED
      BY <2>12, <2>13, <3>2 DEF error, early
  <2>14. CASE early # None
    <3>1. error \in {early, "DuplicateCharge", "ArithmeticOverflow"}
      BY <2>5, <2>7, <2>14
    <3> QED
      BY <2>12, <2>14, <3>1 DEF error, early
  <2> QED
    BY <2>13, <2>14
<1>2. TypeInv => PrecheckAgrees
  BY <1>1 DEF PrecheckAgrees
<1> QED
  BY <1>2, TypeInvariance, PTL

-----------------------------------------------------------------------------
(* The dashboard: the search of the next charge date stops within two      *)
(* periods, at the first instant from which a charge passes the checks.    *)

ProbeOf(t) == IF t.rule = "Fixed" THEN t.per_charge ELSE 1
FirstAllowed(md) ==
  IF md.last_charged_at = NeverCharged THEN md.terms.start_at
  ELSE Max({md.terms.start_at,
            md.last_charged_at + md.terms.min_interval_seconds})
NextPeriod(md, at) == PeriodUsage(md, at).periodStart + md.terms.period_seconds
HasRoom(md, at) ==
  PeriodUsage(md, at).collected + ProbeOf(md.terms) <= md.terms.max_per_period

\* The iteration of deriveNextEligibleChargeDate: it stops at the first
\* instant the interval allows, or at the period after it.
LEMMA NextDate ==
  ASSUME NEW md
  PROVE  LET t     == md.terms
             first == FirstAllowed(md)
             next  == NextPeriod(md, first)
             dead  == md.status # "Active" \/ CountReached(md)
         IN  /\ first >= t.expires_at \/ HasRoom(md, first) =>
                  NextEligibleChargeDate(md) =
                    IF dead \/ first >= t.expires_at THEN None ELSE first
             /\ /\ ~(first >= t.expires_at \/ HasRoom(md, first))
                /\ next >= t.expires_at \/ HasRoom(md, next)
                => NextEligibleChargeDate(md) =
                     IF dead \/ next >= t.expires_at THEN None ELSE next
<1> DEFINE t     == md.terms
           first == FirstAllowed(md)
           next  == NextPeriod(md, first)
           body(g) == [i \in 0 .. 4 |->
             IF i = 0 THEN first ELSE NextPeriod(md, g[i - 1])]
           candidate == CHOOSE g : g = body(g)
           Stop(at) ==
             \/ at >= t.expires_at
             \/ HasRoom(md, at)
           stops == {i \in 0 .. 3 : Stop(candidate[i])}
           date  == candidate[IF stops = {} THEN 4 ELSE Min(stops)]
<1>1. NextEligibleChargeDate(md) =
        IF md.status # "Active" \/ CountReached(md) \/ date >= t.expires_at
        THEN None ELSE date
  BY DEF NextEligibleChargeDate, FirstAllowed, NextPeriod, ProbeOf, HasRoom
<1> HIDE DEF first, next, Stop
<1>2. candidate = body(candidate)
  <2> DEFINE c1 == NextPeriod(md, first)
             c2 == NextPeriod(md, c1)
             c3 == NextPeriod(md, c2)
             c4 == NextPeriod(md, c3)
             f == [i \in 0 .. 4 |->
                     IF i = 0 THEN first ELSE IF i = 1 THEN c1
                     ELSE IF i = 2 THEN c2 ELSE IF i = 3 THEN c3 ELSE c4]
  <2>1. \A i \in 0 .. 4 : f[i] = IF i = 0 THEN first ELSE NextPeriod(md, f[i - 1])
    <3> HIDE DEF c4
    <3>1. f[0] = first /\ f[1] = c1 /\ f[2] = c2 /\ f[3] = c3 /\ f[4] = c4
      OBVIOUS
    <3>2. \A i \in 0 .. 4 : i = 0 \/ i = 1 \/ i = 2 \/ i = 3 \/ i = 4
      OBVIOUS
    <3> HIDE DEF f
    <3> QED
      BY <3>1, <3>2 DEF c4
  <2>2. f = body(f)
    BY <2>1
  <2> HIDE DEF f, body
  <2> QED
    BY <2>2
<1>3. candidate[0] = first /\ candidate[1] = next
  <2> HIDE DEF candidate
  <2>1. /\ candidate[0] = first
        /\ candidate[1] = NextPeriod(md, candidate[0])
    BY <1>2
  <2> QED
    BY <2>1 DEF next
<1> HIDE DEF candidate
<1>4. stops \subseteq Int /\ \A i \in stops : 0 <= i
  OBVIOUS
<1>5. (0 \in stops <=> Stop(first)) /\ (1 \in stops <=> Stop(next))
  BY <1>3
<1>6. Stop(first) => date = first
  BY <1>3, <1>4, <1>5, LeastIs
<1>7. ~Stop(first) /\ Stop(next) => date = next
  <2> SUFFICES ASSUME ~Stop(first), Stop(next) PROVE date = next
    OBVIOUS
  <2>1. 1 \in stops /\ 0 \notin stops
    BY <1>5
  <2>2. \A i \in stops : 1 <= i
    BY <1>4, <2>1
  <2>3. Min(stops) = 1
    BY <1>4, <2>1, <2>2, LeastIs
  <2> HIDE DEF stops
  <2> QED
    BY <1>3, <2>1, <2>3
<1> HIDE DEF date
<1> QED
  BY <1>1, <1>6, <1>7 DEF Stop, first, next

\* Where the period of `at` ends, and that nothing is between two periods.
LEMMA PeriodEnds ==
  ASSUME NEW t \in TermsType, t.period_seconds # 0,
         NEW x \in Time, t.start_at <= x
  PROVE  LET s == PeriodStart(t, x)
             e == s + t.period_seconds
         IN  /\ x < e /\ e > s
             /\ \A y \in Time : x <= y /\ y < e => PeriodStart(t, y) = s
             /\ e \in Time => PeriodStart(t, e) = e
<1> DEFINE s == PeriodStart(t, x)
           d == t.period_seconds
           q == (x - t.start_at) \div d
<1>1. d \in Nat /\ d > 0 /\ t.start_at \in Nat /\ x \in Nat /\ x - t.start_at \in Nat
  BY WidthAssumption DEF TermsType, Time
<1>2. s = t.start_at + q * d
  BY DEF PeriodStart
<1>3. q \in Nat /\ q * d \in Nat /\ q * d <= x - t.start_at
      /\ x - t.start_at < q * d + d
  BY <1>1, Products
<1> HIDE DEF d, q, s
<1>4. ASSUME NEW y \in Time, t.start_at <= y, NEW k \in Nat,
             t.start_at + k * d <= y, y < t.start_at + k * d + d
      PROVE  PeriodStart(t, y) = t.start_at + k * d
  <2> DEFINE r == (y - t.start_at) \div d
  <2>1. y \in Nat /\ y - t.start_at \in Nat
    BY <1>1, <1>4, WidthAssumption DEF Time
  <2>2. PeriodStart(t, y) = t.start_at + r * d
    BY DEF PeriodStart, d
  <2>3. /\ r \in Nat /\ r * d \in Nat
        /\ r * d <= y - t.start_at /\ y - t.start_at < r * d + d
    BY <1>1, <2>1, Products
  <2> HIDE DEF r
  <2>4. /\ k * d \in Nat /\ (k + 1) * d = k * d + d /\ (r + 1) * d = r * d + d
    BY <1>1, <2>3, Products
  <2>5. r * d < (k + 1) * d /\ k * d < (r + 1) * d
    BY <1>1, <1>4, <2>1, <2>3, <2>4
  <2>6. r + 1 <= k + 1 /\ k + 1 <= r + 1
    BY <1>1, <2>3, <2>5, Products
  <2> QED
    BY <2>2, <2>3, <2>6
<1>5. x < s + d /\ s + d > s /\ s <= x
  BY <1>1, <1>2, <1>3
<1>6. \A y \in Time : x <= y /\ y < s + d => PeriodStart(t, y) = s
  <2> SUFFICES ASSUME NEW y \in Time, x <= y, y < s + d
               PROVE  PeriodStart(t, y) = s
    OBVIOUS
  <2>1. y \in Nat
    BY WidthAssumption DEF Time
  <2>2. t.start_at <= y /\ t.start_at + q * d <= y /\ y < t.start_at + q * d + d
    BY <1>1, <1>2, <1>3, <2>1
  <2> QED
    BY <1>2, <1>3, <1>4, <2>2
<1>7. s + d \in Time => PeriodStart(t, s + d) = s + d
  <2> SUFFICES ASSUME s + d \in Time PROVE PeriodStart(t, s + d) = s + d
    OBVIOUS
  <2>1. (q + 1) * d = q * d + d /\ q + 1 \in Nat
    BY <1>1, <1>3
  <2>2. /\ s + d = t.start_at + (q + 1) * d
        /\ t.start_at <= s + d /\ s + d < t.start_at + (q + 1) * d + d
    BY <1>1, <1>2, <1>3, <2>1
  <2>3. t.start_at + (q + 1) * d <= s + d
    BY <1>1, <1>3, <2>1, <2>2
  <2> QED
    BY <1>4, <2>1, <2>2, <2>3
<1> QED
  BY <1>5, <1>6, <1>7 DEF s, d

\* What is known of a mandate that was read, at any instant from now on.
ReadFacts(m) ==
  LET md == Read(m, now)
      t  == md.terms
  IN  /\ t = mandates[m].terms /\ t \in TermsType
      /\ t.period_seconds # 0 /\ t.per_charge > 0
      /\ t.max_per_period >= t.per_charge /\ t.start_at < t.expires_at
      /\ md.status = EffectiveStatus(mandates[m], now)
      /\ md.status \in Status \cup {"Expired"}
      /\ md.last_charged_at = mandates[m].last_charged_at
      /\ md.last_charged_at \in Time \cup {NeverCharged}
      /\ md.current_period_start = mandates[m].current_period_start
      /\ md.current_period_start \in Time
      /\ md.current_period_collected = mandates[m].current_period_collected
      /\ md.current_period_collected \in Nat
      /\ md.last_charged_at = NeverCharged =>
           md.current_period_start = t.start_at
      /\ md.last_charged_at # NeverCharged =>
           /\ t.start_at <= md.last_charged_at /\ md.last_charged_at <= now
           /\ md.current_period_start = PeriodStart(t, md.last_charged_at)

LEMMA ReadFactsHold ==
  ASSUME PeriodInv, NEW m \in MandateId, mandates[m] # None
  PROVE  ReadFacts(m)
<1> DEFINE md == Read(m, now)
           old == mandates[m]
<1>1. /\ old \in Mandate /\ old.terms \in TermsType /\ TypeInv
      /\ old.terms.period_seconds # 0 /\ old.terms.per_charge > 0
      /\ old.terms.max_per_period >= old.terms.per_charge
      /\ old.terms.start_at < old.terms.expires_at
  BY CreatedMandate DEF PeriodInv
<1>2. EffectiveStatus(old, now) \in Status \cup {"Expired"}
  BY <1>1, ReadTypes
<1>3. /\ md.terms = old.terms /\ md.status = EffectiveStatus(old, now)
      /\ md.last_charged_at = old.last_charged_at
      /\ md.current_period_start = old.current_period_start
      /\ md.current_period_collected = old.current_period_collected
  BY <1>1 DEF Mandate, Read
<1> HIDE DEF md
<1>4. PeriodBooksOf(m)
  BY DEF PeriodInv, PeriodInvOf
<1> QED
  BY <1>1, <1>2, <1>3, <1>4 DEF PeriodBooksOf, Mandate, ReadFacts, md

\* The meter of a mandate that was read.
LEMMA MeterReads ==
  ASSUME NEW md, md.terms \in TermsType, NEW at \in Time,
         md.terms.start_at <= at
  PROVE  /\ PeriodUsage(md, at).periodStart = PeriodStart(md.terms, at)
         /\ PeriodUsage(md, at).collected = PeriodSum(md, at)
<1>1. Max({at, md.terms.start_at}) = at
  BY GreatestOfTwo, WidthAssumption DEF TermsType, Time
<1> QED
  BY <1>1 DEF PeriodUsage, PeriodSum

\* From the first allowed instant on, the period is not earlier than the one
\* the mandate stores.
LEMMA PeriodsGoOn ==
  ASSUME NEW m \in MandateId, ReadFacts(m), NEW at \in Time,
         \/ FirstAllowed(Read(m, now)) <= at
         \/ now <= at /\ now \in Time /\ Read(m, now).terms.start_at <= at
  PROVE  LET md == Read(m, now)
         IN  /\ md.terms.start_at <= at
             /\ PeriodStart(md.terms, at) \in Time
             /\ md.current_period_start <= PeriodStart(md.terms, at)
             /\ PeriodStart(md.terms, at) <= at
<1> DEFINE md == Read(m, now)
           t == md.terms
<1>1. /\ t.start_at \in Nat /\ t.min_interval_seconds \in Nat /\ at \in Nat
      /\ t.start_at \in Time
  BY WidthAssumption DEF ReadFacts, TermsType, Time
<1>2. /\ t.start_at <= at
      /\ md.last_charged_at # NeverCharged => md.last_charged_at <= at
  <2>1. CASE md.last_charged_at = NeverCharged
    BY <2>1 DEF FirstAllowed
  <2>2. CASE md.last_charged_at # NeverCharged
    <3>1. md.last_charged_at \in Nat
      BY <2>2, WidthAssumption DEF ReadFacts, Time
    <3>2. FirstAllowed(md) =
            IF t.start_at <= md.last_charged_at + t.min_interval_seconds
            THEN md.last_charged_at + t.min_interval_seconds ELSE t.start_at
      BY <1>1, <2>2, <3>1, GreatestOfTwo DEF FirstAllowed
    <3>3. md.last_charged_at <= now
      BY <2>2 DEF ReadFacts
    <3> HIDE DEF md, t
    <3>4. CASE FirstAllowed(md) <= at
      BY <1>1, <3>1, <3>2, <3>4
    <3>5. CASE now <= at /\ now \in Time /\ t.start_at <= at
      BY <1>1, <3>1, <3>3, <3>5, WidthAssumption DEF Time
    <3> QED
      BY <3>4, <3>5 DEF md, t
  <2> QED
    BY <2>1, <2>2
<1>3. /\ PeriodStart(t, at) \in Time /\ PeriodStart(t, at) <= at
      /\ t.start_at <= PeriodStart(t, at)
  BY <1>1, <1>2, PeriodStartBounds DEF ReadFacts
<1>4. CASE md.last_charged_at = NeverCharged
  BY <1>2, <1>3, <1>4 DEF ReadFacts
<1>5. CASE md.last_charged_at # NeverCharged
  <2>1. md.last_charged_at \in Time /\ t.start_at <= md.last_charged_at
    BY <1>5 DEF ReadFacts
  <2>2. PeriodStart(t, md.last_charged_at) <= PeriodStart(t, at)
    BY <1>2, <1>5, <2>1, PeriodStartBounds DEF ReadFacts
  <2> QED
    BY <1>2, <1>3, <1>5, <2>2 DEF ReadFacts
<1> QED
  BY <1>4, <1>5

\* The first instant is that of the start or of the interval, the later.
LEMMA FirstAllowedIs ==
  ASSUME NEW m \in MandateId, ReadFacts(m)
  PROVE  LET md == Read(m, now)
             t  == md.terms
         IN  /\ FirstAllowed(md) \in Nat /\ t.start_at <= FirstAllowed(md)
             /\ \A at \in Time :
                  FirstAllowed(md) <= at <=>
                    /\ t.start_at <= at
                    /\ md.last_charged_at # NeverCharged =>
                         md.last_charged_at + t.min_interval_seconds <= at
<1> DEFINE md == Read(m, now)
           t == md.terms
<1>1. /\ t.start_at \in Nat /\ t.min_interval_seconds \in Nat
  BY WidthAssumption DEF ReadFacts, TermsType, Time
<1>2. \A at \in Time : at \in Nat
  BY WidthAssumption DEF Time
<1>3. CASE md.last_charged_at = NeverCharged
  BY <1>1, <1>2, <1>3 DEF FirstAllowed
<1>4. CASE md.last_charged_at # NeverCharged
  <2>1. md.last_charged_at \in Nat
    BY <1>4, WidthAssumption DEF ReadFacts, Time
  <2>2. FirstAllowed(md) =
          IF t.start_at <= md.last_charged_at + t.min_interval_seconds
          THEN md.last_charged_at + t.min_interval_seconds ELSE t.start_at
    BY <1>1, <1>4, <2>1, GreatestOfTwo DEF FirstAllowed
  <2> HIDE DEF md, t
  <2>3. /\ FirstAllowed(md) \in Nat /\ t.start_at <= FirstAllowed(md)
        /\ \A at \in Time :
             FirstAllowed(md) <= at <=>
               /\ t.start_at <= at
               /\ md.last_charged_at + t.min_interval_seconds <= at
    BY <1>1, <1>2, <2>1, <2>2
  <2> QED
    BY <1>4, <2>3 DEF md, t
<1> QED
  BY <1>3, <1>4

\* When a charge of some amount passes the checks of the mandate.
LEMMA ChargeableWhen ==
  ASSUME NEW m \in MandateId, ReadFacts(m), NEW at \in Time
  PROVE  LET md == Read(m, now)
         IN  ChargeableAt(md, at) <=>
               /\ md.status = "Active" /\ ~CountReached(md)
               /\ FirstAllowed(md) <= at /\ at < md.terms.expires_at
               /\ HasRoom(md, at)
<1> DEFINE md == Read(m, now)
           t == md.terms
           fits(x) == IF t.rule = "Fixed" THEN x = t.per_charge
                                          ELSE x <= t.per_charge
           passes(x) ==
             /\ md.status = "Active" /\ ~CountReached(md)
             /\ FirstAllowed(md) <= at /\ at < t.expires_at
             /\ fits(x) /\ PeriodSum(md, at) + x <= t.max_per_period
<1>1. /\ t \in TermsType /\ t.rule \in {"Fixed", "Variable"}
      /\ t.per_charge \in Nat /\ t.per_charge > 0 /\ t.max_per_period \in Int
      /\ t.start_at \in Nat /\ t.expires_at \in Nat
      /\ t.min_interval_seconds \in Nat /\ at \in Nat
      /\ md.last_charged_at \in Int
  BY WidthAssumption DEF ReadFacts, TermsType, Time, NeverCharged
<1>2. PeriodSum(md, at) \in Nat
  BY DEF PeriodSum, ReadFacts
<1>3. md.status # "Active" => StatusError(md.status) # None
  BY ErrorAssumption DEF ReadFacts, Status, StatusError, Error
<1>4. FirstAllowed(md) <= at <=>
        /\ t.start_at <= at
        /\ md.last_charged_at # NeverCharged =>
             md.last_charged_at + t.min_interval_seconds <= at
  BY FirstAllowedIs
<1>5. ASSUME NEW x \in 1 .. t.per_charge
      PROVE  PrecheckCharge(md, x, at) = None <=> passes(x)
  <2> DEFINE e1 == StatusError(md.status)
             early == at < t.start_at
             late == at >= t.expires_at
             low == x <= 0
             unfit == IF t.rule = "Fixed" THEN x # t.per_charge
                      ELSE x > t.per_charge
             soon == /\ md.last_charged_at # NeverCharged
                     /\ at < md.last_charged_at + t.min_interval_seconds
             count == CountReached(md)
             full == PeriodSum(md, at) + x > t.max_per_period
  <2>1. PrecheckCharge(md, x, at) =
          IF md.status # "Active" THEN e1
          ELSE IF early THEN "ChargeBeforeStart"
          ELSE IF late THEN "MandateExpired"
          ELSE IF low THEN "InvalidAmount"
          ELSE IF unfit THEN "AmountExceedsChargeLimit"
          ELSE IF soon THEN "ChargeTooSoon"
          ELSE IF count THEN "ChargeCountExceeded"
          ELSE IF full THEN "AmountExceedsPeriodLimit"
          ELSE None
    BY PrecheckErrors
  <2>2. /\ ~low /\ (unfit <=> ~fits(x)) /\ (late <=> ~(at < t.expires_at))
        /\ (full <=> ~(PeriodSum(md, at) + x <= t.max_per_period))
        /\ (FirstAllowed(md) <= at <=> ~early /\ ~soon)
    <3> HIDE DEF md, t
    <3> QED
      BY <1>1, <1>2, <1>4
  <2>3. md.status # "Active" => e1 # None
    BY <1>3
  <2> HIDE DEF e1, early, late, low, unfit, soon, count, full, md, t, fits
  <2>4. (PrecheckCharge(md, x, at) = None) <=>
          /\ md.status = "Active" /\ ~early /\ ~late /\ ~low /\ ~unfit
          /\ ~soon /\ ~count /\ ~full
    BY <2>1, <2>3, ErrorAssumption DEF Error
  <2> QED
    BY <2>2, <2>4 DEF count
<1>6. ChargeableAt(md, at) <=> \E x \in 1 .. t.per_charge : passes(x)
  BY <1>5 DEF ChargeableAt
<1>7. FirstAllowed(md) <= at => PeriodUsage(md, at).collected = PeriodSum(md, at)
  BY <1>1, <1>4, MeterReads
<1>8. HasRoom(md, at) <=> PeriodUsage(md, at).collected + ProbeOf(t) <= t.max_per_period
  BY DEF HasRoom
<1>9. /\ ProbeOf(t) \in 1 .. t.per_charge /\ fits(ProbeOf(t))
      /\ \A x \in 1 .. t.per_charge : fits(x) => ProbeOf(t) <= x
  <2> HIDE DEF t
  <2> QED
    BY <1>1 DEF ProbeOf
<1> HIDE DEF md, t, fits
<1>10. ASSUME NEW x \in 1 .. t.per_charge, passes(x)
       PROVE  PeriodSum(md, at) + ProbeOf(t) <= t.max_per_period
  BY <1>1, <1>2, <1>9, <1>10
<1> QED
  BY <1>6, <1>7, <1>8, <1>9, <1>10 DEF md, t

\* The date shown, and what holds around it.
LEMMA DateShown ==
  ASSUME NEW m \in MandateId, ReadFacts(m), NEW at \in Time
  PROVE  LET md   == Read(m, now)
             date == NextEligibleChargeDate(md)
         IN  ChargeableAt(md, at) <=>
               date # None /\ date <= at /\ at < md.terms.expires_at
<1> DEFINE md == Read(m, now)
           t == md.terms
           date == NextEligibleChargeDate(md)
           first == FirstAllowed(md)
           next == NextPeriod(md, first)
           current == md.current_period_start
           dead == md.status # "Active" \/ CountReached(md)
<1>1. /\ t \in TermsType /\ t.period_seconds # 0
      /\ t.per_charge \in Nat /\ t.per_charge > 0 /\ t.max_per_period \in Int
      /\ t.max_per_period >= t.per_charge
      /\ t.start_at \in Time /\ t.expires_at \in Time
      /\ current \in Time /\ md.current_period_collected \in Nat
      /\ ProbeOf(t) \in Nat /\ ProbeOf(t) <= t.per_charge
  BY DEF ReadFacts, TermsType, ProbeOf
<1>2. first \in Nat /\ t.start_at <= first
  BY FirstAllowedIs
<1>3. ChargeableAt(md, at) <=>
        ~dead /\ first <= at /\ at < t.expires_at /\ HasRoom(md, at)
  BY ChargeableWhen
<1>4. /\ \A x \in Time : x \in Nat
      /\ \A x \in Nat : x < t.expires_at => x \in Time
  BY <1>1, WidthAssumption DEF Time
<1>5. ASSUME NEW x \in Time, first <= x
      PROVE  /\ PeriodStart(t, x) \in Time /\ current <= PeriodStart(t, x)
             /\ PeriodStart(t, x) <= x /\ t.start_at <= x
             /\ PeriodUsage(md, x).periodStart = PeriodStart(t, x)
             /\ PeriodUsage(md, x).collected =
                  IF PeriodStart(t, x) = current
                  THEN md.current_period_collected ELSE 0
  BY <1>1, <1>5, PeriodsGoOn, MeterReads DEF PeriodSum
<1>6. ASSUME NEW x \in Time, first <= x
      PROVE  /\ HasRoom(md, x) <=>
                  \/ PeriodStart(t, x) # current
                  \/ md.current_period_collected + ProbeOf(t) <= t.max_per_period
  <2>1. HasRoom(md, x) <=>
          PeriodUsage(md, x).collected + ProbeOf(t) <= t.max_per_period
    BY DEF HasRoom
  <2> HIDE DEF md, t, current
  <2> QED
    BY <1>1, <1>5, <1>6, <2>1
<1>7. CASE first >= t.expires_at \/ HasRoom(md, first)
  <2>1. date = IF dead \/ first >= t.expires_at THEN None ELSE first
    BY <1>7, NextDate
  <2>2. ASSUME first <= at, at < t.expires_at
        PROVE  HasRoom(md, at)
    <3>1. first < t.expires_at /\ first \in Time /\ HasRoom(md, first)
      <4> HIDE DEF md, t, first
      <4> QED
        BY <1>1, <1>2, <1>4, <1>7, <2>2
    <3>2. PeriodStart(t, first) <= PeriodStart(t, at)
      BY <1>1, <1>2, <2>2, <3>1, PeriodStartBounds
    <3>3. PeriodStart(t, at) = current => PeriodStart(t, first) = current
      <4>1. /\ current <= PeriodStart(t, first) /\ PeriodStart(t, first) \in Time
            /\ first <= first
        BY <1>2, <1>5, <3>1
      <4> HIDE DEF md, t, first, current
      <4> QED
        BY <1>1, <1>4, <3>2, <4>1
    <3> HIDE DEF md, t, first, current
    <3> QED
      BY <1>2, <1>6, <2>2, <3>1, <3>3
  <2>3. first # None
    BY <1>2, ErrorAssumption
  <2>4. \A x \in Time : x \in Int
    BY <1>4
  <2>5. at \in Int /\ t.expires_at \in Int
    BY <1>1, <2>4
  <2> HIDE DEF md, t, first, date, dead
  <2>6. ChargeableAt(md, at) <=>
          date # None /\ date <= at /\ at < t.expires_at
    BY <1>2, <1>3, <2>1, <2>2, <2>3, <2>5
  <2> QED
    BY <2>6 DEF md, t, date
<1>8. CASE ~(first >= t.expires_at \/ HasRoom(md, first))
  <2>1. first \in Time /\ first < t.expires_at
    <3> HIDE DEF md, t, first
    <3> QED
      BY <1>1, <1>2, <1>4, <1>8
  <2>2. /\ PeriodStart(t, first) = current
        /\ ~(md.current_period_collected + ProbeOf(t) <= t.max_per_period)
        /\ next = current + t.period_seconds
    <3>1. first <= first
      BY <1>2
    <3>2. /\ PeriodStart(t, first) = current
          /\ ~(md.current_period_collected + ProbeOf(t) <= t.max_per_period)
      BY <1>6, <1>8, <2>1, <3>1
    <3> QED
      BY <1>5, <2>1, <3>1, <3>2 DEF NextPeriod
  <2>3. /\ first < next /\ next > current
        /\ \A y \in Time : first <= y /\ y < next => PeriodStart(t, y) = current
        /\ next \in Time => PeriodStart(t, next) = next
    BY <1>1, <1>2, <2>1, <2>2, PeriodEnds
  <2>4. next \in Nat
    BY <1>1, <1>4, <2>2, WidthAssumption DEF TermsType, Time
  <2>5. next >= t.expires_at \/ HasRoom(md, next)
    <3>1. CASE next < t.expires_at
      <4>1. next \in Time
        BY <1>4, <2>4, <3>1
      <4>2. first <= next /\ next # current
        <5> HIDE DEF first, next, current, md, t
        <5> QED
          BY <1>1, <1>2, <1>4, <2>3, <2>4
      <4> QED
        BY <1>6, <2>3, <4>1, <4>2
    <3>2. CASE ~(next < t.expires_at)
      <4>1. t.expires_at \in Nat
        BY <1>1, <1>4
      <4> HIDE DEF next, t
      <4> QED
        BY <2>4, <3>2, <4>1
    <3> QED
      BY <3>1, <3>2
  <2>6. date = IF dead \/ next >= t.expires_at THEN None ELSE next
    BY <1>8, <2>5, NextDate
  <2>7. ASSUME first <= at, at < next
        PROVE  ~HasRoom(md, at)
    BY <1>6, <2>2, <2>3, <2>7
  <2>8. ASSUME next <= at
        PROVE  first <= at /\ HasRoom(md, at)
    <3>1. at \in Nat /\ next \in Time
      <4>1. at \in 0 .. MaxU64 /\ MaxU64 \in Nat
        BY WidthAssumption DEF Time
      <4> HIDE DEF next
      <4>2. next \in 0 .. MaxU64
        BY <2>4, <2>8, <4>1
      <4> QED
        BY <4>1, <4>2 DEF Time
    <3>2. first <= at /\ t.start_at <= next
      <4>1. t.start_at \in Nat
        BY <1>1, <1>4
      <4> HIDE DEF first, next, md, t
      <4> QED
        BY <1>2, <2>3, <2>4, <2>8, <3>1, <4>1
    <3>3. PeriodStart(t, next) <= PeriodStart(t, at)
      BY <1>1, <2>8, <3>1, <3>2, PeriodStartBounds
    <3>4. PeriodStart(t, at) \in Nat /\ current \in Nat
      BY <1>1, <1>4, <1>5, <3>2
    <3>5. PeriodStart(t, at) # current
      <4>1. PeriodStart(t, next) = next
        BY <2>3, <3>1
      <4> HIDE DEF first, next, current, md, t
      <4> QED
        BY <2>3, <2>4, <3>3, <3>4, <4>1
    <3> QED
      BY <1>6, <3>2, <3>5
  <2>9. next # None
    BY <2>4, ErrorAssumption
  <2>10. at \in Nat /\ t.expires_at \in Nat
    BY <1>1, <1>4
  <2> HIDE DEF md, t, first, next, date, dead
  <2>11. ChargeableAt(md, at) <=>
           date # None /\ date <= at /\ at < t.expires_at
    BY <1>2, <1>3, <2>4, <2>6, <2>7, <2>8, <2>9, <2>10
  <2> QED
    BY <2>11 DEF md, t, date
<1> QED
  BY <1>7, <1>8

\* The status shown is the one the contract will report.
LEMMA StatusShown ==
  ASSUME PeriodInv, NEW m \in MandateId, mandates[m] # None,
         NEW at \in Time, now <= at
  PROVE  LET md == Read(m, now)
         IN  /\ DeriveEffectiveStatus(md, at) = EffectiveStatus(mandates[m], at)
             /\ MandateCard(md, now).nextCharge = NextEligibleChargeDate(md)
<1> DEFINE md == Read(m, now)
           old == mandates[m]
<1>1. /\ old \in Mandate /\ md = [old EXCEPT !.status = EffectiveStatus(old, now)]
      /\ md.terms = old.terms /\ md.status = EffectiveStatus(old, now)
  BY ReadFactsHold, CreatedMandate DEF PeriodInv, ReadFacts, Read
<1>2. now \in Int /\ at \in Int /\ old.terms.expires_at \in Int
  BY <1>1, ReadTypes, WidthAssumption DEF PeriodInv, Time
<1>3. /\ DeriveEffectiveStatus(md, now) = md.status
      /\ DeriveEffectiveStatus(md, at) = EffectiveStatus(old, at)
  <2> HIDE DEF md, old
  <2> QED
    BY <1>1, <1>2 DEF DeriveEffectiveStatus, EffectiveStatus
<1>4. [md EXCEPT !.status = md.status] = md
  BY <1>1 DEF Mandate
<1>5. MandateCard(md, now).nextCharge =
        NextEligibleChargeDate([md EXCEPT !.status = DeriveEffectiveStatus(md, now)])
  BY DEF MandateCard
<1> QED
  BY <1>3, <1>4, <1>5

\* The meter shown is what the period has collected.
LEMMA MeterShown ==
  ASSUME PeriodInv, NEW m \in MandateId, mandates[m] # None,
         NEW at \in Time, now <= at
  PROVE  LET usage == PeriodUsage(Read(m, now), at)
         IN  usage.collected = gross[m][usage.periodStart]
<1> DEFINE md == Read(m, now)
           t == md.terms
           shown == Max({at, t.start_at})
           start == PeriodStart(t, shown)
           current == md.current_period_start
<1>1. ReadFacts(m)
  BY ReadFactsHold
<1>2. /\ at \in Nat /\ t.start_at \in Nat /\ t.start_at \in Time /\ now \in Nat
      /\ t \in TermsType /\ t.period_seconds # 0 /\ now \in Time
  BY <1>1, WidthAssumption
  DEF PeriodInv, TypeInv, TypeOK, ReadFacts, TermsType, Time
<1>3. shown = IF at <= t.start_at THEN t.start_at ELSE at
  BY <1>2, GreatestOfTwo
<1> HIDE DEF shown
<1>4. shown \in Time /\ t.start_at <= shown /\ at <= shown
  <2> HIDE DEF md, t
  <2> QED
    BY <1>2, <1>3
<1>5. now <= shown
  <2> HIDE DEF md, t
  <2> QED
    BY <1>2, <1>3
<1>6. start \in Time /\ current <= start
  BY <1>1, <1>2, <1>4, <1>5, PeriodsGoOn
<1>7. /\ PeriodBooksOf(m) /\ current = mandates[m].current_period_start
      /\ md.current_period_collected = mandates[m].current_period_collected
      /\ current \in Time
  BY <1>1 DEF PeriodInv, PeriodInvOf, ReadFacts
<1>8. /\ gross[m][current] = md.current_period_collected
      /\ \A s \in Time : s > current => gross[m][s] = 0
  BY <1>7 DEF PeriodBooksOf
<1>9. /\ PeriodUsage(md, at).periodStart = start
      /\ PeriodUsage(md, at).collected =
           IF start = current THEN md.current_period_collected ELSE 0
  BY DEF PeriodUsage, shown
<1>10. start # current => start > current
  <2>1. start \in Nat /\ current \in Nat
    BY <1>6, <1>7, WidthAssumption DEF Time
  <2> HIDE DEF start, current
  <2> QED
    BY <1>6, <2>1
<1> QED
  BY <1>6, <1>8, <1>9, <1>10

(***************************************************************************)
(* The card of a mandate that was read stays true at every later instant,  *)
(* for all terms, periods and limits: its status, its meter, its buttons   *)
(* and the next charge date, whose search stops within two periods (the    *)
(* dashboard of mandate-status.ts against charge() and get_mandate()).     *)
(***************************************************************************)
THEOREM DashboardTellsTheTruth == Spec => []DashboardIsRight
<1>1. ASSUME PeriodInv PROVE DashboardIsRight
  <2> SUFFICES ASSUME NEW m \in Created, NEW at \in now .. MaxU64
               PROVE  LET md     == Read(m, now)
                          date   == MandateCard(md, now).nextCharge
                          card   == MandateCard(md, at)
                          status == EffectiveStatus(mandates[m], at)
                      IN  /\ card.status = status
                          /\ "pause" \in card.controls => status = "Active"
                          /\ "resume" \in card.controls => status = "Paused"
                          /\ "revoke" \in card.controls =>
                               status \in {"Active", "Paused"}
                          /\ card.usage.collected =
                               gross[m][card.usage.periodStart]
                          /\ ChargeableAt(md, at) <=>
                               date # None /\ date <= at /\ at < md.terms.expires_at
    BY DEF DashboardIsRight
  <2> DEFINE md     == Read(m, now)
             card   == MandateCard(md, at)
             status == EffectiveStatus(mandates[m], at)
  <2>1. m \in MandateId /\ mandates[m] # None /\ at \in Time /\ now <= at
    BY <1>1, WidthAssumption DEF Created, PeriodInv, TypeInv, TypeOK, Time
  <2>2. /\ DeriveEffectiveStatus(md, at) = status
        /\ MandateCard(md, now).nextCharge = NextEligibleChargeDate(md)
    BY <1>1, <2>1, StatusShown
  <2>3. /\ card.status = status /\ card.controls = Controls(status)
        /\ card.usage = PeriodUsage(md, at)
    BY <2>2 DEF MandateCard
  <2>4. card.usage.collected = gross[m][card.usage.periodStart]
    BY <1>1, <2>1, <2>3, MeterShown
  <2>5. ChargeableAt(md, at) <=>
          /\ MandateCard(md, now).nextCharge # None
          /\ MandateCard(md, now).nextCharge <= at
          /\ at < md.terms.expires_at
    BY <1>1, <2>1, <2>2, DateShown, ReadFactsHold
  <2>6. /\ "pause" \in card.controls => status = "Active"
        /\ "resume" \in card.controls => status = "Paused"
        /\ "revoke" \in card.controls => status \in {"Active", "Paused"}
    BY <2>3 DEF Controls
  <2> QED
    BY <2>3, <2>4, <2>5, <2>6
<1>2. PeriodInv => DashboardIsRight
  BY <1>1
<1> QED
  BY <1>2, PeriodInvariance, PTL

-----------------------------------------------------------------------------
(* Sums over sets.  The induction theorems of the library take a predicate *)
(* as a parameter; that the naturals are well-founded does not, and gives  *)
(* induction over a set of naturals, here of the sizes of the subsets.     *)

\* Induction over the naturals, of a set and not of a predicate: a set that
\* misses one misses a least one.
LEMMA SetInduction ==
  ASSUME NEW N, 0 \in N, \A n \in Nat : n \in N => n + 1 \in N
  PROVE  \A n \in Nat : n \in N
<1> DEFINE T == Nat \ N
           R == OpToRel(<, Nat)
<1> SUFFICES ASSUME T # {} PROVE FALSE
  OBVIOUS
<1>1. IsWellFoundedOn(R, Nat)
  BY NatLessThanWellFounded
<1>2. T \subseteq Nat
  OBVIOUS
<1>3. \A x, y \in Nat : y < x => <<y, x>> \in R
  BY DEF OpToRel
<1> HIDE DEF T, R
<1>4. PICK x \in T : \A y \in T : ~(<<y, x>> \in R)
  BY <1>1, <1>2, WFMin
<1>5. x \in Nat /\ x \notin N /\ x # 0
  BY <1>2 DEF T
<1>6. x - 1 \in Nat /\ x - 1 < x /\ (x - 1) + 1 = x
  BY <1>5
<1>7. x - 1 \in T
  BY <1>5, <1>6 DEF T
<1> QED
  BY <1>3, <1>4, <1>5, <1>6, <1>7

\* g sums w over every subset of S, as the folds of the library do: from an
\* element chosen to the rest.
Pick(s) == CHOOSE x \in s : TRUE
Sums(w, S, g) ==
  g = [s \in SUBSET S |-> IF s = {} THEN 0
                          ELSE w[Pick(s)] + g[s \ {Pick(s)}]]

LEMMA PickIn == \A s : s # {} => Pick(s) \in s
BY DEF Pick

\* Such a g exists.
LEMMA SumsExist ==
  ASSUME NEW w, NEW S, IsFiniteSet(S)
  PROVE  \E g : Sums(w, S, g)
<1> DEFINE Part(n) == {s \in SUBSET S : Cardinality(s) <= n}
           Does(n, g) ==
             g = [s \in Part(n) |-> IF s = {} THEN 0
                                    ELSE w[Pick(s)] + g[s \ {Pick(s)}]]
           N == {n \in Nat : \E g : Does(n, g)}
<1>1. \A s \in SUBSET S :
        /\ Cardinality(s) \in Nat /\ Cardinality(s) <= Cardinality(S)
        /\ Cardinality(s) = 0 <=> s = {}
        /\ s # {} => /\ s \ {Pick(s)} \in SUBSET S
                     /\ Cardinality(s \ {Pick(s)}) = Cardinality(s) - 1
  <2> SUFFICES ASSUME NEW s \in SUBSET S
      PROVE /\ Cardinality(s) \in Nat /\ Cardinality(s) <= Cardinality(S)
            /\ Cardinality(s) = 0 <=> s = {}
            /\ s # {} => /\ s \ {Pick(s)} \in SUBSET S
                         /\ Cardinality(s \ {Pick(s)}) = Cardinality(s) - 1
    OBVIOUS
  <2>1. IsFiniteSet(s) /\ Cardinality(s) <= Cardinality(S)
    BY FS_Subset
  <2>2. Cardinality(s) \in Nat /\ (Cardinality(s) = 0 <=> s = {})
    BY <2>1, FS_CardinalityType, FS_EmptySet
  <2>3. s # {} => Cardinality(s \ {Pick(s)}) = Cardinality(s) - 1
    BY <2>1, PickIn, FS_RemoveElement
  <2> QED
    BY <2>1, <2>2, <2>3
<1>2. 0 \in N
  <2>1. ASSUME NEW s \in Part(0) PROVE s = {}
    <3>1. s \in SUBSET S /\ Cardinality(s) <= 0
      OBVIOUS
    <3>2. Cardinality(s) \in Nat /\ (Cardinality(s) = 0 <=> s = {})
      BY <1>1, <3>1
    <3> QED
      BY <3>1, <3>2
  <2>2. Does(0, [s \in Part(0) |-> 0])
    BY <2>1
  <2> QED
    BY <2>2
<1>3. ASSUME NEW n \in Nat, n \in N PROVE n + 1 \in N
  <2>1. PICK g : Does(n, g)
    BY <1>3
  <2> DEFINE h == [s \in Part(n + 1) |->
                     IF s = {} THEN 0 ELSE w[Pick(s)] + g[s \ {Pick(s)}]]
  <2>2. \A s \in Part(n) : s \in Part(n + 1) /\ h[s] = g[s]
    <3>1. ASSUME NEW s \in Part(n) PROVE s \in Part(n + 1)
      <4>1. s \in SUBSET S /\ Cardinality(s) <= n /\ Cardinality(s) \in Nat
        BY <1>1
      <4>2. Cardinality(s) <= n + 1
        BY <4>1
      <4> QED
        BY <4>1, <4>2
    <3> QED
      BY <2>1, <3>1
  <2>3. ASSUME NEW s \in Part(n + 1), s # {}
        PROVE  s \ {Pick(s)} \in Part(n)
    <3>1. s \in SUBSET S /\ Cardinality(s) <= n + 1 /\ Cardinality(s) \in Nat
      BY <1>1
    <3>2. /\ s \ {Pick(s)} \in SUBSET S
          /\ Cardinality(s \ {Pick(s)}) = Cardinality(s) - 1
      BY <1>1, <2>3, <3>1
    <3>3. Cardinality(s \ {Pick(s)}) <= n
      BY <3>1, <3>2
    <3> QED
      BY <3>2, <3>3
  <2>4. Does(n + 1, h)
    <3> HIDE DEF Part
    <3>1. \A s \in Part(n + 1) : s # {} =>
            h[s \ {Pick(s)}] = g[s \ {Pick(s)}]
      BY <2>2, <2>3
    <3> QED
      BY <3>1
  <2>5. n + 1 \in Nat
    OBVIOUS
  <2> HIDE DEF Does
  <2> QED
    BY <2>4, <2>5
<1>4. Cardinality(S) \in Nat
  BY FS_CardinalityType
<1>5. Cardinality(S) \in N
  <2> HIDE DEF N
  <2> QED
    BY <1>2, <1>3, <1>4, SetInduction
<1>6. Part(Cardinality(S)) = SUBSET S
  BY <1>1
<1>7. PICK g : Does(Cardinality(S), g)
  BY <1>5
<1> QED
  BY <1>6, <1>7 DEF Sums

\* Two of them agree where the weights do.
LEMMA SumsAgree ==
  ASSUME NEW v, NEW w, NEW S, NEW T, NEW g, NEW h,
         IsFiniteSet(S), Sums(w, S, g), Sums(v, T, h),
         NEW s \in SUBSET (S \cap T), \A x \in s : w[x] = v[x]
  PROVE  g[s] = h[s]
<1> DEFINE N == {n \in Nat : \A r \in SUBSET s : Cardinality(r) = n => g[r] = h[r]}
<1>1. \A r \in SUBSET s : IsFiniteSet(r) /\ Cardinality(r) \in Nat
  BY FS_Subset, FS_CardinalityType
<1>2. \A r \in SUBSET s :
        /\ g[r] = IF r = {} THEN 0 ELSE w[Pick(r)] + g[r \ {Pick(r)}]
        /\ h[r] = IF r = {} THEN 0 ELSE v[Pick(r)] + h[r \ {Pick(r)}]
  BY DEF Sums
<1>3. 0 \in N
  <2>1. \A r \in SUBSET s : Cardinality(r) = 0 => r = {}
    BY <1>1, FS_EmptySet
  <2> QED
    BY <1>2, <2>1
<1>4. ASSUME NEW n \in Nat, n \in N PROVE n + 1 \in N
  <2> SUFFICES ASSUME NEW r \in SUBSET s, Cardinality(r) = n + 1
               PROVE  g[r] = h[r]
    BY <1>4
  <2>1. r # {} /\ Pick(r) \in r
    BY <1>1, PickIn, FS_EmptySet
  <2>2. r \ {Pick(r)} \in SUBSET s /\ Cardinality(r \ {Pick(r)}) = n
    <3>1. IsFiniteSet(r) /\ r \ {Pick(r)} \in SUBSET s
      BY <1>1
    <3>2. Cardinality(r \ {Pick(r)}) = Cardinality(r) - 1
      BY <2>1, <3>1, FS_RemoveElement
    <3> QED
      BY <3>1, <3>2
  <2> QED
    BY <1>2, <1>4, <2>1, <2>2
<1>5. Cardinality(s) \in Nat
  BY <1>1
<1>6. Cardinality(s) \in N
  <2> HIDE DEF N
  <2> QED
    BY <1>3, <1>4, <1>5, SetInduction
<1> QED
  BY <1>6

\* The order of the elements does not matter.
SumAt(w, g, s) ==
  g[s] \in Int /\ \A x \in s : g[s] = w[x] + g[s \ {x}]

LEMMA SumsAdd ==
  ASSUME NEW w, NEW S, NEW g, IsFiniteSet(S), Sums(w, S, g),
         \A x \in S : w[x] \in Int
  PROVE  \A s \in SUBSET S : SumAt(w, g, s)
<1> DEFINE Adds(s) == g[s] \in Int /\ \A x \in s : g[s] = w[x] + g[s \ {x}]
           N == {n \in Nat : \A s \in SUBSET S : Cardinality(s) <= n => Adds(s)}
<1>1. \A s \in SUBSET S :
        /\ IsFiniteSet(s) /\ Cardinality(s) \in Nat
        /\ \A x \in s : /\ s \ {x} \in SUBSET S
                        /\ Cardinality(s \ {x}) = Cardinality(s) - 1
  <2> SUFFICES ASSUME NEW s \in SUBSET S
      PROVE /\ IsFiniteSet(s) /\ Cardinality(s) \in Nat
            /\ \A x \in s : /\ s \ {x} \in SUBSET S
                            /\ Cardinality(s \ {x}) = Cardinality(s) - 1
    OBVIOUS
  <2>1. IsFiniteSet(s)
    BY FS_Subset
  <2>2. \A x \in s : Cardinality(s \ {x}) = Cardinality(s) - 1
    BY <2>1, FS_RemoveElement
  <2> QED
    BY <2>1, <2>2, FS_CardinalityType
<1>2. \A s \in SUBSET S :
        g[s] = IF s = {} THEN 0 ELSE w[Pick(s)] + g[s \ {Pick(s)}]
  BY DEF Sums
<1>3. Adds({})
  <2>1. g[{}] = 0
    BY <1>2
  <2> QED
    BY <2>1
<1>4. 0 \in N
  <2> SUFFICES ASSUME NEW s \in SUBSET S, Cardinality(s) <= 0 PROVE Adds(s)
    OBVIOUS
  <2>1. s = {}
    <3>1. Cardinality(s) = 0 /\ IsFiniteSet(s)
      BY <1>1
    <3> QED
      BY <3>1, FS_EmptySet
  <2> HIDE DEF Adds
  <2> QED
    BY <1>3, <2>1
<1>5. ASSUME NEW n \in Nat, n \in N PROVE n + 1 \in N
  <2>1. ASSUME NEW s \in SUBSET S, Cardinality(s) <= n + 1, s # {}
        PROVE  Adds(s)
    <3> DEFINE p == Pick(s)
    <3>1. p \in s
      BY <2>1, PickIn
    <3>2. g[s] = w[p] + g[s \ {p}]
      BY <1>2, <2>1
    <3> HIDE DEF p
    <3>3. ASSUME NEW r \in SUBSET S, NEW x \in r, Cardinality(r) <= n + 1
          PROVE  /\ r \ {x} \in SUBSET S /\ Cardinality(r \ {x}) <= n
                 /\ g[r \ {x}] \in Int
                 /\ \A y \in r \ {x} : g[r \ {x}] = w[y] + g[(r \ {x}) \ {y}]
      <4>1. /\ r \ {x} \in SUBSET S /\ Cardinality(r) \in Nat
            /\ Cardinality(r \ {x}) = Cardinality(r) - 1
        BY <1>1
      <4>2. Cardinality(r \ {x}) <= n
        BY <3>3, <4>1
      <4>3. Adds(r \ {x})
        BY <1>5, <4>1, <4>2
      <4> QED
        BY <4>1, <4>2, <4>3
    <3>4. w[p] \in Int /\ g[s \ {p}] \in Int
      BY <2>1, <3>1, <3>3
    <3>5. ASSUME NEW x \in s, x # p PROVE g[s] = w[x] + g[s \ {x}]
      <4> DEFINE rest == g[(s \ {x}) \ {p}]
      <4>1. /\ g[s \ {p}] = w[x] + g[(s \ {p}) \ {x}]
            /\ g[s \ {x}] = w[p] + rest
        <5>1. x \in s \ {p} /\ p \in s \ {x}
          BY <3>1, <3>5
        <5>2. \A y \in s \ {p} : g[s \ {p}] = w[y] + g[(s \ {p}) \ {y}]
          BY <2>1, <3>1, <3>3
        <5>3. \A y \in s \ {x} : g[s \ {x}] = w[y] + g[(s \ {x}) \ {y}]
          BY <2>1, <3>3
        <5> QED
          BY <5>1, <5>2, <5>3
      <4>2. (s \ {p}) \ {x} = (s \ {x}) \ {p}
        OBVIOUS
      <4>3. w[x] \in Int
        OBVIOUS
      <4>4. rest \in Int
        <5>1. s \ {x} \in SUBSET S /\ p \in s \ {x}
          BY <3>1, <3>5
        <5>2. Cardinality(s \ {x}) <= n /\ Cardinality(s \ {x}) \in Nat
          BY <1>1, <2>1, <3>3, <5>1
        <5>3. Cardinality(s \ {x}) <= n + 1
          BY <5>2
        <5> QED
          BY <3>3, <5>1, <5>3
      <4> HIDE DEF rest
      <4>5. g[s \ {p}] = w[x] + rest
        BY <4>1, <4>2 DEF rest
      <4> QED
        BY <3>2, <3>4, <4>1, <4>3, <4>4, <4>5
    <3>6. g[s] \in Int
      BY <3>2, <3>4
    <3>7. \A x \in s : g[s] = w[x] + g[s \ {x}]
      BY <3>2, <3>5
    <3> QED
      BY <3>6, <3>7
  <2>2. \A s \in SUBSET S : Cardinality(s) <= n + 1 => Adds(s)
    <3> HIDE DEF Adds
    <3>1. Adds({})
      BY <1>3
    <3> QED
      BY <2>1, <3>1
  <2> HIDE DEF Adds
  <2> QED
    BY <2>2
<1>6. \A s \in SUBSET S : Cardinality(s) \in N
  <2> HIDE DEF N
  <2> QED
    BY <1>1, <1>4, <1>5, SetInduction
<1>7. \A s \in SUBSET S : Cardinality(s) <= Cardinality(s)
  BY <1>1
<1>8. \A s \in SUBSET S : Adds(s)
  BY <1>6, <1>7
<1> QED
  BY <1>8 DEF SumAt

LEMMA SumsGrow ==
  ASSUME NEW v, NEW w, NEW T, NEW x \in T, NEW g, NEW h, IsFiniteSet(T),
         Sums(w, T \ {x}, g), Sums(v, T, h),
         \A y \in T : v[y] \in Int, \A y \in T \ {x} : w[y] = v[y]
  PROVE  g[T \ {x}] \in Int /\ h[T] = v[x] + g[T \ {x}]
<1> DEFINE S == T \ {x}
<1>1. IsFiniteSet(S) /\ S \in SUBSET (S \cap T)
  BY FS_RemoveElement
<1>2. g[S] = h[S]
  BY <1>1, SumsAgree
<1>3. SumAt(v, h, T) /\ SumAt(v, h, S)
  BY SumsAdd
<1>4. h[S] \in Int /\ h[T] = v[x] + h[S]
  BY <1>3 DEF SumAt
<1> QED
  BY <1>2, <1>4

\* A sum of amounts is one of these.
LEMMA AmountSumIs ==
  ASSUME NEW p, NEW S, IsFiniteSet(S)
  PROVE  \E g : /\ Sums([x \in S |-> p[x].amount], S, g)
                /\ AmountSum(p, S) = g[S]
<1> DEFINE w == [x \in S |-> p[x].amount]
           body(iter) ==
             [s \in SUBSET S |->
                IF s = {} THEN 0
                ELSE p[CHOOSE x \in s : TRUE].amount
                       + iter[s \ {CHOOSE x \in s : TRUE}]]
           fold == CHOOSE iter : iter = body(iter)
<1>1. AmountSum(p, S) = fold[S]
  BY DEF AmountSum, MapThenSumSet, MapThenFoldSet
<1>2. ASSUME NEW g PROVE g = body(g) <=> Sums(w, S, g)
  <2>1. \A s \in SUBSET S : s # {} =>
          p[Pick(s)].amount = w[Pick(s)]
    BY PickIn
  <2> DEFINE sums == [s \in SUBSET S |->
                        IF s = {} THEN 0 ELSE w[Pick(s)] + g[s \ {Pick(s)}]]
             fromp == [s \in SUBSET S |->
                        IF s = {} THEN 0
                        ELSE p[Pick(s)].amount + g[s \ {Pick(s)}]]
  <2>2. sums = fromp
    <3> HIDE DEF w
    <3> QED
      BY <2>1
  <2>3. body(g) = fromp
    BY DEF Pick
  <2>4. Sums(w, S, g) <=> g = sums
    BY DEF Sums
  <2> HIDE DEF body, fromp, sums
  <2> QED
    BY <2>2, <2>3, <2>4
<1> HIDE DEF body
<1>3. \E g : g = body(g)
  BY <1>2, SumsExist
<1>4. fold = body(fold)
  BY <1>3
<1>5. Sums(w, S, fold)
  BY <1>2, <1>4
<1> QED
  BY <1>1, <1>5

LEMMA AmountSumEmpty == \A p : AmountSum(p, {}) = 0
<1> SUFFICES ASSUME NEW p PROVE AmountSum(p, {}) = 0
  OBVIOUS
<1>1. IsFiniteSet({})
  BY FS_EmptySet
<1>2. PICK g : /\ Sums([x \in {} |-> p[x].amount], {}, g)
               /\ AmountSum(p, {}) = g[{}]
  BY <1>1, AmountSumIs
<1>3. g[{}] = 0
  BY <1>2 DEF Sums
<1> QED
  BY <1>2, <1>3

\* Other receipts do not matter, and a new one adds its amount.
LEMMA AmountSumSame ==
  ASSUME NEW p, NEW q, NEW S, IsFiniteSet(S),
         \A x \in S : q[x].amount = p[x].amount
  PROVE  AmountSum(q, S) = AmountSum(p, S)
<1>1. PICK g : /\ Sums([x \in S |-> p[x].amount], S, g)
               /\ AmountSum(p, S) = g[S]
  BY AmountSumIs
<1>2. PICK h : /\ Sums([x \in S |-> q[x].amount], S, h)
               /\ AmountSum(q, S) = h[S]
  BY AmountSumIs
<1> DEFINE v == [x \in S |-> q[x].amount]
           w == [x \in S |-> p[x].amount]
<1>3. \A x \in S : v[x] = w[x]
  OBVIOUS
<1>4. Sums(w, S, g) /\ Sums(v, S, h)
  BY <1>1, <1>2
<1>5. S \in SUBSET (S \cap S)
  OBVIOUS
<1> HIDE DEF v, w
<1>6. h[S] = g[S]
  BY <1>3, <1>4, <1>5, SumsAgree
<1> QED
  BY <1>1, <1>2, <1>6

LEMMA AmountSumAdd ==
  ASSUME NEW p, NEW q, NEW T, NEW x \in T, NEW n \in Int, IsFiniteSet(T),
         q[x].amount = n,
         \A y \in T \ {x} : /\ q[y].amount = p[y].amount
                            /\ p[y].amount \in Int
  PROVE  /\ AmountSum(p, T \ {x}) \in Int
         /\ AmountSum(q, T) = AmountSum(p, T \ {x}) + n
<1> DEFINE S == T \ {x}
           v == [y \in T |-> q[y].amount]
           w == [y \in S |-> p[y].amount]
<1>1. IsFiniteSet(S)
  BY FS_RemoveElement
<1>2. PICK g : Sums(w, S, g) /\ AmountSum(p, S) = g[S]
  BY <1>1, AmountSumIs
<1>3. PICK h : Sums(v, T, h) /\ AmountSum(q, T) = h[T]
  BY AmountSumIs
<1>4. /\ \A y \in T : v[y] \in Int
      /\ \A y \in S : w[y] = v[y]
      /\ v[x] = n
  OBVIOUS
<1> HIDE DEF v, w
<1>5. g[S] \in Int /\ h[T] = v[x] + g[S]
  BY <1>2, <1>3, <1>4, SumsGrow
<1> QED
  BY <1>2, <1>3, <1>4, <1>5

-----------------------------------------------------------------------------
(* The totals the contract stores are the sums of its receipts.            *)

TotalsOf(m) ==
  mandates[m] # None =>
    /\ mandates[m].total_collected = ReceiptSum(m, ReceiptsOf(m))
    /\ \A s \in Time : gross[m][s] = ReceiptSum(m, ReceiptsInPeriod(m, s))

RefundsAddUp ==
  \A m \in MandateId, c \in ChargeId :
    /\ IsFiniteSet(RefundsPaid(m, c))
    /\ refundedTotal[m][c] = AmountSum(refunds, RefundsPaid(m, c))

TotalsInv ==
  BooksInv /\ PeriodInv /\ RefundsAddUp /\ \A m \in MandateId : TotalsOf(m)

LEMMA TotalsFrame ==
  ASSUME TotalsInv, NEW k \in MandateId, SameButStatus(k), NoChargeOf(k)
  PROVE  TotalsOf(k)'
<1> SUFFICES ASSUME mandates'[k] # None
             PROVE  /\ mandates'[k].total_collected = ReceiptSum(k, ReceiptsOf(k))'
                    /\ \A s \in Time : gross'[k][s] =
                         ReceiptSum(k, ReceiptsInPeriod(k, s))'
  BY DEF TotalsOf
<1>1. /\ mandates[k] # None /\ mandates'[k].terms = mandates[k].terms
      /\ mandates'[k].total_collected = mandates[k].total_collected
      /\ payments'[k] = payments[k] /\ gross'[k] = gross[k]
  BY DEF SameButStatus, NoChargeOf
<1>2. /\ mandates[k].total_collected = ReceiptSum(k, ReceiptsOf(k))
      /\ \A s \in Time : gross[k][s] = ReceiptSum(k, ReceiptsInPeriod(k, s))
  BY <1>1 DEF TotalsInv, TotalsOf
<1>3. ReceiptsOf(k)' = ReceiptsOf(k)
  BY <1>1 DEF ReceiptsOf
<1>4. \A s \in Time : ReceiptsInPeriod(k, s)' = ReceiptsInPeriod(k, s)
  BY <1>1, <1>3 DEF ReceiptsInPeriod
<1> QED
  BY <1>1, <1>2, <1>3, <1>4 DEF ReceiptSum

LEMMA TotalsCreate ==
  ASSUME TotalsInv, NEW m \in MandateId, NEW t \in Terms, CreateMandate(m, t)
  PROVE  TotalsOf(m)'
<1>1. TypeInv /\ BooksOf(m) /\ PeriodInvOf(m)
  BY DEF TotalsInv, BooksInv, PeriodInv
<1>2. /\ mandates[m] = None /\ UNCHANGED chargeVars
      /\ mandates'[m] = [ terms |-> t, status |-> "Active",
           successful_charges |-> 0, total_collected |-> 0,
           current_period_start |-> t.start_at,
           current_period_collected |-> 0,
           last_charged_at |-> NeverCharged ]
  BY <1>1, CreateEffect
<1>3. ReceiptsOf(m) = {} /\ \A s \in Time : gross[m][s] = 0
  BY <1>1, <1>2 DEF PeriodInvOf
<1>4. /\ ReceiptsOf(m)' = {} /\ \A s \in Time : gross'[m][s] = 0
      /\ mandates'[m].total_collected = 0
  BY <1>2, <1>3 DEF ReceiptsOf, chargeVars
<1>5. \A s \in Time : ReceiptsInPeriod(m, s)' = {}
  BY <1>4 DEF ReceiptsInPeriod
<1> QED
  BY <1>4, <1>5, AmountSumEmpty DEF TotalsOf, ReceiptSum

LEMMA TotalsCharge ==
  ASSUME TotalsInv, NEW m \in MandateId, NEW c \in ChargeId, NEW x \in Amount,
         Charge(m, c, x)
  PROVE  TotalsOf(m)'
<1> DEFINE t == mandates[m].terms
           p == PeriodStart(t, now)
<1>1. TypeInv /\ BooksOf(m)
  BY DEF TotalsInv, BooksInv
<1>2. /\ mandates[m] # None /\ mandates'[m] = AfterCharge(mandates[m], x)
      /\ payments'[m][c] = [amount |-> x, timestamp |-> now]
      /\ gross'[m] = [gross[m] EXCEPT ![p] = @ + x]
  <2>1. ChargeFacts(m, c, x)
    BY <1>1, ChargeEffect
  <2> QED
    BY <2>1 DEF ChargeFacts
<1>3. /\ c \notin ReceiptsOf(m)
      /\ ReceiptsOf(m)' = ReceiptsOf(m) \cup {c}
      /\ \A d \in ReceiptsOf(m) : payments'[m][d] = payments[m][d]
  BY ChargeAddsReceipt DEF TotalsInv
<1>4. /\ mandates'[m].terms = t
      /\ mandates'[m].total_collected = mandates[m].total_collected + x
  BY <1>1, <1>2, CreatedMandate DEF AfterCharge, Mandate
<1>5. IsFiniteSet(ReceiptsOf(m)) /\ x \in Int /\ p \in Time
  BY <1>1, <1>2, AfterChargeType DEF BooksOf
<1>6. \A d \in ReceiptsOf(m) : payments[m][d].amount \in Int
  BY <1>1 DEF TypeInv, TypeOK, ReceiptsOf, Receipt
<1>7. ASSUME NEW S \in SUBSET ReceiptsOf(m)
      PROVE  /\ AmountSum(payments[m], S) \in Int
             /\ AmountSum(payments'[m], S) = AmountSum(payments[m], S)
             /\ AmountSum(payments'[m], S \cup {c}) = AmountSum(payments[m], S) + x
  <2>1. IsFiniteSet(S) /\ c \notin S
    BY <1>3, <1>5, FS_Subset
  <2>2. /\ \A d \in S : payments'[m][d].amount = payments[m][d].amount
        /\ \A d \in S \cup {c} : payments'[m][d].amount \in Int
        /\ payments'[m][c].amount = x
    BY <1>2, <1>3, <1>5, <1>6
  <2>3. AmountSum(payments'[m], S) = AmountSum(payments[m], S)
    BY <2>1, <2>2, AmountSumSame
  <2> DEFINE T == S \cup {c}
  <2>4. /\ c \in T /\ T \ {c} = S /\ IsFiniteSet(T)
        /\ payments'[m][c].amount = x
        /\ \A d \in T \ {c} : /\ payments'[m][d].amount = payments[m][d].amount
                               /\ payments[m][d].amount \in Int
    BY <1>6, <2>1, <2>2, FS_AddElement
  <2> HIDE DEF T
  <2>5. AmountSum(payments[m], T \ {c}) \in Int
    BY <1>5, <2>4, AmountSumAdd
  <2>6. AmountSum(payments'[m], T) = AmountSum(payments[m], T \ {c}) + x
    BY <1>5, <2>4, AmountSumAdd
  <2> QED
    BY <2>2, <2>3, <2>4, <2>5, <2>6 DEF T
<1>8. mandates'[m].total_collected = ReceiptSum(m, ReceiptsOf(m))'
  <2>1. mandates[m].total_collected = AmountSum(payments[m], ReceiptsOf(m))
    BY <1>2 DEF TotalsInv, TotalsOf, ReceiptSum
  <2>2. AmountSum(payments'[m], ReceiptsOf(m) \cup {c})
          = AmountSum(payments[m], ReceiptsOf(m)) + x
    BY <1>7
  <2> QED
    BY <1>3, <1>4, <2>1, <2>2 DEF ReceiptSum
<1>9. ASSUME NEW s \in Time
      PROVE  gross'[m][s] = ReceiptSum(m, ReceiptsInPeriod(m, s))'
  <2> DEFINE S == ReceiptsInPeriod(m, s)
  <2>1. S \in SUBSET ReceiptsOf(m)
    BY DEF ReceiptsInPeriod
  <2>2. gross[m][s] = AmountSum(payments[m], S) /\ gross[m] \in [Time -> Nat]
    BY <1>1, <1>2 DEF TotalsInv, TotalsOf, ReceiptSum, TypeInv, TypeOK
  <2>3. ReceiptsInPeriod(m, s)' = IF s = p THEN S \cup {c} ELSE S
    BY <1>2, <1>3, <1>4 DEF ReceiptsInPeriod
  <2>4. gross'[m][s] = IF s = p THEN gross[m][s] + x ELSE gross[m][s]
    BY <1>2, <2>2
  <2> HIDE DEF S, p
  <2> QED
    BY <1>7, <2>1, <2>2, <2>3, <2>4 DEF ReceiptSum
<1> QED
  BY <1>8, <1>9 DEF TotalsOf

LEMMA RefundsAddUpStep ==
  ASSUME TotalsInv, [Next]_vars
  PROVE  RefundsAddUp'
<1>1. TypeInv /\ RefundBooks
  BY DEF TotalsInv, BooksInv
<1>2. CASE UNCHANGED refundVars
  BY <1>2 DEF TotalsInv, RefundsAddUp, RefundsPaid, refundVars
<1>3. ASSUME NEW m \in MandateId, NEW pm \in MandateId, NEW c \in ChargeId,
             NEW x \in Amount, NEW r \in RefundId, Refund(m, pm, c, x, r)
      PROVE  RefundsAddUp'
  <2> DEFINE new == [mandate |-> pm, charge |-> c, amount |-> x,
                     timestamp |-> now]
  <2>1. /\ refunds' = [refunds EXCEPT ![r] = new] /\ r \notin usedRefunds
        /\ refundedTotal' = [refundedTotal EXCEPT ![pm][c] = @ + x]
    BY <1>3 DEF Refund, HasUsedRefund
  <2>2. /\ refunds \in [RefundId -> RefundReceipt \cup {None}]
        /\ refundedTotal \in [MandateId -> [ChargeId -> Nat]]
        /\ x \in Int /\ now \in Time
    BY <1>1, InputAssumption DEF TypeInv, TypeOK
  <2>3. new # None
    <3>1. new \in RefundReceipt
      BY <1>3, <2>2 DEF Refund, RefundReceipt
    <3> QED
      BY <3>1, NoneAssumption
  <2>4. refunds[r] = None
    BY <1>1, <2>1 DEF RefundBooks
  <2>5. /\ refunds'[r] = new /\ new.mandate = pm /\ new.charge = c /\ new.amount = x
        /\ \A q \in RefundId : q # r => refunds'[q] = refunds[q]
    BY <2>1, <2>2
  <2> HIDE DEF new
  <2>6. ASSUME NEW k \in MandateId, NEW d \in ChargeId
        PROVE  /\ IsFiniteSet(RefundsPaid(k, d)')
               /\ refundedTotal'[k][d] = AmountSum(refunds', RefundsPaid(k, d)')
    <3> DEFINE S == RefundsPaid(k, d)
    <3>1. /\ IsFiniteSet(S) /\ r \notin S
          /\ refundedTotal[k][d] = AmountSum(refunds, S)
      BY <2>4 DEF TotalsInv, RefundsAddUp, RefundsPaid
    <3>2. RefundsPaid(k, d)' = IF k = pm /\ d = c THEN S \cup {r} ELSE S
      BY <2>3, <2>4, <2>5 DEF RefundsPaid
    <3>3. /\ \A q \in S : /\ refunds'[q].amount = refunds[q].amount
                          /\ refunds[q].amount \in Int
      BY <2>2, <2>4, <2>5 DEF RefundsPaid, RefundReceipt
    <3>4. refundedTotal'[k][d] =
            IF k = pm /\ d = c THEN refundedTotal[k][d] + x ELSE refundedTotal[k][d]
      BY <2>1, <2>2
    <3> HIDE DEF S
    <3>5. IsFiniteSet(S \cup {r})
      BY <3>1, FS_AddElement
    <3>6. AmountSum(refunds', S) = AmountSum(refunds, S)
      BY <3>1, <3>3, AmountSumSame
    <3>7. AmountSum(refunds', S \cup {r}) = AmountSum(refunds, S) + x
      <4> DEFINE T == S \cup {r}
      <4>1. /\ r \in T /\ T \ {r} = S /\ refunds'[r].amount = x
            /\ \A q \in T \ {r} : /\ refunds'[q].amount = refunds[q].amount
                                  /\ refunds[q].amount \in Int
        BY <2>2, <2>5, <3>1, <3>3
      <4>2. IsFiniteSet(T)
        BY <3>5
      <4> HIDE DEF T
      <4>3. AmountSum(refunds', T) = AmountSum(refunds, T \ {r}) + x
        BY <2>2, <4>1, <4>2, AmountSumAdd
      <4> QED
        BY <4>1, <4>3 DEF T
    <3> QED
      BY <3>1, <3>2, <3>4, <3>5, <3>6, <3>7
  <2> QED
    BY <2>6 DEF RefundsAddUp
<1>4. ASSUME NEW m \in MandateId, NEW t \in Terms, CreateMandate(m, t)
      PROVE  UNCHANGED refundVars
  BY <1>1, <1>4, CreateEffect
<1>5. ASSUME NEW m \in MandateId, NEW c \in ChargeId, NEW x \in Amount,
             Charge(m, c, x)
      PROVE  UNCHANGED refundVars
  BY <1>1, <1>5, ChargeEffect DEF ChargeFacts
<1>6. ASSUME NEW m \in MandateId, StatusStep(m)
      PROVE  UNCHANGED refundVars
  BY <1>1, <1>6, StatusEffect
<1>7. Outside => UNCHANGED refundVars
  BY DEF Outside
<1> QED
  BY <1>1, <1>2, <1>3, <1>4, <1>5, <1>6, <1>7, StepKinds

LEMMA TotalsStep ==
  ASSUME TotalsInv, BooksInv', PeriodInv', [Next]_vars
  PROVE  TotalsInv'
<1>1. TypeInv
  BY DEF TotalsInv, BooksInv
<1> SUFFICES ASSUME NEW k \in MandateId PROVE TotalsOf(k)'
  BY RefundsAddUpStep DEF TotalsInv
<1>2. CASE SameButStatus(k) /\ NoChargeOf(k)
  BY <1>2, TotalsFrame
<1>3. ASSUME NEW m \in MandateId, NEW t \in Terms, CreateMandate(m, t)
      PROVE  TotalsOf(k)'
  BY <1>1, <1>2, <1>3, TotalsCreate, OtherMandates
<1>4. ASSUME NEW m \in MandateId, NEW c \in ChargeId, NEW x \in Amount,
             Charge(m, c, x)
      PROVE  TotalsOf(k)'
  BY <1>1, <1>2, <1>4, TotalsCharge, OtherMandates
<1>5. ASSUME NEW m \in MandateId, StatusStep(m)
      PROVE  TotalsOf(k)'
  BY <1>1, <1>2, <1>5, StatusEffect
<1>6. CASE \/ Outside
           \/ \E m, pm \in MandateId, c \in ChargeId, x \in Amount,
                 r \in RefundId : Refund(m, pm, c, x, r)
  BY <1>1, <1>2, <1>6, NoChargeSteps
<1> QED
  BY <1>1, <1>3, <1>4, <1>5, <1>6, StepKinds

(***************************************************************************)
(* The running totals are what the receipts add up to, however many        *)
(* charges and refunds there have been (charge() steps 11 and 14 and       *)
(* refund(), which only ever add to what they have stored).                *)
(***************************************************************************)
THEOREM TotalsAddUp == Spec => []TotalsMatchReceipts
<1>1. Init => RefundsAddUp /\ \A m \in MandateId : TotalsOf(m)
  <2> SUFFICES ASSUME Init
               PROVE  RefundsAddUp /\ \A m \in MandateId : TotalsOf(m)
    OBVIOUS
  <2>1. \A m \in MandateId, c \in ChargeId :
          RefundsPaid(m, c) = {} /\ refundedTotal[m][c] = 0
    BY DEF Init, RefundsPaid
  <2>2. RefundsAddUp
    BY <2>1, AmountSumEmpty, FS_EmptySet DEF RefundsAddUp
  <2> QED
    BY <2>2 DEF Init, TotalsOf
<1>2. /\ BooksInv /\ PeriodInv /\ RefundsAddUp
      /\ (\A m \in MandateId : TotalsOf(m))
      => TotalsInv
  BY DEF TotalsInv
<1>3. TotalsInv /\ BooksInv' /\ PeriodInv' /\ [Next]_vars => TotalsInv'
  BY TotalsStep
<1>4. TotalsInv => TotalsMatchReceipts
  <2> SUFFICES ASSUME TotalsInv, NEW m \in Created
               PROVE  mandates[m].current_period_collected =
                        ReceiptSum(m, ReceiptsInPeriod(m,
                          mandates[m].current_period_start))
    BY DEF TotalsInv, TotalsOf, RefundsAddUp, Created, TotalsMatchReceipts
  <2>1. /\ m \in MandateId /\ mandates[m] # None /\ PeriodInvOf(m)
        /\ TotalsOf(m) /\ TypeInv
    BY DEF TotalsInv, PeriodInv, Created
  <2>2. mandates[m].current_period_start \in Time
    BY <2>1, CreatedMandate DEF Mandate
  <2> QED
    BY <2>1, <2>2 DEF PeriodInvOf, PeriodBooksOf, TotalsOf
<1> QED
  BY <1>1, <1>2, <1>3, <1>4, BooksInvariance, PeriodInvariance, PTL DEF Spec

-----------------------------------------------------------------------------
(* From a product to the terms that are signed.                            *)

\* decimalToBaseUnits gives an integer or rejects, and what was converted
\* to a decimal comes back.
LEMMA BaseUnitsType ==
  ASSUME NEW x \in Decimal \cup {None}, NEW d \in Nat
  PROVE  BaseUnits(x, d) \in Int \cup {None}
<1>1. CASE x = None
  BY <1>1 DEF BaseUnits
<1>2. CASE x # None /\ x.places > d
  BY <1>2 DEF BaseUnits
<1>3. CASE x # None /\ ~(x.places > d)
  <2> DEFINE n == d - x.places
  <2>1. n \in Nat /\ x.digits \in Nat
    BY <1>3 DEF Decimal
  <2>2. BaseUnits(x, d) = x.digits * 10 ^ n
    BY <1>3 DEF BaseUnits
  <2> HIDE DEF n
  <2>3. 10 ^ n \in Int
    BY <2>1
  <2> QED
    BY <2>1, <2>2, <2>3
<1> QED
  BY <1>1, <1>2, <1>3

LEMMA RoundTrip ==
  ASSUME NEW a \in Nat, NEW d \in Nat
  PROVE  BaseUnits(BaseUnitsToDecimal(a, d), d) = a
<1>1. BaseUnitsToDecimal(a, d) \in Decimal
  BY DEF BaseUnitsToDecimal, Decimal
<1>2. BaseUnitsToDecimal(a, d) # None
  BY <1>1, ProductAssumption
<1>3. BaseUnits(BaseUnitsToDecimal(a, d), d) = a * 10 ^ (d - d)
  BY <1>2 DEF BaseUnits, BaseUnitsToDecimal
<1> QED
  BY <1>3

LEMMA FormWithinApi ==
  ASSUME NEW v \in Product, FormAccepts(v)
  PROVE  ApiAccepts(v)
BY ProductAssumption DEF Product, FormAccepts, ApiAccepts

\* The terms of a product that was stored.
LEMMA TermsOfProduct ==
  ASSUME NEW v \in Product, Stored(v), NEW at \in Time
  PROVE  LET t == DeriveMandateTerms(ProductResponse(ProductRow(v)), at)
         IN  /\ t.per_charge = BaseUnits(v.amount, v.decimals)
             /\ t.max_per_period = BaseUnits(v.max_per_period, v.decimals)
             /\ t.period_seconds = v.period_seconds
             /\ t.max_successful_charges = v.max_successful_charges
             /\ t.start_at = at /\ t.expires_at = at + v.duration
             /\ BaseUnits(v.amount, v.decimals) \in Nat \ {0}
             /\ BaseUnits(v.max_per_period, v.decimals) \in Nat \ {0}
<1> DEFINE d == v.decimals
           a == BaseUnits(v.amount, d)
           p == BaseUnits(v.max_per_period, d)
           shown == ProductResponse(ProductRow(v))
           t == DeriveMandateTerms(shown, at)
<1>1. d \in Nat /\ Positive(a) /\ Positive(p)
  BY ProductAssumption DEF Stored, ApiAccepts
<1>2. a \in Int \cup {None} /\ p \in Int \cup {None}
  BY <1>1, BaseUnitsType DEF Product
<1>3. a \in Nat \ {0} /\ p \in Nat \ {0}
  <2> HIDE DEF a, p
  <2> QED
    BY <1>1, <1>2 DEF Positive
<1>4. ProductRow(v) = [v EXCEPT !.amount = a, !.max_per_period = p]
  BY DEF ProductRow
<1> HIDE DEF a, p
<1>5. /\ shown.amount = BaseUnitsToDecimal(a, d)
      /\ shown.max_per_period = BaseUnitsToDecimal(p, d)
      /\ shown.decimals = d /\ shown.duration = v.duration
      /\ shown.period_seconds = v.period_seconds
      /\ shown.max_successful_charges = v.max_successful_charges
  BY <1>4 DEF ProductResponse, Product
<1> HIDE DEF shown
<1>6. /\ t.per_charge = BaseUnits(shown.amount, shown.decimals)
      /\ t.max_per_period = BaseUnits(shown.max_per_period, shown.decimals)
      /\ t.period_seconds = shown.period_seconds
      /\ t.max_successful_charges = shown.max_successful_charges
      /\ t.start_at = at /\ t.expires_at = at + shown.duration
  BY DEF DeriveMandateTerms
<1>7. t.per_charge = a /\ t.max_per_period = p
  BY <1>1, <1>3, <1>5, <1>6, RoundTrip
<1> HIDE DEF t
<1> QED
  BY <1>3, <1>5, <1>6, <1>7 DEF t, a, p, shown

(***************************************************************************)
(* The form accepts nothing the API rejects, and what was stored can be    *)
(* signed whenever the page was rendered, but for a period cap below one   *)
(* charge, an amount beyond i128 and a page that has outlived the mandate  *)
(* (validateProductForm, POST /products, deriveMandateTerms and            *)
(* create_mandate, each with its own checks and conversions).              *)
(***************************************************************************)
THEOREM ProductsCanBeSigned == Spec => []ProductsAreSignable
<1>1. ASSUME TypeInv, NEW m \in MandateId, NEW v \in Input, Stored(v),
             NEW at \in Time
      PROVE  LET t == DeriveMandateTerms(ProductResponse(ProductRow(v)), at)
             IN  /\ t.per_charge = BaseUnits(v.amount, v.decimals)
                 /\ t.max_per_period = BaseUnits(v.max_per_period, v.decimals)
                 /\ Encodes(t) /\ ValidInput(m, t) <=>
                      /\ t.max_per_period >= t.per_charge
                      /\ t.max_per_period <= MaxI128
                      /\ now < t.expires_at /\ t.expires_at <= MaxU64
                      /\ PayerOf[m] # MerchantOf[m]
  <2> DEFINE t == DeriveMandateTerms(ProductResponse(ProductRow(v)), at)
  <2>1. v \in Product
    BY ProductAssumption
  <2>2. /\ t.per_charge = BaseUnits(v.amount, v.decimals)
        /\ t.max_per_period = BaseUnits(v.max_per_period, v.decimals)
        /\ t.period_seconds = v.period_seconds
        /\ t.max_successful_charges = v.max_successful_charges
        /\ t.start_at = at /\ t.expires_at = at + v.duration
        /\ t.per_charge \in Nat \ {0} /\ t.max_per_period \in Nat \ {0}
    BY <1>1, <2>1, TermsOfProduct
  <2>3. /\ v.period_seconds > 0 /\ v.duration > 0
        /\ v.period_seconds \in Int /\ v.duration \in Int
        /\ v.max_successful_charges \in Column
    BY <1>1, <2>1 DEF Stored, ApiAccepts, Bounded, Product
  <2>4. v.max_successful_charges \in Int /\ v.max_successful_charges <= MaxU32
    <3>1. MaxU32 \div 2 \in Int /\ MaxU32 \div 2 <= MaxU32
      BY WidthAssumption
    <3> QED
      BY <2>3, <3>1, WidthAssumption DEF Column
  <2>5. /\ now \in Nat /\ at \in Nat /\ MaxI128 \in Nat /\ MaxU64 \in Nat
    BY <1>1, WidthAssumption DEF TypeInv, TypeOK, Time
  <2> HIDE DEF t
  <2>6. Encodes(t) /\ ValidInput(m, t) <=>
          /\ t.max_per_period >= t.per_charge
          /\ t.max_per_period <= MaxI128
          /\ now < t.expires_at /\ t.expires_at <= MaxU64
          /\ PayerOf[m] # MerchantOf[m]
    BY <2>2, <2>3, <2>4, <2>5 DEF Encodes, ValidInput
  <2> QED
    BY <2>2, <2>6 DEF t
<1>2. \A v \in Input : FormAccepts(v) => ApiAccepts(v)
  BY FormWithinApi, ProductAssumption
<1>3. TypeInv => ProductsAreSignable
  BY <1>1, <1>2 DEF ProductsAreSignable
<1> QED
  BY <1>3, TypeInvariance, PTL

=============================================================================
