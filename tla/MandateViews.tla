----------------------------- MODULE MandateViews -----------------------------
(***************************************************************************)
(* What the programs around the contract compute from a mandate they have  *)
(* read: the API's precheck of a charge (apps/api/src/chain/precheck.ts),  *)
(* the dashboard's status, period meter, next charge date and buttons      *)
(* (apps/web/src/lib/mandate-status.ts) and the exposure and allowance the *)
(* checkout shows a payer before he signs (mandate-terms.ts).  Each of     *)
(* them mirrors a rule of the contract in another language, with unbounded *)
(* integers, and is compared here with MandateRegistry in every state a    *)
(* mandate can get into.                                                   *)
(***************************************************************************)
EXTENDS MandateAccounting

CONSTANTS
  LedgerSeconds,  \* LEDGER_CLOSE_TIME_SECONDS
  SafetyBuffer,   \* APPROVAL_SAFETY_BUFFER_LEDGERS
  MaxTtl          \* MAX_ENTRY_TTL_LEDGERS

ASSUME ApprovalAssumption ==
  LedgerSeconds \in Nat \ {0} /\ SafetyBuffer \in Nat \ {0} /\ MaxTtl \in Nat

\* error.rs: what charge() may turn a charge away with.
Error ==
  { "MandatePaused", "MandateRevoked", "MandateCompleted", "MandateExpired",
    "ChargeBeforeStart", "ChargeTooSoon", "InvalidAmount",
    "AmountExceedsChargeLimit", "AmountExceedsPeriodLimit",
    "ChargeCountExceeded", "DuplicateCharge", "InsufficientAllowance",
    "InsufficientBalance", "ArithmeticOverflow" }

ASSUME ErrorAssumption == None \notin Error /\ None \notin Int

\* get_mandate: the stored mandate under its effective status.
Read(m, at) ==
  [mandates[m] EXCEPT !.status = EffectiveStatus(mandates[m], at)]

\* The error of the first check that fires, None when none does.
FirstError(checks) ==
  LET fires == {i \in DOMAIN checks : checks[i][1]}
  IN  IF fires = {} THEN None ELSE checks[Min(fires)][2]

StatusError(status) ==
  CASE status = "Paused"    -> "MandatePaused"
    [] status = "Revoked"   -> "MandateRevoked"
    [] status = "Completed" -> "MandateCompleted"
    [] status = "Expired"   -> "MandateExpired"
    [] OTHER                -> None

-----------------------------------------------------------------------------
(* The errors of charge(), in the order of its steps.                      *)

ChargeError(m, c, amount) ==
  LET md     == mandates[m]
      t      == md.terms
      status == EffectiveStatus(md, now)
      next   == md.last_charged_at + t.min_interval_seconds
      paid   == PeriodCollected(md, now) + amount
  IN  FirstError(<<
        <<status # "Active", StatusError(status)>>,
        <<now < t.start_at, "ChargeBeforeStart">>,
        <<now >= t.expires_at, "MandateExpired">>,
        <<HasUsedCharge(m, c), "DuplicateCharge">>,
        <<amount <= 0, "InvalidAmount">>,
        <<~SatisfiesRule(t, amount), "AmountExceedsChargeLimit">>,
        <<md.last_charged_at # NeverCharged /\ next > MaxU64, "ArithmeticOverflow">>,
        <<md.last_charged_at # NeverCharged /\ now < next, "ChargeTooSoon">>,
        <<~ChargesLeft(md), "ChargeCountExceeded">>,
        <<paid > MaxI128, "ArithmeticOverflow">>,
        <<paid > t.max_per_period, "AmountExceedsPeriodLimit">>,
        <<allowance[AssetOf[m]][PayerOf[m]] < amount, "InsufficientAllowance">>,
        <<balance[AssetOf[m]][PayerOf[m]] < amount, "InsufficientBalance">> >>)

-----------------------------------------------------------------------------
(* precheck.ts                                                             *)

CountReached(md) ==
  /\ md.terms.max_successful_charges # 0
  /\ md.successful_charges >= md.terms.max_successful_charges

\* The mutant takes the stored sum for the current period's.
PeriodSum_Stored(md, at) == md.current_period_collected
PeriodSum(md, at) ==
  IF PeriodStart(md.terms, at) = md.current_period_start
  THEN md.current_period_collected ELSE 0

PrecheckCharge(md, amount, at) ==
  LET t == md.terms
  IN  FirstError(<<
        <<md.status # "Active", StatusError(md.status)>>,
        <<at < t.start_at, "ChargeBeforeStart">>,
        <<at >= t.expires_at, "MandateExpired">>,
        <<amount <= 0, "InvalidAmount">>,
        << IF t.rule = "Fixed" THEN amount # t.per_charge
                               ELSE amount > t.per_charge,
           "AmountExceedsChargeLimit" >>,
        << /\ md.last_charged_at # NeverCharged
           /\ at < md.last_charged_at + t.min_interval_seconds,
           "ChargeTooSoon" >>,
        <<CountReached(md), "ChargeCountExceeded">>,
        <<PeriodSum(md, at) + amount > t.max_per_period,
           "AmountExceedsPeriodLimit">> >>)

-----------------------------------------------------------------------------
(* mandate-status.ts                                                       *)

DeriveEffectiveStatus(md, at) ==
  IF md.status \in {"Active", "Paused"} /\ at >= md.terms.expires_at
  THEN "Expired" ELSE md.status

\* Before its start a mandate is in its first period.  The mutant shows the
\* stored meter.
PeriodUsage_Stored(md, at) ==
  [periodStart |-> md.current_period_start,
   collected |-> md.current_period_collected]
PeriodUsage(md, at) ==
  LET start == PeriodStart(md.terms, Max({at, md.terms.start_at}))
  IN  [ periodStart |-> start,
        collected |-> IF start = md.current_period_start
                      THEN md.current_period_collected ELSE 0 ]

\* From the first instant the interval allows, period by period until one
\* has room for the probe; None when no charge is possible any more.
NextEligibleChargeDate(md) ==
  LET t     == md.terms
      probe == IF t.rule = "Fixed" THEN t.per_charge ELSE 1
      first == IF md.last_charged_at = NeverCharged THEN t.start_at
               ELSE Max({t.start_at, md.last_charged_at + t.min_interval_seconds})
      candidate[i \in 0 .. 4] ==
        IF i = 0 THEN first
        ELSE PeriodUsage(md, candidate[i - 1]).periodStart + t.period_seconds
      stops == {i \in 0 .. 3 :
        \/ candidate[i] >= t.expires_at
        \/ PeriodUsage(md, candidate[i]).collected + probe <= t.max_per_period}
      date  == candidate[IF stops = {} THEN 4 ELSE Min(stops)]
  IN  IF md.status # "Active" \/ CountReached(md) \/ date >= t.expires_at
      THEN None ELSE date

Controls(status) ==
  (IF status = "Active" THEN {"pause"} ELSE {})
    \cup (IF status = "Paused" THEN {"resume"} ELSE {})
    \cup (IF status \in {"Active", "Paused"} THEN {"revoke"} ELSE {})

\* mandate-card.tsx: what the payer sees at `at` of a mandate read before.
MandateCard(md, at) ==
  LET status == DeriveEffectiveStatus(md, at)
  IN  [ status |-> status,
        controls |-> Controls(status),
        nextCharge |-> NextEligibleChargeDate([md EXCEPT !.status = status]),
        usage |-> PeriodUsage(md, at) ]

-----------------------------------------------------------------------------
(* mandate-terms.ts                                                        *)

CeilDiv(a, b) == (a + b - 1) \div b

\* The mutant counts full periods only.
PeriodsUntilExpiry_Full(t) == (t.expires_at - t.start_at) \div t.period_seconds
PeriodsUntilExpiry(t) ==
  IF t.expires_at <= t.start_at THEN 1
  ELSE CeilDiv(t.expires_at - t.start_at, t.period_seconds)

MaxExposure(t) ==
  LET byPeriod == t.max_per_period * PeriodsUntilExpiry(t)
      byCount  == t.per_charge * t.max_successful_charges
  IN  IF t.max_successful_charges = 0 THEN byPeriod ELSE Min({byCount, byPeriod})

\* One per cent on top, rounded up to a base unit.
BoundedAllowance(t) == MaxExposure(t) + CeilDiv(MaxExposure(t) * 100, 10000)

\* computeApprovalLiveUntilLedger, counted from the current ledger: the
\* mandate's life is in seconds, the approval's in ledgers.
ApprovalLife(at, expiry) ==
  Min({(Max({0, expiry - at}) \div LedgerSeconds) + SafetyBuffer, MaxTtl})

-----------------------------------------------------------------------------
(* Properties.                                                             *)

(***************************************************************************)
(* precheckCharge "mirrors charge.rs's validation order exactly": it turns *)
(* a charge away exactly when charge() would for a reason that needs only  *)
(* the mandate, and with the same error; where they differ the contract    *)
(* has met a used charge id before it, or left u64.  Both are pure         *)
(* functions of a state that charges, pauses and the clock have made.      *)
(***************************************************************************)
NotMirrored == {None, "DuplicateCharge", "InsufficientAllowance",
                "InsufficientBalance"}

PrecheckAgrees ==
  \A m \in Created, c \in ChargeId, x \in Amount :
    LET error == ChargeError(m, c, x)
        early == PrecheckCharge(Read(m, now), x, now)
    IN  /\ error = None <=> ChargeAccepted(m, c, x)
        /\ IF early = None THEN error \in NotMirrored
           ELSE error \in {early, "DuplicateCharge", "ArithmeticOverflow"}

(***************************************************************************)
(* The mandate card is true at any time it is looked at, for as long as    *)
(* the mandate it was read from does not change: its status is the one the *)
(* contract will report, its meter what the period has collected, every    *)
(* button is a call the contract will accept, and a charge of some amount  *)
(* passes the checks at an instant if and only if the instant is not       *)
(* before the date shown and not after the expiry.                         *)
(***************************************************************************)
ChargeableAt(md, at) ==
  \E x \in 1 .. md.terms.per_charge : PrecheckCharge(md, x, at) = None

DashboardIsRight ==
  \A m \in Created :
    LET md   == Read(m, now)
        date == MandateCard(md, now).nextCharge
    IN  \A at \in now .. MaxU64 :
          LET card   == MandateCard(md, at)
              status == EffectiveStatus(mandates[m], at)
          IN  /\ card.status = status
              /\ "pause" \in card.controls => status = "Active"
              /\ "resume" \in card.controls => status = "Paused"
              /\ "revoke" \in card.controls => status \in {"Active", "Paused"}
              /\ card.usage.collected = gross[m][card.usage.periodStart]
              /\ ChargeableAt(md, at) <=>
                   date # None /\ date <= at /\ at < md.terms.expires_at

(***************************************************************************)
(* The number the payer signs for is a true ceiling: whatever a merchant   *)
(* charges, refunds and charges again until the mandate is over, he never  *)
(* collects more than the maximum exposure, and the bounded allowance      *)
(* never falls short of it.  Whenever it is approved it lives until the    *)
(* mandate's last second, if a ledger takes the five seconds it is taken   *)
(* for - unless the mandate outlasts the network's ceiling, which no check *)
(* turns away.                                                             *)
(***************************************************************************)
LedgersIn(seconds) == seconds \div LedgerSeconds + 1

ExposureCoversCollection ==
  \A m \in Created :
    LET t == mandates[m].terms
    IN  /\ mandates[m].total_collected <= MaxExposure(t)
        /\ MaxExposure(t) <= BoundedAllowance(t)
        /\ now < t.expires_at /\ LedgersIn(t.expires_at - now) <= MaxTtl =>
             ApprovalLife(now, t.expires_at) >= LedgersIn(t.expires_at - 1 - now)
=============================================================================
