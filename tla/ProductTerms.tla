---------------------------- MODULE ProductTerms ----------------------------
(***************************************************************************)
(* From a merchant's product form to the terms a payer signs: the form     *)
(* (merchant-product-form.ts), POST /products, the row, the product as the *)
(* checkout page receives it, deriveMandateTerms and create_mandate.  Each *)
(* of the five checks or converts by itself, in its own integers, and only *)
(* the last one decides.                                                   *)
(*                                                                         *)
(* A decimal string is the integer of its digits and the number of its     *)
(* fractional places; whatever is not one is None.                         *)
(***************************************************************************)
EXTENDS MandateViews

CONSTANTS
  Input,          \* what a merchant may enter or send
  MaxDuration,    \* MAX_BOUNDED_DURATION_SECONDS
  MaxDecimals

\* DECIMAL_STRING_PATTERN: digits, and none or some of them after a point.
Decimal == [digits : Nat, places : Nat]

\* CreateProductInput.  The numbers are safe integers, negative ones included.
Product ==
  [ amount_type : {"fixed", "variable"}, amount : Decimal \cup {None},
    max_per_period : Decimal \cup {None}, decimals : Int,
    period_seconds : Int, min_interval_seconds : Int,
    max_successful_charges : Int, duration : Int ]

ASSUME ProductAssumption ==
  /\ Input \subseteq Product /\ None \notin Decimal
  /\ MaxDuration \in Nat /\ MaxDecimals \in Nat

\* decimalToBaseUnits rejects, never rounds.
BaseUnits(decimal, decimals) ==
  IF decimal = None THEN None
  ELSE IF decimal.places > decimals THEN None
  ELSE decimal.digits * 10 ^ (decimals - decimal.places)

BaseUnitsToDecimal(amount, decimals) == [digits |-> amount, places |-> decimals]

\* decimalToPositiveBaseUnits; the mutant lets zero pass.
Positive_OrZero(amount) == amount # None
Positive(amount) == IF amount = None THEN FALSE ELSE amount > 0

\* parseNonNegativeInt, and a duration of up to ten years.
Bounded(seconds) == seconds > 0 /\ seconds <= MaxDuration

FormAccepts(v) ==
  /\ v.decimals >= 0 /\ v.decimals <= MaxDecimals
  /\ Bounded(v.period_seconds) /\ Bounded(v.duration)
  /\ v.min_interval_seconds >= 0 /\ v.max_successful_charges >= 0
  /\ Positive(BaseUnits(v.max_per_period, v.decimals))
  /\ Positive(BaseUnits(v.amount, v.decimals))

\* CreateProductSchema and the conversions of POST /products; the mutant's
\* schema has forgotten that a period lasts.
ApiAccepts_AnyPeriod(v) ==
  /\ v.decimals \in 0 .. MaxDecimals
  /\ Bounded(v.duration) /\ v.period_seconds >= 0
  /\ v.min_interval_seconds >= 0 /\ v.max_successful_charges >= 0
  /\ Positive(BaseUnits(v.max_per_period, v.decimals))
  /\ Positive(BaseUnits(v.amount, v.decimals))
ApiAccepts(v) ==
  /\ v.decimals \in 0 .. MaxDecimals
  /\ Bounded(v.period_seconds) /\ Bounded(v.duration)
  /\ v.min_interval_seconds >= 0 /\ v.max_successful_charges >= 0
  /\ Positive(BaseUnits(v.max_per_period, v.decimals))
  /\ Positive(BaseUnits(v.amount, v.decimals))

\* Product: the integer columns are signed and as wide as the contract's
\* u32, the amounts are strings.
Column == 0 .. MaxU32 \div 2
Stored(v) ==
  /\ ApiAccepts(v)
  /\ {v.period_seconds, v.min_interval_seconds, v.max_successful_charges,
      v.duration} \subseteq Column

ProductRow(v) ==
  [v EXCEPT !.amount = BaseUnits(@, v.decimals),
            !.max_per_period = BaseUnits(@, v.decimals)]

ProductResponse(row) ==
  [row EXCEPT !.amount = BaseUnitsToDecimal(@, row.decimals),
              !.max_per_period = BaseUnitsToDecimal(@, row.decimals)]

\* What the checkout page that was rendered at `at` asks the payer to sign.
DeriveMandateTerms(product, at) ==
  [ rule |-> IF product.amount_type = "fixed" THEN "Fixed" ELSE "Variable",
    per_charge |-> BaseUnits(product.amount, product.decimals),
    max_per_period |-> BaseUnits(product.max_per_period, product.decimals),
    period_seconds |-> product.period_seconds,
    min_interval_seconds |-> product.min_interval_seconds,
    start_at |-> at,
    expires_at |-> at + product.duration,
    max_successful_charges |-> product.max_successful_charges ]

\* An argument of create_mandate has to fit its type.
Encodes(t) ==
  /\ t.per_charge <= MaxI128 /\ t.max_per_period <= MaxI128
  /\ t.expires_at <= MaxU64 /\ t.max_successful_charges <= MaxU32

-----------------------------------------------------------------------------
(* Properties.                                                             *)

(***************************************************************************)
(* "Never let this UI accept a value the API would reject", and what the   *)
(* API has accepted a payer can sign, whenever the page was rendered and   *)
(* however far the ledger's clock is from the browser's, with three        *)
(* exceptions that nobody checks before the contract does: a period cap    *)
(* below the amount of one charge, an amount beyond i128, and a page as    *)
(* old as the mandate would have become.  The amounts signed are those     *)
(* that were entered.                                                      *)
(***************************************************************************)
ProductsAreSignable ==
  \A m \in MandateId \ Created, v \in Input :
    /\ FormAccepts(v) => ApiAccepts(v)
    /\ Stored(v) =>
         \A at \in Time :
           LET t == DeriveMandateTerms(ProductResponse(ProductRow(v)), at)
           IN  /\ t.per_charge = BaseUnits(v.amount, v.decimals)
               /\ t.max_per_period = BaseUnits(v.max_per_period, v.decimals)
               /\ Encodes(t) /\ ValidInput(m, t) <=>
                    /\ t.max_per_period >= t.per_charge
                    /\ t.max_per_period <= MaxI128
                    /\ now < t.expires_at /\ t.expires_at <= MaxU64
                    /\ PayerOf[m] # MerchantOf[m]
=============================================================================
