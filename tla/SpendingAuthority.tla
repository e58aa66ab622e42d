-------------------------- MODULE SpendingAuthority --------------------------
(***************************************************************************)
(* What a mandate promises its payer, without a clock, tokens or storage:  *)
(* a merchant may pull while the mandate is live, within a cap per billing *)
(* period and a number of pulls, once per charge id; what is given back    *)
(* never exceeds what was pulled under that id; and what is over stays     *)
(* over.  MandateRegistry implements it (see MandateAccounting).           *)
(***************************************************************************)
EXTENDS Naturals, FiniteSets

CONSTANTS MandateId, ChargeId, Period, NoLimit

VARIABLES
  phase,     \* per mandate: "none", "live", "suspended" or "over"
  limit,     \* per mandate: [per_period, pulls], fixed when granted
  pulls,     \* per mandate: how many pulls so far
  spent,     \* per mandate and period: what was pulled
  paid,      \* per mandate and charge id: what was pulled, 0 if nothing
  returned   \* per mandate and charge id: what was given back

vars == <<phase, limit, pulls, spent, paid, returned>>

Init ==
  /\ phase = [m \in MandateId |-> "none"]
  /\ limit = [m \in MandateId |-> NoLimit]
  /\ pulls = [m \in MandateId |-> 0]
  /\ spent = [m \in MandateId |-> [s \in Period |-> 0]]
  /\ paid = [m \in MandateId |-> [c \in ChargeId |-> 0]]
  /\ returned = [m \in MandateId |-> [c \in ChargeId |-> 0]]

Grant(m, l) ==
  /\ phase[m] = "none"
  /\ l.per_period > 0
  /\ phase' = [phase EXCEPT ![m] = "live"]
  /\ limit' = [limit EXCEPT ![m] = l]
  /\ UNCHANGED <<pulls, spent, paid, returned>>

\* The payer suspends or reinstates.
Switch(m, from, to) ==
  /\ phase[m] = from
  /\ phase' = [phase EXCEPT ![m] = to]
  /\ UNCHANGED <<limit, pulls, spent, paid, returned>>

\* Some mandates end: one is revoked, or time passes and several expire.
End(S) ==
  /\ S # {}
  /\ \A m \in S : phase[m] \in {"live", "suspended"}
  /\ phase' = [m \in MandateId |-> IF m \in S THEN "over" ELSE phase[m]]
  /\ UNCHANGED <<limit, pulls, spent, paid, returned>>

\* The last pull the limit allows ends the mandate; 0 is no limit.
Pull(m, c, s, x) ==
  LET count == pulls[m] + 1
      most  == limit[m].pulls
  IN  /\ phase[m] = "live"
      /\ paid[m][c] = 0
      /\ x > 0
      /\ spent[m][s] + x <= limit[m].per_period
      /\ most # 0 => count <= most
      /\ phase' = [phase EXCEPT ![m] =
                     IF most # 0 /\ count = most THEN "over" ELSE "live"]
      /\ pulls' = [pulls EXCEPT ![m] = count]
      /\ spent' = [spent EXCEPT ![m][s] = @ + x]
      /\ paid' = [paid EXCEPT ![m][c] = x]
      /\ UNCHANGED <<limit, returned>>

GiveBack(m, c, x) ==
  /\ x > 0
  /\ returned[m][c] + x <= paid[m][c]
  /\ returned' = [returned EXCEPT ![m][c] = @ + x]
  /\ UNCHANGED <<phase, limit, pulls, spent, paid>>

\* Which limits are granted and how much is moved is the environment's
\* choice: an implementation says what the two sets are.
Step(Limits, Sums) ==
  \/ \E m \in MandateId :
       \/ \E l \in Limits : Grant(m, l)
       \/ Switch(m, "live", "suspended")
       \/ Switch(m, "suspended", "live")
       \/ \E c \in ChargeId, s \in Period, x \in Sums : Pull(m, c, s, x)
       \/ \E c \in ChargeId, x \in Sums : GiveBack(m, c, x)
  \/ \E S \in SUBSET MandateId : End(S)
=============================================================================
