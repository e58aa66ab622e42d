--------------------------- MODULE ChargePipeline ---------------------------
(***************************************************************************)
(* The relayer's charge pipeline: scheduler.ts (of one or more relayer     *)
(* processes, and with ticks that overlap) finds due ChargeRequest         *)
(* rows and puts them on a BullMQ queue, the workers run pipeline.ts on    *)
(* them, one step per await, and the ledger includes what they broadcast   *)
(* when it likes.  Workers may crash, lose the lock of a job they still    *)
(* run, or outlive the ten minutes after which the scheduler takes their   *)
(* row back; MaxFaults bounds how often.  The rows are Postgres tables:    *)
(* every action that writes them is one transaction.                       *)
(*                                                                         *)
(* Time is in hours and jumps to the instants somebody waits for.  Of the  *)
(* contract only what decides the fate of a charge is kept: its charge     *)
(* limit, a mandate revoked, a payer without funds, and the merchant's     *)
(* signature, which expires and is good for one charge.                    *)
(***************************************************************************)
EXTENDS Integers, Sequences, FiniteSets

CONSTANTS
  Request,            \* ChargeRequest ids; each has its own charge_id
  Mandate, MandateOf,
  MaxCharges,         \* per mandate: max_successful_charges, 0 for no limit
  Worker,             \* concurrent pipeline runs, of any relayer process
  Scheduler,          \* ticks that may overlap, of one process or of several
  ScheduledFor,       \* per request: when its first attempt is due
  RetryDelays,        \* <<6, 24, 72>> in retry-schedule.ts
  AuthorizationTTL,   \* how long past ScheduledFor a signature is valid
  MaxSubmissions,     \* bound on the transactions ever broadcast
  MaxFaults,          \* bound on crashes, lost locks and overlong steps
  None

ASSUME PipelineAssumption ==
  /\ IsFiniteSet(Request)
  /\ MandateOf \in [Request -> Mandate]
  /\ MaxCharges \in [Mandate -> Nat]
  /\ ScheduledFor \in [Request -> Nat]
  /\ RetryDelays \in Seq(Nat) /\ AuthorizationTTL \in Nat
  /\ MaxSubmissions \in Nat /\ MaxFaults \in Nat

\* Final on its own: the status of a ChargeRequest row that is never left.
Terminal == {"succeeded", "permanently_failed"}
RowStatus == Terminal \cup
  {"scheduled", "processing", "simulated", "submitted", "retryable_failed"}

\* The frozen table of errors.ts, as far as a charge can meet it.
Retryable == {"InsufficientBalance"}
ContractError ==
  Retryable \cup {"MandateRevoked", "MandateCompleted"}
Class(error) == IF error \in Retryable THEN "transient" ELSE "permanent"

Reason == ContractError \cup
  { "RPC_UNAVAILABLE", "SEND_FAILED", "TX_NOT_INCLUDED",
    "CHARGE_CONTEXT_NOT_FOUND", "MERCHANT_AUTHORIZATION_MISSING",
    "MERCHANT_AUTHORIZATION_EXPIRED", "WORKER_INTERRUPTED" }

\* What the pipeline uses of a ChargeRequest; stale abstracts updatedAt.
Row == [ status : RowStatus, attemptCount : Nat,
         failureCode : Reason \cup {None}, nextAttemptAt : Nat \cup {None},
         stale : BOOLEAN ]

ASSUME NoneAssumption ==
  None \notin Request /\ None \notin RowStatus /\ None \notin Row

VARIABLES
  now,
  rows,            \* ChargeRequest, None before it is created
  authorizations,  \* ChargeAuthorization.status
  payments,        \* the requests that have a Payment row
  webhooks,        \* WebhookDelivery rows, counted per event and subject
  queue,           \* BullMQ: jobs waiting (a job id is its request id)
  scheduler,       \* each tick: its step and the rows it found
  worker,          \* each pipeline run: its step and its local variables
  transactions,    \* what was broadcast: request and fate on the ledger
  used,            \* on chain: charge ids consumed
  revoked, broke,  \* on chain: mandates revoked; mandates payers can't pay
  faults

database == <<rows, authorizations, payments, webhooks>>
chain    == <<transactions, used, revoked, broke>>
vars == <<now, database, queue, scheduler, worker, chain, faults>>

Idle == [ pc |-> "idle", job |-> None, holds |-> FALSE, believes |-> None,
          attempt |-> 0, seen |-> 0, tx |-> 0, class |-> None,
          reason |-> None ]

-----------------------------------------------------------------------------
ExpiresAt(r) == ScheduledFor[r] + AuthorizationTTL

Charged(m) == Cardinality({r \in used : MandateOf[r] = m})

\* What becomes of charge() for r in the current ledger state.  Step 5 is
\* require_auth: a signature that has expired, or whose nonce was used, traps
\* before the contract looks at the charge id, which is as unique.
Verdict(r) ==
  LET m == MandateOf[r]
  IN  IF m \in revoked THEN "MandateRevoked"
      ELSE IF MaxCharges[m] # 0 /\ Charged(m) = MaxCharges[m]
      THEN "MandateCompleted"
      ELSE IF r \in used \/ now >= ExpiresAt(r) THEN "trapped"
      ELSE IF m \in broke THEN "InsufficientBalance"
      ELSE "success"

\* The status a row has, if it exists.
StatusOf(r) == IF rows[r] = None THEN None ELSE rows[r].status

\* Mutant: an update by id alone, as prisma.update() would do it.
InStatus_Unguarded(r, status) == rows[r] # None

\* The WHERE clause of transitionChargeRequest's updateMany.
InStatus(r, status) == StatusOf(r) = status

\* A job id exists in BullMQ while it waits or is active under a lock.
HasJob(r) ==
  r \in queue \/ \E w \in Worker : worker[w].job = r /\ worker[w].holds

EventKey ==
  ({"payment.succeeded", "payment.failed"} \X Request)
    \cup ({"mandate.completed"} \X Mandate)

Enqueue(events) ==
  webhooks' = [e \in EventKey |-> webhooks[e] + IF e \in events THEN 1 ELSE 0]

Goto(w, step) == worker' = [worker EXCEPT ![w].pc = step]
Finish(w) == worker' = [worker EXCEPT ![w] = Idle]
FailWith(w, class, reason) ==
  worker' = [worker EXCEPT ![w].pc = "fail",
                           ![w].class = class, ![w].reason = reason]

\* The schedule, and None once it is exhausted.
NextRetryAt(attempt) ==
  IF attempt \in DOMAIN RetryDelays THEN now + RetryDelays[attempt] ELSE None

-----------------------------------------------------------------------------
Init ==
  /\ now = 0
  /\ rows = [r \in Request |-> None]
  /\ authorizations = [r \in Request |-> "pending"]
  /\ payments = {}
  /\ webhooks = [e \in EventKey |-> 0]
  /\ queue = {}
  /\ scheduler = [s \in Scheduler |-> [pc |-> "recover", due |-> {}]]
  /\ worker = [w \in Worker |-> Idle]
  /\ transactions = <<>>
  /\ used = {} /\ revoked = {} /\ broke = {}
  /\ faults = 0

\* charges.ts: the merchant's signature arrives, the request is accepted.
CompleteAuthorization(r) ==
  /\ authorizations[r] = "pending"
  /\ rows[r] = None
  /\ now < ExpiresAt(r)
  /\ authorizations' = [authorizations EXCEPT ![r] = "ready"]
  /\ rows' = [rows EXCEPT ![r] =
       [ status |-> "scheduled", attemptCount |-> 0, failureCode |-> None,
         nextAttemptAt |-> None, stale |-> FALSE ]]
  /\ UNCHANGED <<now, payments, webhooks, queue, scheduler, worker, chain, faults>>

-----------------------------------------------------------------------------
(* scheduler.ts                                                            *)

\* The states a crashed worker may leave a row in without having broadcast;
\* one mutant takes back submitted rows as well, one forgets a state.
PreSubmission_All == {"processing", "simulated", "submitted"}
PreSubmission_Claimed == {"processing"}
PreSubmission == {"processing", "simulated"}

Recover(s) ==
  /\ scheduler[s].pc = "recover"
  /\ rows' = [r \in Request |->
       IF StatusOf(r) \in PreSubmission /\ rows[r].stale
       THEN [rows[r] EXCEPT !.status = "retryable_failed",
                            !.failureCode = "WORKER_INTERRUPTED",
                            !.nextAttemptAt = now, !.stale = FALSE]
       ELSE rows[r]]
  /\ scheduler' = [scheduler EXCEPT ![s].pc = "find"]
  /\ UNCHANGED <<now, authorizations, payments, webhooks, queue, worker, chain, faults>>

IsDue(r) ==
  \/ StatusOf(r) = "scheduled" /\ ScheduledFor[r] <= now
  \/ StatusOf(r) = "retryable_failed" /\ rows[r].nextAttemptAt <= now

\* A tick that is through with its rows is the next tick.
Tick(s, due) ==
  scheduler' = [scheduler EXCEPT
    ![s] = [pc |-> IF due = {} THEN "recover" ELSE "enqueue", due |-> due]]

FindDue(s) ==
  /\ scheduler[s].pc = "find"
  /\ Tick(s, {r \in Request : IsDue(r)})
  /\ UNCHANGED <<now, database, queue, worker, chain, faults>>

\* queue.add() with the request id as job id: a no-op while the job exists.
EnqueueDue(s, r) ==
  /\ scheduler[s].pc = "enqueue" /\ r \in scheduler[s].due
  /\ queue' = IF HasJob(r) THEN queue ELSE queue \cup {r}
  /\ Tick(s, scheduler[s].due \ {r})
  /\ UNCHANGED <<now, database, worker, chain, faults>>

-----------------------------------------------------------------------------
(* pipeline.ts, one action per await                                       *)

\* The worker is handed the job and reads the row.
TakeJob(w) ==
  /\ worker[w].pc = "idle"
  /\ \E r \in queue :
       /\ queue' = queue \ {r}
       /\ worker' = [worker EXCEPT ![w] =
            [ Idle EXCEPT
                !.pc = "claim", !.job = r, !.holds = TRUE,
                !.believes = IF InStatus(r, "retryable_failed")
                             THEN "retryable_failed" ELSE "scheduled",
                !.attempt = rows[r].attemptCount + 1 ]]
  /\ UNCHANGED <<now, database, scheduler, chain, faults>>

\* A transition of the row w works on; an exception ends the run without it.
Transition(w, to, step) ==
  LET r == worker[w].job
  IN  /\ IF InStatus(r, worker[w].believes)
         THEN /\ rows' = [rows EXCEPT ![r] =
                   [@ EXCEPT !.status = to, !.stale = FALSE,
                             !.attemptCount =
                                IF to = "processing" THEN worker[w].attempt
                                ELSE rows[r].attemptCount]]
              /\ worker' = [worker EXCEPT ![w].pc = step, ![w].believes = to]
         ELSE Finish(w) /\ UNCHANGED rows
      /\ UNCHANGED <<now, authorizations, payments, webhooks, queue,
                     scheduler, chain, faults>>

Claim(w)         == worker[w].pc = "claim"    /\ Transition(w, "processing", "mandate")
MarkSimulated(w) == worker[w].pc = "simulate" /\ Transition(w, "simulated", "submit")
MarkSubmitted(w) == worker[w].pc = "submit"   /\ Transition(w, "submitted", "send")

\* The mandate as it is before the charge, and the merchant's own records
\* about it; anything that does not match is refused for good.
ReadMandate(w) ==
  /\ worker[w].pc = "mandate"
  /\ \/ worker' = [worker EXCEPT
          ![w].pc = "authorize", ![w].seen = Charged(MandateOf[worker[w].job])]
     \/ FailWith(w, "transient", "RPC_UNAVAILABLE")
     \/ FailWith(w, "permanent", "CHARGE_CONTEXT_NOT_FOUND")
  /\ UNCHANGED <<now, database, queue, scheduler, chain, faults>>

Authorize(w) ==
  /\ worker[w].pc = "authorize"
  /\ IF authorizations[worker[w].job] = "ready"
     THEN Goto(w, "ledger")
     ELSE FailWith(w, "permanent", "MERCHANT_AUTHORIZATION_MISSING")
  /\ UNCHANGED <<now, database, queue, scheduler, chain, faults>>

CheckLedger(w) ==
  /\ worker[w].pc = "ledger"
  /\ \/ Goto(w, IF now >= ExpiresAt(worker[w].job) THEN "expire" ELSE "prepare")
     \/ FailWith(w, "transient", "RPC_UNAVAILABLE")
  /\ UNCHANGED <<now, database, queue, scheduler, chain, faults>>

ExpireAuthorization(w) ==
  /\ worker[w].pc = "expire"
  /\ authorizations' = [authorizations EXCEPT ![worker[w].job] = "expired"]
  /\ FailWith(w, "permanent", "MERCHANT_AUTHORIZATION_EXPIRED")
  /\ UNCHANGED <<now, rows, payments, webhooks, queue, scheduler, chain, faults>>

\* Simulation against the current ledger; a trap is no contract error, and
\* prepareCharge throws.
Prepare(w) ==
  LET verdict == Verdict(worker[w].job)
  IN  /\ worker[w].pc = "prepare"
      /\ \/ verdict = "success" /\ Goto(w, "simulate")
         \/ verdict \in ContractError /\ FailWith(w, Class(verdict), verdict)
         \/ FailWith(w, "transient", "RPC_UNAVAILABLE")
      /\ UNCHANGED <<now, database, queue, scheduler, chain, faults>>

\* The envelope leaves, or sendTransaction refuses it.
Send(w) ==
  /\ worker[w].pc = "send"
  /\ \/ /\ Len(transactions) < MaxSubmissions
        /\ transactions' = Append(transactions,
             [request |-> worker[w].job, fate |-> "pending"])
        /\ worker' = [worker EXCEPT
             ![w].pc = "poll", ![w].tx = Len(transactions) + 1]
     \/ /\ FailWith(w, "transient", "SEND_FAILED")
        /\ UNCHANGED transactions
  /\ UNCHANGED <<now, database, queue, scheduler, used, revoked, broke, faults>>

\* Mutant: a transaction that was broadcast is taken for included.
Poll_Optimistic(w) ==
  /\ worker[w].pc = "poll"
  /\ Goto(w, "settle") \/ FailWith(w, "transient", "TX_NOT_INCLUDED")
  /\ UNCHANGED <<now, database, queue, scheduler, chain, faults>>

\* The polling window ends with the transaction's fate, or without it: not
\* included in time, a trap, or RPC fails, all of them transient.
Poll(w) ==
  LET fate == transactions[worker[w].tx].fate
  IN  /\ worker[w].pc = "poll"
      /\ \/ fate = "success" /\ Goto(w, "settle")
         \/ fate \in ContractError /\ FailWith(w, Class(fate), fate)
         \/ FailWith(w, "transient", "TX_NOT_INCLUDED")
      /\ UNCHANGED <<now, database, queue, scheduler, chain, faults>>

\* The charge brings the count, as read before it, to the limit; the mutant
\* looks at the count after the charge.
CompletesMandate_Reread(w) ==
  LET m == MandateOf[worker[w].job]
  IN  MaxCharges[m] > 0 /\ Charged(m) = MaxCharges[m]
CompletesMandate(w) ==
  LET most == MaxCharges[MandateOf[worker[w].job]]
  IN  most > 0 /\ worker[w].seen + 1 = most

\* One transaction: Payment row, transition, authorization, webhooks.  It
\* rolls back when the row is no longer submitted or the Payment exists.
Settle(w) ==
  LET r == worker[w].job
  IN  /\ worker[w].pc = "settle"
      /\ IF InStatus(r, "submitted") /\ r \notin payments
         THEN /\ payments' = payments \cup {r}
              /\ rows' = [rows EXCEPT ![r].status = "succeeded"]
              /\ authorizations' = [authorizations EXCEPT ![r] = "consumed"]
              /\ Enqueue({<<"payment.succeeded", r>>} \cup
                   IF CompletesMandate(w)
                   THEN {<<"mandate.completed", MandateOf[r]>>} ELSE {})
         ELSE UNCHANGED database
      /\ Finish(w)
      /\ UNCHANGED <<now, queue, scheduler, chain, faults>>

\* fail(): retry later, or give up and say so, in one transaction.
Fail(w) ==
  LET r == worker[w].job
      retryAt == IF worker[w].class = "transient"
                 THEN NextRetryAt(worker[w].attempt) ELSE None
  IN  /\ worker[w].pc = "fail"
      /\ IF InStatus(r, worker[w].believes)
         THEN /\ rows' = [rows EXCEPT ![r] =
                   [@ EXCEPT !.status = IF retryAt = None
                                        THEN "permanently_failed"
                                        ELSE "retryable_failed",
                             !.failureCode = worker[w].reason,
                             !.nextAttemptAt = retryAt, !.stale = FALSE]]
              /\ Enqueue(IF retryAt = None
                         THEN {<<"payment.failed", r>>} ELSE {})
         ELSE UNCHANGED <<rows, webhooks>>
      /\ Finish(w)
      /\ UNCHANGED <<now, authorizations, payments, queue, scheduler, chain, faults>>

WorkerStep(w) ==
  \/ TakeJob(w) \/ Claim(w) \/ ReadMandate(w) \/ Authorize(w)
  \/ CheckLedger(w) \/ ExpireAuthorization(w) \/ Prepare(w)
  \/ MarkSimulated(w) \/ MarkSubmitted(w) \/ Send(w) \/ Poll(w)
  \/ Settle(w) \/ Fail(w)

-----------------------------------------------------------------------------
(* Faults                                                                  *)

Fault == faults < MaxFaults /\ faults' = faults + 1

\* The process dies, or an exception escapes: BullMQ hands the job out again
\* or drops it, and the row stays as it is.
Crash(w) ==
  /\ Fault
  /\ worker[w].pc # "idle"
  /\ \/ queue' = queue
     \/ worker[w].holds /\ queue' = queue \cup {worker[w].job}
  /\ Finish(w)
  /\ UNCHANGED <<now, database, scheduler, chain>>

\* The job's lock expires while its run is alive: it is handed out again.
LoseLock(w) ==
  /\ Fault
  /\ worker[w].holds
  /\ queue' = queue \cup {worker[w].job}
  /\ worker' = [worker EXCEPT ![w].holds = FALSE]
  /\ UNCHANGED <<now, database, scheduler, chain>>

InProgress == {"processing", "simulated", "submitted"}

InHand(r) == \E w \in Worker :
  worker[w].job = r /\ worker[w].believes \in InProgress

\* Ten minutes without an update of the row; while a run is still at it,
\* that run hangs.
GoStale(r) ==
  /\ StatusOf(r) \in InProgress /\ ~rows[r].stale
  /\ IF InHand(r) THEN Fault ELSE UNCHANGED faults
  /\ rows' = [rows EXCEPT ![r].stale = TRUE]
  /\ UNCHANGED <<now, authorizations, payments, webhooks, queue, scheduler, worker, chain>>

-----------------------------------------------------------------------------
(* The ledger and its clock                                                *)

\* A broadcast transaction is executed.
Include(i) ==
  LET r == transactions[i].request
  IN  /\ transactions[i].fate = "pending"
      /\ transactions' = [transactions EXCEPT ![i].fate = Verdict(r)]
      /\ used' = IF Verdict(r) = "success" THEN used \cup {r} ELSE used
      /\ UNCHANGED <<now, database, queue, scheduler, worker, revoked, broke, faults>>

Revoke(m) ==
  /\ revoked' = revoked \cup {m}
  /\ UNCHANGED <<now, database, queue, scheduler, worker, transactions, used, broke, faults>>

\* The payer's balance or allowance falls short, or is topped up.
ChangeFunds(m) ==
  /\ broke' = IF m \in broke THEN broke \ {m} ELSE broke \cup {m}
  /\ UNCHANGED <<now, database, queue, scheduler, worker, transactions, used, revoked, faults>>

Instants ==
  {ScheduledFor[r] : r \in Request} \cup {ExpiresAt(r) : r \in Request}
    \cup {rows[r].nextAttemptAt : r \in {q \in Request :
            rows[q] # None /\ rows[q].nextAttemptAt # None}}

AdvanceTime ==
  /\ \E t \in Instants : t > now /\ now' = t
  /\ UNCHANGED <<database, queue, scheduler, worker, chain, faults>>

SchedulerStep(s) ==
  Recover(s) \/ FindDue(s) \/ \E r \in Request : EnqueueDue(s, r)

Next ==
  \/ \E r \in Request : CompleteAuthorization(r) \/ GoStale(r)
  \/ \E s \in Scheduler : SchedulerStep(s)
  \/ \E w \in Worker : WorkerStep(w) \/ Crash(w) \/ LoseLock(w)
  \/ \E i \in DOMAIN transactions : Include(i)
  \/ \E m \in Mandate : Revoke(m) \/ ChangeFunds(m)
  \/ AdvanceTime

Spec == Init /\ [][Next]_vars

\* Timers fire, workers run, and a row nobody works on grows old; faults,
\* the ledger, payers and merchants owe nothing.
Fairness ==
  /\ WF_vars(AdvanceTime)
  /\ \A s \in Scheduler : WF_vars(SchedulerStep(s))
  /\ \A w \in Worker : WF_vars(WorkerStep(w))
  /\ \A r \in Request : WF_vars(GoStale(r) /\ ~InHand(r))

FairSpec == Spec /\ Fairness

-----------------------------------------------------------------------------
(* Properties.                                                             *)

(***************************************************************************)
(* The tables hold what the schema lets them hold, and each pipeline run   *)
(* the local variables of processChargeRequest.                            *)
(***************************************************************************)
Step == { "idle", "claim", "mandate", "authorize", "ledger", "expire",
          "prepare", "simulate", "submit", "send", "poll", "settle", "fail" }

Run == [ pc : Step, job : Request \cup {None}, holds : BOOLEAN,
         believes : RowStatus \cup {None}, attempt : Nat, seen : Nat,
         tx : Nat, class : {"transient", "permanent", None},
         reason : Reason \cup {None} ]

Fate == ContractError \cup {"pending", "success", "trapped"}
Transaction == [request : Request, fate : Fate]

TypeOK ==
  /\ now \in Nat
  /\ rows \in [Request -> Row \cup {None}]
  /\ authorizations \in
       [Request -> {"pending", "ready", "consumed", "expired"}]
  /\ payments \subseteq Request
  /\ webhooks \in [EventKey -> Nat]
  /\ queue \subseteq Request
  /\ scheduler \in
       [Scheduler -> [pc : {"recover", "find", "enqueue"}, due : SUBSET Request]]
  /\ worker \in [Worker -> Run]
  /\ transactions \in Seq(Transaction)
  /\ used \subseteq Request
  /\ revoked \subseteq Mandate /\ broke \subseteq Mandate
  /\ faults \in 0 .. MaxFaults

(***************************************************************************)
(* At most one run at a time is between the submitted transition and its   *)
(* end for a request, and the row says submitted until that run decides:   *)
(* although runs that lost their claim to the scheduler's recovery go on   *)
(* and their guarded transitions may still match, on a later run's claim.  *)
(***************************************************************************)
Submitting(w) ==
  \/ worker[w].pc \in {"send", "poll", "settle"}
  \/ worker[w].pc = "fail" /\ worker[w].believes = "submitted"

SingleSubmitter ==
  /\ \A w \in Worker :
       Submitting(w) => StatusOf(worker[w].job) = "submitted"
  /\ \A v, w \in Worker :
       Submitting(v) /\ Submitting(w) /\ v # w => worker[v].job # worker[w].job

(***************************************************************************)
(* A Payment row is written only from a confirmed result: the ledger has   *)
(* executed exactly one transaction of that request (steps 7 and 8 of the  *)
(* pipeline), however many were broadcast.                                 *)
(***************************************************************************)
PaymentsAreReal ==
  \A r \in payments :
    Cardinality({i \in DOMAIN transactions :
      transactions[i].request = r /\ transactions[i].fate = "success"}) = 1

(***************************************************************************)
(* Row, Payment row and webhooks tell the merchant one story: succeeded    *)
(* has its Payment and one payment.succeeded, permanently_failed one       *)
(* payment.failed, any other status neither; and only a request that       *)
(* succeeded has consumed its authorization.                               *)
(***************************************************************************)
OneStory ==
  \A r \in Request :
    LET told(event) == webhooks[<<event, r>>]
    IN  /\ r \in payments <=> StatusOf(r) = "succeeded"
        /\ told("payment.succeeded") =
             IF StatusOf(r) = "succeeded" THEN 1 ELSE 0
        /\ told("payment.failed") =
             IF StatusOf(r) = "permanently_failed" THEN 1 ELSE 0
        /\ authorizations[r] = "consumed" => StatusOf(r) = "succeeded"

(***************************************************************************)
(* mandate.completed is announced at most once per mandate, and only when  *)
(* the contract has completed it, although the pipeline decides it from a  *)
(* count it read before its charge.                                        *)
(***************************************************************************)
CompletionIsTrue ==
  \A m \in Mandate :
    LET announced == webhooks[<<"mandate.completed", m>>]
    IN  /\ announced <= 1
        /\ announced = 1 => MaxCharges[m] # 0 /\ Charged(m) = MaxCharges[m]

(***************************************************************************)
(* A terminal row, its Payment and what was said about it never change.    *)
(***************************************************************************)
TerminalIsFinal ==
  [][ \A r \in Request : StatusOf(r) \in Terminal =>
        /\ rows'[r] = rows[r]
        /\ r \in payments <=> r \in payments'
        /\ \A event \in {"payment.succeeded", "payment.failed"} :
             webhooks'[<<event, r>>] = webhooks[<<event, r>>]
    ]_vars

(***************************************************************************)
(* Every accepted request comes to an end, through any crash before its    *)
(* submission: it reaches a terminal status, or its run ended after the    *)
(* submitted transition and the row waits to be reconciled by hand.        *)
(***************************************************************************)
Settled(r) ==
  \/ StatusOf(r) \in Terminal
  \/ StatusOf(r) = "submitted"
     /\ \A w \in Worker : worker[w].job = r => ~Submitting(w)

EveryRequestSettles == \A r \in Request : (rows[r] # None) ~> Settled(r)

-----------------------------------------------------------------------------
(* What a comment says of the pipeline, and it does not do.                *)

(***************************************************************************)
(* scheduler.ts: the ledger outcome of a submitted row "must be            *)
(* reconciled, never guessed".  A request of which the merchant is told    *)
(* that it has failed for good, because the authorization ran out before   *)
(* it was used, has not been charged with that authorization.              *)
(***************************************************************************)
FailedMeansNotCharged ==
  \A r \in Request :
    /\ StatusOf(r) = "permanently_failed"
    /\ rows[r].failureCode = "MERCHANT_AUTHORIZATION_EXPIRED"
    => r \notin used
=============================================================================
