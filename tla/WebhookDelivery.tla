--------------------------- MODULE WebhookDelivery ---------------------------
(***************************************************************************)
(* How the relayer delivers webhooks: webhook-scheduler.ts finds due       *)
(* WebhookDelivery rows and puts their ids on a BullMQ queue that, unlike  *)
(* the charge queue, keeps the ids of finished jobs; the workers run       *)
(* webhook-delivery.ts on them, one step per await; the merchant's server  *)
(* answers what it likes, or never.  A run may die, throw, or lose the     *)
(* lock of the job it is still at; MaxFaults bounds how often.  Time is in *)
(* minutes and jumps to the instants somebody waits for.                   *)
(***************************************************************************)
EXTENDS Integers, Sequences, FiniteSets

CONSTANTS
  Delivery,      \* WebhookDelivery ids
  KeyMatches,    \* the relayer has the key the API encrypts secrets with
  Worker,        \* concurrent runs, of any relayer process
  Scheduler,     \* ticks that may overlap, of one process or of several
  RetryDelays,   \* <<1, 5, 30, 120, 360>> in webhook-retry-schedule.ts
  Retained,      \* 1000: finished jobs BullMQ keeps, of either kind
  MaxFaults,     \* bound on crashes, lost locks and broken ticks
  None

ASSUME DeliveryAssumption ==
  /\ IsFiniteSet(Delivery)
  /\ KeyMatches \in BOOLEAN
  /\ RetryDelays \in Seq(Nat)
  /\ Retained \in Nat /\ MaxFaults \in Nat

Terminal == {"delivered", "dead_letter"}
RowStatus == Terminal \cup {"pending", "delivering", "retry_scheduled"}

Row == [ status : RowStatus, attemptCount : Nat,
         nextAttemptAt : Nat \cup {None} ]

\* What webhook-http.ts reports of a request that left.
Answer == { "200", "other 2xx", "408 or 429", "5xx", "timeout",
            "network_error", "other 4xx", "redirect" }

\* What became of an attempt: the merchant's server took it, could not take
\* it now, will not take it, or was never asked - because its address is one
\* the relayer must not call, or because its name did not resolve just then.
NotAsked == {"blocked", "unresolved"}
Fate == {"acknowledged", "busy", "refused"} \cup NotAsked

ASSUME NoneAssumption ==
  /\ None \notin Delivery /\ None \notin Nat
  /\ None \notin RowStatus /\ None \notin Row /\ None \notin Fate

Classify(answer) ==
  CASE answer \in {"200", "other 2xx"} -> "success"
    [] answer \in {"408 or 429", "5xx", "timeout", "network_error"} -> "retryable"
    [] answer \in {"other 4xx", "redirect"} -> "permanent"

VARIABLES
  now,
  rows,       \* WebhookDelivery, None before it is created
  configured, \* the merchant has registered an endpoint and its secret
  waiting,    \* BullMQ: ids of the jobs that wait
  completed,  \* BullMQ: ids of finished jobs it still keeps, oldest first
  failed,     \* the same of failed jobs
  scheduler,  \* each tick: the rows it found and has not yet enqueued
  worker,     \* each run: its step and its local variables
  posts,      \* per delivery: the POSTs that have left
  fate,       \* per delivery: what became of its latest attempt
  faults

queue == <<waiting, completed, failed>>
vars == <<now, rows, configured, queue, scheduler, worker, posts, fate, faults>>

Idle == [ pc |-> "idle", job |-> None, holds |-> FALSE, believes |-> None,
          attempt |-> 0, class |-> None ]

-----------------------------------------------------------------------------
StatusOf(d) == IF rows[d] = None THEN None ELSE rows[d].status

\* Mutant: an update by id alone, as prisma.update() would do it.
InStatus_Unguarded(d, status) == rows[d] # None
\* The WHERE clause of transitionWebhookDelivery's updateMany.
InStatus(d, status) == StatusOf(d) = status

\* A job id is taken while its job waits, is active under a lock, or is kept.
HasJob(d) ==
  \/ d \in waiting
  \/ \E w \in Worker : worker[w].job = d /\ worker[w].holds
  \/ \E i \in DOMAIN completed : completed[i] = d
  \/ \E i \in DOMAIN failed : failed[i] = d

\* removeOnComplete and removeOnFail: the oldest goes when there are too
\* many.
Keep(list, d) ==
  LET longer == Append(list, d)
  IN  IF Len(longer) > Retained THEN Tail(longer) ELSE longer

Goto(w, step) == worker' = [worker EXCEPT ![w].pc = step]

\* The run returns: BullMQ completes its job, if it still has the lock.
Finish(w) ==
  /\ worker' = [worker EXCEPT ![w] = Idle]
  /\ completed' = IF worker[w].holds THEN Keep(completed, worker[w].job)
                  ELSE completed
  /\ UNCHANGED <<waiting, failed>>

\* The run throws, or dies and its job has stalled too often.
Abort(w) ==
  /\ worker' = [worker EXCEPT ![w] = Idle]
  /\ failed' = IF worker[w].holds THEN Keep(failed, worker[w].job) ELSE failed
  /\ UNCHANGED <<waiting, completed>>

\* webhook-retry-schedule.ts; one mutant gives up one attempt early, one
\* repeats the last delay for ever.
NextRetryAt_Endless(attempt) ==
  now + RetryDelays[IF attempt > Len(RetryDelays) THEN Len(RetryDelays)
                    ELSE attempt]
NextRetryAt_OneShort(attempt) ==
  IF attempt \in 1 .. Len(RetryDelays) - 1 THEN now + RetryDelays[attempt]
  ELSE None
NextRetryAt(attempt) ==
  IF attempt \in DOMAIN RetryDelays THEN now + RetryDelays[attempt] ELSE None

-----------------------------------------------------------------------------
Init ==
  /\ now = 0
  /\ rows = [d \in Delivery |-> None]
  /\ configured = FALSE
  /\ waiting = {} /\ completed = <<>> /\ failed = <<>>
  /\ scheduler = [s \in Scheduler |-> {}]
  /\ worker = [w \in Worker |-> Idle]
  /\ posts = [d \in Delivery |-> 0]
  /\ fate = [d \in Delivery |-> None]
  /\ faults = 0

\* An event of the pipeline or the indexer, or a request for a test event.
Create(d) ==
  /\ rows[d] = None
  /\ rows' = [rows EXCEPT ![d] =
       [status |-> "pending", attemptCount |-> 0, nextAttemptAt |-> None]]
  /\ UNCHANGED <<now, configured, queue, scheduler, worker, posts, fate, faults>>

\* POST /v1/webhook-endpoints: URL and fresh secret in one update.
Register ==
  /\ configured' = TRUE
  /\ UNCHANGED <<now, rows, queue, scheduler, worker, posts, fate, faults>>

-----------------------------------------------------------------------------
(* webhook-scheduler.ts                                                    *)

\* Mutant: new rows, too, are selected by their nextAttemptAt, which is null.
IsDue_ByTime(d) ==
  /\ StatusOf(d) \in {"pending", "retry_scheduled"}
  /\ rows[d].nextAttemptAt # None /\ rows[d].nextAttemptAt <= now
IsDue(d) ==
  \/ StatusOf(d) = "pending"
  \/ StatusOf(d) = "retry_scheduled" /\ rows[d].nextAttemptAt <= now

FindDue(s) ==
  /\ scheduler[s] = {}
  /\ scheduler' = [scheduler EXCEPT ![s] = {d \in Delivery : IsDue(d)}]
  /\ UNCHANGED <<now, rows, configured, queue, worker, posts, fate, faults>>

\* queue.add() with the row's id as job id: a no-op while the id is taken.
EnqueueDue(s, d) ==
  /\ d \in scheduler[s]
  /\ waiting' = IF HasJob(d) THEN waiting ELSE waiting \cup {d}
  /\ scheduler' = [scheduler EXCEPT ![s] = scheduler[s] \ {d}]
  /\ UNCHANGED <<now, rows, configured, completed, failed, worker, posts, fate, faults>>

SchedulerStep(s) == FindDue(s) \/ \E d \in Delivery : EnqueueDue(s, d)

-----------------------------------------------------------------------------
(* webhook-delivery.ts, one action per await                               *)

TakeJob(w) ==
  /\ worker[w].pc = "idle"
  /\ \E d \in waiting :
       /\ waiting' = waiting \ {d}
       /\ worker' = [worker EXCEPT ![w] =
            [Idle EXCEPT !.pc = "read", !.job = d, !.holds = TRUE]]
  /\ UNCHANGED <<now, rows, configured, completed, failed, scheduler, posts,
                 fate, faults>>

ReadRow(w) ==
  LET d == worker[w].job
  IN  /\ worker[w].pc = "read"
      /\ worker' = [worker EXCEPT
           ![w].pc = "claim", ![w].attempt = rows[d].attemptCount + 1,
           ![w].believes = IF InStatus(d, "retry_scheduled")
                           THEN "retry_scheduled" ELSE "pending"]
      /\ UNCHANGED <<now, rows, configured, queue, scheduler, posts, fate, faults>>

\* The guarded update to delivering; a run that loses it is done.
Claim(w) ==
  LET d == worker[w].job
  IN  /\ worker[w].pc = "claim"
      /\ IF InStatus(d, worker[w].believes)
         THEN /\ rows' = [rows EXCEPT ![d].status = "delivering",
                                      ![d].attemptCount = worker[w].attempt]
              /\ Goto(w, "endpoint")
              /\ UNCHANGED queue
         ELSE Finish(w) /\ UNCHANGED rows
      /\ UNCHANGED <<now, configured, scheduler, posts, fate, faults>>

\* The merchant's URL and secret; without a usable pair the event is lost.
ReadEndpoint(w) ==
  /\ worker[w].pc = "endpoint"
  /\ IF configured /\ KeyMatches
     THEN Goto(w, "send")
     ELSE worker' = [worker EXCEPT ![w].pc = "settle", ![w].class = "permanent"]
  /\ UNCHANGED <<now, rows, configured, queue, scheduler, posts, fate, faults>>

\* The signed POST leaves, or the address check refuses the URL.  That check
\* resolves the name; when DNS fails it throws what an unsafe address throws,
\* and sendWebhook reports either as ssrf_blocked, which is permanent.
Send(w) ==
  LET d == worker[w].job
  IN  /\ worker[w].pc = "send"
      /\ \/ /\ posts' = [posts EXCEPT ![d] = posts[d] + 1]
            /\ Goto(w, "answer")
            /\ UNCHANGED fate
         \/ /\ worker' = [worker EXCEPT
                 ![w].pc = "settle", ![w].class = "permanent"]
            /\ \E why \in NotAsked : fate' = [fate EXCEPT ![d] = why]
            /\ UNCHANGED posts
      /\ UNCHANGED <<now, rows, configured, queue, scheduler, faults>>

\* What the merchant's server did, whatever the relayer makes of it.
FateOf(answer) ==
  CASE answer \in {"200", "other 2xx"} -> "acknowledged"
    [] answer \in {"408 or 429", "5xx", "timeout", "network_error"} -> "busy"
    [] answer \in {"other 4xx", "redirect"} -> "refused"

Receive(w) ==
  /\ worker[w].pc = "answer"
  /\ \E answer \in Answer :
       /\ worker' = [worker EXCEPT
            ![w].pc = "settle", ![w].class = Classify(answer)]
       /\ fate' = [fate EXCEPT ![worker[w].job] = FateOf(answer)]
  /\ UNCHANGED <<now, rows, configured, queue, scheduler, posts, faults>>

\* delivered, retry_scheduled, or dead_letter once nothing is left to try.
Outcome(w) ==
  LET row == rows[worker[w].job]
      retryAt == IF worker[w].class = "retryable"
                 THEN NextRetryAt(worker[w].attempt) ELSE None
  IN  IF worker[w].class = "success"
      THEN [row EXCEPT !.status = "delivered"]
      ELSE [row EXCEPT !.status = IF retryAt = None THEN "dead_letter"
                                  ELSE "retry_scheduled",
                       !.nextAttemptAt = retryAt]

Settle(w) ==
  LET d == worker[w].job
  IN  /\ worker[w].pc = "settle"
      /\ IF InStatus(d, "delivering")
         THEN /\ rows' = [rows EXCEPT ![d] = Outcome(w)]
              /\ Finish(w)
         ELSE Abort(w) /\ UNCHANGED rows
      /\ UNCHANGED <<now, configured, scheduler, posts, fate, faults>>

WorkerStep(w) ==
  \/ TakeJob(w) \/ ReadRow(w) \/ Claim(w) \/ ReadEndpoint(w)
  \/ Send(w) \/ Receive(w) \/ Settle(w)

-----------------------------------------------------------------------------
(* Faults and time                                                         *)

Fault == faults < MaxFaults /\ faults' = faults + 1

\* The process dies or an exception escapes: the job is handed out again or
\* fails, and the row stays as it is.
Crash(w) ==
  /\ Fault
  /\ worker[w].pc # "idle"
  /\ \/ Abort(w)
     \/ /\ worker[w].holds
        /\ worker' = [worker EXCEPT ![w] = Idle]
        /\ waiting' = waiting \cup {worker[w].job}
        /\ UNCHANGED <<completed, failed>>
  /\ UNCHANGED <<now, rows, configured, scheduler, posts, fate>>

\* The job's lock expires while its run is alive: it is handed out again.
LoseLock(w) ==
  /\ Fault
  /\ worker[w].holds
  /\ waiting' = waiting \cup {worker[w].job}
  /\ worker' = [worker EXCEPT ![w].holds = FALSE]
  /\ UNCHANGED <<now, rows, configured, completed, failed, scheduler, posts, fate>>

\* queue.add() throws: the rest of the tick's rows waits for the next one.
BreakTick(s) ==
  /\ Fault
  /\ scheduler[s] # {}
  /\ scheduler' = [scheduler EXCEPT ![s] = {}]
  /\ UNCHANGED <<now, rows, configured, queue, worker, posts, fate>>

Instants ==
  {rows[d].nextAttemptAt : d \in {e \in Delivery :
     rows[e] # None /\ rows[e].nextAttemptAt # None}}

AdvanceTime ==
  /\ \E t \in Instants : t > now /\ now' = t
  /\ UNCHANGED <<rows, configured, queue, scheduler, worker, posts, fate, faults>>

Next ==
  \/ \E d \in Delivery : Create(d)
  \/ Register
  \/ \E s \in Scheduler : SchedulerStep(s) \/ BreakTick(s)
  \/ \E w \in Worker : WorkerStep(w) \/ Crash(w) \/ LoseLock(w)
  \/ AdvanceTime

Spec == Init /\ [][Next]_vars

\* Ticks and workers run, requests time out; events and merchants owe nothing.
Fairness ==
  /\ WF_vars(AdvanceTime)
  /\ \A s \in Scheduler : WF_vars(SchedulerStep(s))
  /\ \A w \in Worker : WF_vars(WorkerStep(w))

FairSpec == Spec /\ Fairness

-----------------------------------------------------------------------------
(* Properties.                                                             *)

(***************************************************************************)
(* Rows, queue and runs keep their types, and BullMQ keeps no more         *)
(* finished jobs of either kind than it was told to (webhook-queue.ts).    *)
(***************************************************************************)
Step == {"idle", "read", "claim", "endpoint", "send", "answer", "settle"}

Run == [ pc : Step, job : Delivery \cup {None}, holds : BOOLEAN,
         believes : {"pending", "retry_scheduled", None}, attempt : Nat,
         class : {"success", "retryable", "permanent", None} ]

TypeOK ==
  /\ now \in Nat
  /\ rows \in [Delivery -> Row \cup {None}]
  /\ configured \in BOOLEAN
  /\ waiting \subseteq Delivery
  /\ completed \in Seq(Delivery) /\ Len(completed) <= Retained
  /\ failed \in Seq(Delivery) /\ Len(failed) <= Retained
  /\ scheduler \in [Scheduler -> SUBSET Delivery]
  /\ worker \in [Worker -> Run]
  /\ posts \in [Delivery -> Nat]
  /\ fate \in [Delivery -> Fate \cup {None}]
  /\ faults \in 0 .. MaxFaults

(***************************************************************************)
(* A concurrent duplicate job makes no HTTP call (docs/merchant-api.md,    *)
(* "exactly one POST"): between its claim and its verdict a run is alone   *)
(* on its row, which says delivering under that run's attempt number, so   *)
(* the verdict's own guard never fails, whatever locks were lost.          *)
(***************************************************************************)
Claimed(w) == worker[w].pc \in {"endpoint", "send", "answer", "settle"}

OneSender ==
  /\ \A w \in Worker : Claimed(w) =>
       /\ StatusOf(worker[w].job) = "delivering"
       /\ rows[worker[w].job].attemptCount = worker[w].attempt
  /\ \A v, w \in Worker :
       Claimed(v) /\ Claimed(w) /\ v # w => worker[v].job # worker[w].job

(***************************************************************************)
(* The row says what happened: delivered only if the merchant answered the *)
(* latest POST with 2xx, retry_scheduled only after an answer worth a      *)
(* retry, and an event the merchant might have taken later is given up     *)
(* only after the whole schedule.  That is the docs' table (merchant-      *)
(* api.md) with one exception, which is the code's: a DNS error is called  *)
(* retryable there and in webhook-classify.ts, but an event whose host did *)
(* not resolve is given up at that attempt, be it the first.               *)
(***************************************************************************)
OutcomeIsReal ==
  \A d \in Delivery :
    /\ StatusOf(d) = "delivered" => fate[d] = "acknowledged"
    /\ StatusOf(d) = "retry_scheduled" => fate[d] = "busy"
    /\ StatusOf(d) = "dead_letter" =>
         \/ fate[d] \in {"refused", "blocked"}
         \/ fate[d] = "busy" /\ rows[d].attemptCount > Len(RetryDelays)
         \/ fate[d] = None /\ posts[d] = 0
         \/ fate[d] = "unresolved"

(***************************************************************************)
(* A merchant whose server answered 2xx is never sent the event again,     *)
(* not even when the relayer dies before it records the answer, and a      *)
(* terminal row is neither changed nor sent.                               *)
(***************************************************************************)
QuietAfterTheEnd ==
  [][\A d \in Delivery :
       /\ fate[d] = "acknowledged" \/ StatusOf(d) \in Terminal =>
            posts'[d] = posts[d]
       /\ StatusOf(d) \in Terminal => rows'[d] = rows[d]]_vars

(***************************************************************************)
(* "Six total attempts" (webhook-retry-schedule.ts, docs/merchant-api.md): *)
(* as long as no run dies or loses its lock, every POST was counted, and   *)
(* the count ends with the schedule.                                       *)
(***************************************************************************)
SixAttempts ==
  faults = 0 =>
    \A d \in Delivery :
      /\ posts[d] <= Len(RetryDelays) + 1
      /\ rows[d] # None => posts[d] <= rows[d].attemptCount

(***************************************************************************)
(* Every event is attempted: without faults no row stays pending for ever, *)
(* whatever the other rows, the queue and the endpoint's settings do.      *)
(***************************************************************************)
FirstAttemptHappens ==
  [](faults = 0) =>
    \A d \in Delivery : StatusOf(d) = "pending" ~> StatusOf(d) # "pending"

(***************************************************************************)
(* A retry that the row promises happens (docs/merchant-api.md, the retry  *)
(* schedule).                                                              *)
(***************************************************************************)
RetriesHappen ==
  \A d \in Delivery :
    StatusOf(d) = "retry_scheduled" ~> StatusOf(d) # "retry_scheduled"
=============================================================================
