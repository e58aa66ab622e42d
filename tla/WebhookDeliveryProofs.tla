------------------------ MODULE WebhookDeliveryProofs ------------------------
(***************************************************************************)
(* What holds of webhook delivery for any set of deliveries, overlapping   *)
(* ticks and runs, any schedule of retries, any number of kept jobs and    *)
(* any number of faults.                                                   *)
(*                                                                         *)
(* The argument.  A run enters its claimed steps only by the guarded       *)
(* update to "delivering", whose guard no row satisfies that is being      *)
(* delivered, and only a claimed run takes a row out of "delivering":      *)
(* OneSender is inductive.  With it, what a run knows of the latest POST   *)
(* is what became of it (RunEvidence), so what it writes is true           *)
(* (RowEvidence), and whatever was acknowledged is never claimed again.    *)
(*                                                                         *)
(* As long as no fault has happened, every run also has its lock, alone    *)
(* (Lone), so the count it read is still its row's when it claims, and the *)
(* row counts its POSTs and ends with the schedule (Counting).             *)
(***************************************************************************)
EXTENDS WebhookDelivery, FiniteSetTheorems, SequenceTheorems, TLAPS

-----------------------------------------------------------------------------
(* Every delivery that is queued, found or worked on has a row.            *)

Existing ==
  /\ \A d \in waiting : rows[d] # None
  /\ \A s \in Scheduler : \A d \in scheduler[s] : rows[d] # None
  /\ \A w \in Worker : worker[w].pc # "idle" =>
       worker[w].job \in Delivery /\ rows[worker[w].job] # None
  /\ \A w \in Worker : worker[w].holds => worker[w].pc # "idle"
  /\ \A w \in Worker : worker[w].pc = "claim" =>
       worker[w].believes \in {"pending", "retry_scheduled"}
  /\ \A w \in Worker : worker[w].pc \notin {"idle", "read"} =>
       worker[w].attempt > 0

TypeInv == TypeOK /\ Existing

(* What is known of a delivery, and what a run knows of it.                *)

Untried(d) == fate[d] = None /\ posts[d] = 0

RowEvidence(d) ==
  /\ StatusOf(d) \in {None, "pending"} => Untried(d)
  /\ StatusOf(d) = "delivered" => fate[d] = "acknowledged"
  /\ StatusOf(d) = "retry_scheduled" => fate[d] = "busy"
  /\ StatusOf(d) = "dead_letter" =>
       \/ fate[d] \in {"refused"} \cup NotAsked
       \/ fate[d] = "busy" /\ rows[d].attemptCount > Len(RetryDelays)
       \/ Untried(d)
  /\ ~configured \/ ~KeyMatches => Untried(d)

RunEvidence(w) ==
  LET d == worker[w].job
  IN  /\ worker[w].pc \in {"endpoint", "send", "answer"} =>
           fate[d] \in {None, "busy"}
      /\ worker[w].pc \in {"send", "answer"} => configured /\ KeyMatches
      /\ worker[w].pc = "settle" =>
           \/ worker[w].class = "success" /\ fate[d] = "acknowledged"
           \/ worker[w].class = "retryable" /\ fate[d] = "busy"
           \/ /\ worker[w].class = "permanent"
              /\ fate[d] \in {"refused"} \cup NotAsked \/ Untried(d)

Evidence ==
  /\ \A d \in Delivery : RowEvidence(d)
  /\ \A w \in Worker : RunEvidence(w)

Inv == TypeInv /\ OneSender /\ Evidence

-----------------------------------------------------------------------------
(* What an update of a run and of the queue leaves alone.                  *)

Others(w) ==
  /\ worker' \in [Worker -> Run]
  /\ \A v \in Worker : v # w => worker'[v] = worker[v]

QueueOK ==
  /\ waiting \subseteq Delivery
  /\ completed \in Seq(Delivery) /\ Len(completed) <= Retained
  /\ failed \in Seq(Delivery) /\ Len(failed) <= Retained

LEMMA IdleRun == Idle \in Run /\ Idle.pc = "idle" /\ ~Idle.holds
  BY DEF Idle, Run, Step

LEMMA KeepBounded ==
  ASSUME NEW list \in Seq(Delivery), Len(list) <= Retained, NEW d \in Delivery
  PROVE  Keep(list, d) \in Seq(Delivery) /\ Len(Keep(list, d)) <= Retained
  <1> DEFINE longer == Append(list, d)
  <1>1. /\ longer \in Seq(Delivery) /\ longer # <<>>
        /\ Len(longer) = Len(list) + 1
    BY AppendProperties
  <1>2. Tail(longer) \in Seq(Delivery) /\ Len(Tail(longer)) = Len(longer) - 1
    BY <1>1, HeadTailProperties
  <1>3. Keep(list, d) = IF Len(longer) > Retained THEN Tail(longer) ELSE longer
    BY DEF Keep
  <1>4. Len(list) \in Nat /\ Retained \in Nat
    BY LenProperties, DeliveryAssumption
  <1> HIDE DEF longer
  <1> QED
    BY <1>1, <1>2, <1>3, <1>4

LEMMA GotoMoves ==
  ASSUME worker \in [Worker -> Run], NEW w \in Worker,
         NEW step \in Step, Goto(w, step)
  PROVE  Others(w) /\ worker'[w] = [worker[w] EXCEPT !.pc = step]
  <1>1. [worker[w] EXCEPT !.pc = step] \in Run
    BY DEF Run
  <1> QED
    BY <1>1 DEF Goto, Others

LEMMA FinishClears ==
  ASSUME TypeInv, NEW w \in Worker, worker[w].pc # "idle", Finish(w)
  PROVE  Others(w) /\ worker'[w] = Idle /\ QueueOK' /\ waiting' = waiting
  <1>1. /\ worker \in [Worker -> Run] /\ worker[w].job \in Delivery /\ QueueOK
    BY DEF TypeInv, TypeOK, Existing, QueueOK
  <1>2. completed' = completed \/ completed' = Keep(completed, worker[w].job)
    BY DEF Finish
  <1>3. completed' \in Seq(Delivery) /\ Len(completed') <= Retained
    BY <1>1, <1>2, KeepBounded DEF QueueOK
  <1> QED
    BY <1>1, <1>3, IdleRun DEF Finish, Others, QueueOK

LEMMA AbortClears ==
  ASSUME TypeInv, NEW w \in Worker, worker[w].pc # "idle", Abort(w)
  PROVE  Others(w) /\ worker'[w] = Idle /\ QueueOK' /\ waiting' = waiting
  <1>1. /\ worker \in [Worker -> Run] /\ worker[w].job \in Delivery /\ QueueOK
    BY DEF TypeInv, TypeOK, Existing, QueueOK
  <1>2. failed' = failed \/ failed' = Keep(failed, worker[w].job)
    BY DEF Abort
  <1>3. failed' \in Seq(Delivery) /\ Len(failed') <= Retained
    BY <1>1, <1>2, KeepBounded DEF QueueOK
  <1> QED
    BY <1>1, <1>3, IdleRun DEF Abort, Others, QueueOK

-----------------------------------------------------------------------------
(* Type correctness: the steps of a run, by what they do to the state.     *)

\* A run and its row are as Existing asks, after the step.
RunExists(w) ==
  /\ worker'[w].pc # "idle" =>
       worker'[w].job \in Delivery /\ rows'[worker'[w].job] # None
  /\ worker'[w].holds => worker'[w].pc # "idle"
  /\ worker'[w].pc = "claim" =>
       worker'[w].believes \in {"pending", "retry_scheduled"}
  /\ worker'[w].pc \notin {"idle", "read"} => worker'[w].attempt > 0

RowsGrow ==
  /\ rows' \in [Delivery -> Row \cup {None}]
  /\ \A d \in Delivery : rows[d] # None => rows'[d] # None

RunEffect(w) ==
  /\ Others(w) /\ RunExists(w) /\ RowsGrow /\ QueueOK'
  /\ \A d \in waiting' : rows[d] # None
  /\ posts' \in [Delivery -> Nat]
  /\ fate' \in [Delivery -> Fate \cup {None}]
  /\ faults' \in 0 .. MaxFaults
  /\ UNCHANGED <<now, configured, scheduler>>

LEMMA RunEffectTypes ==
  ASSUME TypeInv, NEW w \in Worker, RunEffect(w)
  PROVE  TypeInv'
  <1>1. TypeOK'
    BY DEF TypeInv, TypeOK, RunEffect, Others, RowsGrow, QueueOK
  <1>2. Existing'
    <2>1. waiting' \subseteq Delivery /\ scheduler \in [Scheduler -> SUBSET Delivery]
      BY DEF RunEffect, QueueOK, TypeInv, TypeOK
    <2>2. /\ \A d \in waiting' : rows'[d] # None
          /\ \A s \in Scheduler : \A d \in scheduler'[s] : rows'[d] # None
      BY <2>1 DEF RunEffect, RowsGrow, TypeInv, Existing
    <2>3. \A v \in Worker : RunExists(v)
      BY DEF RunEffect, Others, RowsGrow, TypeInv, Existing, RunExists
    <2> QED
      BY <2>2, <2>3 DEF Existing, RunExists
  <1> QED
    BY <1>1, <1>2 DEF TypeInv

\* Of the state, what a step of a run may leave as it is.
LEMMA StillTyped ==
  ASSUME TypeInv
  PROVE  /\ worker \in [Worker -> Run]
         /\ rows' = rows => RowsGrow
         /\ UNCHANGED queue => QueueOK' /\ \A d \in waiting' : rows[d] # None
         /\ waiting' = waiting => \A d \in waiting' : rows[d] # None
         /\ posts' = posts => posts' \in [Delivery -> Nat]
         /\ fate' = fate => fate' \in [Delivery -> Fate \cup {None}]
         /\ faults' = faults => faults' \in 0 .. MaxFaults
  BY DEF TypeInv, TypeOK, Existing, RowsGrow, QueueOK, queue

LEMMA FaultCounts ==
  ASSUME TypeInv, Fault
  PROVE  faults' \in 0 .. MaxFaults
  BY DeliveryAssumption DEF TypeInv, TypeOK, Fault

LEMMA TakeJobEffect ==
  ASSUME TypeInv, NEW w \in Worker, TakeJob(w)
  PROVE  /\ RunEffect(w) /\ UNCHANGED <<rows, posts, fate>>
         /\ worker'[w].pc = "read"
  <1> DEFINE run(d) == [Idle EXCEPT !.pc = "read", !.job = d, !.holds = TRUE]
  <1>1. PICK d \in waiting : /\ waiting' = waiting \ {d}
                             /\ worker' = [worker EXCEPT ![w] = run(d)]
    BY DEF TakeJob
  <1>2. d \in Delivery /\ rows[d] # None
    BY DEF TypeInv, TypeOK, Existing
  <1>3. /\ run(d) \in Run /\ run(d).pc = "read" /\ run(d).job = d
    BY <1>2 DEF Idle, Run, Step
  <1> HIDE DEF run
  <1>4. Others(w) /\ worker'[w] = run(d)
    BY <1>1, <1>3, StillTyped DEF Others
  <1>5. RunExists(w)
    BY <1>2, <1>3, <1>4 DEF RunExists, TakeJob
  <1>6. QueueOK' /\ \A e \in waiting' : rows[e] # None
    BY <1>1 DEF TakeJob, QueueOK, TypeInv, TypeOK, Existing
  <1> QED
    BY <1>3, <1>4, <1>5, <1>6, StillTyped DEF TakeJob, RunEffect

LEMMA ReadRowEffect ==
  ASSUME TypeInv, NEW w \in Worker, ReadRow(w)
  PROVE  /\ RunEffect(w) /\ UNCHANGED <<rows, posts, fate>>
         /\ worker'[w].pc = "claim"
  <1> DEFINE d == worker[w].job
             belief == IF InStatus(d, "retry_scheduled")
                       THEN "retry_scheduled" ELSE "pending"
             run == [worker[w] EXCEPT !.pc = "claim",
                       !.attempt = rows[d].attemptCount + 1, !.believes = belief]
  <1>1. worker' = [worker EXCEPT ![w] = run]
    BY DEF ReadRow
  <1>2. d \in Delivery /\ rows[d] \in Row /\ worker[w] \in Run
    BY DEF ReadRow, TypeInv, TypeOK, Existing
  <1>3. rows[d].attemptCount + 1 \in Nat /\ rows[d].attemptCount + 1 > 0
    BY <1>2 DEF Row
  <1>4. belief \in {"pending", "retry_scheduled"}
    OBVIOUS
  <1> HIDE DEF belief
  <1>5. /\ run \in Run /\ run.pc = "claim" /\ run.job = d /\ run.believes = belief
        /\ run.attempt = rows[d].attemptCount + 1
    BY <1>2, <1>3, <1>4 DEF Run, Step
  <1> HIDE DEF run
  <1>6. Others(w) /\ worker'[w] = run
    BY <1>1, <1>5, StillTyped DEF Others
  <1>7. RunExists(w)
    BY <1>2, <1>3, <1>4, <1>5, <1>6 DEF RunExists, ReadRow, TypeInv, Existing, Row
  <1> QED
    BY <1>5, <1>6, <1>7, StillTyped DEF ReadRow, RunEffect

\* The row of w's job is written and no other.
Writes(w, row) ==
  /\ row \in Row
  /\ rows' = [rows EXCEPT ![worker[w].job] = row]

LEMMA WritesGrow ==
  ASSUME TypeInv, NEW w \in Worker, worker[w].pc # "idle", NEW row, Writes(w, row)
  PROVE  /\ RowsGrow /\ rows'[worker[w].job] = row
         /\ \A e \in Delivery : e # worker[w].job => rows'[e] = rows[e]
  BY NoneAssumption DEF Writes, TypeInv, TypeOK, Existing, RowsGrow

\* A claim succeeds.
Claims(w) ==
  LET d == worker[w].job
  IN  /\ worker[w].believes \in {"pending", "retry_scheduled"}
      /\ rows[d] # None /\ rows[d].status = worker[w].believes
      /\ Writes(w, [rows[d] EXCEPT !.status = "delivering",
                                   !.attemptCount = worker[w].attempt])
      /\ Others(w)
      /\ worker'[w] = [worker[w] EXCEPT !.pc = "endpoint"]

\* A run is over.
Ends(w) == Others(w) /\ worker'[w] = Idle

LEMMA ClaimEffect ==
  ASSUME TypeInv, NEW w \in Worker, Claim(w)
  PROVE  /\ RunEffect(w) /\ UNCHANGED <<posts, fate>>
         /\ Claims(w) \/ (Ends(w) /\ UNCHANGED rows)
  <1> DEFINE d == worker[w].job
  <1>1. /\ d \in Delivery /\ rows[d] \in Row /\ rows[d] # None
        /\ worker[w] \in Run /\ worker[w].pc = "claim"
        /\ worker[w].believes \in {"pending", "retry_scheduled"}
    BY DEF Claim, TypeInv, TypeOK, Existing
  <1>2. CASE InStatus(d, worker[w].believes)
    <2> DEFINE row == [rows[d] EXCEPT !.status = "delivering",
                                      !.attemptCount = worker[w].attempt]
               run == [worker[w] EXCEPT !.pc = "endpoint"]
    <2>1. rows' = [rows EXCEPT ![d] = row] /\ Goto(w, "endpoint")
      <3>1. rows' = [rows EXCEPT ![d].status = "delivering",
                                 ![d].attemptCount = worker[w].attempt]
        BY <1>2 DEF Claim
      <3> QED
        BY <1>1, <1>2, <3>1 DEF Claim, TypeInv, TypeOK
    <2>2. row \in Row
      BY <1>1 DEF Row, RowStatus, Run
    <2>3. Others(w) /\ worker'[w] = run
      BY <2>1, GotoMoves, StillTyped DEF Step
    <2>4. /\ run.job = d /\ run.pc = "endpoint" /\ run.holds = worker[w].holds
          /\ run.attempt = worker[w].attempt
      BY <1>1 DEF Run
    <2>5. Writes(w, row)
      BY <2>1, <2>2 DEF Writes
    <2> HIDE DEF row, run
    <2>6. RowsGrow
      BY <1>1, <2>5, WritesGrow
    <2>7. RunExists(w)
      BY <1>1, <2>3, <2>4, <2>6 DEF RunExists, RowsGrow, TypeInv, Existing
    <2>8. Claims(w)
      BY <1>1, <1>2, <2>3, <2>5 DEF Claims, InStatus, StatusOf, row, run
    <2> QED
      BY <1>2, <2>3, <2>6, <2>7, <2>8, StillTyped DEF Claim, RunEffect
  <1>3. CASE ~InStatus(d, worker[w].believes)
    <2>1. Finish(w) /\ rows' = rows
      BY <1>3 DEF Claim
    <2>2. Ends(w) /\ QueueOK' /\ waiting' = waiting
      BY <1>1, <2>1, FinishClears DEF Ends
    <2>3. RunExists(w)
      BY <2>2, IdleRun DEF RunExists, Ends
    <2> QED
      BY <2>1, <2>2, <2>3, StillTyped DEF Claim, RunEffect, Ends
  <1> QED
    BY <1>2, <1>3

\* A claimed run goes on, and learns or does something about its delivery.
Advances(w) ==
  LET d == worker[w].job
      run == worker'[w]
  IN  /\ Others(w) /\ rows' = rows
      /\ Claimed(w) /\ run.pc \in {"send", "answer", "settle"}
      /\ run.job = d /\ run.attempt = worker[w].attempt
      /\ \A e \in Delivery : e # d => posts'[e] = posts[e] /\ fate'[e] = fate[e]
      /\ \/ /\ worker[w].pc = "endpoint" /\ run.pc = "settle"
            /\ ~configured \/ ~KeyMatches
            /\ run.class = "permanent"
            /\ UNCHANGED <<posts, fate>>
         \/ /\ worker[w].pc = "endpoint" /\ run.pc = "send"
            /\ configured /\ KeyMatches
            /\ UNCHANGED <<posts, fate>>
         \/ /\ worker[w].pc = "send" /\ run.pc = "answer" /\ fate' = fate
            /\ posts'[d] = posts[d] + 1
         \/ /\ worker[w].pc = "send" /\ run.pc = "settle"
            /\ run.class = "permanent" /\ fate'[d] \in NotAsked
            /\ posts' = posts
         \/ /\ worker[w].pc = "answer" /\ run.pc = "settle"
            /\ \/ run.class = "success" /\ fate'[d] = "acknowledged"
               \/ run.class = "retryable" /\ fate'[d] = "busy"
               \/ run.class = "permanent" /\ fate'[d] = "refused"
            /\ posts' = posts

LEMMA ReadEndpointEffect ==
  ASSUME TypeInv, NEW w \in Worker, ReadEndpoint(w)
  PROVE  RunEffect(w) /\ Advances(w)
  <1>1. /\ worker[w] \in Run /\ worker[w].pc = "endpoint"
        /\ worker[w].job \in Delivery /\ rows[worker[w].job] # None
        /\ UNCHANGED <<now, rows, configured, queue, scheduler, posts, fate, faults>>
    BY DEF ReadEndpoint, TypeInv, TypeOK, Existing
  <1>2. CASE ~configured \/ ~KeyMatches
    <2> DEFINE run == [worker[w] EXCEPT !.pc = "settle", !.class = "permanent"]
    <2>1. worker' = [worker EXCEPT ![w] = run]
      BY <1>2 DEF ReadEndpoint
    <2>2. /\ run \in Run /\ run.pc = "settle" /\ run.class = "permanent"
          /\ run.job = worker[w].job /\ run.attempt = worker[w].attempt
      BY <1>1 DEF Run, Step
    <2> HIDE DEF run
    <2>3. Others(w) /\ worker'[w] = run
      BY <2>1, <2>2, StillTyped DEF Others
    <2>4. RunExists(w)
      BY <1>1, <2>2, <2>3 DEF RunExists, TypeInv, Existing
    <2> QED
      BY <1>1, <1>2, <2>2, <2>3, <2>4, StillTyped DEF RunEffect, Advances, Claimed
  <1>3. CASE configured /\ KeyMatches
    <2>1. Others(w) /\ worker'[w] = [worker[w] EXCEPT !.pc = "send"]
      BY <1>3, GotoMoves, StillTyped DEF ReadEndpoint, Step
    <2>2. /\ worker'[w].pc = "send" /\ worker'[w].job = worker[w].job
          /\ worker'[w].attempt = worker[w].attempt
      BY <1>1, <2>1 DEF Run
    <2>3. RunExists(w)
      BY <1>1, <2>2 DEF RunExists, TypeInv, Existing
    <2> QED
      BY <1>1, <1>3, <2>1, <2>2, <2>3, StillTyped DEF RunEffect, Advances, Claimed
  <1> QED
    BY <1>2, <1>3

LEMMA SendEffect ==
  ASSUME TypeInv, NEW w \in Worker, Send(w)
  PROVE  RunEffect(w) /\ Advances(w)
  <1> DEFINE d == worker[w].job
  <1>1. /\ worker[w] \in Run /\ worker[w].pc = "send"
        /\ d \in Delivery /\ rows[d] # None
        /\ UNCHANGED <<now, rows, configured, queue, scheduler, faults>>
        /\ posts \in [Delivery -> Nat]
        /\ fate \in [Delivery -> Fate \cup {None}]
    BY DEF Send, TypeInv, TypeOK, Existing
  <1>2. CASE /\ posts' = [posts EXCEPT ![d] = posts[d] + 1]
             /\ Goto(w, "answer") /\ UNCHANGED fate
    <2>1. posts[d] + 1 \in Nat
      BY <1>1
    <2>2. /\ posts' \in [Delivery -> Nat] /\ posts'[d] = posts[d] + 1
          /\ \A e \in Delivery : e # d => posts'[e] = posts[e]
      BY <1>1, <1>2, <2>1
    <2>3. /\ Others(w) /\ worker'[w] = [worker[w] EXCEPT !.pc = "answer"]
      BY <1>2, GotoMoves, StillTyped DEF Step
    <2>4. /\ worker'[w].pc = "answer" /\ worker'[w].job = d
          /\ worker'[w].attempt = worker[w].attempt
      BY <1>1, <2>3 DEF Run
    <2>5. RunExists(w)
      BY <1>1, <2>4 DEF RunExists, TypeInv, Existing
    <2> QED
      BY <1>1, <1>2, <2>2, <2>3, <2>4, <2>5, StillTyped
      DEF RunEffect, Advances, Claimed
  <1>3. CASE /\ worker' = [worker EXCEPT
                  ![w].pc = "settle", ![w].class = "permanent"]
             /\ \E why \in NotAsked : fate' = [fate EXCEPT ![d] = why]
             /\ UNCHANGED posts
    <2> DEFINE run == [worker[w] EXCEPT !.pc = "settle", !.class = "permanent"]
    <2>1. worker' = [worker EXCEPT ![w] = run]
      BY <1>3
    <2>2. /\ run \in Run /\ run.pc = "settle" /\ run.class = "permanent"
          /\ run.job = d /\ run.attempt = worker[w].attempt
      BY <1>1 DEF Run, Step
    <2> HIDE DEF run
    <2>3. Others(w) /\ worker'[w] = run
      BY <2>1, <2>2, StillTyped DEF Others
    <2>4. RunExists(w)
      BY <1>1, <2>2, <2>3 DEF RunExists, TypeInv, Existing
    <2>5. /\ fate' \in [Delivery -> Fate \cup {None}] /\ fate'[d] \in NotAsked
          /\ \A e \in Delivery : e # d => fate'[e] = fate[e]
      BY <1>1, <1>3 DEF Fate
    <2> QED
      BY <1>1, <1>3, <2>2, <2>3, <2>4, <2>5, StillTyped
      DEF RunEffect, Advances, Claimed
  <1> QED
    BY <1>2, <1>3 DEF Send

LEMMA AnswersAgree ==
  ASSUME NEW answer \in Answer
  PROVE  \/ Classify(answer) = "success" /\ FateOf(answer) = "acknowledged"
         \/ Classify(answer) = "retryable" /\ FateOf(answer) = "busy"
         \/ Classify(answer) = "permanent" /\ FateOf(answer) = "refused"
  BY DEF Classify, FateOf, Answer

LEMMA ReceiveEffect ==
  ASSUME TypeInv, NEW w \in Worker, Receive(w)
  PROVE  RunEffect(w) /\ Advances(w)
  <1> DEFINE d == worker[w].job
             run(a) == [worker[w] EXCEPT !.pc = "settle", !.class = Classify(a)]
  <1>1. /\ worker[w] \in Run /\ worker[w].pc = "answer"
        /\ d \in Delivery /\ rows[d] # None
        /\ UNCHANGED <<now, rows, configured, queue, scheduler, posts, faults>>
        /\ fate \in [Delivery -> Fate \cup {None}]
    BY DEF Receive, TypeInv, TypeOK, Existing
  <1>2. PICK answer \in Answer : /\ worker' = [worker EXCEPT ![w] = run(answer)]
                                 /\ fate' = [fate EXCEPT ![d] = FateOf(answer)]
    BY DEF Receive
  <1>3. /\ Classify(answer) \in {"success", "retryable", "permanent"}
        /\ FateOf(answer) \in Fate
    BY AnswersAgree DEF Fate
  <1>4. /\ run(answer) \in Run /\ run(answer).pc = "settle"
        /\ run(answer).class = Classify(answer)
        /\ run(answer).job = d /\ run(answer).attempt = worker[w].attempt
    BY <1>1, <1>3 DEF Run, Step
  <1> HIDE DEF run
  <1>5. Others(w) /\ worker'[w] = run(answer)
    BY <1>2, <1>4, StillTyped DEF Others
  <1>6. RunExists(w)
    BY <1>1, <1>4, <1>5 DEF RunExists, TypeInv, Existing
  <1>7. /\ fate' \in [Delivery -> Fate \cup {None}] /\ fate'[d] = FateOf(answer)
        /\ \A e \in Delivery : e # d => fate'[e] = fate[e]
    BY <1>1, <1>2, <1>3
  <1> QED
    BY <1>1, <1>4, <1>5, <1>6, <1>7, StillTyped, AnswersAgree
    DEF RunEffect, Advances, Claimed

\* The verdict of run w on its delivery, as it is written.
Verdict(w, row) ==
  /\ row.attemptCount = rows[worker[w].job].attemptCount
  /\ \/ row.status = "delivered" /\ worker[w].class = "success"
     \/ /\ row.status = "retry_scheduled" /\ worker[w].class = "retryable"
        /\ worker[w].attempt \in DOMAIN RetryDelays
     \/ /\ row.status = "dead_letter"
        /\ \/ worker[w].class \notin {"success", "retryable"}
           \/ /\ worker[w].class = "retryable"
              /\ worker[w].attempt \notin DOMAIN RetryDelays

LEMMA RetryTimes ==
  ASSUME now \in Nat, NEW attempt
  PROVE  /\ NextRetryAt(attempt) \in Nat \cup {None}
         /\ NextRetryAt(attempt) = None <=> attempt \notin DOMAIN RetryDelays
  <1>1. CASE attempt \in DOMAIN RetryDelays
    <2>1. RetryDelays[attempt] \in Nat
      BY <1>1, DeliveryAssumption, ElementOfSeq
    <2>2. now + RetryDelays[attempt] \in Nat
      BY <2>1
    <2> QED
      BY <1>1, <2>2, NoneAssumption DEF NextRetryAt
  <1>2. CASE attempt \notin DOMAIN RetryDelays
    BY <1>2 DEF NextRetryAt
  <1> QED
    BY <1>1, <1>2

LEMMA Outcomes ==
  ASSUME TypeInv, NEW w \in Worker, worker[w].pc = "settle"
  PROVE  Outcome(w) \in Row /\ Verdict(w, Outcome(w))
  <1> DEFINE old == rows[worker[w].job]
             retryAt == IF worker[w].class = "retryable"
                        THEN NextRetryAt(worker[w].attempt) ELSE None
  <1>1. old \in Row /\ now \in Nat
    BY DEF TypeInv, TypeOK, Existing
  <1>2. CASE worker[w].class = "success"
    <2>1. Outcome(w) = [old EXCEPT !.status = "delivered"]
      BY <1>2 DEF Outcome
    <2> QED
      BY <1>1, <1>2, <2>1 DEF Row, RowStatus, Terminal, Verdict
  <1>3. CASE worker[w].class # "success"
    <2> DEFINE to == IF retryAt = None THEN "dead_letter" ELSE "retry_scheduled"
    <2>1. Outcome(w) = [old EXCEPT !.status = to, !.nextAttemptAt = retryAt]
      BY <1>3 DEF Outcome
    <2>2. retryAt \in Nat \cup {None}
      BY <1>1, RetryTimes
    <2>3. \/ /\ to = "retry_scheduled" /\ worker[w].class = "retryable"
             /\ worker[w].attempt \in DOMAIN RetryDelays
          \/ /\ to = "dead_letter"
             /\ \/ worker[w].class \notin {"success", "retryable"}
                \/ /\ worker[w].class = "retryable"
                   /\ worker[w].attempt \notin DOMAIN RetryDelays
      BY <1>1, <1>3, RetryTimes
    <2>4. to \in RowStatus
      BY DEF RowStatus, Terminal
    <2> HIDE DEF to, retryAt
    <2>5. /\ Outcome(w) \in Row /\ Outcome(w).status = to
          /\ Outcome(w).attemptCount = old.attemptCount
      BY <1>1, <2>1, <2>2, <2>4 DEF Row
    <2> QED
      BY <2>3, <2>5 DEF Verdict
  <1> QED
    BY <1>2, <1>3

\* A run writes its verdict and is over.
Settles(w) ==
  /\ worker[w].pc = "settle"
  /\ rows[worker[w].job] # None /\ rows[worker[w].job].status = "delivering"
  /\ Writes(w, Outcome(w)) /\ Verdict(w, Outcome(w))
  /\ Ends(w)

LEMMA SettleEffect ==
  ASSUME TypeInv, NEW w \in Worker, Settle(w)
  PROVE  /\ RunEffect(w) /\ UNCHANGED <<posts, fate>>
         /\ Settles(w) \/ (Ends(w) /\ UNCHANGED rows)
  <1> DEFINE d == worker[w].job
  <1>1. /\ d \in Delivery /\ rows[d] # None /\ worker[w].pc = "settle"
        /\ UNCHANGED <<now, configured, scheduler, posts, fate, faults>>
    BY DEF Settle, TypeInv, Existing
  <1>2. CASE InStatus(d, "delivering")
    <2>1. rows' = [rows EXCEPT ![d] = Outcome(w)] /\ Finish(w)
      BY <1>2 DEF Settle
    <2>2. Ends(w) /\ QueueOK' /\ waiting' = waiting
      BY <1>1, <2>1, FinishClears DEF Ends
    <2>3. Writes(w, Outcome(w)) /\ Verdict(w, Outcome(w))
      BY <1>1, <2>1, Outcomes DEF Writes
    <2>4. RowsGrow
      BY <1>1, <2>3, WritesGrow
    <2>5. RunExists(w)
      BY <2>2, IdleRun DEF RunExists, Ends
    <2>6. Settles(w)
      BY <1>1, <1>2, <2>2, <2>3 DEF Settles, InStatus, StatusOf
    <2> QED
      BY <1>1, <2>2, <2>4, <2>5, <2>6, StillTyped DEF RunEffect, Ends
  <1>3. CASE ~InStatus(d, "delivering")
    <2>1. Abort(w) /\ rows' = rows
      BY <1>3 DEF Settle
    <2>2. Ends(w) /\ QueueOK' /\ waiting' = waiting
      BY <1>1, <2>1, AbortClears DEF Ends
    <2>3. RunExists(w)
      BY <2>2, IdleRun DEF RunExists, Ends
    <2> QED
      BY <1>1, <2>1, <2>2, <2>3, StillTyped DEF RunEffect, Ends
  <1> QED
    BY <1>2, <1>3

LEMMA CrashEffect ==
  ASSUME TypeInv, NEW w \in Worker, Crash(w)
  PROVE  RunEffect(w) /\ UNCHANGED <<rows, posts, fate>> /\ Ends(w)
  <1>1. /\ worker[w].pc # "idle" /\ worker \in [Worker -> Run]
        /\ worker[w].job \in Delivery /\ rows[worker[w].job] # None
        /\ UNCHANGED <<now, rows, configured, scheduler, posts, fate>>
    BY DEF Crash, TypeInv, TypeOK, Existing
  <1>2. Ends(w) /\ QueueOK' /\ \A d \in waiting' : rows[d] # None
    <2>1. CASE Abort(w)
      BY <1>1, <2>1, AbortClears, StillTyped DEF Ends
    <2>2. CASE /\ worker' = [worker EXCEPT ![w] = Idle]
               /\ waiting' = waiting \cup {worker[w].job}
               /\ UNCHANGED <<completed, failed>>
      BY <1>1, <2>2, IdleRun DEF Ends, Others, QueueOK, TypeInv, TypeOK, Existing
    <2> QED
      BY <2>1, <2>2 DEF Crash
  <1>3. RunExists(w)
    BY <1>2, IdleRun DEF RunExists, Ends
  <1>4. faults' \in 0 .. MaxFaults
    BY FaultCounts DEF Crash
  <1> QED
    BY <1>1, <1>2, <1>3, <1>4, StillTyped DEF RunEffect, Ends

LEMMA LoseLockEffect ==
  ASSUME TypeInv, NEW w \in Worker, LoseLock(w)
  PROVE  /\ RunEffect(w) /\ UNCHANGED <<rows, posts, fate>>
         /\ worker'[w] = [worker[w] EXCEPT !.holds = FALSE]
  <1>1. /\ worker[w].pc # "idle" /\ worker \in [Worker -> Run]
        /\ worker[w].job \in Delivery /\ rows[worker[w].job] # None
        /\ UNCHANGED <<now, rows, configured, completed, failed, scheduler,
                       posts, fate>>
    BY DEF LoseLock, TypeInv, TypeOK, Existing
  <1> DEFINE run == [worker[w] EXCEPT !.holds = FALSE]
  <1>2. /\ run \in Run /\ run.pc = worker[w].pc /\ run.job = worker[w].job
        /\ run.believes = worker[w].believes
        /\ run.attempt = worker[w].attempt /\ ~run.holds
    BY <1>1 DEF Run
  <1>3. worker' = [worker EXCEPT ![w] = run]
    BY DEF LoseLock
  <1> HIDE DEF run
  <1>4. Others(w) /\ worker'[w] = run
    BY <1>1, <1>2, <1>3 DEF Others
  <1>5. RunExists(w)
    BY <1>1, <1>2, <1>4 DEF RunExists, TypeInv, Existing
  <1>6. QueueOK' /\ \A d \in waiting' : rows[d] # None
    BY <1>1 DEF LoseLock, QueueOK, TypeInv, TypeOK, Existing
  <1>7. faults' \in 0 .. MaxFaults
    BY FaultCounts DEF LoseLock
  <1> QED
    BY <1>1, <1>4, <1>5, <1>6, <1>7, StillTyped DEF RunEffect, run

-----------------------------------------------------------------------------
(* The steps that are not a run's.                                         *)

\* No run is touched, no existing row, and nothing is said about a POST.
Outside ==
  /\ UNCHANGED <<worker, posts, fate>>
  /\ configured => configured'
  /\ \A d \in Delivery :
       \/ rows'[d] = rows[d]
       \/ rows[d] = None /\ rows'[d] # None /\ rows'[d].status = "pending"

LEMMA CreateEffect ==
  ASSUME TypeInv, NEW d \in Delivery, Create(d)
  PROVE  TypeInv' /\ Outside
  <1> DEFINE row == [ status |-> "pending", attemptCount |-> 0,
                      nextAttemptAt |-> None ]
  <1>1. /\ row \in Row /\ row # None /\ row.status = "pending"
        /\ rows' = [rows EXCEPT ![d] = row] /\ rows[d] = None
        /\ rows \in [Delivery -> Row \cup {None}]
        /\ UNCHANGED <<now, configured, queue, scheduler, worker, posts, fate, faults>>
    BY NoneAssumption DEF Row, RowStatus, Create, TypeInv, TypeOK
  <1> HIDE DEF row
  <1>2. rows' \in [Delivery -> Row \cup {None}]
    BY <1>1
  <1>3. \A e \in Delivery : rows'[e] = rows[e] \/ (e = d /\ rows'[e] = row)
    BY <1>1
  <1>4. TypeOK'
    BY <1>1, <1>2 DEF TypeInv, TypeOK, queue
  <1>5. waiting \subseteq Delivery /\ scheduler \in [Scheduler -> SUBSET Delivery]
    BY DEF TypeInv, TypeOK
  <1>6. Existing'
    BY <1>1, <1>3, <1>5 DEF TypeInv, Existing, queue
  <1> QED
    BY <1>1, <1>3, <1>4, <1>6 DEF TypeInv, Outside

LEMMA RegisterEffect ==
  ASSUME TypeInv, Register
  PROVE  TypeInv' /\ Outside
  <1>1. TypeOK'
    BY DEF TypeInv, TypeOK, Register, queue
  <1>2. Existing'
    BY DEF TypeInv, Existing, Register, queue
  <1> QED
    BY <1>1, <1>2, NoneAssumption DEF TypeInv, Outside, Register

LEMMA TickEffect ==
  ASSUME TypeInv, NEW s \in Scheduler, SchedulerStep(s) \/ BreakTick(s)
  PROVE  TypeInv' /\ Outside
  <1>1. CASE FindDue(s)
    <2> DEFINE due == {d \in Delivery : IsDue(d)}
    <2>1. scheduler' = [scheduler EXCEPT ![s] = due]
      BY <1>1 DEF FindDue
    <2>2. due \subseteq Delivery /\ \A d \in due : rows[d] # None
      BY NoneAssumption DEF IsDue, StatusOf, RowStatus
    <2> HIDE DEF due
    <2>3. TypeOK'
      BY <1>1, <2>1, <2>2 DEF FindDue, TypeInv, TypeOK, queue
    <2>4. scheduler \in [Scheduler -> SUBSET Delivery]
      BY DEF TypeInv, TypeOK
    <2>5. Existing'
      BY <1>1, <2>1, <2>2, <2>4 DEF FindDue, TypeInv, Existing, queue
    <2> QED
      BY <1>1, <2>3, <2>5 DEF FindDue, TypeInv, Outside
  <1>2. ASSUME NEW d \in Delivery, EnqueueDue(s, d)
        PROVE  TypeInv' /\ Outside
    <2>1. scheduler \in [Scheduler -> SUBSET Delivery] /\ rows[d] # None
      BY <1>2 DEF EnqueueDue, TypeInv, TypeOK, Existing
    <2>2. waiting' \subseteq waiting \cup {d}
      BY <1>2 DEF EnqueueDue
    <2>3. /\ scheduler' \in [Scheduler -> SUBSET Delivery]
          /\ \A q \in Scheduler : scheduler'[q] \subseteq scheduler[q]
      BY <1>2, <2>1 DEF EnqueueDue
    <2>4. UNCHANGED <<now, rows, configured, completed, failed, worker, posts,
                      fate, faults>>
      BY <1>2 DEF EnqueueDue
    <2>5. TypeOK'
      BY <2>2, <2>3, <2>4 DEF TypeInv, TypeOK
    <2>6. Existing'
      BY <2>1, <2>2, <2>3, <2>4 DEF TypeInv, Existing
    <2> QED
      BY <2>4, <2>5, <2>6 DEF TypeInv, Outside
  <1>3. CASE BreakTick(s)
    <2>1. TypeOK'
      BY <1>3, FaultCounts DEF BreakTick, TypeInv, TypeOK, queue
    <2>2. scheduler \in [Scheduler -> SUBSET Delivery]
      BY DEF TypeInv, TypeOK
    <2>3. Existing'
      BY <1>3, <2>2 DEF BreakTick, TypeInv, Existing, queue
    <2> QED
      BY <1>3, <2>1, <2>3 DEF BreakTick, TypeInv, Outside
  <1> QED
    BY <1>1, <1>2, <1>3 DEF SchedulerStep

LEMMA TimeEffect ==
  ASSUME TypeInv, AdvanceTime
  PROVE  TypeInv' /\ Outside
  <1>1. PICK t \in Instants : t > now /\ now' = t
    BY DEF AdvanceTime
  <1>2. t \in Nat
    BY <1>1, NoneAssumption DEF Instants, TypeInv, TypeOK, Row
  <1>3. TypeOK'
    BY <1>1, <1>2 DEF AdvanceTime, TypeInv, TypeOK, queue
  <1>4. Existing'
    BY DEF AdvanceTime, TypeInv, Existing, queue
  <1> QED
    BY <1>3, <1>4 DEF AdvanceTime, TypeInv, Outside

-----------------------------------------------------------------------------

LEMMA InitTypes == Init => TypeInv
  <1> SUFFICES ASSUME Init PROVE TypeInv
    OBVIOUS
  <1>1. Idle \in Run /\ Idle.pc = "idle" /\ ~Idle.holds
    BY IdleRun
  <1>2. /\ now \in Nat /\ faults \in 0 .. MaxFaults
        /\ configured \in BOOLEAN /\ waiting \subseteq Delivery
    <2>1. now = 0 /\ faults = 0 /\ waiting = {} /\ MaxFaults \in Nat
      BY DeliveryAssumption DEF Init
    <2>2. configured \in BOOLEAN
      BY Zenon DEF Init
    <2> QED
      BY <2>1, <2>2
  <1>3. /\ rows \in [Delivery -> Row \cup {None}]
        /\ scheduler \in [Scheduler -> SUBSET Delivery]
        /\ fate \in [Delivery -> Fate \cup {None}]
    BY DEF Init
  <1>4. worker \in [Worker -> Run] /\ posts \in [Delivery -> Nat]
    BY <1>1 DEF Init
  <1>5. /\ completed \in Seq(Delivery) /\ Len(completed) <= Retained
        /\ failed \in Seq(Delivery) /\ Len(failed) <= Retained
    <2>1. Len(<<>>) = 0 /\ Retained \in Nat
      BY EmptySeq, DeliveryAssumption
    <2> QED
      BY <2>1, EmptySeq DEF Init
  <1>6. TypeOK
    BY <1>2, <1>3, <1>4, <1>5 DEF TypeOK
  <1>7. Existing
    BY <1>1 DEF Init, Existing
  <1> QED
    BY <1>6, <1>7 DEF TypeInv

LEMMA StutterTypes ==
  ASSUME TypeInv, UNCHANGED vars
  PROVE  TypeInv'
  <1>1. TypeOK'
    BY DEF TypeInv, TypeOK, vars, queue
  <1>2. Existing'
    BY DEF TypeInv, Existing, vars, queue
  <1> QED
    BY <1>1, <1>2 DEF TypeInv

LEMMA NextTypes == TypeInv /\ [Next]_vars => TypeInv'
  <1> SUFFICES ASSUME TypeInv, [Next]_vars PROVE TypeInv'
    OBVIOUS
  <1>1. CASE \E d \in Delivery : Create(d)
    BY <1>1, CreateEffect
  <1>2. CASE Register
    BY <1>2, RegisterEffect
  <1>3. CASE \E s \in Scheduler : SchedulerStep(s) \/ BreakTick(s)
    BY <1>3, TickEffect
  <1>4. CASE \E w \in Worker : WorkerStep(w) \/ Crash(w) \/ LoseLock(w)
    <2>1. PICK w \in Worker : WorkerStep(w) \/ Crash(w) \/ LoseLock(w)
      BY <1>4
    <2>2. RunEffect(w)
      BY <2>1, TakeJobEffect, ReadRowEffect, ClaimEffect, ReadEndpointEffect,
         SendEffect, ReceiveEffect, SettleEffect, CrashEffect, LoseLockEffect
      DEF WorkerStep
    <2> QED
      BY <2>2, RunEffectTypes
  <1>5. CASE AdvanceTime
    BY <1>5, TimeEffect
  <1>6. CASE UNCHANGED vars
    BY <1>6, StutterTypes
  <1> QED
    BY <1>1, <1>2, <1>3, <1>4, <1>5, <1>6 DEF Next

(***************************************************************************)
(* Rows, queue and runs of webhook-delivery.ts keep their types, and       *)
(* BullMQ keeps at most Retained finished jobs of either kind.             *)
(***************************************************************************)
THEOREM WebhookTypes == Spec => []TypeOK
  <1>1. TypeInv => TypeOK
    BY DEF TypeInv
  <1> QED
    BY <1>1, InitTypes, NextTypes, PTL DEF Spec

-----------------------------------------------------------------------------
(* One sender, and true outcomes.                                          *)

Core == OneSender /\ Evidence

\* Nothing is written, and the run is not claimed or as claimed as before.
Harmless(w) ==
  /\ UNCHANGED <<rows, posts, fate, configured>>
  /\ Others(w)
  /\ \/ worker'[w].pc \in {"idle", "read", "claim"}
     \/ /\ worker'[w].pc = worker[w].pc /\ worker'[w].job = worker[w].job
        /\ worker'[w].attempt = worker[w].attempt
        /\ worker'[w].class = worker[w].class

LEMMA InitCore == Init => Core
  <1> SUFFICES ASSUME Init PROVE Core
    OBVIOUS
  <1>1. \A w \in Worker : worker[w].pc = "idle"
    BY IdleRun DEF Init
  <1>2. OneSender
    BY <1>1 DEF OneSender, Claimed
  <1>3. \A w \in Worker : RunEvidence(w)
    BY <1>1 DEF RunEvidence
  <1>4. \A d \in Delivery : RowEvidence(d)
    BY NoneAssumption DEF Init, RowEvidence, Untried, StatusOf, RowStatus, Terminal
  <1> QED
    BY <1>2, <1>3, <1>4 DEF Core, Evidence

LEMMA OutsideCore ==
  ASSUME TypeInv, Core, Outside
  PROVE  Core'
  <1>1. /\ UNCHANGED <<worker, posts, fate>>
        /\ \A d \in Delivery : rows[d] # None => rows'[d] = rows[d]
    BY DEF Outside
  <1>2. \A w \in Worker : worker[w].pc # "idle" =>
          /\ worker[w].job \in Delivery /\ rows[worker[w].job] # None
          /\ rows'[worker[w].job] = rows[worker[w].job]
    BY <1>1 DEF TypeInv, Existing
  <1>3. OneSender'
    BY <1>1, <1>2 DEF Core, OneSender, Claimed, StatusOf
  <1>4. ASSUME NEW w \in Worker
        PROVE  RunEvidence(w)'
    BY <1>1 DEF Outside, Core, Evidence, RunEvidence, Untried
  <1>5. ASSUME NEW d \in Delivery
        PROVE  RowEvidence(d)'
    <2>1. RowEvidence(d) /\ fate'[d] = fate[d] /\ posts'[d] = posts[d]
      BY <1>1 DEF Core, Evidence
    <2>2. ~configured' => ~configured
      BY DEF Outside
    <2>3. CASE rows'[d] = rows[d]
      BY <2>1, <2>2, <2>3 DEF RowEvidence, Untried, StatusOf
    <2>4. CASE rows[d] = None /\ rows'[d] # None /\ rows'[d].status = "pending"
      BY <2>1, <2>2, <2>4 DEF RowEvidence, Untried, StatusOf
    <2> QED
      BY <2>3, <2>4 DEF Outside
  <1> QED
    BY <1>3, <1>4, <1>5 DEF Core, Evidence

LEMMA HarmlessCore ==
  ASSUME TypeInv, Core, NEW w \in Worker, Harmless(w)
  PROVE  Core'
  <1>1. OneSender'
    BY DEF Harmless, Others, Core, OneSender, Claimed, StatusOf
  <1>2. ASSUME NEW v \in Worker
        PROVE  RunEvidence(v)'
    <2>1. RunEvidence(v)
      BY DEF Core, Evidence
    <2>2. CASE v # w
      BY <2>1, <2>2 DEF Harmless, Others, RunEvidence, Untried
    <2>3. CASE v = w
      BY <2>1, <2>3 DEF Harmless, RunEvidence, Untried
    <2> QED
      BY <2>2, <2>3
  <1>3. ASSUME NEW d \in Delivery
        PROVE  RowEvidence(d)'
    BY DEF Harmless, Core, Evidence, RowEvidence, Untried, StatusOf
  <1> QED
    BY <1>1, <1>2, <1>3 DEF Core, Evidence

LEMMA ClaimsCore ==
  ASSUME TypeInv, Core, NEW w \in Worker, worker[w].pc = "claim", Claims(w),
         UNCHANGED <<posts, fate, configured>>
  PROVE  Core'
  <1> DEFINE d == worker[w].job
             row == [rows[d] EXCEPT !.status = "delivering",
                                    !.attemptCount = worker[w].attempt]
             run == [worker[w] EXCEPT !.pc = "endpoint"]
  <1>1. /\ d \in Delivery /\ rows[d] \in Row /\ rows[d] # None /\ worker[w] \in Run
        /\ rows[d].status \in {"pending", "retry_scheduled"}
        /\ StatusOf(d) = rows[d].status
    BY DEF Claims, TypeInv, TypeOK, Existing, StatusOf
  <1>2. row \in Row /\ row.status = "delivering" /\ row.attemptCount = worker[w].attempt
    BY <1>1 DEF Row, RowStatus, Run
  <1>3. /\ run.pc = "endpoint" /\ run.job = d /\ run.attempt = worker[w].attempt
    BY <1>1 DEF Run
  <1>4. /\ rows'[d] = row
        /\ \A e \in Delivery : e # d => rows'[e] = rows[e]
        /\ worker'[w] = run
        /\ \A v \in Worker : v # w => worker'[v] = worker[v]
    BY <1>1, WritesGrow DEF Claims, Others
  <1>5. row # None
    BY <1>2, NoneAssumption
  <1> HIDE DEF row, run
  <1>6. \A v \in Worker : Claimed(v) =>
          /\ worker[v].job \in Delivery /\ rows[worker[v].job] # None
          /\ rows[worker[v].job].status = "delivering" /\ worker[v].job # d
          /\ rows[worker[v].job].attemptCount = worker[v].attempt
    BY <1>1, NoneAssumption DEF Core, OneSender, TypeInv, Existing, Claimed,
       StatusOf, RowStatus
  <1>7. OneSender'
    BY <1>2, <1>3, <1>4, <1>5, <1>6 DEF Core, OneSender, Claimed, StatusOf
  <1>8. fate[d] \in {None, "busy"} /\ RowEvidence(d)
    BY <1>1 DEF Core, Evidence, RowEvidence, Untried
  <1>9. ASSUME NEW v \in Worker
        PROVE  RunEvidence(v)'
    <2>1. CASE v # w
      BY <1>4, <2>1 DEF Core, Evidence, RunEvidence, Untried
    <2>2. CASE v = w
      BY <1>3, <1>4, <1>8, <2>2 DEF RunEvidence
    <2> QED
      BY <2>1, <2>2
  <1>10. ASSUME NEW e \in Delivery
         PROVE  RowEvidence(e)'
    <2>1. RowEvidence(e)
      BY DEF Core, Evidence
    <2>2. CASE e # d
      BY <1>4, <2>1, <2>2 DEF RowEvidence, Untried, StatusOf
    <2>3. CASE e = d
      BY <1>2, <1>4, <1>5, <2>1, <2>3, NoneAssumption
      DEF RowEvidence, Untried, StatusOf, RowStatus
    <2> QED
      BY <2>2, <2>3
  <1> QED
    BY <1>7, <1>9, <1>10 DEF Core, Evidence

LEMMA AdvancesCore ==
  ASSUME TypeInv, Core, NEW w \in Worker, Advances(w), configured' = configured
  PROVE  Core'
  <1> DEFINE d == worker[w].job
  <1>1. /\ Claimed(w) /\ d \in Delivery /\ rows' = rows
        /\ StatusOf(d) = "delivering"
        /\ worker'[w].job = d /\ worker'[w].attempt = worker[w].attempt
        /\ \A v \in Worker : v # w => worker'[v] = worker[v]
        /\ \A e \in Delivery : e # d => posts'[e] = posts[e] /\ fate'[e] = fate[e]
    BY DEF Advances, Others, Core, OneSender, Claimed, TypeInv, Existing
  <1>2. OneSender'
    BY <1>1 DEF Core, OneSender, Claimed, StatusOf
  <1>3. RunEvidence(w) /\ RowEvidence(d)
    BY <1>1 DEF Core, Evidence
  <1>4. RunEvidence(w)'
    BY <1>1, <1>3, NoneAssumption DEF Advances, RunEvidence, RowEvidence, Untried
  <1>5. ASSUME NEW v \in Worker
        PROVE  RunEvidence(v)'
    <2>1. CASE v # w /\ Claimed(v)
      <3>1. worker[v].job \in Delivery /\ worker[v].job # d
        BY <1>1, <2>1 DEF Core, OneSender, Claimed, TypeInv, Existing
      <3> QED
        BY <1>1, <2>1, <3>1 DEF Core, Evidence, RunEvidence, Untried
    <2>2. CASE v # w /\ ~Claimed(v)
      BY <1>1, <2>2 DEF RunEvidence, Claimed
    <2> QED
      BY <1>4, <2>1, <2>2
  <1>6. ASSUME NEW e \in Delivery
        PROVE  RowEvidence(e)'
    <2>1. RowEvidence(e)
      BY DEF Core, Evidence
    <2>2. CASE e # d
      BY <1>1, <2>1, <2>2 DEF RowEvidence, Untried, StatusOf
    <2>3. CASE e = d
      <3>1. StatusOf(e)' = "delivering"
        BY <1>1, <2>3 DEF StatusOf
      <3>2. ~configured \/ ~KeyMatches => UNCHANGED <<posts, fate>>
        BY <1>3 DEF Advances, RunEvidence, Claimed
      <3> QED
        BY <2>1, <3>1, <3>2, NoneAssumption DEF RowEvidence, Untried, RowStatus
    <2> QED
      BY <2>2, <2>3
  <1> QED
    BY <1>2, <1>5, <1>6 DEF Core, Evidence

LEMMA SettlesCore ==
  ASSUME TypeInv, Core, NEW w \in Worker, Settles(w),
         UNCHANGED <<posts, fate, configured>>
  PROVE  Core'
  <1> DEFINE d == worker[w].job
             row == Outcome(w)
  <1>1. /\ worker[w].pc = "settle" /\ Claimed(w) /\ d \in Delivery
        /\ rows[d].attemptCount = worker[w].attempt /\ worker[w] \in Run
        /\ row \in Row /\ Verdict(w, row)
    BY DEF Settles, Writes, Claimed, Core, OneSender, TypeInv, TypeOK, Existing
  <1>2. /\ rows'[d] = row
        /\ \A e \in Delivery : e # d => rows'[e] = rows[e]
        /\ worker'[w].pc = "idle"
        /\ \A v \in Worker : v # w => worker'[v] = worker[v]
    BY <1>1, WritesGrow, IdleRun DEF Settles, Ends, Others
  <1>3. row # None
    BY <1>1, NoneAssumption
  <1> HIDE DEF row
  <1>4. \A v \in Worker : v # w /\ Claimed(v) =>
          worker[v].job \in Delivery /\ worker[v].job # d
    BY <1>1 DEF Core, OneSender, Claimed, TypeInv, Existing
  <1>5. OneSender'
    BY <1>2, <1>4 DEF Core, OneSender, Claimed, StatusOf
  <1>6. ASSUME NEW v \in Worker
        PROVE  RunEvidence(v)'
    <2>1. CASE v # w
      BY <1>2, <2>1 DEF Core, Evidence, RunEvidence, Untried
    <2>2. CASE v = w
      BY <1>2, <2>2 DEF RunEvidence
    <2> QED
      BY <2>1, <2>2
  <1>7. ASSUME NEW e \in Delivery
        PROVE  RowEvidence(e)'
    <2>1. RowEvidence(e)
      BY DEF Core, Evidence
    <2>2. CASE e # d
      BY <1>2, <2>1, <2>2 DEF RowEvidence, Untried, StatusOf
    <2>3. CASE e = d
      <3>1. /\ \/ worker[w].class = "success" /\ fate[d] = "acknowledged"
               \/ worker[w].class = "retryable" /\ fate[d] = "busy"
               \/ /\ worker[w].class = "permanent"
                  /\ fate[d] \in {"refused"} \cup NotAsked \/ Untried(d)
        BY <1>1 DEF Core, Evidence, RunEvidence
      <3>2. StatusOf(e)' = row.status /\ rows'[e].attemptCount = row.attemptCount
        BY <1>2, <1>3, <2>3 DEF StatusOf
      <3>3. worker[w].attempt \notin DOMAIN RetryDelays =>
              worker[w].attempt > Len(RetryDelays)
        <4>1. DOMAIN RetryDelays = 1 .. Len(RetryDelays) /\ Len(RetryDelays) \in Nat
          BY DeliveryAssumption
        <4>2. worker[w].attempt \in Nat /\ worker[w].attempt > 0
          BY <1>1 DEF Run, TypeInv, Existing
        <4> QED
          BY <4>1, <4>2
      <3>4. fate'[e] = fate[d] /\ (Untried(d) => Untried(e)')
        BY <2>3 DEF Untried
      <3>5. ~configured' \/ ~KeyMatches => Untried(e)'
        BY <2>1, <2>3, <3>4 DEF RowEvidence
      <3>6. rows'[e].attemptCount = worker[w].attempt
        BY <1>1, <3>2 DEF Verdict
      <3>7. /\ StatusOf(e)' = "delivered" => fate'[e] = "acknowledged"
            /\ StatusOf(e)' = "retry_scheduled" => fate'[e] = "busy"
        BY <1>1, <3>1, <3>2, <3>4 DEF Verdict
      <3>8. StatusOf(e)' = "dead_letter" =>
              \/ fate'[e] \in {"refused"} \cup NotAsked
              \/ fate'[e] = "busy" /\ rows'[e].attemptCount > Len(RetryDelays)
              \/ Untried(e)'
        BY <1>1, <3>1, <3>2, <3>3, <3>4, <3>6 DEF Verdict
      <3>9. StatusOf(e)' \notin {None, "pending"}
        BY <1>1, <3>2, NoneAssumption DEF Verdict, RowStatus, Terminal
      <3> QED
        BY <3>5, <3>7, <3>8, <3>9 DEF RowEvidence
    <2> QED
      BY <2>2, <2>3
  <1> QED
    BY <1>5, <1>6, <1>7 DEF Core, Evidence

\* Every step of a run is one of four kinds.
LEMMA RunSteps ==
  ASSUME TypeInv, NEW w \in Worker, WorkerStep(w) \/ Crash(w) \/ LoseLock(w)
  PROVE  /\ configured' = configured
         /\ \/ Harmless(w)
            \/ Advances(w)
            \/ worker[w].pc = "claim" /\ Claims(w) /\ UNCHANGED <<posts, fate>>
            \/ Settles(w) /\ UNCHANGED <<posts, fate>>
  <1>1. CASE TakeJob(w) \/ ReadRow(w)
    BY <1>1, TakeJobEffect, ReadRowEffect DEF RunEffect, Harmless
  <1>2. CASE ReadEndpoint(w) \/ Send(w) \/ Receive(w)
    BY <1>2, ReadEndpointEffect, SendEffect, ReceiveEffect DEF RunEffect
  <1>3. ASSUME Ends(w), UNCHANGED <<rows, posts, fate, configured>>
        PROVE  Harmless(w)
    BY <1>3, IdleRun DEF Ends, Harmless
  <1>4. CASE Claim(w)
    BY <1>3, <1>4, ClaimEffect DEF RunEffect, Claim
  <1>5. CASE Settle(w)
    BY <1>3, <1>5, SettleEffect DEF RunEffect
  <1>6. CASE Crash(w)
    BY <1>3, <1>6, CrashEffect DEF RunEffect
  <1>7. CASE LoseLock(w)
    <2>1. worker[w] \in Run
      BY DEF TypeInv, TypeOK
    <2> QED
      BY <1>7, <2>1, LoseLockEffect DEF RunEffect, Harmless, Run
  <1> QED
    BY <1>1, <1>2, <1>4, <1>5, <1>6, <1>7 DEF WorkerStep

LEMMA NextCore == TypeInv /\ Core /\ [Next]_vars => Core'
  <1> SUFFICES ASSUME TypeInv, Core, [Next]_vars PROVE Core'
    OBVIOUS
  <1>1. CASE \E d \in Delivery : Create(d)
    BY <1>1, CreateEffect, OutsideCore
  <1>2. CASE Register
    BY <1>2, RegisterEffect, OutsideCore
  <1>3. CASE \E s \in Scheduler : SchedulerStep(s) \/ BreakTick(s)
    BY <1>3, TickEffect, OutsideCore
  <1>4. CASE \E w \in Worker : WorkerStep(w) \/ Crash(w) \/ LoseLock(w)
    BY <1>4, RunSteps, HarmlessCore, AdvancesCore, ClaimsCore, SettlesCore
  <1>5. CASE AdvanceTime
    BY <1>5, TimeEffect, OutsideCore
  <1>6. CASE UNCHANGED vars
    BY <1>6, OutsideCore DEF vars, Outside
  <1> QED
    BY <1>1, <1>2, <1>3, <1>4, <1>5, <1>6 DEF Next

LEMMA Invariance == Spec => [](TypeInv /\ Core)
  BY InitTypes, InitCore, NextTypes, NextCore, PTL DEF Spec

(***************************************************************************)
(* A duplicate job makes no HTTP call: between its claim and its verdict a *)
(* run is alone on a row that says delivering.                             *)
(***************************************************************************)
THEOREM SenderIsAlone == Spec => []OneSender
  <1>1. TypeInv /\ Core => OneSender
    BY DEF Core
  <1> QED
    BY <1>1, Invariance, PTL

(***************************************************************************)
(* What webhook-delivery.ts writes into a row is what the merchant's       *)
(* server answered, and nothing is given up early but what the merchant    *)
(* refused or was never asked: an unsafe address, no usable secret, or -   *)
(* against the docs - a host whose name did not resolve at that attempt.   *)
(***************************************************************************)
THEOREM OutcomeIsTrue == Spec => []OutcomeIsReal
  <1>1. TypeInv /\ Core => OutcomeIsReal
    BY DEF Core, Evidence, RowEvidence, OutcomeIsReal, Untried, NotAsked
  <1> QED
    BY <1>1, Invariance, PTL

-----------------------------------------------------------------------------
(* Nothing is sent after the end.                                          *)

StaysQuiet(d) ==
  /\ fate[d] = "acknowledged" \/ StatusOf(d) \in Terminal =>
       posts'[d] = posts[d]
  /\ StatusOf(d) \in Terminal => rows'[d] = rows[d]

LEMMA OutsideQuiet ==
  ASSUME Outside, NEW d \in Delivery
  PROVE  StaysQuiet(d)
  <1>1. None \notin Terminal
    BY NoneAssumption DEF RowStatus
  <1> QED
    BY <1>1 DEF Outside, StaysQuiet, StatusOf

LEMMA RunQuiet ==
  ASSUME TypeInv, Core, NEW w \in Worker, NEW d \in Delivery,
         WorkerStep(w) \/ Crash(w) \/ LoseLock(w)
  PROVE  StaysQuiet(d)
  <1>1. worker[w].pc # "idle" => worker[w].job \in Delivery
    BY DEF TypeInv, Existing
  <1>2. CASE Harmless(w)
    BY <1>2 DEF Harmless, StaysQuiet
  <1>3. CASE Advances(w)
    <2>1. /\ Claimed(w) /\ rows' = rows
          /\ StatusOf(worker[w].job) = "delivering" /\ RunEvidence(w)
          /\ d # worker[w].job => posts'[d] = posts[d]
      BY <1>3 DEF Advances, Core, OneSender, Evidence
    <2>2. CASE d # worker[w].job
      BY <2>1, <2>2 DEF StaysQuiet
    <2>3. CASE d = worker[w].job
      <3>1. posts' = posts \/ fate[d] \in {None, "busy"}
        BY <1>3, <2>1, <2>3 DEF Advances, RunEvidence
      <3>2. None # "acknowledged"
        BY NoneAssumption DEF Fate
      <3> QED
        BY <2>1, <2>3, <3>1, <3>2 DEF StaysQuiet, Terminal
    <2> QED
      BY <2>2, <2>3
  <1>4. CASE worker[w].pc = "claim" /\ Claims(w) /\ UNCHANGED <<posts, fate>>
    <2>1. /\ d # worker[w].job => rows'[d] = rows[d]
          /\ StatusOf(worker[w].job) \in {"pending", "retry_scheduled"}
      BY <1>4, WritesGrow DEF Claims, StatusOf
    <2> QED
      BY <1>4, <2>1 DEF StaysQuiet, Terminal
  <1>5. CASE Settles(w) /\ UNCHANGED <<posts, fate>>
    <2>1. /\ d # worker[w].job => rows'[d] = rows[d]
          /\ StatusOf(worker[w].job) = "delivering"
      BY <1>5, WritesGrow DEF Settles, StatusOf
    <2> QED
      BY <1>5, <2>1 DEF StaysQuiet, Terminal
  <1> QED
    BY <1>2, <1>3, <1>4, <1>5, RunSteps

(***************************************************************************)
(* An event the merchant acknowledged with 2xx, or whose row is terminal,  *)
(* is never POSTed again, and a terminal row never changes.                *)
(***************************************************************************)
THEOREM QuietForGood == Spec => QuietAfterTheEnd
  <1>1. ASSUME TypeInv, Core, [Next]_vars, NEW d \in Delivery
        PROVE  StaysQuiet(d)
    <2>1. CASE \E e \in Delivery : Create(e)
      BY <1>1, <2>1, CreateEffect, OutsideQuiet
    <2>2. CASE Register
      BY <1>1, <2>2, RegisterEffect, OutsideQuiet
    <2>3. CASE \E s \in Scheduler : SchedulerStep(s) \/ BreakTick(s)
      BY <1>1, <2>3, TickEffect, OutsideQuiet
    <2>4. CASE \E w \in Worker : WorkerStep(w) \/ Crash(w) \/ LoseLock(w)
      BY <1>1, <2>4, RunQuiet
    <2>5. CASE AdvanceTime
      BY <1>1, <2>5, TimeEffect, OutsideQuiet
    <2>6. CASE UNCHANGED vars
      BY <2>6 DEF vars, StaysQuiet
    <2> QED
      BY <1>1, <2>1, <2>2, <2>3, <2>4, <2>5, <2>6 DEF Next
  <1>2. TypeInv /\ Core /\ [Next]_vars =>
          [\A d \in Delivery :
             /\ fate[d] = "acknowledged" \/ StatusOf(d) \in Terminal =>
                  posts'[d] = posts[d]
             /\ StatusOf(d) \in Terminal => rows'[d] = rows[d]]_vars
    BY <1>1 DEF StaysQuiet
  <1> QED
    BY <1>2, Invariance, PTL DEF Spec, QuietAfterTheEnd

-----------------------------------------------------------------------------
(* Six attempts.                                                           *)

\* As long as no fault has happened, a run has the lock of its job, which
\* nobody else works on and which does not wait.
Lone ==
  /\ \A w \in Worker : worker[w].pc # "idle" =>
       worker[w].holds /\ worker[w].job \notin waiting
  /\ \A v, w \in Worker :
       worker[v].pc # "idle" /\ worker[w].pc # "idle" /\ v # w =>
         worker[v].job # worker[w].job

\* The row counts its POSTs, and only a row with a delay left is tried again.
Counted(d) ==
  /\ rows[d] = None => posts[d] = 0
  /\ rows[d] # None =>
       /\ posts[d] <= rows[d].attemptCount
       /\ rows[d].attemptCount <= Len(RetryDelays) + 1
       /\ rows[d].status \in {"pending", "retry_scheduled"} =>
            rows[d].attemptCount <= Len(RetryDelays)

\* A run claims the next attempt of its row, and has then one POST to make.
Counts(w) ==
  LET d == worker[w].job
  IN  /\ worker[w].pc = "claim" => worker[w].attempt = rows[d].attemptCount + 1
      /\ worker[w].pc \in {"endpoint", "send"} => posts[d] < rows[d].attemptCount

Counting == (\A d \in Delivery : Counted(d)) /\ \A w \in Worker : Counts(w)

Orderly == Lone /\ Counting

\* What the steps of a run leave of its lock and of the queue.
KeepsLock(w) ==
  /\ Others(w) /\ waiting' = waiting
  /\ \/ worker'[w].pc = "idle"
     \/ /\ worker[w].pc # "idle"
        /\ worker'[w].job = worker[w].job /\ worker'[w].holds = worker[w].holds

LEMMA LocksKept ==
  ASSUME TypeInv, NEW w \in Worker,
         \/ ReadRow(w) \/ Claim(w) \/ ReadEndpoint(w)
         \/ Send(w) \/ Receive(w) \/ Settle(w)
  PROVE  KeepsLock(w)
  <1>1. worker \in [Worker -> Run] /\ worker[w] \in Run
    BY DEF TypeInv, TypeOK
  <1>2. worker[w].pc # "idle"
    BY DEF ReadRow, Claim, ReadEndpoint, Send, Receive, Settle
  <1>3. Others(w)
    BY ReadRowEffect, ClaimEffect, ReadEndpointEffect, SendEffect,
       ReceiveEffect, SettleEffect DEF RunEffect
  <1>4. CASE Finish(w) \/ Abort(w)
    BY <1>2, <1>3, <1>4, FinishClears, AbortClears, IdleRun DEF KeepsLock
  <1>5. ASSUME NEW step \in Step, Goto(w, step), waiting' = waiting
        PROVE  KeepsLock(w)
    <2>1. worker'[w] = [worker[w] EXCEPT !.pc = step]
      BY <1>1, <1>5, GotoMoves
    <2> QED
      BY <1>1, <1>2, <1>3, <1>5, <2>1 DEF Run, KeepsLock
  <1>6. ASSUME NEW class, waiting' = waiting,
               worker' = [worker EXCEPT ![w].pc = "settle", ![w].class = class]
        PROVE  KeepsLock(w)
    <2>1. worker'[w].job = worker[w].job /\ worker'[w].holds = worker[w].holds
      BY <1>1, <1>6 DEF Run
    <2> QED
      BY <1>2, <1>3, <1>6, <2>1 DEF KeepsLock
  <1>7. CASE ReadRow(w)
    <2>1. waiting' = waiting
      BY <1>7 DEF ReadRow, queue
    <2>2. worker'[w].job = worker[w].job /\ worker'[w].holds = worker[w].holds
      BY <1>1, <1>7 DEF ReadRow, Run
    <2> QED
      BY <1>2, <1>3, <2>1, <2>2 DEF KeepsLock
  <1>8. CASE Claim(w)
    BY <1>4, <1>5, <1>8 DEF Claim, queue, Step
  <1>9. CASE ReadEndpoint(w)
    BY <1>5, <1>6, <1>9 DEF ReadEndpoint, queue, Step
  <1>10. CASE Send(w)
    BY <1>5, <1>6, <1>10 DEF Send, queue, Step
  <1>11. CASE Receive(w)
    BY <1>6, <1>11 DEF Receive, queue
  <1>12. CASE Settle(w)
    BY <1>4, <1>12 DEF Settle
  <1> QED
    BY <1>7, <1>8, <1>9, <1>10, <1>11, <1>12

LEMMA KeepsLockLone ==
  ASSUME Lone, NEW w \in Worker, KeepsLock(w)
  PROVE  Lone'
  BY DEF Lone, KeepsLock, Others

LEMMA TakeJobLone ==
  ASSUME TypeInv, Lone, NEW w \in Worker, TakeJob(w)
  PROVE  Lone'
  <1>1. PICK d \in waiting :
          /\ waiting' = waiting \ {d}
          /\ worker' = [worker EXCEPT ![w] =
               [Idle EXCEPT !.pc = "read", !.job = d, !.holds = TRUE]]
    BY DEF TakeJob
  <1>2. worker \in [Worker -> Run]
    BY DEF TypeInv, TypeOK
  <1>3. /\ worker'[w].job = d /\ worker'[w].holds
        /\ \A v \in Worker : v # w => worker'[v] = worker[v]
    BY <1>1, <1>2 DEF Idle
  <1> QED
    BY <1>1, <1>3 DEF Lone

\* No worker is touched and only a job that nobody works on may start to wait.
LEMMA OutsideLone ==
  ASSUME Lone, worker' = worker,
         \A d \in waiting' \ waiting : ~HasJob(d)
  PROVE  Lone'
  BY DEF Lone, HasJob

\* No run is touched, and a row is as before or new.
LEMMA OutsideCounting ==
  ASSUME TypeInv, Counting, UNCHANGED <<worker, posts>>,
         \A d \in Delivery :
           \/ rows'[d] = rows[d]
           \/ rows[d] = None /\ rows'[d].attemptCount = 0
  PROVE  Counting'
  <1>1. ASSUME NEW d \in Delivery
        PROVE  Counted(d)'
    <2>1. Counted(d) /\ posts'[d] = posts[d] /\ Len(RetryDelays) \in Nat
      BY DeliveryAssumption, LenProperties DEF Counting
    <2>2. CASE rows'[d] = rows[d]
      BY <2>1, <2>2 DEF Counted
    <2>3. CASE rows[d] = None /\ rows'[d].attemptCount = 0
      BY <2>1, <2>3 DEF Counted
    <2> QED
      BY <2>2, <2>3
  <1>2. ASSUME NEW w \in Worker
        PROVE  Counts(w)'
    <2>1. worker[w].pc # "idle" =>
            worker[w].job \in Delivery /\ rows'[worker[w].job] = rows[worker[w].job]
      BY DEF TypeInv, Existing
    <2> QED
      BY <2>1 DEF Counting, Counts
  <1> QED
    BY <1>1, <1>2 DEF Counting

\* Nothing is written, and the run is at no step that counts.
LEMMA IdleCounting ==
  ASSUME Counting, NEW w \in Worker, Others(w), UNCHANGED <<rows, posts>>,
         worker'[w].pc \in {"idle", "read"}
  PROVE  Counting'
  BY DEF Counting, Counted, Counts, Others

LEMMA ReadRowCounting ==
  ASSUME TypeInv, Counting, NEW w \in Worker, ReadRow(w)
  PROVE  Counting'
  <1>1. /\ Others(w) /\ worker'[w].pc = "claim" /\ UNCHANGED <<rows, posts>>
    BY ReadRowEffect DEF RunEffect
  <1>2. worker[w] \in Run /\ worker \in [Worker -> Run]
    BY DEF TypeInv, TypeOK
  <1>3. /\ worker'[w].job = worker[w].job
        /\ worker'[w].attempt = rows[worker[w].job].attemptCount + 1
    BY <1>2 DEF ReadRow, Run
  <1> QED
    BY <1>1, <1>3 DEF Counting, Counted, Counts, Others

LEMMA ClaimsCounting ==
  ASSUME TypeInv, Orderly, NEW w \in Worker, worker[w].pc = "claim",
         Claims(w), posts' = posts
  PROVE  Counting'
  <1> DEFINE d == worker[w].job
             row == [rows[d] EXCEPT !.status = "delivering",
                                    !.attemptCount = worker[w].attempt]
  <1>1. /\ d \in Delivery /\ rows[d] \in Row /\ worker[w] \in Run
        /\ rows[d].status \in {"pending", "retry_scheduled"}
        /\ Writes(w, row) /\ Others(w) /\ posts[d] \in Nat
        /\ worker'[w] = [worker[w] EXCEPT !.pc = "endpoint"]
    BY DEF Claims, TypeInv, TypeOK, Existing
  <1>2. row.status = "delivering" /\ row.attemptCount = rows[d].attemptCount + 1
    BY <1>1 DEF Row, Orderly, Counting, Counts
  <1>3. /\ rows'[d] = row
        /\ \A e \in Delivery : e # d => rows'[e] = rows[e]
        /\ worker'[w].pc = "endpoint" /\ worker'[w].job = d
    BY <1>1, WritesGrow DEF Run
  <1>4. /\ rows[d].attemptCount \in Nat /\ Len(RetryDelays) \in Nat /\ row # None
        /\ posts[d] <= rows[d].attemptCount
        /\ rows[d].attemptCount <= Len(RetryDelays)
    <2>1. rows[d] # None /\ rows[d].attemptCount \in Nat /\ row # None
      BY <1>1, NoneAssumption DEF Row, Writes
    <2>2. Counted(d) /\ Len(RetryDelays) \in Nat
      BY <1>1, DeliveryAssumption, LenProperties DEF Orderly, Counting
    <2> HIDE DEF row
    <2> QED
      BY <1>1, <2>1, <2>2 DEF Counted
  <1> HIDE DEF row
  <1>5. ASSUME NEW e \in Delivery
        PROVE  Counted(e)'
    <2>1. Counted(e) /\ Len(RetryDelays) \in Nat
      BY DeliveryAssumption, LenProperties DEF Orderly, Counting
    <2>2. CASE e # d
      BY <1>3, <2>1, <2>2 DEF Counted
    <2>3. CASE e = d
      <3>1. posts'[d] <= row.attemptCount
        BY <1>2, <1>4, <1>1
      <3>2. row.attemptCount <= Len(RetryDelays) + 1
        BY <1>2, <1>4
      <3>3. row.status \notin {"pending", "retry_scheduled"}
        BY <1>2
      <3> QED
        BY <1>3, <1>4, <2>3, <3>1, <3>2, <3>3 DEF Counted
    <2> QED
      BY <2>2, <2>3
  <1>6. ASSUME NEW v \in Worker
        PROVE  Counts(v)'
    <2>1. CASE v # w /\ worker[v].pc # "idle"
      <3>1. worker[v].job \in Delivery /\ worker[v].job # d /\ worker'[v] = worker[v]
        BY <1>1, <2>1 DEF Orderly, Lone, TypeInv, Existing, Others
      <3> QED
        BY <1>3, <2>1, <3>1 DEF Orderly, Counting, Counts
    <2>2. CASE v # w /\ worker[v].pc = "idle"
      BY <1>1, <2>2 DEF Counts, Others
    <2>3. CASE v = w
      <3>1. posts'[d] < row.attemptCount
        BY <1>1, <1>2, <1>4
      <3> QED
        BY <1>3, <2>3, <3>1 DEF Counts
    <2> QED
      BY <2>1, <2>2, <2>3
  <1> QED
    BY <1>5, <1>6 DEF Counting

LEMMA AdvancesCounting ==
  ASSUME TypeInv, Core, Orderly, NEW w \in Worker, Advances(w),
         posts' \in [Delivery -> Nat]
  PROVE  Counting'
  <1> DEFINE d == worker[w].job
  <1>1. /\ d \in Delivery /\ rows' = rows /\ rows[d] \in Row
        /\ Others(w) /\ worker[w].pc # "idle" /\ worker'[w].job = d
        /\ worker'[w].pc # "claim" /\ posts[d] \in Nat
        /\ \A e \in Delivery : e # d => posts'[e] = posts[e]
    BY DEF Advances, Claimed, TypeInv, TypeOK, Existing
  <1>2. Counts(w) /\ Counted(d) /\ rows[d] # None
    BY <1>1, NoneAssumption DEF Orderly, Counting
  <1>3. /\ posts'[d] <= rows[d].attemptCount
        /\ worker'[w].pc \in {"endpoint", "send"} => posts'[d] < rows[d].attemptCount
    BY <1>1, <1>2 DEF Advances, Counts, Counted, Row
  <1>4. ASSUME NEW e \in Delivery
        PROVE  Counted(e)'
    <2>1. Counted(e)
      BY DEF Orderly, Counting
    <2>2. CASE e # d
      BY <1>1, <2>1, <2>2 DEF Counted
    <2>3. CASE e = d
      BY <1>1, <1>2, <1>3, <2>1, <2>3 DEF Counted
    <2> QED
      BY <2>2, <2>3
  <1>5. ASSUME NEW v \in Worker
        PROVE  Counts(v)'
    <2>1. CASE v # w /\ worker[v].pc # "idle"
      <3>1. worker[v].job \in Delivery /\ worker[v].job # d /\ worker'[v] = worker[v]
        BY <1>1, <2>1 DEF Orderly, Lone, TypeInv, Existing, Others
      <3> QED
        BY <1>1, <2>1, <3>1 DEF Orderly, Counting, Counts
    <2>2. CASE v # w /\ worker[v].pc = "idle"
      BY <1>1, <2>2 DEF Counts, Others
    <2>3. CASE v = w
      BY <1>1, <1>3, <2>3 DEF Counts
    <2> QED
      BY <2>1, <2>2, <2>3
  <1> QED
    BY <1>4, <1>5 DEF Counting

LEMMA SettlesCounting ==
  ASSUME TypeInv, Core, Orderly, NEW w \in Worker, Settles(w), posts' = posts
  PROVE  Counting'
  <1> DEFINE d == worker[w].job
             row == Outcome(w)
  <1>1. /\ d \in Delivery /\ rows[d] # None /\ row \in Row
        /\ Writes(w, row) /\ Verdict(w, row)
        /\ rows[d].attemptCount = worker[w].attempt
        /\ worker[w].pc = "settle" /\ worker[w] \in Run
    BY DEF Settles, Writes, Core, OneSender, Claimed, TypeInv, TypeOK, Existing
  <1>2. /\ rows'[d] = row
        /\ \A e \in Delivery : e # d => rows'[e] = rows[e]
        /\ Others(w) /\ worker'[w].pc = "idle"
    BY <1>1, WritesGrow, IdleRun DEF Settles, Ends
  <1>3. row # None /\ row.attemptCount = worker[w].attempt
    BY <1>1, NoneAssumption DEF Verdict
  <1>4. row.status \in {"pending", "retry_scheduled"} =>
          row.attemptCount <= Len(RetryDelays)
    <2>1. DOMAIN RetryDelays = 1 .. Len(RetryDelays) /\ Len(RetryDelays) \in Nat
      BY DeliveryAssumption, LenProperties
    <2> QED
      BY <1>1, <1>3, <2>1 DEF Verdict, Terminal
  <1> HIDE DEF row
  <1>5. ASSUME NEW e \in Delivery
        PROVE  Counted(e)'
    <2>1. Counted(e)
      BY DEF Orderly, Counting
    <2>2. CASE e # d
      BY <1>2, <2>1, <2>2 DEF Counted
    <2>3. CASE e = d
      BY <1>1, <1>2, <1>3, <1>4, <2>1, <2>3 DEF Counted
    <2> QED
      BY <2>2, <2>3
  <1>6. ASSUME NEW v \in Worker
        PROVE  Counts(v)'
    <2>1. CASE v # w /\ worker[v].pc # "idle"
      <3>1. worker[v].job \in Delivery /\ worker[v].job # d /\ worker'[v] = worker[v]
        BY <1>1, <1>2, <2>1 DEF Orderly, Lone, TypeInv, Existing, Others
      <3> QED
        BY <1>2, <2>1, <3>1 DEF Orderly, Counting, Counts
    <2>2. CASE v = w \/ worker[v].pc = "idle"
      BY <1>2, <2>2 DEF Counts, Others
    <2> QED
      BY <2>1, <2>2
  <1> QED
    BY <1>5, <1>6 DEF Counting

LEMMA RunOrderly ==
  ASSUME TypeInv, Core, Orderly, NEW w \in Worker, WorkerStep(w)
  PROVE  Orderly'
  <1>1. CASE TakeJob(w)
    BY <1>1, TakeJobEffect, TakeJobLone, IdleCounting DEF RunEffect, Orderly
  <1>2. CASE ReadRow(w)
    BY <1>2, LocksKept, KeepsLockLone, ReadRowCounting DEF Orderly
  <1>3. CASE Claim(w)
    <2>1. Claims(w) \/ (Ends(w) /\ UNCHANGED rows)
      BY <1>3, ClaimEffect
    <2>2. posts' = posts /\ worker[w].pc = "claim"
      BY <1>3 DEF Claim
    <2>3. Counting'
      BY <2>1, <2>2, ClaimsCounting, IdleCounting, IdleRun DEF Orderly, Ends
    <2> QED
      BY <1>3, <2>3, LocksKept, KeepsLockLone DEF Orderly
  <1>4. CASE ReadEndpoint(w) \/ Send(w) \/ Receive(w)
    <2>1. RunEffect(w) /\ Advances(w)
      BY <1>4, ReadEndpointEffect, SendEffect, ReceiveEffect
    <2>2. Counting'
      BY <2>1, AdvancesCounting DEF RunEffect
    <2> QED
      BY <1>4, <2>2, LocksKept, KeepsLockLone DEF Orderly
  <1>5. CASE Settle(w)
    <2>1. Settles(w) \/ (Ends(w) /\ UNCHANGED rows)
      BY <1>5, SettleEffect
    <2>2. posts' = posts
      BY <1>5 DEF Settle
    <2>3. Counting'
      BY <2>1, <2>2, SettlesCounting, IdleCounting, IdleRun DEF Orderly, Ends
    <2> QED
      BY <1>5, <2>3, LocksKept, KeepsLockLone DEF Orderly
  <1> QED
    BY <1>1, <1>2, <1>3, <1>4, <1>5 DEF WorkerStep

LEMMA InitOrderly == Init => Orderly
  <1> SUFFICES ASSUME Init PROVE Orderly
    OBVIOUS
  <1>1. \A w \in Worker : worker[w].pc = "idle"
    BY IdleRun DEF Init
  <1>2. \A d \in Delivery : rows[d] = None /\ posts[d] = 0
    BY DEF Init
  <1> QED
    BY <1>1, <1>2 DEF Orderly, Lone, Counting, Counted, Counts

LEMMA FaultBreaks ==
  ASSUME TypeInv, Fault
  PROVE  faults' # 0
  BY DeliveryAssumption DEF TypeInv, TypeOK, Fault

LEMMA NextOrderly ==
  TypeInv /\ Core /\ (faults = 0 => Orderly) /\ [Next]_vars
    => (faults = 0 => Orderly)'
  <1> SUFFICES ASSUME TypeInv, Core, faults = 0 => Orderly, [Next]_vars,
                      faults' = 0
               PROVE  Orderly'
    OBVIOUS
  <1>1. ASSUME faults = 0, waiting' = waiting, UNCHANGED <<worker, posts, rows>>
        PROVE  Orderly'
    BY <1>1, OutsideLone, OutsideCounting DEF Orderly
  <1>2. ASSUME NEW d \in Delivery, Create(d)
        PROVE  Orderly'
    <2>1. /\ faults = 0 /\ waiting' = waiting /\ UNCHANGED <<worker, posts>>
      BY <1>2 DEF Create, queue
    <2>2. \A e \in Delivery :
            \/ rows'[e] = rows[e]
            \/ rows[e] = None /\ rows'[e].attemptCount = 0
      BY <1>2 DEF Create, TypeInv, TypeOK
    <2> QED
      BY <2>1, <2>2, OutsideLone, OutsideCounting DEF Orderly
  <1>3. CASE Register
    BY <1>1, <1>3 DEF Register, queue
  <1>4. ASSUME NEW s \in Scheduler, SchedulerStep(s)
        PROVE  Orderly'
    <2>1. CASE FindDue(s)
      BY <1>1, <2>1 DEF FindDue, queue
    <2>2. ASSUME NEW d \in Delivery, EnqueueDue(s, d)
          PROVE  Orderly'
      BY <2>2, OutsideLone, OutsideCounting DEF EnqueueDue, Orderly
    <2> QED
      BY <1>4, <2>1, <2>2 DEF SchedulerStep
  <1>5. ASSUME NEW w \in Worker, WorkerStep(w)
        PROVE  Orderly'
    <2>1. faults' = faults
      BY <1>5 DEF WorkerStep, TakeJob, ReadRow, Claim, ReadEndpoint, Send,
         Receive, Settle
    <2> QED
      BY <1>5, <2>1, RunOrderly
  <1>6. CASE AdvanceTime
    BY <1>1, <1>6 DEF AdvanceTime, queue
  <1>7. ASSUME NEW s \in Scheduler, BreakTick(s)
        PROVE  FALSE
    BY <1>7, FaultBreaks DEF BreakTick
  <1>8. ASSUME NEW w \in Worker, Crash(w) \/ LoseLock(w)
        PROVE  FALSE
    BY <1>8, FaultBreaks DEF Crash, LoseLock
  <1>9. CASE UNCHANGED vars
    BY <1>1, <1>9 DEF vars, queue
  <1> QED
    BY <1>2, <1>3, <1>4, <1>5, <1>6, <1>7, <1>8, <1>9 DEF Next

(***************************************************************************)
(* "Six total attempts": without a death or a lost lock, the runs of       *)
(* webhook-delivery.ts send no POST that their row does not count, and no  *)
(* more than the schedule of webhook-retry-schedule.ts has attempts.       *)
(***************************************************************************)
THEOREM SixAtMost == Spec => []SixAttempts
  <1>1. Init => (faults = 0 => Orderly)
    BY InitOrderly
  <1>2. TypeInv /\ Core /\ (faults = 0 => Orderly) => SixAttempts
    <2> SUFFICES ASSUME TypeInv, Orderly, NEW d \in Delivery
                 PROVE  /\ posts[d] <= Len(RetryDelays) + 1
                        /\ rows[d] # None => posts[d] <= rows[d].attemptCount
      BY DEF SixAttempts
    <2>1. Counted(d) /\ posts[d] \in Nat /\ Len(RetryDelays) \in Nat
      BY DeliveryAssumption, LenProperties DEF Orderly, Counting, TypeInv, TypeOK
    <2>2. rows[d] # None => rows[d].attemptCount \in Nat
      BY DEF TypeInv, TypeOK, Row
    <2> QED
      BY <2>1, <2>2 DEF Counted
  <1> QED
    BY <1>1, <1>2, NextOrderly, Invariance, PTL DEF Spec

=============================================================================
