------------------------ MODULE ChargePipelineProofs ------------------------
(***************************************************************************)
(* What holds of the charge pipeline for any set of requests, mandates,    *)
(* overlapping scheduler ticks and pipeline runs, any schedule of retries  *)
(* and any number of faults.                                               *)
(*                                                                         *)
(* The argument.  What a run believes its row's status to be follows from  *)
(* its step (Belief), so a run is submitting exactly when it believes      *)
(* "submitted".  Each transition is guarded by the believed status, so no  *)
(* other run leaves a row that says submitted, and the scheduler's         *)
(* recovery does not either: SingleSubmitter is inductive.  The terminal   *)
(* statuses are believed by no run, so rows never leave them, and OneStory *)
(* and TerminalIsFinal follow.                                             *)
(*                                                                         *)
(* A count that a run has read was the contract's at some earlier time, so *)
(* the run whose own charge takes it to the limit made the last charge     *)
(* there can be (CountInv): one run at most, and it announces once.        *)
(***************************************************************************)
EXTENDS ChargePipeline, FiniteSetTheorems, SequenceTheorems, TLAPS

-----------------------------------------------------------------------------
(* Every request that is queued, found or worked on has a row.             *)

Existing ==
  /\ \A r \in queue : rows[r] # None
  /\ \A s \in Scheduler : \A r \in scheduler[s].due : rows[r] # None
  /\ \A w \in Worker : worker[w].pc # "idle" =>
       worker[w].job \in Request /\ rows[worker[w].job] # None
  /\ \A w \in Worker : worker[w].holds => worker[w].pc # "idle"

TypeInv == TypeOK /\ Existing

-----------------------------------------------------------------------------
(* What an update of a run leaves alone.                                   *)

Others(w) ==
  /\ worker' \in [Worker -> Run]
  /\ \A v \in Worker : v # w => worker'[v] = worker[v]

Keeps(w) ==
  /\ Others(w)
  /\ worker'[w].job = worker[w].job /\ worker'[w].holds = worker[w].holds
  /\ worker'[w].believes = worker[w].believes

LEMMA IdleRun == Idle \in Run /\ Idle.pc = "idle" /\ ~Idle.holds
  BY DEF Idle, Run, Step

LEMMA GotoKeeps ==
  ASSUME worker \in [Worker -> Run], NEW w \in Worker,
         NEW step \in Step, Goto(w, step)
  PROVE  /\ Keeps(w)
         /\ worker'[w].pc = step /\ worker'[w].tx = worker[w].tx
  <1>1. worker'[w] = [worker[w] EXCEPT !.pc = step]
    BY DEF Goto
  <1>2. worker'[w] \in Run
    BY <1>1 DEF Run
  <1>3. Others(w)
    BY <1>2 DEF Goto, Others
  <1> QED
    BY <1>1, <1>3 DEF Keeps, Run

LEMMA FailKeeps ==
  ASSUME worker \in [Worker -> Run], NEW w \in Worker,
         NEW class \in {"transient", "permanent"}, NEW reason \in Reason,
         FailWith(w, class, reason)
  PROVE  /\ Keeps(w)
         /\ worker'[w].pc = "fail" /\ worker'[w].tx = worker[w].tx
  <1>1. worker'[w] = [worker[w] EXCEPT !.pc = "fail", !.class = class,
                                       !.reason = reason]
    BY DEF FailWith
  <1>2. worker'[w] \in Run
    BY <1>1 DEF Run, Step
  <1>3. Others(w)
    BY <1>2 DEF FailWith, Others
  <1> QED
    BY <1>1, <1>3 DEF Keeps, Run

LEMMA FinishClears ==
  ASSUME worker \in [Worker -> Run], NEW w \in Worker, Finish(w)
  PROVE  Others(w) /\ worker'[w] = Idle
  BY IdleRun DEF Finish, Others

LEMMA EnqueueCounts ==
  ASSUME webhooks \in [EventKey -> Nat], NEW events, Enqueue(events)
  PROVE  /\ webhooks' \in [EventKey -> Nat]
         /\ \A e \in EventKey :
              webhooks'[e] = webhooks[e] + IF e \in events THEN 1 ELSE 0
  BY DEF Enqueue

LEMMA Verdicts ==
  ASSUME NEW r
  PROVE  /\ Verdict(r) \in ContractError \cup {"success", "trapped"}
         /\ Verdict(r) \in ContractError => Verdict(r) \in Reason
  BY DEF Verdict, ContractError, Retryable, Reason

LEMMA Classes ==
  ASSUME NEW error
  PROVE  Class(error) \in {"transient", "permanent"}
  BY DEF Class

LEMMA ChargedIsNatural ==
  ASSUME TypeOK, NEW m
  PROVE  Charged(m) \in Nat
  <1>1. {r \in used : MandateOf[r] = m} \subseteq Request
    BY DEF TypeOK
  <1>2. IsFiniteSet({r \in used : MandateOf[r] = m})
    BY <1>1, PipelineAssumption, FS_Subset
  <1> QED
    BY <1>2, FS_CardinalityType DEF Charged

-----------------------------------------------------------------------------
(* The steps of a run, by what they do to rows and runs.                   *)

\* What a run believes its row's status to be at each of its steps.
Belief(run) ==
  /\ run.pc = "idle" => run.believes = None
  /\ run.pc = "claim" => run.believes \in {"scheduled", "retryable_failed"}
  /\ run.pc \in {"mandate", "authorize", "ledger", "expire", "prepare",
                 "simulate"} => run.believes = "processing"
  /\ run.pc = "submit" => run.believes = "simulated"
  /\ run.pc \in {"send", "poll", "settle"} => run.believes = "submitted"
  /\ run.pc = "fail" => run.believes \in {"processing", "submitted"}

\* A step that touches no row, webhook or payment.
Quiet(w) ==
  /\ UNCHANGED <<now, rows, payments, webhooks, queue, scheduler, faults>>
  /\ UNCHANGED <<used, revoked, broke>>
  /\ Keeps(w)
  /\ worker[w].pc # "idle" /\ worker'[w].pc # "idle"
  /\ Belief(worker[w]) => Belief(worker'[w])

\* The row of r is written, with status to, and no other row.
Writes(r, to) ==
  /\ rows' \in [Request -> Row \cup {None}]
  /\ rows'[r] \in Row /\ rows'[r].status = to
  /\ \A q \in Request : q # r => rows'[q] = rows[q]

\* A transition succeeds, or its run ends.
Moves(w, to, step) ==
  LET r == worker[w].job
  IN  /\ InStatus(r, worker[w].believes) /\ Writes(r, to)
      /\ Others(w)
      /\ worker'[w].pc = step /\ worker'[w].job = r
      /\ worker'[w].holds = worker[w].holds /\ worker'[w].believes = to

Ends(w) == Others(w) /\ worker'[w] = Idle

LEMMA TransitionMoves ==
  ASSUME TypeInv, NEW w \in Worker, worker[w].pc # "idle",
         NEW to \in RowStatus, NEW step \in Step, Transition(w, to, step)
  PROVE  Moves(w, to, step) \/ (Ends(w) /\ rows' = rows)
  <1> DEFINE r == worker[w].job
  <1>1. /\ rows \in [Request -> Row \cup {None}]
        /\ worker \in [Worker -> Run]
        /\ r \in Request /\ rows[r] # None
    BY DEF TypeInv, TypeOK, Existing
  <1>2. CASE InStatus(r, worker[w].believes)
    <2> DEFINE count == IF to = "processing" THEN worker[w].attempt
                        ELSE rows[r].attemptCount
               row == [rows[r] EXCEPT !.status = to, !.stale = FALSE,
                                      !.attemptCount = count]
               run == [worker[w] EXCEPT !.pc = step, !.believes = to]
    <2>1. rows' = [rows EXCEPT ![r] = row]
      BY <1>2 DEF Transition
    <2>2. worker' = [worker EXCEPT ![w] = run]
      BY <1>2 DEF Transition
    <2>3. rows[r] \in Row /\ worker[w] \in Run
      BY <1>1
    <2>4. row \in Row /\ row.status = to
      BY <2>3 DEF Row, Run
    <2>5. /\ run \in Run /\ run.pc = step /\ run.job = r
          /\ run.holds = worker[w].holds /\ run.believes = to
      BY <2>3 DEF Run
    <2> HIDE DEF row, run
    <2>6. Writes(r, to)
      BY <1>1, <2>1, <2>4 DEF Writes
    <2>7. Others(w) /\ worker'[w] = run
      BY <1>1, <2>2, <2>5 DEF Others
    <2> QED
      BY <1>2, <2>5, <2>6, <2>7 DEF Moves
  <1>3. CASE ~InStatus(r, worker[w].believes)
    <2>1. Finish(w) /\ rows' = rows
      BY <1>3 DEF Transition
    <2> QED
      BY <1>1, <2>1, FinishClears DEF Ends
  <1> QED
    BY <1>2, <1>3

LEMMA QuietSteps ==
  ASSUME TypeInv, NEW w \in Worker,
         \/ ReadMandate(w) \/ Authorize(w) \/ CheckLedger(w)
         \/ ExpireAuthorization(w) \/ Prepare(w) \/ Send(w) \/ Poll(w)
  PROVE  Quiet(w)
  <1>1. worker \in [Worker -> Run]
    BY DEF TypeInv, TypeOK
  <1>2. Charged(MandateOf[worker[w].job]) \in Nat
    BY ChargedIsNatural DEF TypeInv
  <1>3. CASE ReadMandate(w)
    <2>1. /\ UNCHANGED <<now, database, queue, scheduler, chain, faults>>
          /\ worker[w].pc = "mandate"
      BY <1>3 DEF ReadMandate
    <2>2. Keeps(w) /\ worker'[w].pc \in {"authorize", "fail"}
      <3>1. CASE \E class \in {"transient", "permanent"}, reason \in Reason :
                   FailWith(w, class, reason)
        BY <1>1, <3>1, FailKeeps
      <3>2. CASE worker' = [worker EXCEPT ![w].pc = "authorize",
                   ![w].seen = Charged(MandateOf[worker[w].job])]
        <4>1. worker'[w] = [worker[w] EXCEPT !.pc = "authorize",
                   !.seen = Charged(MandateOf[worker[w].job])]
          BY <1>1, <3>2
        <4>2. worker'[w] \in Run
          BY <1>1, <1>2, <4>1 DEF Run, Step
        <4>3. Others(w)
          BY <1>1, <3>2, <4>2 DEF Others
        <4> QED
          BY <1>1, <4>1, <4>3 DEF Keeps, Run
      <3> QED
        BY <1>3, <3>1, <3>2 DEF ReadMandate, Reason
    <2> QED
      BY <2>1, <2>2 DEF Quiet, Keeps, Belief, database, chain
  <1>4. CASE Authorize(w)
    <2>1. /\ UNCHANGED <<now, database, queue, scheduler, chain, faults>>
          /\ worker[w].pc = "authorize"
      BY <1>4 DEF Authorize
    <2>2. Keeps(w) /\ worker'[w].pc \in {"ledger", "fail"}
      BY <1>1, <1>4, GotoKeeps, FailKeeps DEF Authorize, Step, Reason
    <2> QED
      BY <2>1, <2>2 DEF Quiet, Keeps, Belief, database, chain
  <1>5. CASE CheckLedger(w)
    <2>1. /\ UNCHANGED <<now, database, queue, scheduler, chain, faults>>
          /\ worker[w].pc = "ledger"
      BY <1>5 DEF CheckLedger
    <2>2. Keeps(w) /\ worker'[w].pc \in {"expire", "prepare", "fail"}
      BY <1>1, <1>5, GotoKeeps, FailKeeps DEF CheckLedger, Step, Reason
    <2> QED
      BY <2>1, <2>2 DEF Quiet, Keeps, Belief, database, chain
  <1>6. CASE ExpireAuthorization(w)
    <2>1. /\ UNCHANGED <<now, rows, payments, webhooks, queue, scheduler,
                         chain, faults>>
          /\ worker[w].pc = "expire"
      BY <1>6 DEF ExpireAuthorization
    <2>2. Keeps(w) /\ worker'[w].pc = "fail"
      BY <1>1, <1>6, FailKeeps DEF ExpireAuthorization, Reason
    <2> QED
      BY <2>1, <2>2 DEF Quiet, Keeps, Belief, chain
  <1>7. CASE Prepare(w)
    <2>1. /\ UNCHANGED <<now, database, queue, scheduler, chain, faults>>
          /\ worker[w].pc = "prepare"
      BY <1>7 DEF Prepare
    <2>2. Keeps(w) /\ worker'[w].pc \in {"simulate", "fail"}
      <3>1. CASE Goto(w, "simulate")
        BY <1>1, <3>1, GotoKeeps DEF Step
      <3>2. CASE \E class \in {"transient", "permanent"}, reason \in Reason :
                   FailWith(w, class, reason)
        BY <1>1, <3>2, FailKeeps
      <3> QED
        BY <1>7, <3>1, <3>2, Verdicts, Classes DEF Prepare, Reason
    <2> QED
      BY <2>1, <2>2 DEF Quiet, Keeps, Belief, database, chain
  <1>8. CASE Send(w)
    <2>1. /\ UNCHANGED <<now, database, queue, scheduler, used, revoked, broke,
                         faults>>
          /\ worker[w].pc = "send"
      BY <1>8 DEF Send
    <2>2. Keeps(w) /\ worker'[w].pc \in {"poll", "fail"}
      <3>1. CASE FailWith(w, "transient", "SEND_FAILED")
        BY <1>1, <3>1, FailKeeps DEF Reason
      <3>2. CASE worker' = [worker EXCEPT
                   ![w].pc = "poll", ![w].tx = Len(transactions) + 1]
        <4>1. worker'[w] = [worker[w] EXCEPT
                   !.pc = "poll", !.tx = Len(transactions) + 1]
          BY <1>1, <3>2
        <4>2. Len(transactions) + 1 \in Nat
          <5>1. Len(transactions) \in Nat
            BY DEF TypeInv, TypeOK
          <5> QED
            BY <5>1
        <4>3. worker'[w] \in Run
          BY <1>1, <4>1, <4>2 DEF Run, Step
        <4>4. Others(w)
          BY <1>1, <3>2, <4>3 DEF Others
        <4> QED
          BY <1>1, <4>1, <4>4 DEF Keeps, Run
      <3> QED
        BY <1>8, <3>1, <3>2 DEF Send
    <2> QED
      BY <2>1, <2>2 DEF Quiet, Keeps, Belief, database
  <1>9. CASE Poll(w)
    <2>1. /\ UNCHANGED <<now, database, queue, scheduler, chain, faults>>
          /\ worker[w].pc = "poll"
      BY <1>9 DEF Poll
    <2>2. Keeps(w) /\ worker'[w].pc \in {"settle", "fail"}
      <3>1. CASE Goto(w, "settle")
        BY <1>1, <3>1, GotoKeeps DEF Step
      <3>2. CASE \E class \in {"transient", "permanent"}, reason \in Reason :
                   FailWith(w, class, reason)
        BY <1>1, <3>2, FailKeeps
      <3> QED
        BY <1>9, <3>1, <3>2, Classes DEF Poll, Reason
    <2> QED
      BY <2>1, <2>2 DEF Quiet, Keeps, Belief, database, chain
  <1> QED
    BY <1>3, <1>4, <1>5, <1>6, <1>7, <1>8, <1>9

\* A job is taken from the queue.
Takes(w, r) ==
  /\ r \in queue /\ queue' = queue \ {r}
  /\ Others(w) /\ worker[w].pc = "idle"
  /\ worker'[w].pc = "claim" /\ worker'[w].job = r
  /\ worker'[w].believes \in {"scheduled", "retryable_failed"}

LEMMA TakeJobTakes ==
  ASSUME TypeInv, NEW w \in Worker, TakeJob(w)
  PROVE  \E r \in queue : Takes(w, r)
  <1> DEFINE belief(r) == IF InStatus(r, "retryable_failed")
                          THEN "retryable_failed" ELSE "scheduled"
             run(r) == [ Idle EXCEPT
                !.pc = "claim", !.job = r, !.holds = TRUE,
                !.believes = belief(r),
                !.attempt = rows[r].attemptCount + 1 ]
  <1>1. PICK r \in queue : /\ queue' = queue \ {r}
                           /\ worker' = [worker EXCEPT ![w] = run(r)]
    BY DEF TakeJob
  <1>2. r \in Request /\ rows[r] \in Row
    BY DEF TypeInv, TypeOK, Existing
  <1>3. rows[r].attemptCount + 1 \in Nat
    BY <1>2 DEF Row
  <1>4. belief(r) \in {"scheduled", "retryable_failed"}
    OBVIOUS
  <1> HIDE DEF belief
  <1>5. /\ run(r) \in Run /\ run(r).pc = "claim" /\ run(r).job = r
        /\ run(r).believes = belief(r)
    BY <1>2, <1>3, <1>4 DEF Idle, Run, Step, RowStatus
  <1> HIDE DEF run
  <1>6. worker \in [Worker -> Run] /\ worker[w].pc = "idle"
    BY DEF TypeInv, TypeOK, TakeJob
  <1>7. Others(w) /\ worker'[w] = run(r)
    BY <1>1, <1>5, <1>6 DEF Others
  <1>8. Takes(w, r)
    BY <1>1, <1>4, <1>5, <1>6, <1>7 DEF Takes
  <1> QED
    BY <1>8

\* A payment is recorded together with everything that follows from it.
Settles(w) ==
  LET r == worker[w].job
  IN  /\ InStatus(r, "submitted") /\ r \notin payments
      /\ Writes(r, "succeeded")
      /\ payments' = payments \cup {r}
      /\ authorizations' = [authorizations EXCEPT ![r] = "consumed"]
      /\ \E completed \in SUBSET {<<"mandate.completed", MandateOf[r]>>} :
           Enqueue({<<"payment.succeeded", r>>} \cup completed)

LEMMA SettleSettles ==
  ASSUME TypeInv, NEW w \in Worker, Settle(w)
  PROVE  Ends(w) /\ (Settles(w) \/ UNCHANGED database)
  <1> DEFINE r == worker[w].job
  <1>1. /\ worker \in [Worker -> Run] /\ worker[w].pc = "settle"
        /\ r \in Request /\ rows[r] \in Row
        /\ rows \in [Request -> Row \cup {None}]
    BY DEF TypeInv, TypeOK, Existing, Settle
  <1>2. Ends(w)
    BY <1>1, FinishClears DEF Settle, Ends
  <1>3. CASE InStatus(r, "submitted") /\ r \notin payments
    <2> DEFINE row == [rows[r] EXCEPT !.status = "succeeded"]
    <2>1. rows' = [rows EXCEPT ![r] = row]
      BY <1>3 DEF Settle
    <2>2. row \in Row /\ row.status = "succeeded"
      BY <1>1 DEF Row, RowStatus, Terminal
    <2> HIDE DEF row
    <2>3. Writes(r, "succeeded")
      BY <1>1, <2>1, <2>2 DEF Writes
    <2> QED
      BY <1>2, <1>3, <2>3 DEF Settle, Settles
  <1>4. CASE ~(InStatus(r, "submitted") /\ r \notin payments)
    BY <1>2, <1>4 DEF Settle
  <1> QED
    BY <1>3, <1>4

\* A failure is recorded: a retry is planned, or the merchant is told.
GivesUp(w, to) ==
  LET r == worker[w].job
  IN  /\ InStatus(r, worker[w].believes)
      /\ Writes(r, to)
      /\ Enqueue(IF to = "permanently_failed"
                 THEN {<<"payment.failed", r>>} ELSE {})

LEMMA NextRetryIsNatural ==
  ASSUME TypeOK, NEW attempt
  PROVE  NextRetryAt(attempt) \in Nat \cup {None}
  BY PipelineAssumption DEF TypeOK, NextRetryAt

LEMMA FailGivesUp ==
  ASSUME TypeInv, NEW w \in Worker, Fail(w)
  PROVE  /\ Ends(w)
         /\ \/ \E to \in {"permanently_failed", "retryable_failed"} :
                 GivesUp(w, to)
            \/ UNCHANGED <<rows, webhooks>>
  <1> DEFINE r == worker[w].job
             retryAt == IF worker[w].class = "transient"
                        THEN NextRetryAt(worker[w].attempt) ELSE None
             to == IF retryAt = None THEN "permanently_failed"
                   ELSE "retryable_failed"
  <1>1. /\ worker \in [Worker -> Run] /\ worker[w].pc = "fail"
        /\ r \in Request /\ rows[r] \in Row
        /\ rows \in [Request -> Row \cup {None}]
        /\ worker[w].reason \in Reason \cup {None}
    BY DEF TypeInv, TypeOK, Existing, Fail, Run
  <1>2. retryAt \in Nat \cup {None}
    BY NextRetryIsNatural DEF TypeInv
  <1>3. Ends(w)
    BY <1>1, FinishClears DEF Fail, Ends
  <1>4. CASE InStatus(r, worker[w].believes)
    <2> DEFINE row == [rows[r] EXCEPT !.status = to,
                         !.failureCode = worker[w].reason,
                         !.nextAttemptAt = retryAt, !.stale = FALSE]
    <2>1. /\ rows' = [rows EXCEPT ![r] = row]
          /\ Enqueue(IF retryAt = None THEN {<<"payment.failed", r>>} ELSE {})
      BY <1>4 DEF Fail
    <2>2. to \in {"permanently_failed", "retryable_failed"}
      OBVIOUS
    <2>3. to = "permanently_failed" <=> retryAt = None
      OBVIOUS
    <2> HIDE DEF to, retryAt
    <2>4. row \in Row /\ row.status = to
      BY <1>1, <1>2, <2>2 DEF Row, RowStatus, Terminal
    <2> HIDE DEF row
    <2>5. Writes(r, to)
      BY <1>1, <2>1, <2>4 DEF Writes
    <2>6. GivesUp(w, to)
      BY <1>4, <2>1, <2>3, <2>5 DEF GivesUp
    <2> QED
      BY <1>3, <2>2, <2>6
  <1>5. CASE ~InStatus(r, worker[w].believes)
    BY <1>3, <1>5 DEF Fail
  <1> QED
    BY <1>4, <1>5

\* The scheduler takes back rows whose run has gone quiet before submission.
TakesBack ==
  /\ rows' \in [Request -> Row \cup {None}]
  /\ \A r \in Request :
       \/ rows'[r] = rows[r]
       \/ /\ StatusOf(r) \in {"processing", "simulated"}
          /\ rows'[r] \in Row /\ rows'[r].status = "retryable_failed"

LEMMA RecoverTakesBack ==
  ASSUME TypeInv, NEW s \in Scheduler, Recover(s)
  PROVE  TakesBack
  <1> DEFINE back(r) == [rows[r] EXCEPT !.status = "retryable_failed",
                            !.failureCode = "WORKER_INTERRUPTED",
                            !.nextAttemptAt = now, !.stale = FALSE]
             hit(r) == StatusOf(r) \in {"processing", "simulated"}
                         /\ rows[r].stale
  <1>1. rows' = [r \in Request |-> IF hit(r) THEN back(r) ELSE rows[r]]
    BY DEF Recover, PreSubmission
  <1>2. rows \in [Request -> Row \cup {None}] /\ now \in Nat
    BY DEF TypeInv, TypeOK
  <1>3. ASSUME NEW r \in Request, hit(r)
        PROVE  back(r) \in Row /\ back(r).status = "retryable_failed"
    <2>1. rows[r] \in Row
      BY <1>2, <1>3, NoneAssumption DEF StatusOf, RowStatus
    <2> QED
      BY <1>2, <2>1 DEF Row, RowStatus, Reason
  <1>4. \A r \in Request : hit(r) => StatusOf(r) \in {"processing", "simulated"}
    OBVIOUS
  <1> HIDE DEF back, hit
  <1> QED
    BY <1>1, <1>2, <1>3, <1>4 DEF TakesBack

LEMMA AcceptWrites ==
  ASSUME TypeInv, NEW r \in Request, CompleteAuthorization(r)
  PROVE  rows[r] = None /\ Writes(r, "scheduled")
  <1> DEFINE row == [ status |-> "scheduled", attemptCount |-> 0,
                      failureCode |-> None, nextAttemptAt |-> None,
                      stale |-> FALSE ]
  <1>1. rows[r] = None /\ rows' = [rows EXCEPT ![r] = row]
    BY DEF CompleteAuthorization
  <1>2. row \in Row /\ row.status = "scheduled"
    BY DEF Row, RowStatus
  <1>3. rows \in [Request -> Row \cup {None}]
    BY DEF TypeInv, TypeOK
  <1> HIDE DEF row
  <1> QED
    BY <1>1, <1>2, <1>3 DEF Writes

LEMMA StaleWrites ==
  ASSUME TypeInv, NEW r \in Request, GoStale(r)
  PROVE  rows[r] # None /\ Writes(r, StatusOf(r))
  <1> DEFINE row == [rows[r] EXCEPT !.stale = TRUE]
  <1>1. /\ rows' = [rows EXCEPT ![r] = row]
        /\ StatusOf(r) \in InProgress
    BY DEF GoStale
  <1>2. rows \in [Request -> Row \cup {None}]
    BY DEF TypeInv, TypeOK
  <1>3. rows[r] # None /\ rows[r] \in Row
    BY <1>1, <1>2, NoneAssumption DEF StatusOf, InProgress, RowStatus
  <1>4. row \in Row /\ row.status = StatusOf(r)
    BY <1>3 DEF Row, StatusOf
  <1> HIDE DEF row
  <1> QED
    BY <1>1, <1>2, <1>3, <1>4 DEF Writes

-----------------------------------------------------------------------------
(* Types.                                                                  *)

LEMMA TypeInit == Init => TypeInv
  <1> SUFFICES ASSUME Init PROVE TypeInv
    OBVIOUS
  <1>1. transactions \in Seq(Transaction)
    BY DEF Init
  <1>2. faults \in 0 .. MaxFaults
    BY PipelineAssumption DEF Init
  <1>3. worker \in [Worker -> Run]
    BY IdleRun DEF Init
  <1>4. TypeOK
    BY <1>1, <1>2, <1>3 DEF Init, TypeOK
  <1>5. Existing
    BY IdleRun DEF Init, Existing
  <1> QED
    BY <1>4, <1>5 DEF TypeInv

\* No step takes a row away; then what refers to a row goes on doing so.
Grows == \A r \in Request : rows[r] # None => rows'[r] # None

LEMMA WritesGrow ==
  ASSUME NEW r \in Request, NEW to, Writes(r, to)
  PROVE  Grows
  BY NoneAssumption DEF Writes, Grows

LEMMA ExistingStays ==
  ASSUME TypeInv, Grows, NEW w \in Worker, UNCHANGED <<queue, scheduler>>,
         \/ Ends(w)
         \/ /\ Others(w) /\ worker[w].pc # "idle" /\ worker'[w].pc # "idle"
            /\ worker'[w].job = worker[w].job
            /\ worker'[w].holds = worker[w].holds
  PROVE  Existing'
  <1>1. \A v \in Worker :
           /\ worker'[v].pc # "idle" =>
                worker'[v].job \in Request /\ rows'[worker'[v].job] # None
           /\ worker'[v].holds => worker'[v].pc # "idle"
    BY IdleRun DEF Ends, Others, Grows, TypeInv, Existing
  <1>2. \A r \in queue : rows'[r] # None
    BY DEF Grows, TypeInv, TypeOK, Existing
  <1>3. \A s \in Scheduler : \A r \in scheduler[s].due : rows'[r] # None
    <2>1. \A s \in Scheduler : scheduler[s].due \subseteq Request
      BY DEF TypeInv, TypeOK
    <2> QED
      BY <2>1 DEF Grows, TypeInv, Existing
  <1> QED
    BY <1>1, <1>2, <1>3 DEF Existing

LEMMA WorkerTypes ==
  ASSUME TypeInv, NEW w \in Worker, WorkerStep(w)
  PROVE  TypeInv'
  <1>1. ASSUME NEW to \in RowStatus, NEW step \in Step \ {"idle"},
               worker[w].pc # "idle", Transition(w, to, step)
        PROVE  TypeInv'
    <2>1. Moves(w, to, step) \/ (Ends(w) /\ rows' = rows)
      BY <1>1, TransitionMoves
    <2>2. UNCHANGED <<now, authorizations, payments, webhooks, queue,
                      scheduler, chain, faults>>
      BY <1>1 DEF Transition
    <2>3. worker[w].job \in Request
      BY <1>1 DEF TypeInv, Existing
    <2>4. Grows
      BY <2>1, <2>3, WritesGrow DEF Moves, Grows
    <2>5. rows' \in [Request -> Row \cup {None}] /\ Others(w)
      BY <2>1 DEF Moves, Writes, Ends, TypeInv, TypeOK
    <2>6. TypeOK'
      BY <2>2, <2>5 DEF TypeInv, TypeOK, Others, chain
    <2>7. Existing'
      BY <1>1, <2>1, <2>2, <2>4, ExistingStays DEF Moves
    <2> QED
      BY <2>6, <2>7 DEF TypeInv
  <1>2. CASE Claim(w) \/ MarkSimulated(w) \/ MarkSubmitted(w)
    BY <1>1, <1>2 DEF Claim, MarkSimulated, MarkSubmitted, RowStatus, Step
  <1>3. CASE TakeJob(w)
    <2>1. PICK r \in queue : Takes(w, r)
      BY <1>3, TakeJobTakes
    <2>2. UNCHANGED <<now, database, scheduler, chain, faults>>
      BY <1>3 DEF TakeJob
    <2>3. TypeOK'
      BY <2>1, <2>2 DEF TypeInv, TypeOK, Takes, Others, chain, database
    <2>4. Existing'
      BY <2>1, <2>2 DEF TypeInv, TypeOK, Existing, Takes, Others, database
    <2> QED
      BY <2>3, <2>4 DEF TypeInv
  <1>4. CASE \/ ReadMandate(w) \/ Authorize(w) \/ CheckLedger(w)
             \/ ExpireAuthorization(w) \/ Prepare(w) \/ Send(w) \/ Poll(w)
    <2>1. Quiet(w)
      BY <1>4, QuietSteps
    <2>2. transactions' \in Seq(Transaction)
      <3>1. CASE Send(w)
        <4>1. [request |-> worker[w].job, fate |-> "pending"]
                \in Transaction
          BY <3>1 DEF Send, TypeInv, Existing, Fate, Transaction
        <4>2. transactions \in Seq(Transaction)
          BY DEF TypeInv, TypeOK
        <4>3. \/ transactions' = transactions
              \/ transactions' = Append(transactions,
                   [request |-> worker[w].job, fate |-> "pending"])
          BY <3>1 DEF Send
        <4> QED
          BY <4>1, <4>2, <4>3, AppendProperties
      <3>2. CASE ~Send(w)
        <4>1. transactions' = transactions
          BY <1>4, <3>2 DEF ReadMandate, Authorize, CheckLedger,
             ExpireAuthorization, Prepare, Poll, chain
        <4> QED
          BY <4>1 DEF TypeInv, TypeOK
      <3> QED
        BY <3>1, <3>2
    <2>3. authorizations' \in
            [Request -> {"pending", "ready", "consumed", "expired"}]
      BY <1>4 DEF ReadMandate, Authorize, CheckLedger, ExpireAuthorization,
         Prepare, Send, Poll, database, TypeInv, TypeOK
    <2>4. TypeOK'
      BY <2>1, <2>2, <2>3 DEF Quiet, Keeps, Others, TypeInv, TypeOK
    <2>5. Existing'
      BY <2>1, ExistingStays DEF Quiet, Keeps, Grows
    <2> QED
      BY <2>4, <2>5 DEF TypeInv
  <1>5. CASE Settle(w)
    <2>1. Ends(w) /\ (Settles(w) \/ UNCHANGED database)
      BY <1>5, SettleSettles
    <2>2. UNCHANGED <<now, queue, scheduler, chain, faults>>
      BY <1>5 DEF Settle
    <2>3. worker[w].job \in Request
      BY <1>5 DEF TypeInv, Existing, Settle
    <2>4. rows' \in [Request -> Row \cup {None}] /\ Grows
      BY <2>1, <2>3, WritesGrow
      DEF Settles, Writes, database, TypeInv, TypeOK, Grows
    <2>5. /\ payments' \subseteq Request
          /\ authorizations' \in
               [Request -> {"pending", "ready", "consumed", "expired"}]
      BY <2>1, <2>3 DEF Settles, database, TypeInv, TypeOK
    <2>6. webhooks' \in [EventKey -> Nat]
      BY <2>1, EnqueueCounts DEF Settles, database, TypeInv, TypeOK
    <2>7. TypeOK'
      BY <2>1, <2>2, <2>4, <2>5, <2>6 DEF Ends, Others, TypeInv, TypeOK, chain
    <2>8. Existing'
      BY <2>1, <2>2, <2>4, ExistingStays
    <2> QED
      BY <2>7, <2>8 DEF TypeInv
  <1>6. CASE Fail(w)
    <2>1. /\ Ends(w)
          /\ \/ \E to \in {"permanently_failed", "retryable_failed"} :
                  GivesUp(w, to)
             \/ UNCHANGED <<rows, webhooks>>
      BY <1>6, FailGivesUp
    <2>2. UNCHANGED <<now, authorizations, payments, queue, scheduler, chain,
                      faults>>
      BY <1>6 DEF Fail
    <2>3. worker[w].job \in Request
      BY <1>6 DEF TypeInv, Existing, Fail
    <2>4. rows' \in [Request -> Row \cup {None}] /\ Grows
      BY <2>1, <2>3, WritesGrow DEF GivesUp, Writes, TypeInv, TypeOK, Grows
    <2>5. webhooks' \in [EventKey -> Nat]
      BY <2>1, EnqueueCounts DEF GivesUp, TypeInv, TypeOK
    <2>6. TypeOK'
      BY <2>1, <2>2, <2>4, <2>5 DEF Ends, Others, TypeInv, TypeOK, chain
    <2>7. Existing'
      BY <2>1, <2>2, <2>4, ExistingStays
    <2> QED
      BY <2>6, <2>7 DEF TypeInv
  <1> QED
    BY <1>2, <1>3, <1>4, <1>5, <1>6 DEF WorkerStep

LEMMA SchedulerTypes ==
  ASSUME TypeInv, NEW s \in Scheduler, SchedulerStep(s)
  PROVE  TypeInv'
  <1>1. ASSUME NEW due \in SUBSET Request, Tick(s, due)
        PROVE  /\ scheduler' \in [Scheduler ->
                    [pc : {"recover", "find", "enqueue"}, due : SUBSET Request]]
               /\ scheduler'[s].due = due
               /\ \A q \in Scheduler : q # s => scheduler'[q] = scheduler[q]
    BY <1>1 DEF Tick, TypeInv, TypeOK
  <1>2. CASE Recover(s)
    <2>1. TakesBack
      BY <1>2, RecoverTakesBack
    <2>2. /\ UNCHANGED <<now, authorizations, payments, webhooks, queue,
                         worker, chain, faults>>
          /\ scheduler' = [scheduler EXCEPT ![s].pc = "find"]
      BY <1>2 DEF Recover
    <2>3. Grows
      BY <2>1, NoneAssumption DEF TakesBack, Grows
    <2>4. /\ scheduler' \in [Scheduler ->
               [pc : {"recover", "find", "enqueue"}, due : SUBSET Request]]
          /\ \A q \in Scheduler : scheduler'[q].due = scheduler[q].due
      BY <2>2 DEF TypeInv, TypeOK
    <2>5. TypeOK'
      BY <2>1, <2>2, <2>4 DEF TakesBack, TypeInv, TypeOK, chain
    <2>6. Existing'
      BY <2>2, <2>3, <2>4 DEF TypeInv, TypeOK, Existing, Grows
    <2> QED
      BY <2>5, <2>6 DEF TypeInv
  <1>3. CASE FindDue(s)
    <2> DEFINE due == {r \in Request : IsDue(r)}
    <2>1. Tick(s, due) /\ UNCHANGED <<now, database, queue, worker, chain, faults>>
      BY <1>3 DEF FindDue
    <2>2. \A r \in due : rows[r] # None
      BY NoneAssumption DEF IsDue, StatusOf, RowStatus
    <2> HIDE DEF due
    <2>3. due \in SUBSET Request
      BY DEF due
    <2>4. TypeOK'
      BY <1>1, <2>1, <2>3 DEF TypeInv, TypeOK, chain, database
    <2>5. Existing'
      BY <1>1, <2>1, <2>2, <2>3 DEF TypeInv, Existing, database
    <2> QED
      BY <2>4, <2>5 DEF TypeInv
  <1>4. CASE \E r \in Request : EnqueueDue(s, r)
    <2>1. PICK r \in Request : EnqueueDue(s, r)
      BY <1>4
    <2> DEFINE due == scheduler[s].due \ {r}
    <2>2. /\ Tick(s, due) /\ UNCHANGED <<now, database, worker, chain, faults>>
          /\ rows[r] # None
          /\ queue' = queue \/ queue' = queue \cup {r}
      BY <2>1 DEF EnqueueDue, TypeInv, Existing
    <2>3. due \in SUBSET Request /\ due \subseteq scheduler[s].due
      BY DEF TypeInv, TypeOK
    <2> HIDE DEF due
    <2>4. TypeOK'
      BY <1>1, <2>2, <2>3 DEF TypeInv, TypeOK, chain, database
    <2>5. Existing'
      BY <1>1, <2>2, <2>3 DEF TypeInv, Existing, database
    <2> QED
      BY <2>4, <2>5 DEF TypeInv
  <1> QED
    BY <1>2, <1>3, <1>4 DEF SchedulerStep

LEMMA FaultTypes ==
  ASSUME TypeInv, NEW w \in Worker, Crash(w) \/ LoseLock(w)
  PROVE  TypeInv'
  <1>1. /\ UNCHANGED <<now, database, scheduler, chain>>
        /\ worker[w].pc # "idle"
        /\ queue' = queue \/ queue' = queue \cup {worker[w].job}
        /\ faults < MaxFaults /\ faults' = faults + 1
    BY DEF Crash, LoseLock, Fault, TypeInv, Existing
  <1>2. worker[w].job \in Request /\ rows[worker[w].job] # None
    BY <1>1 DEF TypeInv, Existing
  <1>3. /\ Others(w)
        /\ worker'[w].pc # "idle" =>
             worker'[w].job \in Request /\ rows[worker'[w].job] # None
        /\ worker'[w].holds => worker'[w].pc # "idle"
    <2>1. CASE Crash(w)
      <3>1. Ends(w)
        BY <2>1, FinishClears DEF Crash, Ends, TypeInv, TypeOK
      <3> QED
        BY <3>1, IdleRun DEF Ends
    <2>2. CASE LoseLock(w)
      <3>1. worker'[w] = [worker[w] EXCEPT !.holds = FALSE]
        BY <2>2 DEF LoseLock, TypeInv, TypeOK
      <3>2. worker[w] \in Run
        BY DEF TypeInv, TypeOK
      <3>3. /\ worker'[w] \in Run /\ worker'[w].holds = FALSE
            /\ worker'[w].job = worker[w].job
        BY <3>1, <3>2 DEF Run
      <3>4. Others(w)
        BY <2>2, <3>3 DEF LoseLock, Others, TypeInv, TypeOK
      <3> QED
        BY <1>2, <3>3, <3>4
    <2> QED
      BY <2>1, <2>2
  <1>4. faults' \in 0 .. MaxFaults
    BY <1>1, PipelineAssumption DEF TypeInv, TypeOK
  <1>5. TypeOK'
    BY <1>1, <1>2, <1>3, <1>4 DEF Others, TypeInv, TypeOK, database, chain
  <1>6. Existing'
    BY <1>1, <1>2, <1>3 DEF Others, TypeInv, Existing, database
  <1> QED
    BY <1>5, <1>6 DEF TypeInv

LEMMA RowTypes ==
  ASSUME TypeInv, NEW r \in Request, CompleteAuthorization(r) \/ GoStale(r)
  PROVE  TypeInv'
  <1>1. PICK to : Writes(r, to)
    BY AcceptWrites, StaleWrites
  <1>2. Grows
    BY <1>1, WritesGrow
  <1>3. UNCHANGED <<now, payments, webhooks, queue, scheduler, worker, chain>>
    BY DEF CompleteAuthorization, GoStale
  <1>4. faults' \in 0 .. MaxFaults
    BY PipelineAssumption DEF CompleteAuthorization, GoStale, Fault, TypeInv,
       TypeOK
  <1>5. authorizations' \in
          [Request -> {"pending", "ready", "consumed", "expired"}]
    BY DEF CompleteAuthorization, GoStale, TypeInv, TypeOK
  <1>6. TypeOK'
    BY <1>1, <1>3, <1>4, <1>5 DEF Writes, TypeInv, TypeOK, chain
  <1>7. Existing'
    BY <1>2, <1>3 DEF Grows, TypeInv, TypeOK, Existing
  <1> QED
    BY <1>6, <1>7 DEF TypeInv

\* Steps of the ledger and the clock touch no table, queue or run.
Outside == UNCHANGED <<database, queue, scheduler, worker, faults>>

LEMMA OutsideTypes ==
  ASSUME TypeInv,
         \/ \E i \in DOMAIN transactions : Include(i)
         \/ \E m \in Mandate : Revoke(m) \/ ChangeFunds(m)
         \/ AdvanceTime
  PROVE  TypeInv' /\ Outside
  <1>1. Outside
    BY DEF Include, Revoke, ChangeFunds, AdvanceTime, Outside
  <1>2. CASE \E i \in DOMAIN transactions : Include(i)
    <2>1. PICK i \in DOMAIN transactions : Include(i)
      BY <1>2
    <2>2. transactions \in Seq(Transaction)
      BY DEF TypeInv, TypeOK
    <2>3. transactions[i] \in Transaction
      BY <2>2
    <2>4. PICK fate \in {Verdict(transactions[i].request)} :
             transactions' = [transactions EXCEPT ![i].fate = fate]
      BY <2>1 DEF Include
    <2>5. [transactions[i] EXCEPT !.fate = fate] \in Transaction
      BY <2>3, Verdicts DEF Transaction, Fate
    <2>6. transactions' \in Seq(Transaction)
      <3> DEFINE tx == [transactions[i] EXCEPT !.fate = fate]
      <3>1. transactions' = [transactions EXCEPT ![i] = tx]
        BY <2>4
      <3> HIDE DEF tx
      <3> QED
        BY <2>2, <2>5, <3>1, ExceptSeq DEF tx
    <2>7. /\ used' \subseteq Request
          /\ UNCHANGED <<now, revoked, broke>>
      BY <2>1, <2>3 DEF Include, Transaction, TypeInv, TypeOK
    <2>8. TypeOK'
      BY <1>1, <2>6, <2>7 DEF Outside, TypeInv, TypeOK, database
    <2> QED
      BY <1>1, <2>8 DEF Outside, TypeInv, Existing, database
  <1>3. CASE \E m \in Mandate : Revoke(m) \/ ChangeFunds(m)
    <2>1. /\ UNCHANGED <<now, transactions, used>>
          /\ revoked' \subseteq Mandate /\ broke' \subseteq Mandate
      BY <1>3 DEF Revoke, ChangeFunds, TypeInv, TypeOK
    <2>2. TypeOK'
      BY <1>1, <2>1 DEF Outside, TypeInv, TypeOK, database
    <2> QED
      BY <1>1, <2>2 DEF Outside, TypeInv, Existing, database
  <1>4. CASE AdvanceTime
    <2>1. Instants \subseteq Nat
      BY PipelineAssumption DEF Instants, ExpiresAt, TypeInv, TypeOK, Row
    <2>2. now' \in Nat /\ UNCHANGED chain
      BY <1>4, <2>1 DEF AdvanceTime
    <2>3. TypeOK'
      BY <1>1, <2>2 DEF Outside, TypeInv, TypeOK, database, chain
    <2> QED
      BY <1>1, <2>3 DEF Outside, TypeInv, Existing, database
  <1> QED
    BY <1>1, <1>2, <1>3, <1>4

LEMMA TypeStep == TypeInv /\ [Next]_vars => TypeInv'
  <1> SUFFICES ASSUME TypeInv, [Next]_vars PROVE TypeInv'
    OBVIOUS
  <1>1. CASE \E r \in Request : CompleteAuthorization(r) \/ GoStale(r)
    BY <1>1, RowTypes
  <1>2. CASE \E s \in Scheduler : SchedulerStep(s)
    BY <1>2, SchedulerTypes
  <1>3. CASE \E w \in Worker : WorkerStep(w)
    BY <1>3, WorkerTypes
  <1>4. CASE \E w \in Worker : Crash(w) \/ LoseLock(w)
    BY <1>4, FaultTypes
  <1>5. CASE \/ \E i \in DOMAIN transactions : Include(i)
             \/ \E m \in Mandate : Revoke(m) \/ ChangeFunds(m)
             \/ AdvanceTime
    BY <1>5, OutsideTypes
  <1>6. CASE UNCHANGED vars
    BY <1>6 DEF vars, database, chain, TypeInv, TypeOK, Existing
  <1> QED
    BY <1>1, <1>2, <1>3, <1>4, <1>5, <1>6 DEF Next

(***************************************************************************)
(* The tables, the queue and the runs keep their types, and nothing ever   *)
(* refers to a request that has no row (schema.prisma, pipeline.ts).       *)
(***************************************************************************)
THEOREM PipelineTypes == Spec => []TypeOK
  <1>1. TypeInv => TypeOK
    BY DEF TypeInv
  <1> QED
    BY <1>1, TypeInit, TypeStep, PTL DEF Spec

-----------------------------------------------------------------------------
(* A single submitter.                                                     *)

SubmitInv ==
  /\ TypeInv
  /\ \A w \in Worker : Belief(worker[w])
  /\ SingleSubmitter

\* Under Belief, the runs that submit are those that believe "submitted".
LEMMA SubmittingBelieves ==
  ASSUME NEW w \in Worker, worker[w].pc \in Step, Belief(worker[w])
  PROVE  Submitting(w) <=> worker[w].believes = "submitted"
  BY NoneAssumption DEF Submitting, Belief, Step, RowStatus

Believer(w, r) == worker[w].job = r /\ worker[w].believes = "submitted"

\* SingleSubmitter in those terms.
OneBeliever ==
  \A w \in Worker : worker[w].believes = "submitted" =>
    /\ StatusOf(worker[w].job) = "submitted"
    /\ \A v \in Worker : v # w => ~Believer(v, worker[w].job)

RunsKnown ==
  worker \in [Worker -> Run] /\ \A w \in Worker : Belief(worker[w])

LEMMA SingleAsBelief == RunsKnown => (SingleSubmitter <=> OneBeliever)
  <1> SUFFICES ASSUME RunsKnown PROVE SingleSubmitter <=> OneBeliever
    OBVIOUS
  <1>1. \A w \in Worker : worker[w].pc \in Step
    BY DEF RunsKnown, Run
  <1>2. \A w \in Worker : Submitting(w) <=> worker[w].believes = "submitted"
    BY <1>1, SubmittingBelieves DEF RunsKnown
  <1> QED
    BY <1>2 DEF SingleSubmitter, OneBeliever, Believer

\* What each step does to rows and beliefs: one of five.
Kept(w) ==
  /\ worker'[w].job = worker[w].job
  /\ worker'[w].believes = worker[w].believes

RowsStay ==
  \A r \in Request : StatusOf(r) = "submitted" => StatusOf(r)' = "submitted"

\* Nobody comes to believe "submitted", and rows that say so go on doing so.
NoNews ==
  /\ RowsStay
  /\ \A w \in Worker : Kept(w) \/ worker'[w].believes # "submitted"

LEMMA NoNewsKeeps ==
  ASSUME TypeInv, OneBeliever, NoNews, \A w \in Worker : Belief(worker[w])
  PROVE  OneBeliever'
  <1>1. \A w \in Worker : worker[w].believes = "submitted" =>
           worker[w].job \in Request
    BY NoneAssumption DEF TypeInv, Existing, Belief, RowStatus
  <1>2. \A w \in Worker : worker'[w].believes = "submitted" => Kept(w)
    BY DEF NoNews
  <1>3. \A w \in Worker : worker'[w].believes = "submitted" =>
           (StatusOf(worker[w].job))' = "submitted"
    BY <1>1, <1>2 DEF OneBeliever, NoNews, RowsStay, Kept, StatusOf
  <1>4. \A v, w \in Worker :
           worker'[w].believes = "submitted" /\ v # w =>
             ~(worker'[v].job = worker'[w].job
                 /\ worker'[v].believes = "submitted")
    BY <1>2 DEF OneBeliever, Believer, Kept
  <1> QED
    BY <1>3, <1>4 DEF OneBeliever, Believer

LEMMA WritesStatus ==
  ASSUME NEW r \in Request, NEW to, Writes(r, to)
  PROVE  /\ StatusOf(r)' = to
         /\ \A q \in Request : q # r => StatusOf(q)' = StatusOf(q)
  BY NoneAssumption DEF Writes, StatusOf

\* A run that decides a submitted row was the only one at it.
LEMMA DecisionKeeps ==
  ASSUME TypeInv, OneBeliever, \A w \in Worker : Belief(worker[w]),
         NEW w \in Worker, worker[w].believes = "submitted", Ends(w),
         NEW to, Writes(worker[w].job, to)
  PROVE  OneBeliever'
  <1>1. \A v \in Worker : worker[v].believes = "submitted" =>
           worker[v].job \in Request
    BY NoneAssumption DEF TypeInv, Existing, Belief, RowStatus
  <1>2. ASSUME NEW v \in Worker, worker'[v].believes = "submitted"
        PROVE  /\ v # w /\ worker'[v] = worker[v]
               /\ worker[v].job \in Request /\ worker[v].job # worker[w].job
    BY <1>1, <1>2, NoneAssumption
    DEF Ends, Others, Idle, OneBeliever, Believer, RowStatus
  <1>3. \A v \in Worker : worker'[v].believes = "submitted" =>
           (StatusOf(worker[v].job))' = "submitted"
    BY <1>1, <1>2, WritesStatus DEF OneBeliever, StatusOf
  <1>4. \A v, u \in Worker :
           worker'[v].believes = "submitted" /\ u # v
             /\ worker'[u].believes = "submitted"
             => worker'[u].job # worker'[v].job
    BY <1>2 DEF OneBeliever, Believer
  <1> QED
    BY <1>2, <1>3, <1>4 DEF OneBeliever, Believer, StatusOf

\* The submitted transition is made on a row that did not say so yet.
LEMMA SubmissionKeeps ==
  ASSUME TypeInv, OneBeliever, \A w \in Worker : Belief(worker[w]),
         NEW w \in Worker, worker[w].pc = "submit",
         Moves(w, "submitted", "send")
  PROVE  OneBeliever'
  <1> DEFINE r == worker[w].job
  <1>1. /\ r \in Request /\ StatusOf(r) = "simulated"
        /\ Writes(r, "submitted") /\ Others(w)
        /\ worker'[w].job = r /\ worker'[w].believes = "submitted"
    BY DEF TypeInv, Existing, Moves, Belief, InStatus
  <1>2. \A v \in Worker : ~Believer(v, r)
    BY <1>1 DEF OneBeliever, Believer
  <1>3. \A v \in Worker : worker[v].believes = "submitted" =>
           worker[v].job \in Request
    BY NoneAssumption DEF TypeInv, Existing, Belief, RowStatus
  <1>4. ASSUME NEW v \in Worker, v # w, worker'[v].believes = "submitted"
        PROVE  /\ worker'[v] = worker[v]
               /\ worker[v].job \in Request /\ worker[v].job # r
               /\ (StatusOf(worker[v].job))' = "submitted"
    <2>1. worker'[v] = worker[v] /\ worker[v].job \in Request
      BY <1>1, <1>3, <1>4 DEF Others
    <2>2. worker[v].job # r
      BY <1>2, <1>4, <2>1 DEF Believer
    <2>3. StatusOf(worker[v].job) = "submitted"
      BY <1>4, <2>1 DEF OneBeliever
    <2> QED
      BY <1>1, <2>1, <2>2, <2>3, WritesStatus DEF StatusOf
  <1>5. StatusOf(r)' = "submitted"
    BY <1>1, WritesStatus
  <1>6. \A v, u \in Worker :
           worker'[v].believes = "submitted" /\ u # v
             /\ worker'[u].believes = "submitted"
             => worker'[u].job # worker'[v].job
    BY <1>1, <1>4 DEF OneBeliever, Believer
  <1>7. \A v \in Worker : worker'[v].believes = "submitted" =>
           (StatusOf(worker[v].job))' = "submitted"
                /\ worker'[v].job = worker[v].job
    BY <1>1, <1>4, <1>5 DEF StatusOf
  <1> QED
    BY <1>6, <1>7 DEF OneBeliever, Believer, StatusOf

\* A step by which no request comes to its end, or leaves it.
NoVerdict ==
  /\ UNCHANGED <<payments, webhooks>>
  /\ \A r \in Request :
       /\ StatusOf(r) \in Terminal => rows'[r] = rows[r]
       /\ StatusOf(r) \notin Terminal => StatusOf(r)' \notin Terminal
       /\ authorizations'[r] = "consumed" => authorizations[r] = "consumed"

Decides(w) ==
  /\ worker[w].job \in Request /\ StatusOf(worker[w].job) \in InProgress
  /\ \/ Settles(w)
     \/ \E to \in {"permanently_failed", "retryable_failed"} :
          GivesUp(w, to) /\ UNCHANGED <<payments, authorizations>>

\* Rows that keep their status, or leave one that is neither final nor
\* "submitted" for another such one.
Harmless ==
  \A r \in Request :
    \/ rows'[r] = rows[r]
    \/ /\ StatusOf(r) \notin Terminal /\ StatusOf(r)' \notin Terminal
       /\ StatusOf(r) = "submitted" => StatusOf(r)' = "submitted"

LEMMA HarmlessSteps ==
  ASSUME Harmless
  PROVE  /\ RowsStay
         /\ UNCHANGED <<payments, webhooks, authorizations>> => NoVerdict
  BY DEF Harmless, RowsStay, NoVerdict, StatusOf

LEMMA HarmlessWrite ==
  ASSUME NEW r \in Request, NEW to, Writes(r, to), to \notin Terminal,
         StatusOf(r) \notin Terminal,
         StatusOf(r) = "submitted" => to = "submitted"
  PROVE  Harmless
  <1>1. \A q \in Request : q # r => rows'[q] = rows[q]
    BY DEF Writes
  <1>2. StatusOf(r)' = to
    BY WritesStatus
  <1> QED
    BY <1>1, <1>2 DEF Harmless

\* The runs after a step of one of them.
LEMMA BeliefsStay ==
  ASSUME \A v \in Worker : Belief(worker[v]), NEW w \in Worker, Others(w),
         Belief(worker'[w])
  PROVE  \A v \in Worker : Belief(worker'[v])
  BY DEF Others

LEMMA EndedBelief ==
  ASSUME NEW w \in Worker, Ends(w)
  PROVE  /\ Others(w) /\ Belief(worker'[w])
         /\ worker'[w].believes # "submitted"
  <1>1. Idle.pc = "idle" /\ Idle.believes = None
    BY DEF Idle
  <1> QED
    BY <1>1, NoneAssumption DEF Ends, Belief, RowStatus

LEMMA RunTransitions ==
  ASSUME SubmitInv, NEW w \in Worker,
         Claim(w) \/ MarkSimulated(w) \/ MarkSubmitted(w)
  PROVE  (\A v \in Worker : Belief(worker'[v])) /\ OneBeliever' /\ NoVerdict
  <1> DEFINE r == worker[w].job
  <1>1. TypeInv /\ OneBeliever /\ \A v \in Worker : Belief(worker[v])
    BY SingleAsBelief DEF SubmitInv, RunsKnown, TypeInv, TypeOK
  <1>2. PICK to \in {"processing", "simulated", "submitted"},
             step \in {"mandate", "submit", "send"} :
          /\ Transition(w, to, step)
          /\ \/ worker[w].pc = "claim" /\ to = "processing" /\ step = "mandate"
             \/ worker[w].pc = "simulate" /\ to = "simulated" /\ step = "submit"
             \/ worker[w].pc = "submit" /\ to = "submitted" /\ step = "send"
    BY DEF Claim, MarkSimulated, MarkSubmitted
  <1>3. /\ worker[w].pc # "idle" /\ to \in RowStatus /\ step \in Step
        /\ to \notin Terminal /\ r \in Request
    BY <1>1, <1>2 DEF RowStatus, Terminal, Step, TypeInv, Existing
  <1>4. Moves(w, to, step) \/ (Ends(w) /\ rows' = rows)
    BY <1>1, <1>2, <1>3, TransitionMoves
  <1>5. UNCHANGED <<payments, webhooks, authorizations>>
    BY <1>2 DEF Transition
  <1>6. CASE Ends(w) /\ rows' = rows
    <2>1. Harmless
      BY <1>6 DEF Harmless
    <2>2. NoNews
      BY <1>6, <2>1, HarmlessSteps, EndedBelief DEF NoNews, Others, Kept
    <2> QED
      BY <1>1, <1>5, <1>6, <2>1, <2>2, HarmlessSteps, EndedBelief, BeliefsStay,
         NoNewsKeeps
  <1>7. CASE Moves(w, to, step)
    <2>1. /\ InStatus(r, worker[w].believes) /\ Writes(r, to) /\ Others(w)
          /\ worker'[w].pc = step /\ worker'[w].believes = to
      BY <1>7 DEF Moves
    <2>2. Belief(worker'[w])
      BY <1>2, <2>1 DEF Belief
    <2>3. StatusOf(r) \in {"scheduled", "retryable_failed", "processing",
                           "simulated"}
      BY <1>1, <1>2, <2>1 DEF Belief, InStatus
    <2>4. Harmless
      BY <1>3, <2>1, <2>3, HarmlessWrite DEF Terminal
    <2>5. OneBeliever'
      <3>1. CASE to = "submitted"
        BY <1>1, <1>2, <1>7, <3>1, SubmissionKeeps
      <3>2. CASE to # "submitted"
        <4>1. NoNews
          BY <2>1, <2>4, <3>2, HarmlessSteps DEF NoNews, Others, Kept
        <4> QED
          BY <1>1, <4>1, NoNewsKeeps
      <3> QED
        BY <3>1, <3>2
    <2> QED
      BY <1>1, <1>5, <2>1, <2>2, <2>4, <2>5, HarmlessSteps, BeliefsStay
  <1> QED
    BY <1>4, <1>6, <1>7

LEMMA RunReads ==
  ASSUME SubmitInv, NEW w \in Worker,
         \/ TakeJob(w) \/ ReadMandate(w) \/ Authorize(w) \/ CheckLedger(w)
         \/ ExpireAuthorization(w) \/ Prepare(w) \/ Send(w) \/ Poll(w)
  PROVE  (\A v \in Worker : Belief(worker'[v])) /\ OneBeliever' /\ NoVerdict
  <1>1. TypeInv /\ OneBeliever /\ \A v \in Worker : Belief(worker[v])
    BY SingleAsBelief DEF SubmitInv, RunsKnown, TypeInv, TypeOK
  <1>2. CASE TakeJob(w)
    <2>1. PICK r \in queue : Takes(w, r)
      BY <1>1, <1>2, TakeJobTakes
    <2>2. UNCHANGED <<rows, payments, webhooks, authorizations>>
      BY <1>2 DEF TakeJob, database
    <2>3. Others(w) /\ Belief(worker'[w]) /\ worker'[w].believes # "submitted"
      BY <2>1 DEF Takes, Belief
    <2>4. Harmless
      BY <2>2 DEF Harmless
    <2>5. NoNews
      BY <2>3, <2>4, HarmlessSteps DEF NoNews, Others, Kept
    <2> QED
      BY <1>1, <2>2, <2>3, <2>4, <2>5, HarmlessSteps, BeliefsStay, NoNewsKeeps
  <1>3. CASE \/ ReadMandate(w) \/ Authorize(w) \/ CheckLedger(w)
             \/ ExpireAuthorization(w) \/ Prepare(w) \/ Send(w) \/ Poll(w)
    <2>1. Quiet(w)
      BY <1>1, <1>3, QuietSteps
    <2>2. Others(w) /\ Kept(w) /\ Belief(worker'[w])
      BY <1>1, <2>1 DEF Quiet, Keeps, Kept
    <2>3. Harmless /\ UNCHANGED <<rows, payments, webhooks>>
      BY <2>1 DEF Quiet, Harmless
    <2>4. NoNews
      BY <2>2, <2>3, HarmlessSteps DEF NoNews, Others, Kept
    <2>5. \A r \in Request :
             authorizations'[r] = "consumed" => authorizations[r] = "consumed"
      BY <1>1, <1>3 DEF ReadMandate, Authorize, CheckLedger,
         ExpireAuthorization, Prepare, Send, Poll, database, TypeInv, TypeOK
    <2>6. NoVerdict
      BY <2>3, <2>5 DEF NoVerdict, StatusOf
    <2> QED
      BY <1>1, <2>2, <2>4, <2>6, BeliefsStay, NoNewsKeeps
  <1> QED
    BY <1>2, <1>3

LEMMA RunDecides ==
  ASSUME SubmitInv, NEW w \in Worker, Settle(w) \/ Fail(w)
  PROVE  /\ \A v \in Worker : Belief(worker'[v])
         /\ OneBeliever'
         /\ NoVerdict \/ Decides(w)
  <1> DEFINE r == worker[w].job
  <1>1. TypeInv /\ OneBeliever /\ \A v \in Worker : Belief(worker[v])
    BY SingleAsBelief DEF SubmitInv, RunsKnown, TypeInv, TypeOK
  <1>2. r \in Request
    BY <1>1 DEF Settle, Fail, TypeInv, Existing
  <1>3. Ends(w)
    BY <1>1, SettleSettles, FailGivesUp
  <1>4. \A v \in Worker : Belief(worker'[v])
    BY <1>1, <1>3, EndedBelief, BeliefsStay
  <1>5. ASSUME Harmless PROVE OneBeliever'
    <2>1. NoNews
      BY <1>3, <1>5, HarmlessSteps, EndedBelief DEF NoNews, Others, Kept
    <2> QED
      BY <1>1, <2>1, NoNewsKeeps
  <1>6. CASE Settle(w)
    <2>1. worker[w].believes = "submitted"
      BY <1>1, <1>6 DEF Settle, Belief
    <2>2. CASE Settles(w)
      <3>1. Writes(r, "succeeded") /\ StatusOf(r) = "submitted"
        BY <2>2 DEF Settles, InStatus
      <3>2. OneBeliever'
        BY <1>1, <1>3, <2>1, <3>1, DecisionKeeps
      <3>3. Decides(w)
        BY <1>2, <2>2, <3>1 DEF Decides, InProgress
      <3> QED
        BY <1>4, <3>2, <3>3
    <2>3. CASE UNCHANGED database
      <3>1. Harmless /\ UNCHANGED <<payments, webhooks, authorizations>>
        BY <2>3 DEF Harmless, database
      <3> QED
        BY <1>4, <1>5, <3>1, HarmlessSteps
    <2> QED
      BY <1>1, <1>6, <2>2, <2>3, SettleSettles
  <1>7. CASE Fail(w)
    <2>1. UNCHANGED <<payments, authorizations>>
      BY <1>7 DEF Fail
    <2>2. worker[w].believes \in {"processing", "submitted"}
      BY <1>1, <1>7 DEF Fail, Belief
    <2>3. CASE \E to \in {"permanently_failed", "retryable_failed"} :
                 GivesUp(w, to)
      <3>1. PICK to \in {"permanently_failed", "retryable_failed"} :
               GivesUp(w, to)
        BY <2>3
      <3>2. Writes(r, to) /\ StatusOf(r) = worker[w].believes
        BY <3>1 DEF GivesUp, InStatus
      <3>3. Decides(w)
        BY <1>2, <2>1, <2>2, <3>1, <3>2 DEF Decides, InProgress
      <3>4. CASE worker[w].believes = "submitted"
        BY <1>1, <1>3, <1>4, <3>2, <3>3, <3>4, DecisionKeeps
      <3>5. CASE worker[w].believes = "processing"
        <4>1. \A q \in Request : StatusOf(q) = "submitted" =>
                 StatusOf(q)' = "submitted"
          BY <1>2, <3>2, <3>5, WritesStatus
        <4>2. NoNews
          BY <1>3, <4>1, EndedBelief DEF NoNews, RowsStay, Others, Kept
        <4> QED
          BY <1>1, <1>4, <3>3, <4>2, NoNewsKeeps
      <3> QED
        BY <2>2, <3>4, <3>5
    <2>4. CASE UNCHANGED <<rows, webhooks>>
      <3>1. Harmless /\ UNCHANGED <<payments, webhooks, authorizations>>
        BY <2>1, <2>4 DEF Harmless
      <3> QED
        BY <1>4, <1>5, <3>1, HarmlessSteps
    <2> QED
      BY <1>1, <1>7, <2>3, <2>4, FailGivesUp
  <1> QED
    BY <1>6, <1>7

\* All steps but those of a run that keeps its lock.
LEMMA OtherSteps ==
  ASSUME SubmitInv,
         \/ \E r \in Request : CompleteAuthorization(r) \/ GoStale(r)
         \/ \E s \in Scheduler : SchedulerStep(s)
         \/ \E w \in Worker : Crash(w) \/ LoseLock(w)
         \/ Outside \/ UNCHANGED vars
  PROVE  (\A v \in Worker : Belief(worker'[v])) /\ OneBeliever' /\ NoVerdict
  <1>1. TypeInv /\ OneBeliever /\ \A v \in Worker : Belief(worker[v])
    BY SingleAsBelief DEF SubmitInv, RunsKnown, TypeInv, TypeOK
  <1>2. ASSUME worker' = worker, RowsStay
        PROVE  (\A v \in Worker : Belief(worker'[v])) /\ OneBeliever'
    BY <1>1, <1>2, NoNewsKeeps DEF NoNews, Kept
  <1>3. ASSUME worker' = worker, Harmless,
               UNCHANGED <<payments, webhooks, authorizations>>
        PROVE  (\A v \in Worker : Belief(worker'[v])) /\ OneBeliever' /\ NoVerdict
    BY <1>2, <1>3, HarmlessSteps
  <1>4. ASSUME NEW r \in Request, CompleteAuthorization(r)
        PROVE  (\A v \in Worker : Belief(worker'[v])) /\ OneBeliever' /\ NoVerdict
    <2>1. rows[r] = None /\ Writes(r, "scheduled")
      BY <1>1, <1>4, AcceptWrites
    <2>2. StatusOf(r) = None
      BY <2>1 DEF StatusOf
    <2>3. Harmless
      BY <2>1, <2>2, NoneAssumption, HarmlessWrite DEF Terminal, RowStatus
    <2>4. /\ UNCHANGED <<payments, webhooks, worker>>
          /\ \A q \in Request : authorizations'[q] = "consumed" =>
               authorizations[q] = "consumed"
      BY <1>1, <1>4 DEF CompleteAuthorization, TypeInv, TypeOK
    <2>5. NoVerdict
      BY <2>3, <2>4 DEF NoVerdict, Harmless, StatusOf
    <2> QED
      BY <1>2, <2>3, <2>4, <2>5, HarmlessSteps
  <1>5. ASSUME NEW r \in Request, GoStale(r)
        PROVE  (\A v \in Worker : Belief(worker'[v])) /\ OneBeliever' /\ NoVerdict
    <2>1. Writes(r, StatusOf(r)) /\ StatusOf(r) \notin Terminal
      BY <1>1, <1>5, StaleWrites DEF GoStale, InProgress, Terminal
    <2>2. Harmless
      BY <2>1, HarmlessWrite
    <2> QED
      BY <1>3, <1>5, <2>2 DEF GoStale
  <1>6. ASSUME NEW s \in Scheduler, SchedulerStep(s)
        PROVE  (\A v \in Worker : Belief(worker'[v])) /\ OneBeliever' /\ NoVerdict
    <2>1. Harmless
      <3>1. CASE Recover(s)
        <4>1. TakesBack
          BY <1>1, <3>1, RecoverTakesBack
        <4> QED
          BY <4>1, NoneAssumption DEF TakesBack, Harmless, StatusOf, Terminal
      <3>2. CASE rows' = rows
        BY <3>2 DEF Harmless
      <3> QED
        BY <1>6, <3>1, <3>2 DEF SchedulerStep, FindDue, EnqueueDue, database
    <2>2. UNCHANGED <<worker, payments, webhooks, authorizations>>
      BY <1>6 DEF SchedulerStep, Recover, FindDue, EnqueueDue, database
    <2> QED
      BY <1>3, <2>1, <2>2
  <1>7. ASSUME NEW w \in Worker, Crash(w) \/ LoseLock(w)
        PROVE  (\A v \in Worker : Belief(worker'[v])) /\ OneBeliever' /\ NoVerdict
    <2>1. UNCHANGED <<rows, payments, webhooks, authorizations>>
      BY <1>7 DEF Crash, LoseLock, database
    <2>2. Harmless
      BY <2>1 DEF Harmless
    <2>3. /\ Others(w) /\ Belief(worker'[w])
          /\ Kept(w) \/ worker'[w].believes # "submitted"
      <3>1. CASE Crash(w)
        BY <1>1, <3>1, FinishClears, EndedBelief
        DEF Crash, Ends, TypeInv, TypeOK
      <3>2. CASE LoseLock(w)
        <4>1. worker'[w] = [worker[w] EXCEPT !.holds = FALSE]
          BY <1>1, <3>2 DEF LoseLock, TypeInv, TypeOK
        <4>2. worker[w] \in Run
          BY <1>1 DEF TypeInv, TypeOK
        <4>3. /\ worker'[w] \in Run /\ worker'[w].pc = worker[w].pc
              /\ worker'[w].job = worker[w].job
              /\ worker'[w].believes = worker[w].believes
          BY <4>1, <4>2 DEF Run
        <4>4. Others(w)
          BY <1>1, <3>2, <4>3 DEF LoseLock, Others, TypeInv, TypeOK
        <4> QED
          BY <1>1, <4>3, <4>4 DEF Belief, Kept
      <3> QED
        BY <1>7, <3>1, <3>2
    <2>4. NoNews
      BY <2>2, <2>3, HarmlessSteps DEF NoNews, Others, Kept
    <2> QED
      BY <1>1, <2>1, <2>2, <2>3, <2>4, HarmlessSteps, BeliefsStay, NoNewsKeeps
  <1>8. ASSUME Outside \/ UNCHANGED vars
        PROVE  (\A v \in Worker : Belief(worker'[v])) /\ OneBeliever' /\ NoVerdict
    <2>1. UNCHANGED <<worker, rows, payments, webhooks, authorizations>>
      BY <1>8 DEF Outside, vars, database
    <2>2. Harmless
      BY <2>1 DEF Harmless
    <2> QED
      BY <1>3, <2>1, <2>2
  <1> QED
    BY <1>4, <1>5, <1>6, <1>7, <1>8

LEMMA SubmitInit == Init => SubmitInv
  <1> SUFFICES ASSUME Init PROVE SubmitInv
    OBVIOUS
  <1>1. \A w \in Worker : worker[w].pc = "idle" /\ worker[w].believes = None
    BY DEF Init, Idle
  <1>2. (\A w \in Worker : Belief(worker[w])) /\ SingleSubmitter
    BY <1>1 DEF Belief, SingleSubmitter, Submitting
  <1> QED
    BY <1>2, TypeInit DEF SubmitInv

LEMMA SubmitStep ==
  SubmitInv /\ [Next]_vars =>
    SubmitInv' /\ (NoVerdict \/ \E w \in Worker : Decides(w))
  <1> SUFFICES ASSUME SubmitInv, [Next]_vars
               PROVE  SubmitInv' /\ (NoVerdict \/ \E w \in Worker : Decides(w))
    OBVIOUS
  <1>1. TypeInv'
    BY TypeStep DEF SubmitInv
  <1>2. /\ (\A v \in Worker : Belief(worker'[v])) /\ OneBeliever'
        /\ NoVerdict \/ \E w \in Worker : Decides(w)
    <2>1. CASE \E w \in Worker : WorkerStep(w)
      BY <2>1, RunTransitions, RunReads, RunDecides DEF WorkerStep
    <2>2. CASE \/ \E r \in Request : CompleteAuthorization(r) \/ GoStale(r)
               \/ \E s \in Scheduler : SchedulerStep(s)
               \/ \E w \in Worker : Crash(w) \/ LoseLock(w)
               \/ UNCHANGED vars
      BY <2>2, OtherSteps
    <2>3. CASE \/ \E i \in DOMAIN transactions : Include(i)
               \/ \E m \in Mandate : Revoke(m) \/ ChangeFunds(m)
               \/ AdvanceTime
      BY <2>3, OtherSteps, OutsideTypes DEF SubmitInv
    <2> QED
      BY <2>1, <2>2, <2>3 DEF Next
  <1>3. RunsKnown'
    BY <1>1, <1>2 DEF TypeInv, TypeOK, RunsKnown
  <1>4. SingleSubmitter'
    BY <1>2, <1>3, SingleAsBelief, PTL
  <1> QED
    BY <1>1, <1>2, <1>3, <1>4 DEF SubmitInv

(***************************************************************************)
(* However many runs take up the same request, crash, hang or are taken    *)
(* for dead by the scheduler, at most one of them is between the submitted *)
(* transition and its end (steps 6 to 8 of pipeline.ts).                   *)
(***************************************************************************)
THEOREM OneSubmitter == Spec => []SingleSubmitter
  <1>1. SubmitInv => SingleSubmitter
    BY DEF SubmitInv
  <1>2. SubmitInv /\ [Next]_vars => SubmitInv'
    BY SubmitStep
  <1> QED
    BY <1>1, <1>2, SubmitInit, PTL DEF Spec

-----------------------------------------------------------------------------
(* One story.                                                              *)

LEMMA SettleTells ==
  ASSUME TypeOK, NEW r \in Request, NEW m,
         NEW completed \in SUBSET {<<"mandate.completed", m>>},
         Enqueue({<<"payment.succeeded", r>>} \cup completed)
  PROVE  \A q \in Request :
           /\ webhooks'[<<"payment.succeeded", q>>] =
                webhooks[<<"payment.succeeded", q>>] + IF q = r THEN 1 ELSE 0
           /\ webhooks'[<<"payment.failed", q>>] =
                webhooks[<<"payment.failed", q>>]
  <1> SUFFICES ASSUME NEW q \in Request
               PROVE  /\ webhooks'[<<"payment.succeeded", q>>] =
                           webhooks[<<"payment.succeeded", q>>]
                             + IF q = r THEN 1 ELSE 0
                      /\ webhooks'[<<"payment.failed", q>>] =
                           webhooks[<<"payment.failed", q>>]
    OBVIOUS
  <1> DEFINE yes == <<"payment.succeeded", q>>
             no  == <<"payment.failed", q>>
             events == {<<"payment.succeeded", r>>} \cup completed
  <1>1. yes \in EventKey /\ no \in EventKey
    BY DEF EventKey
  <1>2. (yes \in events <=> q = r) /\ no \notin events
    OBVIOUS
  <1>3. webhooks \in [EventKey -> Nat] /\ Enqueue(events)
    BY DEF TypeOK
  <1> HIDE DEF yes, no, events
  <1>4. webhooks[yes] \in Nat /\ webhooks[no] \in Nat
    BY <1>1, <1>3
  <1>5. webhooks'[yes] = webhooks[yes] + (IF q = r THEN 1 ELSE 0)
        /\ webhooks'[no] = webhooks[no]
    BY <1>1, <1>2, <1>3, <1>4, EnqueueCounts
  <1> QED
    BY <1>5 DEF yes, no

LEMMA FailTells ==
  ASSUME TypeOK, NEW r \in Request, NEW to,
         Enqueue(IF to = "permanently_failed"
                 THEN {<<"payment.failed", r>>} ELSE {})
  PROVE  \A q \in Request :
           /\ webhooks'[<<"payment.succeeded", q>>] =
                webhooks[<<"payment.succeeded", q>>]
           /\ webhooks'[<<"payment.failed", q>>] =
                webhooks[<<"payment.failed", q>>]
                  + IF q = r /\ to = "permanently_failed" THEN 1 ELSE 0
  <1> SUFFICES ASSUME NEW q \in Request
               PROVE  /\ webhooks'[<<"payment.succeeded", q>>] =
                           webhooks[<<"payment.succeeded", q>>]
                      /\ webhooks'[<<"payment.failed", q>>] =
                           webhooks[<<"payment.failed", q>>]
                             + IF q = r /\ to = "permanently_failed"
                               THEN 1 ELSE 0
    OBVIOUS
  <1> DEFINE yes == <<"payment.succeeded", q>>
             no  == <<"payment.failed", q>>
             events == IF to = "permanently_failed"
                       THEN {<<"payment.failed", r>>} ELSE {}
  <1>1. yes \in EventKey /\ no \in EventKey
    BY DEF EventKey
  <1>2. /\ yes \notin events
        /\ no \in events <=> q = r /\ to = "permanently_failed"
    OBVIOUS
  <1>3. webhooks \in [EventKey -> Nat] /\ Enqueue(events)
    BY DEF TypeOK
  <1> HIDE DEF yes, no, events
  <1>4. webhooks[yes] \in Nat /\ webhooks[no] \in Nat
    BY <1>1, <1>3
  <1>5. /\ webhooks'[yes] = webhooks[yes]
        /\ webhooks'[no] = webhooks[no]
             + (IF q = r /\ to = "permanently_failed" THEN 1 ELSE 0)
    BY <1>1, <1>2, <1>3, <1>4, EnqueueCounts
  <1> QED
    BY <1>5 DEF yes, no

StoryInv == SubmitInv /\ OneStory

\* OneStory of one request, with what the merchant was told as numbers.
Story(status, paid, succeeded, failed, authorization) ==
  /\ paid <=> status = "succeeded"
  /\ succeeded = IF status = "succeeded" THEN 1 ELSE 0
  /\ failed = IF status = "permanently_failed" THEN 1 ELSE 0
  /\ authorization = "consumed" => status = "succeeded"

StoryOf(r) ==
  Story(StatusOf(r), r \in payments, webhooks[<<"payment.succeeded", r>>],
        webhooks[<<"payment.failed", r>>], authorizations[r])

LEMMA OneStoryByRequest == OneStory <=> \A r \in Request : StoryOf(r)
  BY DEF OneStory, StoryOf, Story

LEMMA StoryInit == Init => StoryInv
  <1> SUFFICES ASSUME Init PROVE OneStory
    BY SubmitInit DEF StoryInv
  <1>1. ASSUME NEW r \in Request PROVE StoryOf(r)
    <2>1. /\ <<"payment.succeeded", r>> \in EventKey
          /\ <<"payment.failed", r>> \in EventKey
      BY DEF EventKey
    <2>2. StatusOf(r) = None /\ None \notin RowStatus
      BY NoneAssumption DEF Init, StatusOf
    <2>3. /\ webhooks[<<"payment.succeeded", r>>] = 0
          /\ webhooks[<<"payment.failed", r>>] = 0
          /\ r \notin payments /\ authorizations[r] = "pending"
      BY <2>1 DEF Init
    <2> QED
      BY <2>2, <2>3 DEF StoryOf, Story, RowStatus, Terminal
  <1> QED
    BY <1>1, OneStoryByRequest

\* What a step may do to requests that have come to their end, and to others.
LEMMA DecidedStory ==
  ASSUME StoryInv, NEW w \in Worker, Decides(w), NEW q \in Request
  PROVE  /\ StoryOf(q)'
         /\ StatusOf(q) \in Terminal =>
              /\ rows'[q] = rows[q]
              /\ q \in payments <=> q \in payments'
              /\ \A event \in {"payment.succeeded", "payment.failed"} :
                   webhooks'[<<event, q>>] = webhooks[<<event, q>>]
  <1>0. PICK r \in Request : r = worker[w].job
    BY DEF Decides
  <1>1. /\ TypeOK /\ StoryOf(q) /\ StoryOf(r)
        /\ StatusOf(r) \in InProgress
    BY <1>0, OneStoryByRequest DEF StoryInv, SubmitInv, TypeInv, Decides
  <1>2. CASE Settles(w)
    <2>1. /\ Writes(r, "succeeded") /\ payments' = payments \cup {r}
          /\ authorizations' = [authorizations EXCEPT ![r] = "consumed"]
      BY <1>0, <1>2 DEF Settles
    <2>2. PICK completed \in SUBSET {<<"mandate.completed", MandateOf[r]>>} :
             Enqueue({<<"payment.succeeded", r>>} \cup completed)
      BY <1>0, <1>2 DEF Settles
    <2>3. /\ webhooks'[<<"payment.succeeded", q>>] =
               webhooks[<<"payment.succeeded", q>>] + IF q = r THEN 1 ELSE 0
          /\ webhooks'[<<"payment.failed", q>>] =
               webhooks[<<"payment.failed", q>>]
      BY <1>1, <2>2, SettleTells
    <2>4. /\ StatusOf(r)' = "succeeded"
          /\ q # r => StatusOf(q)' = StatusOf(q) /\ rows'[q] = rows[q]
      BY <1>1, <2>1, WritesStatus DEF Writes
    <2>5. authorizations'[q] = IF q = r THEN "consumed" ELSE authorizations[q]
      BY <1>1, <2>1 DEF TypeOK
    <2>6. CASE q = r
      <3>1. StatusOf(q)' = "succeeded" /\ q \in payments'
        BY <2>1, <2>4, <2>6
      <3>2. /\ webhooks'[<<"payment.succeeded", q>>] = 1
            /\ webhooks'[<<"payment.failed", q>>] = 0
        BY <1>1, <2>3, <2>6 DEF StoryOf, Story, InProgress
      <3>3. StoryOf(q)'
        BY <3>1, <3>2 DEF StoryOf, Story
      <3> QED
        BY <1>1, <2>6, <3>3 DEF InProgress, Terminal
    <2>7. CASE q # r
      <3>1. /\ webhooks'[<<"payment.succeeded", q>>] =
                 webhooks[<<"payment.succeeded", q>>]
            /\ StatusOf(q)' = StatusOf(q) /\ rows'[q] = rows[q]
            /\ authorizations'[q] = authorizations[q]
            /\ q \in payments <=> q \in payments'
        BY <1>1, <2>1, <2>3, <2>4, <2>5, <2>7 DEF StoryOf, Story
      <3> QED
        BY <1>1, <2>3, <3>1 DEF StoryOf, Story
    <2> QED
      BY <2>6, <2>7
  <1>3. CASE \E to \in {"permanently_failed", "retryable_failed"} :
               GivesUp(w, to) /\ UNCHANGED <<payments, authorizations>>
    <2>1. PICK to \in {"permanently_failed", "retryable_failed"} :
             /\ Writes(r, to) /\ UNCHANGED <<payments, authorizations>>
             /\ Enqueue(IF to = "permanently_failed"
                        THEN {<<"payment.failed", r>>} ELSE {})
      BY <1>0, <1>3 DEF GivesUp
    <2>2. /\ webhooks'[<<"payment.succeeded", q>>] =
               webhooks[<<"payment.succeeded", q>>]
          /\ webhooks'[<<"payment.failed", q>>] =
               webhooks[<<"payment.failed", q>>]
                 + IF q = r /\ to = "permanently_failed" THEN 1 ELSE 0
      BY <1>1, <2>1, FailTells
    <2>3. /\ StatusOf(r)' = to
          /\ q # r => StatusOf(q)' = StatusOf(q) /\ rows'[q] = rows[q]
      BY <1>1, <2>1, WritesStatus DEF Writes
    <2>4. CASE q = r
      <3>1. StatusOf(q)' = to /\ q \notin payments'
        BY <1>1, <2>1, <2>3, <2>4 DEF StoryOf, Story, InProgress
      <3>2. /\ webhooks'[<<"payment.succeeded", q>>] = 0
            /\ webhooks'[<<"payment.failed", q>>] =
                 IF to = "permanently_failed" THEN 1 ELSE 0
        BY <1>1, <2>2, <2>4 DEF StoryOf, Story, InProgress
      <3>3. authorizations'[q] # "consumed"
        BY <1>1, <2>1, <2>4 DEF StoryOf, Story, InProgress
      <3>4. StoryOf(q)'
        BY <2>1, <3>1, <3>2, <3>3 DEF StoryOf, Story
      <3> QED
        BY <1>1, <2>4, <3>4 DEF InProgress, Terminal
    <2>5. CASE q # r
      <3>1. /\ webhooks'[<<"payment.failed", q>>] =
                 webhooks[<<"payment.failed", q>>]
            /\ StatusOf(q)' = StatusOf(q) /\ rows'[q] = rows[q]
        BY <1>1, <2>2, <2>3, <2>5 DEF StoryOf, Story
      <3> QED
        BY <1>1, <2>1, <2>2, <3>1 DEF StoryOf, Story
    <2> QED
      BY <2>4, <2>5
  <1> QED
    BY <1>2, <1>3 DEF Decides

LEMMA UndecidedStory ==
  ASSUME StoryInv, NoVerdict, NEW q \in Request
  PROVE  /\ StoryOf(q)'
         /\ StatusOf(q) \in Terminal =>
              /\ rows'[q] = rows[q]
              /\ q \in payments <=> q \in payments'
              /\ \A event \in {"payment.succeeded", "payment.failed"} :
                   webhooks'[<<event, q>>] = webhooks[<<event, q>>]
  <1>1. StoryOf(q) /\ UNCHANGED <<payments, webhooks>>
    BY OneStoryByRequest DEF StoryInv, NoVerdict
  <1>2. authorizations'[q] = "consumed" => authorizations[q] = "consumed"
    BY DEF NoVerdict
  <1>3. CASE StatusOf(q) \in Terminal
    <2>1. rows'[q] = rows[q] /\ StatusOf(q)' = StatusOf(q)
      BY <1>3 DEF NoVerdict, StatusOf
    <2> QED
      BY <1>1, <1>2, <2>1 DEF StoryOf, Story
  <1>4. CASE StatusOf(q) \notin Terminal
    <2>1. StatusOf(q)' \notin Terminal
      BY <1>4 DEF NoVerdict
    <2> QED
      BY <1>1, <1>2, <1>4, <2>1 DEF StoryOf, Story, Terminal
  <1> QED
    BY <1>3, <1>4

LEMMA StoryStep ==
  StoryInv /\ [Next]_vars =>
    /\ StoryInv'
    /\ \A r \in Request : StatusOf(r) \in Terminal =>
          /\ rows'[r] = rows[r]
          /\ r \in payments <=> r \in payments'
          /\ \A event \in {"payment.succeeded", "payment.failed"} :
               webhooks'[<<event, r>>] = webhooks[<<event, r>>]
  <1> SUFFICES ASSUME StoryInv, [Next]_vars
               PROVE  /\ StoryInv'
                      /\ \A r \in Request : StatusOf(r) \in Terminal =>
                           /\ rows'[r] = rows[r]
                           /\ r \in payments <=> r \in payments'
                           /\ \A event \in {"payment.succeeded",
                                            "payment.failed"} :
                                webhooks'[<<event, r>>] = webhooks[<<event, r>>]
    OBVIOUS
  <1>1. SubmitInv' /\ (NoVerdict \/ \E w \in Worker : Decides(w))
    BY SubmitStep DEF StoryInv
  <1>2. \A r \in Request :
           /\ StoryOf(r)'
           /\ StatusOf(r) \in Terminal =>
                /\ rows'[r] = rows[r]
                /\ r \in payments <=> r \in payments'
                /\ \A event \in {"payment.succeeded", "payment.failed"} :
                     webhooks'[<<event, r>>] = webhooks[<<event, r>>]
    BY <1>1, DecidedStory, UndecidedStory
  <1>3. (\A r \in Request : StoryOf(r))'
    BY <1>2
  <1>4. OneStory'
    BY <1>3, OneStoryByRequest, PTL
  <1> QED
    BY <1>1, <1>2, <1>4 DEF StoryInv

(***************************************************************************)
(* Row, Payment row and webhooks tell the merchant one story: one success  *)
(* or one failure, never both, never twice (transitionChargeRequest,       *)
(* fail() and step 8 of pipeline.ts).                                      *)
(***************************************************************************)
THEOREM StoryIsOne == Spec => []OneStory
  <1>1. StoryInv => OneStory
    BY DEF StoryInv
  <1>2. StoryInv /\ [Next]_vars => StoryInv'
    BY StoryStep
  <1> QED
    BY <1>1, <1>2, StoryInit, PTL DEF Spec

(***************************************************************************)
(* The terminal statuses of state-machine.ts are final, with the Payment   *)
(* row and the webhooks that belong to them.                               *)
(***************************************************************************)
THEOREM EndIsFinal == Spec => TerminalIsFinal
  <1>1. StoryInv /\ [Next]_vars => StoryInv'
    BY StoryStep
  <1>2. StoryInv /\ [Next]_vars =>
          [ \A r \in Request : StatusOf(r) \in Terminal =>
              /\ rows'[r] = rows[r]
              /\ r \in payments <=> r \in payments'
              /\ \A event \in {"payment.succeeded", "payment.failed"} :
                   webhooks'[<<event, r>>] = webhooks[<<event, r>>]
          ]_vars
    BY StoryStep
  <1> QED
    BY <1>1, <1>2, StoryInit, PTL DEF Spec, TerminalIsFinal

-----------------------------------------------------------------------------
(* Payments are real.                                                      *)

Succeeded(i) == i \in DOMAIN transactions /\ transactions[i].fate = "success"

\* What a run has seen of its transaction is so.
Watches(w) ==
  /\ worker[w].pc \in {"poll", "settle"} =>
       /\ worker[w].tx \in DOMAIN transactions
       /\ transactions[worker[w].tx].request = worker[w].job
  /\ worker[w].pc = "settle" => Succeeded(worker[w].tx)

PaymentInv ==
  /\ TypeInv
  /\ \A w \in Worker : Watches(w)
  /\ \A i \in DOMAIN transactions :
       Succeeded(i) => transactions[i].request \in used
  /\ \A i, j \in DOMAIN transactions :
       /\ Succeeded(i) /\ Succeeded(j)
       /\ transactions[i].request = transactions[j].request
       => i = j
  /\ \A r \in payments : \E i \in DOMAIN transactions :
       Succeeded(i) /\ transactions[i].request = r

LEMMA PaymentInit == Init => PaymentInv
  <1> SUFFICES ASSUME Init PROVE PaymentInv
    OBVIOUS
  <1>1. DOMAIN transactions = {} /\ payments = {}
    BY DEF Init
  <1>2. \A w \in Worker : worker[w].pc = "idle"
    BY DEF Init, Idle
  <1> QED
    BY <1>1, <1>2, TypeInit DEF PaymentInv, Watches

LEMMA PaymentsFollow ==
  ASSUME PaymentInv
  PROVE  PaymentsAreReal
  <1> SUFFICES ASSUME NEW r \in payments
               PROVE  Cardinality({i \in DOMAIN transactions :
                        transactions[i].request = r
                          /\ transactions[i].fate = "success"}) = 1
    BY DEF PaymentsAreReal
  <1>1. PICK i \in DOMAIN transactions :
           Succeeded(i) /\ transactions[i].request = r
    BY DEF PaymentInv
  <1>2. {j \in DOMAIN transactions :
           transactions[j].request = r /\ transactions[j].fate = "success"} = {i}
    BY <1>1 DEF PaymentInv, Succeeded
  <1> QED
    BY <1>2, FS_Singleton

\* The transactions do not change but at their end: one may be appended.
Appends ==
  /\ DOMAIN transactions \subseteq DOMAIN transactions'
  /\ \A i \in DOMAIN transactions : transactions'[i] = transactions[i]
  /\ \A i \in DOMAIN transactions' \ DOMAIN transactions :
       transactions'[i].fate = "pending"

LEMMA AppendsKeep ==
  ASSUME PaymentInv, TypeInv', Appends, used' = used,
         \A w \in Worker : Watches(w)',
         \A r \in payments' \ payments : \E i \in DOMAIN transactions :
           Succeeded(i) /\ transactions[i].request = r
  PROVE  PaymentInv'
  <1>1. \A i : Succeeded(i)' <=> Succeeded(i)
    BY DEF Appends, Succeeded
  <1>2. \A i : Succeeded(i) => i \in DOMAIN transactions
    BY DEF Succeeded
  <1>3. \A r \in payments' : \E i \in DOMAIN transactions :
           Succeeded(i) /\ transactions[i].request = r
    BY DEF PaymentInv
  <1>4. \A r \in payments' : \E i \in DOMAIN transactions' :
           Succeeded(i)' /\ transactions'[i].request = r
    BY <1>1, <1>3 DEF Appends
  <1>5. \A i \in DOMAIN transactions' :
           Succeeded(i)' => transactions'[i].request \in used'
    BY <1>1, <1>2 DEF PaymentInv, Appends
  <1>6. \A i, j \in DOMAIN transactions' :
           /\ Succeeded(i)' /\ Succeeded(j)'
           /\ transactions'[i].request = transactions'[j].request
           => i = j
    BY <1>1, <1>2 DEF PaymentInv, Appends
  <1> QED
    BY <1>4, <1>5, <1>6 DEF PaymentInv

\* Runs that watch no transaction, or the one they watched before.
LEMMA WatchesStay ==
  ASSUME PaymentInv, Appends, NEW w \in Worker,
         \/ worker'[w].pc \notin {"poll", "settle"}
         \/ /\ worker'[w].pc = worker[w].pc
            /\ worker'[w].tx = worker[w].tx /\ worker'[w].job = worker[w].job
  PROVE  Watches(w)'
  BY DEF PaymentInv, Appends, Watches, Succeeded

\* A step of one run, and what it now watches.
LEMMA RunWatches ==
  ASSUME PaymentInv, TypeInv', Appends, used' = used, NEW w \in Worker,
         Others(w), Watches(w)',
         \A r \in payments' \ payments : \E i \in DOMAIN transactions :
           Succeeded(i) /\ transactions[i].request = r
  PROVE  PaymentInv'
  <1>1. \A v \in Worker : Watches(v)'
    BY WatchesStay DEF Others
  <1> QED
    BY <1>1, AppendsKeep

LEMMA NothingAppended ==
  ASSUME transactions' = transactions
  PROVE  Appends
  BY DEF Appends

LEMMA WorkerPayments ==
  ASSUME PaymentInv, TypeInv', NEW w \in Worker, WorkerStep(w)
  PROVE  PaymentInv'
  <1>1. TypeInv /\ worker \in [Worker -> Run] /\ Watches(w)
    BY DEF PaymentInv, TypeInv, TypeOK
  <1>2. ASSUME UNCHANGED <<transactions, used, payments>>, Others(w),
               worker'[w].pc \notin {"poll", "settle"}
        PROVE  PaymentInv'
    BY <1>2, NothingAppended, WatchesStay, RunWatches
  <1>3. CASE Claim(w) \/ MarkSimulated(w) \/ MarkSubmitted(w)
    <2>1. PICK to \in RowStatus, step \in {"mandate", "submit", "send"} :
             Transition(w, to, step) /\ worker[w].pc # "idle"
      BY <1>3 DEF Claim, MarkSimulated, MarkSubmitted, RowStatus
    <2>2. Moves(w, to, step) \/ Ends(w)
      BY <1>1, <2>1, TransitionMoves DEF Step
    <2>3. Others(w) /\ worker'[w].pc \notin {"poll", "settle"}
      BY <2>2, IdleRun DEF Moves, Ends
    <2>4. UNCHANGED <<transactions, used, payments>>
      BY <2>1 DEF Transition, chain
    <2> QED
      BY <1>2, <2>3, <2>4
  <1>4. CASE TakeJob(w)
    <2>1. \E r \in queue : Takes(w, r)
      BY <1>1, <1>4, TakeJobTakes
    <2>2. UNCHANGED <<transactions, used, payments>>
      BY <1>4 DEF TakeJob, database, chain
    <2> QED
      BY <1>2, <2>1, <2>2 DEF Takes
  <1>5. CASE \/ ReadMandate(w) \/ Authorize(w) \/ CheckLedger(w)
             \/ ExpireAuthorization(w) \/ Prepare(w)
    <2>1. Others(w)
      BY <1>1, <1>5, QuietSteps DEF Quiet, Keeps
    <2>2. worker'[w].pc \notin {"poll", "settle"}
      BY <1>1, <1>5 DEF ReadMandate, Authorize, CheckLedger,
         ExpireAuthorization, Prepare, Goto, FailWith, Run
    <2>3. UNCHANGED <<transactions, used, payments>>
      BY <1>5 DEF ReadMandate, Authorize, CheckLedger, ExpireAuthorization,
         Prepare, database, chain
    <2> QED
      BY <1>2, <2>1, <2>2, <2>3
  <1>6. CASE Send(w)
    <2>1. Others(w) /\ worker'[w].job = worker[w].job
      BY <1>1, <1>6, QuietSteps DEF Quiet, Keeps
    <2>2. UNCHANGED <<used, payments>>
      BY <1>6 DEF Send, database
    <2>3. CASE UNCHANGED transactions /\ FailWith(w, "transient", "SEND_FAILED")
      <3>1. worker'[w].pc = "fail"
        BY <1>1, <2>3, FailKeeps DEF Reason
      <3> QED
        BY <1>2, <2>1, <2>2, <2>3, <3>1
    <2>4. CASE /\ transactions' = Append(transactions,
                    [request |-> worker[w].job, fate |-> "pending"])
               /\ worker' = [worker EXCEPT
                    ![w].pc = "poll", ![w].tx = Len(transactions) + 1]
      <3> DEFINE tx == [request |-> worker[w].job, fate |-> "pending"]
                 n == Len(transactions)
      <3>1. transactions \in Seq(Transaction) /\ n \in Nat
        BY <1>1 DEF TypeInv, TypeOK
      <3>2. tx \in Transaction
        BY <1>1, <1>6 DEF Send, TypeInv, Existing, Transaction, Fate
      <3>3. tx.fate = "pending" /\ tx.request = worker[w].job
        OBVIOUS
      <3>4. worker'[w].pc = "poll" /\ worker'[w].tx = n + 1
        BY <1>1, <2>4 DEF Run
      <3> HIDE DEF tx
      <3>5. transactions' = Append(transactions, tx)
        BY <2>4 DEF tx
      <3>6. /\ transactions' \in Seq(Transaction)
            /\ Len(transactions') = n + 1
            /\ \A i \in 1 .. n : transactions'[i] = transactions[i]
            /\ transactions'[n + 1] = tx
        BY <3>1, <3>2, <3>5, AppendProperties
      <3>7. /\ DOMAIN transactions = 1 .. n
            /\ DOMAIN transactions' = 1 .. (n + 1)
        BY <3>1, <3>6
      <3> HIDE DEF n
      <3>8. Appends
        BY <3>1, <3>3, <3>6, <3>7 DEF Appends
      <3>9. Watches(w)'
        BY <2>1, <3>1, <3>3, <3>4, <3>6, <3>7 DEF Watches
      <3> QED
        BY <2>1, <2>2, <3>8, <3>9, RunWatches
    <2> QED
      BY <1>6, <2>3, <2>4 DEF Send
  <1>7. CASE Poll(w)
    <2>1. Others(w) /\ worker'[w].job = worker[w].job
      BY <1>1, <1>7, QuietSteps DEF Quiet, Keeps
    <2>2. UNCHANGED <<transactions, used, payments>> /\ worker[w].pc = "poll"
      BY <1>7 DEF Poll, database, chain
    <2>3. CASE transactions[worker[w].tx].fate = "success" /\ Goto(w, "settle")
      <3>1. worker'[w].pc = "settle" /\ worker'[w].tx = worker[w].tx
        BY <1>1, <2>3, GotoKeeps DEF Step
      <3>2. Watches(w)'
        BY <1>1, <2>1, <2>2, <2>3, <3>1 DEF Watches, Succeeded
      <3> QED
        BY <2>1, <2>2, <3>2, NothingAppended, RunWatches
    <2>4. CASE \E class \in {"transient", "permanent"}, reason \in Reason :
                 FailWith(w, class, reason)
      <3>1. worker'[w].pc = "fail"
        BY <1>1, <2>4, FailKeeps
      <3> QED
        BY <1>2, <2>1, <2>2, <3>1
    <2> QED
      BY <1>7, <2>3, <2>4, Classes DEF Poll, Reason
  <1>8. CASE Settle(w)
    <2>1. Ends(w) /\ (Settles(w) \/ UNCHANGED database)
      BY <1>1, <1>8, SettleSettles
    <2>2. UNCHANGED <<transactions, used>>
      BY <1>8 DEF Settle, chain
    <2>3. \A r \in payments' \ payments : r = worker[w].job
      BY <2>1 DEF Settles, database
    <2>4. \A r \in payments' \ payments : \E i \in DOMAIN transactions :
             Succeeded(i) /\ transactions[i].request = r
      BY <1>1, <1>8, <2>3 DEF Settle, Watches
    <2>5. Others(w) /\ worker'[w].pc = "idle"
      BY <2>1, IdleRun DEF Ends
    <2> QED
      BY <2>2, <2>4, <2>5, NothingAppended, WatchesStay, RunWatches
  <1>9. CASE Fail(w)
    <2>1. Others(w) /\ worker'[w].pc = "idle"
      BY <1>1, <1>9, FailGivesUp, IdleRun DEF Ends
    <2>2. UNCHANGED <<transactions, used, payments>>
      BY <1>9 DEF Fail, chain
    <2> QED
      BY <1>2, <2>1, <2>2
  <1> QED
    BY <1>3, <1>4, <1>5, <1>6, <1>7, <1>8, <1>9 DEF WorkerStep

\* charge() succeeds once per request: the signature is good for one charge.
LEMMA IncludePayments ==
  ASSUME PaymentInv, TypeInv', NEW i \in DOMAIN transactions, Include(i)
  PROVE  PaymentInv'
  <1> DEFINE r == transactions[i].request
  <1>1. /\ transactions \in Seq(Transaction) /\ transactions[i].fate = "pending"
        /\ worker' = worker /\ payments' = payments
    BY DEF PaymentInv, TypeInv, TypeOK, Include, database
  <1>2. PICK fate \in {Verdict(r)} :
           /\ transactions' = [transactions EXCEPT ![i].fate = fate]
           /\ used' = IF fate = "success" THEN used \cup {r} ELSE used
    BY DEF Include
  <1>3. transactions[i] \in Transaction
    BY <1>1
  <1>4. /\ DOMAIN transactions' = DOMAIN transactions
        /\ \A j \in DOMAIN transactions :
             /\ j # i => transactions'[j] = transactions[j]
             /\ transactions'[j].request = transactions[j].request
        /\ transactions'[i].fate = fate
    BY <1>1, <1>2, <1>3 DEF Transaction
  <1>5. fate = "success" => r \notin used
    BY <1>2 DEF Verdict
  <1>6. \A j : Succeeded(j)' <=> Succeeded(j) \/ (j = i /\ fate = "success")
    BY <1>1, <1>4 DEF Succeeded
  <1>7. \A w \in Worker : Watches(w)'
    BY <1>1, <1>4, <1>6 DEF PaymentInv, Watches
  <1>8. \A j \in DOMAIN transactions' :
           Succeeded(j)' => transactions'[j].request \in used'
    BY <1>2, <1>4, <1>6 DEF PaymentInv
  <1>9. \A j, k \in DOMAIN transactions' :
           /\ Succeeded(j)' /\ Succeeded(k)'
           /\ transactions'[j].request = transactions'[k].request
           => j = k
    BY <1>4, <1>5, <1>6 DEF PaymentInv
  <1>10. \A q \in payments' : \E j \in DOMAIN transactions' :
            Succeeded(j)' /\ transactions'[j].request = q
    BY <1>1, <1>4, <1>6 DEF PaymentInv
  <1> QED
    BY <1>7, <1>8, <1>9, <1>10 DEF PaymentInv

LEMMA PaymentStep == PaymentInv /\ [Next]_vars => PaymentInv'
  <1> SUFFICES ASSUME PaymentInv, [Next]_vars PROVE PaymentInv'
    OBVIOUS
  <1>1. TypeInv /\ TypeInv'
    BY TypeStep DEF PaymentInv
  <1>2. CASE \E w \in Worker : WorkerStep(w)
    BY <1>1, <1>2, WorkerPayments
  <1>3. CASE \E i \in DOMAIN transactions : Include(i)
    BY <1>1, <1>3, IncludePayments
  <1>4. ASSUME UNCHANGED <<transactions, used, payments, worker>>
        PROVE  PaymentInv'
    <2>1. \A w \in Worker : Watches(w)'
      BY <1>4, NothingAppended, WatchesStay
    <2> QED
      BY <1>1, <1>4, <2>1, NothingAppended, AppendsKeep
  <1>5. ASSUME NEW w \in Worker, Crash(w) \/ LoseLock(w) PROVE PaymentInv'
    <2>1. UNCHANGED <<transactions, used, payments>>
      BY <1>5 DEF Crash, LoseLock, database, chain
    <2>2. worker \in [Worker -> Run]
      BY <1>1 DEF TypeInv, TypeOK
    <2>3. /\ Others(w)
          /\ \/ worker'[w].pc \notin {"poll", "settle"}
             \/ /\ worker'[w].pc = worker[w].pc
                /\ worker'[w].tx = worker[w].tx
                /\ worker'[w].job = worker[w].job
      <3>1. CASE Crash(w)
        BY <2>2, <3>1, FinishClears, IdleRun DEF Crash
      <3>2. CASE LoseLock(w)
        <4>1. worker'[w] = [worker[w] EXCEPT !.holds = FALSE]
          BY <2>2, <3>2 DEF LoseLock
        <4>2. /\ worker'[w] \in Run /\ worker'[w].pc = worker[w].pc
              /\ worker'[w].tx = worker[w].tx
              /\ worker'[w].job = worker[w].job
          BY <2>2, <4>1 DEF Run
        <4>3. Others(w)
          BY <2>2, <3>2, <4>2 DEF LoseLock, Others
        <4> QED
          BY <4>2, <4>3
      <3> QED
        BY <1>5, <3>1, <3>2
    <2>4. Watches(w)'
      BY <2>1, <2>3, NothingAppended, WatchesStay
    <2> QED
      BY <1>1, <2>1, <2>3, <2>4, NothingAppended, RunWatches
  <1>6. CASE \/ \E r \in Request : CompleteAuthorization(r) \/ GoStale(r)
             \/ \E s \in Scheduler : SchedulerStep(s)
             \/ \E m \in Mandate : Revoke(m) \/ ChangeFunds(m)
             \/ AdvanceTime \/ UNCHANGED vars
    <2>1. UNCHANGED <<transactions, used, payments, worker>>
      BY <1>6 DEF CompleteAuthorization, GoStale, SchedulerStep, Recover,
         FindDue, EnqueueDue, Revoke, ChangeFunds, AdvanceTime, vars,
         database, chain
    <2> QED
      BY <1>4, <2>1
  <1> QED
    BY <1>2, <1>3, <1>5, <1>6 DEF Next

(***************************************************************************)
(* A Payment row is written only for a request the contract has charged,   *)
(* and the contract has charged it once, however many transactions the     *)
(* attempts broadcast (steps 7 and 8 of pipeline.ts; charge.rs step 4).    *)
(***************************************************************************)
THEOREM PaymentIsReal == Spec => []PaymentsAreReal
  BY PaymentInit, PaymentStep, PaymentsFollow, PTL DEF Spec

-----------------------------------------------------------------------------
(* The announced completion is true.                                       *)

\* The steps at which a run carries the count it has read.
Counting == { "authorize", "ledger", "expire", "prepare", "simulate",
              "submit", "send", "poll", "settle" }

\* The transaction a run waits for has charged the payer.
HasCharged(w) == worker[w].pc \in {"poll", "settle"} /\ Succeeded(worker[w].tx)

\* What w will find to have completed the mandate m.
Last(w, m) ==
  HasCharged(w) /\ CompletesMandate(w) /\ MandateOf[worker[w].job] = m

\* A count was true when it was read, and w's own charge is not in it.
SeenInv(w) ==
  worker[w].pc \in Counting =>
    \A m \in Mandate : MandateOf[worker[w].job] = m =>
      worker[w].seen + (IF HasCharged(w) THEN 1 ELSE 0) <= Charged(m)

Announced(m) == webhooks[<<"mandate.completed", m>>]

\* The charge that reached the limit is one, and so is what is said of it.
CountOf(m) ==
  /\ MaxCharges[m] # 0 => Charged(m) <= MaxCharges[m]
  /\ Announced(m) <= 1
  /\ Announced(m) = 1 => MaxCharges[m] # 0 /\ Charged(m) = MaxCharges[m]
  /\ \A w \in Worker : Last(w, m) => Announced(m) = 0
  /\ \A v, w \in Worker : Last(v, m) /\ Last(w, m) => v = w

CountInv ==
  /\ PaymentInv /\ SubmitInv
  /\ \A w \in Worker : SeenInv(w)
  /\ \A m \in Mandate : CountOf(m)

LEMMA CompletionFollows ==
  ASSUME CountInv
  PROVE  CompletionIsTrue
  <1> SUFFICES ASSUME NEW m \in Mandate
               PROVE  /\ Announced(m) <= 1
                      /\ Announced(m) = 1 =>
                           MaxCharges[m] # 0 /\ Charged(m) = MaxCharges[m]
    BY Zenon DEF CompletionIsTrue, Announced
  <1>1. CountOf(m)
    BY DEF CountInv
  <1> QED
    BY <1>1 DEF CountOf

LEMMA CountTypes ==
  ASSUME CountInv
  PROVE  /\ TypeInv /\ TypeOK /\ worker \in [Worker -> Run]
         /\ \A w \in Worker : worker[w].seen \in Nat
         /\ \A m \in Mandate :
              /\ Charged(m) \in Nat /\ MaxCharges[m] \in Nat
              /\ Announced(m) \in Nat
         /\ \A w \in Worker : worker[w].pc # "idle" =>
              worker[w].job \in Request /\ MandateOf[worker[w].job] \in Mandate
  <1>1. TypeInv /\ TypeOK /\ worker \in [Worker -> Run]
    BY DEF CountInv, PaymentInv, TypeInv, TypeOK
  <1>2. \A m \in Mandate : Charged(m) \in Nat /\ MaxCharges[m] \in Nat
    BY <1>1, ChargedIsNatural, PipelineAssumption
  <1>3. \A m \in Mandate : Announced(m) \in Nat
    BY <1>1 DEF Announced, TypeOK, EventKey
  <1>4. \A w \in Worker : worker[w].seen \in Nat
    BY <1>1 DEF Run
  <1> QED
    BY <1>1, <1>2, <1>3, <1>4, PipelineAssumption DEF TypeInv, Existing

LEMMA CountInit == Init => CountInv
  <1> SUFFICES ASSUME Init PROVE CountInv
    OBVIOUS
  <1>1. \A w \in Worker : worker[w].pc = "idle"
    BY DEF Init, Idle
  <1>2. \A m \in Mandate : Announced(m) = 0
    BY DEF Init, Announced, EventKey
  <1>3. \A m \in Mandate : Charged(m) = 0
    <2>1. ASSUME NEW m \in Mandate PROVE {r \in used : MandateOf[r] = m} = {}
      BY DEF Init
    <2> QED
      BY <2>1, FS_EmptySet DEF Charged
  <1>4. ASSUME NEW m \in Mandate PROVE CountOf(m)
    <2>1. MaxCharges[m] \in Nat
      BY PipelineAssumption
    <2> QED
      BY <1>1, <1>2, <1>3, <2>1 DEF CountOf, Last, HasCharged
  <1>5. \A w \in Worker : SeenInv(w)
    BY <1>1 DEF SeenInv, Counting
  <1> QED
    BY <1>4, <1>5, PaymentInit, SubmitInit DEF CountInv

\* A run goes on with its count, drops it, or has just read it.
Continues(w) ==
  \/ worker'[w].pc \notin Counting
  \/ /\ worker[w].pc \in Counting
     /\ worker'[w].job = worker[w].job /\ worker'[w].seen = worker[w].seen
     /\ HasCharged(w)' => HasCharged(w)
  \/ /\ worker'[w].pc = "authorize"
     /\ worker'[w].seen = Charged(MandateOf[worker'[w].job])

LEMMA LastContinues ==
  ASSUME NEW w \in Worker, Continues(w), NEW m, Last(w, m)'
  PROVE  Last(w, m)
  <1>1. HasCharged(w)' /\ CompletesMandate(w)' /\ MandateOf[worker'[w].job] = m
    BY DEF Last
  <1>2. worker'[w].pc \in {"poll", "settle"}
    BY <1>1 DEF HasCharged
  <1>3. /\ worker'[w].job = worker[w].job /\ worker'[w].seen = worker[w].seen
        /\ HasCharged(w)
    BY <1>1, <1>2 DEF Continues, Counting
  <1> QED
    BY <1>1, <1>3 DEF Last, CompletesMandate

\* Nothing is said of a mandate.
SameNews ==
  \A m \in Mandate : webhooks'[<<"mandate.completed", m>>] = Announced(m)

LEMMA NothingSaid ==
  ASSUME webhooks' = webhooks
  PROVE  SameNews
  BY Zenon DEF SameNews, Announced

LEMMA AnnouncedStays ==
  ASSUME SameNews, NEW m \in Mandate
  PROVE  Announced(m)' = Announced(m)
  BY Zenon DEF SameNews, Announced

\* A step that charges nobody and announces nothing.
LEMMA CountStays ==
  ASSUME CountInv, PaymentInv', SubmitInv', used' = used,
         SameNews, \A w \in Worker : Continues(w)
  PROVE  CountInv'
  <1>1. ASSUME NEW m \in Mandate PROVE Charged(m)' = Charged(m)
    BY DEF Charged
  <1>2. ASSUME NEW m \in Mandate PROVE CountOf(m)'
    <2>1. Announced(m)' = Announced(m)
      BY AnnouncedStays
    <2>2. \A w \in Worker : Last(w, m)' => Last(w, m)
      BY LastContinues
    <2> QED
      BY <1>1, <2>1, <2>2 DEF CountInv, CountOf
  <1>3. ASSUME NEW w \in Worker PROVE SeenInv(w)'
    <2> SUFFICES ASSUME worker'[w].pc \in Counting, NEW m \in Mandate,
                        MandateOf[worker'[w].job] = m
                 PROVE  worker'[w].seen + (IF HasCharged(w)' THEN 1 ELSE 0)
                          <= Charged(m)'
      BY DEF SeenInv
    <2>1. Charged(m) \in Nat /\ worker[w].seen \in Nat
      BY CountTypes
    <2>2. CASE /\ worker[w].pc \in Counting
               /\ worker'[w].job = worker[w].job
               /\ worker'[w].seen = worker[w].seen
               /\ HasCharged(w)' => HasCharged(w)
      <3>1. worker[w].seen + (IF HasCharged(w) THEN 1 ELSE 0) <= Charged(m)
        BY <2>2 DEF CountInv, SeenInv
      <3> QED
        BY <1>1, <2>1, <2>2, <3>1
    <2>3. CASE /\ worker'[w].pc = "authorize"
               /\ worker'[w].seen = Charged(MandateOf[worker'[w].job])
      <3>1. ~HasCharged(w)'
        BY <2>3 DEF HasCharged
      <3> QED
        BY <1>1, <2>1, <2>3, <3>1
    <2> QED
      BY <2>2, <2>3 DEF Continues
  <1> QED
    BY <1>2, <1>3 DEF CountInv

LEMMA OthersContinue ==
  ASSUME Appends, PaymentInv, NEW w \in Worker, worker'[w] = worker[w]
  PROVE  Continues(w)
  <1>1. HasCharged(w)' => HasCharged(w)
    BY DEF HasCharged, Succeeded, Appends, PaymentInv, Watches
  <1> QED
    BY <1>1 DEF Continues

\* The steps of a run that neither end it nor begin it.
LEMMA RunContinues ==
  ASSUME CountInv, TypeInv', NEW w \in Worker,
         \/ MarkSimulated(w) \/ MarkSubmitted(w) \/ Claim(w) \/ TakeJob(w)
         \/ ReadMandate(w) \/ Authorize(w) \/ CheckLedger(w)
         \/ ExpireAuthorization(w) \/ Prepare(w) \/ Send(w) \/ Poll(w)
  PROVE  Others(w) /\ Continues(w)
  <1>1. TypeInv /\ worker \in [Worker -> Run]
    BY CountTypes
  <1>2. ASSUME NEW step \in Step, Goto(w, step)
        PROVE  /\ Others(w) /\ worker'[w].pc = step
               /\ worker'[w].job = worker[w].job
               /\ worker'[w].seen = worker[w].seen
               /\ worker'[w].tx = worker[w].tx
    <2>1. worker'[w] = [worker[w] EXCEPT !.pc = step]
      BY <1>1, <1>2 DEF Goto
    <2> QED
      BY <1>1, <1>2, <2>1, GotoKeeps DEF Keeps, Run
  <1>3. ASSUME NEW step \in Step \ {"poll", "settle"}, Goto(w, step),
               worker[w].pc \in Counting
        PROVE  Others(w) /\ Continues(w)
    BY <1>2, <1>3 DEF Continues, HasCharged
  <1>4. ASSUME NEW class \in {"transient", "permanent"}, NEW reason \in Reason,
               FailWith(w, class, reason)
        PROVE  Others(w) /\ Continues(w)
    BY <1>1, <1>4, FailKeeps DEF Keeps, Continues, Counting
  <1>5. ASSUME NEW to \in RowStatus, NEW step \in {"mandate", "submit", "send"},
               Transition(w, to, step), worker[w].pc # "idle",
               step = "mandate" \/ worker[w].pc \in Counting
        PROVE  Others(w) /\ Continues(w)
    <2>1. Moves(w, to, step) \/ (Ends(w) /\ rows' = rows)
      BY <1>1, <1>5, TransitionMoves DEF Step
    <2>2. CASE Ends(w)
      BY <2>2, IdleRun DEF Ends, Continues, Counting
    <2>3. CASE worker' = [worker EXCEPT ![w].pc = step, ![w].believes = to]
      <3>1. worker'[w] = [worker[w] EXCEPT !.pc = step, !.believes = to]
        BY <1>1, <2>3
      <3>2. /\ worker'[w].pc = step /\ worker'[w].job = worker[w].job
            /\ worker'[w].seen = worker[w].seen
        BY <1>1, <3>1 DEF Run
      <3>3. Others(w)
        BY <2>1 DEF Moves, Ends
      <3> QED
        BY <1>5, <3>2, <3>3 DEF Continues, Counting, HasCharged
    <2>4. worker' = [worker EXCEPT ![w].pc = step, ![w].believes = to] \/ Finish(w)
      BY <1>5 DEF Transition
    <2>5. Finish(w) => Ends(w)
      BY <1>1, FinishClears DEF Ends
    <2> QED
      BY <2>2, <2>3, <2>4, <2>5
  <1>6. CASE MarkSimulated(w) \/ MarkSubmitted(w) \/ Claim(w)
    <2>1. CASE MarkSimulated(w)
      BY <1>5, <2>1 DEF MarkSimulated, Counting, RowStatus
    <2>2. CASE MarkSubmitted(w)
      BY <1>5, <2>2 DEF MarkSubmitted, Counting, RowStatus
    <2>3. CASE Claim(w)
      BY <1>5, <2>3 DEF Claim, RowStatus
    <2> QED
      BY <1>6, <2>1, <2>2, <2>3
  <1>7. CASE TakeJob(w)
    <2>1. \E r \in queue : Takes(w, r)
      BY <1>1, <1>7, TakeJobTakes
    <2> QED
      BY <2>1 DEF Takes, Continues, Counting
  <1>8. CASE ReadMandate(w)
    <2>1. Others(w) /\ worker'[w].job = worker[w].job
      BY <1>1, <1>8, QuietSteps DEF Quiet, Keeps
    <2>2. CASE worker' = [worker EXCEPT ![w].pc = "authorize",
                 ![w].seen = Charged(MandateOf[worker[w].job])]
      <3>1. worker'[w] = [worker[w] EXCEPT !.pc = "authorize",
                 !.seen = Charged(MandateOf[worker[w].job])]
        BY <1>1, <2>2
      <3>2. /\ worker'[w].pc = "authorize"
            /\ worker'[w].seen = Charged(MandateOf[worker[w].job])
        BY <1>1, <3>1 DEF Run
      <3> QED
        BY <2>1, <3>2 DEF Continues
    <2> QED
      BY <1>4, <1>8, <2>2 DEF ReadMandate, Reason
  <1>9. CASE Authorize(w) \/ CheckLedger(w) \/ ExpireAuthorization(w) \/ Prepare(w)
    <2>1. CASE Authorize(w)
      BY <1>3, <1>4, <2>1 DEF Authorize, Counting, Step, Reason
    <2>2. CASE CheckLedger(w)
      BY <1>3, <1>4, <2>2 DEF CheckLedger, Counting, Step, Reason
    <2>3. CASE ExpireAuthorization(w)
      BY <1>4, <2>3 DEF ExpireAuthorization, Reason
    <2>4. CASE Prepare(w)
      BY <1>3, <1>4, <2>4, Verdicts, Classes DEF Prepare, Counting, Step, Reason
    <2> QED
      BY <1>9, <2>1, <2>2, <2>3, <2>4
  <1>10. CASE Send(w)
    <2>1. Others(w) /\ worker'[w].job = worker[w].job
      BY <1>1, <1>10, QuietSteps DEF Quiet, Keeps
    <2>2. CASE /\ transactions' = Append(transactions,
                    [request |-> worker[w].job, fate |-> "pending"])
               /\ worker' = [worker EXCEPT
                    ![w].pc = "poll", ![w].tx = Len(transactions) + 1]
      <3>1. transactions \in Seq(Transaction) /\ Len(transactions) \in Nat
        BY <1>1 DEF TypeInv, TypeOK
      <3>2. worker'[w] = [worker[w] EXCEPT
                 !.pc = "poll", !.tx = Len(transactions) + 1]
        BY <1>1, <2>2
      <3>3. worker'[w].tx = Len(transactions) + 1 /\ worker'[w].seen = worker[w].seen
        BY <1>1, <3>2 DEF Run
      <3>4. transactions'[Len(transactions) + 1].fate = "pending"
        <4>1. transactions'[Len(transactions) + 1] =
                [request |-> worker[w].job, fate |-> "pending"]
          BY <2>2, <3>1
        <4> QED
          BY <4>1
      <3>5. ~HasCharged(w)'
        BY <3>3, <3>4 DEF HasCharged, Succeeded
      <3> QED
        BY <1>10, <2>1, <3>3, <3>5 DEF Send, Continues, Counting
    <2> QED
      BY <1>4, <1>10, <2>2 DEF Send, Reason
  <1>11. CASE Poll(w)
    <2>1. transactions' = transactions /\ worker[w].pc = "poll"
      BY <1>11 DEF Poll, chain
    <2>2. CASE transactions[worker[w].tx].fate = "success" /\ Goto(w, "settle")
      <3>1. HasCharged(w)
        BY <2>1, <2>2 DEF HasCharged, Succeeded, CountInv, PaymentInv, Watches
      <3> QED
        BY <1>2, <2>1, <2>2, <3>1 DEF Continues, Counting, Step
    <2> QED
      BY <1>4, <1>11, <2>2, Classes DEF Poll, Reason
  <1> QED
    BY <1>6, <1>7, <1>8, <1>9, <1>10, <1>11

LEMMA SendAppends ==
  ASSUME CountInv, NEW w \in Worker, Send(w)
  PROVE  Appends
  <1>1. transactions \in Seq(Transaction) /\ Len(transactions) \in Nat
    BY CountTypes DEF TypeOK
  <1>2. CASE transactions' = transactions
    BY <1>2, NothingAppended
  <1>3. CASE transactions' = Append(transactions,
               [request |-> worker[w].job, fate |-> "pending"])
    <2> DEFINE tx == [request |-> worker[w].job, fate |-> "pending"]
    <2>1. tx \in Transaction /\ tx.fate = "pending"
      BY CountTypes DEF Send, Transaction, Fate
    <2>2. transactions' = Append(transactions, tx)
      BY <1>3
    <2> HIDE DEF tx
    <2>3. /\ transactions' \in Seq(Transaction)
          /\ Len(transactions') = Len(transactions) + 1
          /\ \A i \in 1 .. Len(transactions) : transactions'[i] = transactions[i]
          /\ transactions'[Len(transactions) + 1] = tx
      BY <1>1, <2>1, <2>2, AppendProperties
    <2>4. /\ DOMAIN transactions = 1 .. Len(transactions)
          /\ DOMAIN transactions' = 1 .. (Len(transactions) + 1)
      BY <1>1, <2>3
    <2> QED
      BY <1>1, <2>1, <2>3, <2>4 DEF Appends
  <1> QED
    BY <1>2, <1>3 DEF Send

\* charge() counts: one more for the mandate charged, if it had not enough.
Charges(i, r, m) ==
  /\ transactions[i].request = r /\ MandateOf[r] = m
  /\ MaxCharges[m] # 0 => Charged(m) < MaxCharges[m]
  /\ Charged(m)' = Charged(m) + 1
  /\ \A n \in Mandate \ {m} : Charged(n)' = Charged(n)
  /\ \A j : Succeeded(j)' <=> Succeeded(j) \/ j = i

LEMMA IncludeCounts ==
  ASSUME CountInv, NEW i \in DOMAIN transactions, Include(i)
  PROVE  \/ /\ used' = used
            /\ \A j : Succeeded(j)' <=> Succeeded(j)
         \/ \E r \in Request, m \in Mandate : Charges(i, r, m)
  <1> PICK r : r = transactions[i].request
    OBVIOUS
  <1> PICK m : m = MandateOf[r]
    OBVIOUS
  <1> DEFINE of(n) == {q \in used : MandateOf[q] = n}
  <1>1. /\ transactions \in Seq(Transaction) /\ transactions[i].fate = "pending"
        /\ used \subseteq Request
    BY CountTypes DEF TypeOK, Include
  <1>2. PICK fate \in {Verdict(r)} :
           /\ transactions' = [transactions EXCEPT ![i].fate = fate]
           /\ used' = IF fate = "success" THEN used \cup {r} ELSE used
    BY DEF Include
  <1>3. transactions[i] \in Transaction
    BY <1>1
  <1>4. /\ DOMAIN transactions' = DOMAIN transactions
        /\ \A j \in DOMAIN transactions : j # i => transactions'[j] = transactions[j]
        /\ transactions'[i].fate = fate
    BY <1>1, <1>2, <1>3 DEF Transaction
  <1>5. \A j : Succeeded(j)' <=> Succeeded(j) \/ (j = i /\ fate = "success")
    BY <1>1, <1>4 DEF Succeeded
  <1>6. CASE fate # "success"
    BY <1>2, <1>5, <1>6
  <1>7. CASE fate = "success"
    <2>1. r \in Request /\ m \in Mandate
      BY <1>3, PipelineAssumption DEF Transaction
    <2>2. /\ r \notin used
          /\ MaxCharges[m] # 0 => Charged(m) # MaxCharges[m]
      BY <1>2, <1>7 DEF Verdict
    <2>3. MaxCharges[m] # 0 => Charged(m) < MaxCharges[m]
      <3>1. Charged(m) \in Nat /\ MaxCharges[m] \in Nat
        BY <2>1, CountTypes
      <3>2. MaxCharges[m] # 0 => Charged(m) <= MaxCharges[m]
        BY <2>1 DEF CountInv, CountOf
      <3> QED
        BY <2>2, <3>1, <3>2
    <2>4. Charged(m)' = Charged(m) + 1
      <3>1. IsFiniteSet(of(m))
        <4>1. of(m) \subseteq Request
          BY <1>1
        <4> QED
          BY <4>1, PipelineAssumption, FS_Subset
      <3>2. r \notin of(m) /\ {q \in used' : MandateOf[q] = m} = of(m) \cup {r}
        BY <1>2, <1>7, <2>2
      <3>3. /\ Charged(m) = Cardinality(of(m))
            /\ Charged(m)' = Cardinality(of(m) \cup {r})
        BY <3>2 DEF Charged
      <3> DEFINE S == of(m)
      <3> HIDE DEF S
      <3>4. Cardinality(S \cup {r}) = Cardinality(S) + 1
        <4>1. IsFiniteSet(S) /\ r \notin S
          BY <3>1, <3>2 DEF S
        <4> QED
          BY <4>1, FS_AddElement
      <3> QED
        BY <3>3, <3>4 DEF S
    <2>5. ASSUME NEW n \in Mandate \ {m} PROVE Charged(n)' = Charged(n)
      <3>1. {q \in used' : MandateOf[q] = n} = of(n)
        BY <1>2, <1>7, <2>5
      <3> QED
        BY <3>1 DEF Charged
    <2>6. Charges(i, r, m)
      BY <1>5, <1>7, <2>3, <2>4, <2>5 DEF Charges
    <2> QED
      BY <2>1, <2>6
  <1> QED
    BY <1>6, <1>7

LEMMA IncludeKeepsCount ==
  ASSUME CountInv, PaymentInv', SubmitInv', NEW i \in DOMAIN transactions, Include(i)
  PROVE  CountInv'
  <1>1. /\ worker' = worker /\ webhooks' = webhooks
        /\ transactions[i].fate = "pending"
    BY DEF Include, database
  <1>2. CASE used' = used /\ \A j : Succeeded(j)' <=> Succeeded(j)
    <2>1. \A w \in Worker : Continues(w)
      BY <1>1, <1>2 DEF Continues, HasCharged
    <2> QED
      BY <1>1, <1>2, <2>1, CountStays, NothingSaid
  <1>3. ASSUME NEW r \in Request, NEW m \in Mandate, Charges(i, r, m)
        PROVE  CountInv'
    <2> USE <1>3 DEF Charges
    <2>1. ~Succeeded(i)
      BY <1>1 DEF Succeeded
    \* A run whose transaction has just charged.
    <2>2. ASSUME NEW w \in Worker, HasCharged(w)', ~HasCharged(w)
          PROVE  worker[w].job = r /\ Submitting(w)
      <3>1. worker[w].pc \in {"poll", "settle"} /\ worker[w].tx = i
        BY <1>1, <1>3, <2>2 DEF HasCharged
      <3> QED
        BY <3>1 DEF CountInv, PaymentInv, Watches, Submitting
    <2>3. ASSUME NEW w \in Worker PROVE SeenInv(w)'
      <3> SUFFICES ASSUME worker[w].pc \in Counting, NEW n \in Mandate,
                          MandateOf[worker[w].job] = n
                   PROVE  worker[w].seen + (IF HasCharged(w)' THEN 1 ELSE 0)
                            <= Charged(n)'
        BY <1>1 DEF SeenInv
      <3>1. worker[w].seen + (IF HasCharged(w) THEN 1 ELSE 0) <= Charged(n)
        BY DEF CountInv, SeenInv
      <3>2. Charged(n) \in Nat /\ worker[w].seen \in Nat
        BY CountTypes
      <3>3. CASE HasCharged(w)' /\ ~HasCharged(w)
        <4>1. n = m
          BY <2>2, <3>3
        <4> QED
          BY <1>3, <3>1, <3>2, <3>3, <4>1
      <3>4. CASE ~(HasCharged(w)' /\ ~HasCharged(w))
        <4>1. Charged(n) <= Charged(n)' /\ Charged(n)' \in Nat
          BY <1>3, <3>2
        <4> QED
          BY <3>1, <3>2, <3>4, <4>1
      <3> QED
        BY <3>3, <3>4
    <2>4. ASSUME NEW n \in Mandate PROVE CountOf(n)'
      <3>1. CountOf(n)
        BY DEF CountInv
      <3>2. Announced(n)' = Announced(n) /\ Announced(n) \in Nat
        BY <1>1, CountTypes DEF Announced
      <3>3. ASSUME NEW w \in Worker, Last(w, n)', ~Last(w, n)
            PROVE  n = m /\ worker[w].job = r /\ Submitting(w)
        <4>1. HasCharged(w)' /\ ~HasCharged(w) /\ MandateOf[worker[w].job] = n
          BY <1>1, <3>3 DEF Last, CompletesMandate
        <4> QED
          BY <2>2, <4>1
      <3>4. CASE n # m
        <4>1. \A w \in Worker : Last(w, n)' => Last(w, n)
          BY <3>3, <3>4
        <4> QED
          BY <1>3, <3>1, <3>2, <3>4, <4>1 DEF CountOf
      <3>5. CASE n = m
        <4>1. Charged(n) \in Nat /\ MaxCharges[n] \in Nat
          BY CountTypes
        <4>2. Announced(n) = 0
          BY <1>3, <3>1, <3>2, <3>5, <4>1 DEF CountOf
        <4>3. \A w \in Worker : ~Last(w, n)
          <5>1. ASSUME NEW w \in Worker, Last(w, n) PROVE FALSE
            <6>1. worker[w].seen + 1 <= Charged(n)
              BY <5>1 DEF Last, HasCharged, CountInv, SeenInv, Counting
            <6>2. MaxCharges[n] # 0 /\ worker[w].seen + 1 = MaxCharges[n]
              BY <4>1, <5>1 DEF Last, CompletesMandate
            <6> QED
              BY <1>3, <3>5, <4>1, <6>1, <6>2
          <5> QED
            BY <5>1
        <4>4. \A v, w \in Worker : Last(v, n)' /\ Last(w, n)' => v = w
          BY <3>3, <4>3 DEF CountInv, SubmitInv, SingleSubmitter
        <4>5. Charged(n)' = Charged(n) + 1
          BY <1>3, <3>5
        <4>6. MaxCharges[n] # 0 => Charged(n)' <= MaxCharges[n]
          BY <1>3, <3>5, <4>1, <4>5
        <4> QED
          BY <3>2, <4>2, <4>4, <4>6 DEF CountOf
      <3> QED
        BY <3>4, <3>5
    <2> QED
      BY <2>3, <2>4 DEF CountInv
  <1> QED
    BY <1>2, <1>3, IncludeCounts

\* What the transaction of step 8 says of mandates.
LEMMA SettleAnnounces ==
  ASSUME CountInv, NEW w \in Worker, Settle(w),
         InStatus(worker[w].job, "submitted") /\ worker[w].job \notin payments
  PROVE  \A m \in Mandate : Announced(m)' =
           Announced(m) + IF Last(w, m) THEN 1 ELSE 0
  <1> TAKE m \in Mandate
  <1> DEFINE r == worker[w].job
             key == <<"mandate.completed", m>>
             done == IF CompletesMandate(w)
                     THEN {<<"mandate.completed", MandateOf[r]>>} ELSE {}
             events == {<<"payment.succeeded", r>>} \cup done
  <1>1. Enqueue(events) /\ webhooks \in [EventKey -> Nat]
    BY CountTypes DEF Settle, TypeOK
  <1>2. key \in EventKey
    BY DEF EventKey
  <1>3. HasCharged(w)
    BY DEF Settle, HasCharged, CountInv, PaymentInv, Watches
  <1>4. key \in events <=> Last(w, m)
    BY <1>3 DEF Last
  <1> HIDE DEF key, events
  <1>5. webhooks'[key] = webhooks[key] + IF key \in events THEN 1 ELSE 0
    BY <1>1, <1>2, EnqueueCounts
  <1> QED
    BY <1>4, <1>5 DEF Announced, key

LEMMA SettleKeepsCount ==
  ASSUME CountInv, PaymentInv', SubmitInv', NEW w \in Worker, Settle(w)
  PROVE  CountInv'
  <1>1. /\ used' = used /\ transactions' = transactions
        /\ worker[w].pc = "settle"
    BY DEF Settle, chain
  <1>2. Others(w) /\ worker'[w].pc = "idle"
    BY CountTypes, FinishClears, IdleRun DEF Settle
  <1>3. \A v \in Worker : Continues(v)
    <2>1. Continues(w)
      BY <1>2 DEF Continues, Counting
    <2>2. ASSUME NEW v \in Worker, v # w PROVE Continues(v)
      BY <1>1, <1>2, <2>2, NothingAppended, OthersContinue DEF Others, CountInv
    <2> QED
      BY <2>1, <2>2
  <1>4. CASE ~(InStatus(worker[w].job, "submitted") /\ worker[w].job \notin payments)
    <2>1. webhooks' = webhooks
      BY <1>4 DEF Settle, database
    <2> QED
      BY <1>1, <1>3, <2>1, CountStays, NothingSaid
  <1>5. CASE InStatus(worker[w].job, "submitted") /\ worker[w].job \notin payments
    <2>1. ASSUME NEW m \in Mandate PROVE Charged(m)' = Charged(m)
      BY <1>1 DEF Charged
    <2>2. ASSUME NEW m \in Mandate PROVE CountOf(m)'
      <3>1. CountOf(m) /\ Charged(m) \in Nat /\ MaxCharges[m] \in Nat
            /\ Announced(m) \in Nat /\ worker[w].seen \in Nat
        BY CountTypes DEF CountInv
      <3>2. Announced(m)' = Announced(m) + IF Last(w, m) THEN 1 ELSE 0
        BY <1>5, SettleAnnounces
      <3>3. \A v \in Worker : Last(v, m)' => Last(v, m) /\ v # w
        <4>1. ~HasCharged(w)'
          BY <1>2 DEF HasCharged
        <4> QED
          BY <1>3, <4>1, LastContinues DEF Last
      <3>4. CASE Last(w, m)
        <4>1. Announced(m) = 0 /\ \A v \in Worker : ~Last(v, m)'
          BY <3>1, <3>3, <3>4 DEF CountOf
        <4>2. worker[w].seen + 1 <= Charged(m)
          BY <3>4 DEF Last, HasCharged, CountInv, SeenInv, Counting
        <4>3. MaxCharges[m] # 0 /\ worker[w].seen + 1 = MaxCharges[m]
          BY <3>1, <3>4 DEF Last, CompletesMandate
        <4>4. Charged(m) = MaxCharges[m]
          BY <3>1, <4>2, <4>3 DEF CountOf
        <4>5. Announced(m)' = 1
          BY <3>2, <3>4, <4>1
        <4> QED
          BY <2>1, <3>1, <4>1, <4>3, <4>4, <4>5 DEF CountOf
      <3>5. CASE ~Last(w, m)
        <4>1. Announced(m)' = Announced(m)
          BY <3>1, <3>2, <3>5
        <4> QED
          BY <2>1, <3>1, <3>3, <4>1 DEF CountOf
      <3> QED
        BY <3>4, <3>5
    <2>3. ASSUME NEW v \in Worker PROVE SeenInv(v)'
      <3>1. CASE v = w
        BY <1>2, <3>1 DEF SeenInv, Counting
      <3>2. CASE v # w
        <4>1. SeenInv(v) /\ worker'[v] = worker[v]
          BY <1>2, <3>2 DEF CountInv, Others
        <4>2. HasCharged(v)' <=> HasCharged(v)
          BY <1>1, <4>1 DEF HasCharged, Succeeded
        <4> QED
          BY <2>1, <4>1, <4>2 DEF SeenInv
      <3> QED
        BY <3>1, <3>2
    <2> QED
      BY <2>2, <2>3 DEF CountInv
  <1> QED
    BY <1>4, <1>5

\* Giving up, or trying again later, says nothing of mandates.
LEMMA FailAnnounces ==
  ASSUME CountInv, NEW w \in Worker, Fail(w)
  PROVE  SameNews
  <1> SUFFICES ASSUME NEW m \in Mandate
               PROVE  webhooks'[<<"mandate.completed", m>>] = Announced(m)
    BY Zenon DEF SameNews
  <1> DEFINE key == <<"mandate.completed", m>>
  <1>1. key \in EventKey /\ \A r : key # <<"payment.failed", r>>
    BY DEF EventKey
  <1>2. webhooks \in [EventKey -> Nat]
    BY CountTypes DEF TypeOK
  <1> HIDE DEF key
  <1>3. webhooks' = webhooks \/ \E events : Enqueue(events) /\ key \notin events
    BY <1>1 DEF Fail
  <1>4. webhooks'[key] = webhooks[key]
    BY <1>1, <1>2, <1>3, EnqueueCounts
  <1> QED
    BY <1>4 DEF key, Announced

LEMMA CountStep == CountInv /\ [Next]_vars => CountInv'
  <1> SUFFICES ASSUME CountInv, [Next]_vars PROVE CountInv'
    OBVIOUS
  <1>1. PaymentInv' /\ SubmitInv'
    BY PaymentStep, SubmitStep DEF CountInv
  <1>2. worker \in [Worker -> Run] /\ PaymentInv
    BY CountTypes DEF CountInv
  <1>3. ASSUME NEW w \in Worker, Others(w), Continues(w), Appends, used' = used, SameNews
        PROVE  CountInv'
    <2>1. ASSUME NEW v \in Worker, v # w PROVE Continues(v)
      BY <1>2, <1>3, <2>1, OthersContinue DEF Others
    <2> QED
      BY <1>1, <1>3, <2>1, CountStays
  <1>4. ASSUME NEW w \in Worker, WorkerStep(w) PROVE CountInv'
    <2>1. CASE Settle(w)
      BY <1>1, <2>1, SettleKeepsCount
    <2>2. CASE Fail(w)
      <3>1. Others(w) /\ worker'[w].pc = "idle"
        BY <1>2, <2>2, FinishClears, IdleRun DEF Fail
      <3>2. Continues(w) /\ Appends /\ used' = used
        BY <2>2, <3>1, NothingAppended DEF Continues, Counting, Fail, chain
      <3> QED
        BY <1>3, <2>2, <3>1, <3>2, FailAnnounces
    <2>3. CASE \/ MarkSimulated(w) \/ MarkSubmitted(w) \/ Claim(w) \/ TakeJob(w)
               \/ ReadMandate(w) \/ Authorize(w) \/ CheckLedger(w)
               \/ ExpireAuthorization(w) \/ Prepare(w) \/ Send(w) \/ Poll(w)
      <3>1. Others(w) /\ Continues(w)
        BY <1>1, <2>3, RunContinues DEF PaymentInv
      <3>2. UNCHANGED <<used, webhooks>> /\ Appends
        <4>1. CASE MarkSimulated(w) \/ MarkSubmitted(w) \/ Claim(w)
          <5>1. UNCHANGED <<used, webhooks, transactions>>
            BY <4>1 DEF MarkSimulated, MarkSubmitted, Claim, Transition, chain
          <5> QED
            BY <5>1, NothingAppended
        <4>2. CASE TakeJob(w) \/ ReadMandate(w) \/ Authorize(w)
          <5>1. UNCHANGED <<used, webhooks, transactions>>
            BY <4>2 DEF TakeJob, ReadMandate, Authorize, database, chain
          <5> QED
            BY <5>1, NothingAppended
        <4>3. CASE \/ CheckLedger(w) \/ ExpireAuthorization(w) \/ Prepare(w)
                   \/ Poll(w)
          <5>1. CheckLedger(w) => UNCHANGED <<used, webhooks, transactions>>
            BY DEF CheckLedger, database, chain
          <5>2. ExpireAuthorization(w) => UNCHANGED <<used, webhooks, transactions>>
            BY DEF ExpireAuthorization, chain
          <5>3. Prepare(w) => UNCHANGED <<used, webhooks, transactions>>
            BY DEF Prepare, database, chain
          <5>4. Poll(w) => UNCHANGED <<used, webhooks, transactions>>
            BY DEF Poll, database, chain
          <5> QED
            BY <4>3, <5>1, <5>2, <5>3, <5>4, NothingAppended
        <4>4. CASE Send(w)
          <5>1. UNCHANGED <<used, webhooks>>
            BY <4>4 DEF Send, database
          <5> QED
            BY <4>4, <5>1, SendAppends
        <4> QED
          BY <2>3, <4>1, <4>2, <4>3, <4>4
      <3> QED
        BY <1>3, <3>1, <3>2, NothingSaid
    <2> QED
      BY <1>4, <2>1, <2>2, <2>3 DEF WorkerStep
  <1>5. ASSUME NEW w \in Worker, Crash(w) \/ LoseLock(w) PROVE CountInv'
    <2>1. UNCHANGED <<transactions, used, webhooks>>
      BY <1>5 DEF Crash, LoseLock, database, chain
    <2>2. Appends
      BY <2>1, NothingAppended
    <2>3. Others(w) /\ Continues(w)
      <3>1. CASE Crash(w)
        BY <1>2, <3>1, FinishClears, IdleRun DEF Crash, Continues, Counting
      <3>2. CASE LoseLock(w)
        <4>1. worker'[w] = [worker[w] EXCEPT !.holds = FALSE]
          BY <1>2, <3>2 DEF LoseLock
        <4>2. /\ worker'[w] \in Run /\ worker'[w].pc = worker[w].pc
              /\ worker'[w].tx = worker[w].tx
              /\ worker'[w].job = worker[w].job
              /\ worker'[w].seen = worker[w].seen
          BY <1>2, <4>1 DEF Run
        <4>3. Others(w)
          BY <1>2, <3>2, <4>2 DEF LoseLock, Others
        <4> QED
          BY <2>1, <4>2, <4>3 DEF Continues, HasCharged, Succeeded
      <3> QED
        BY <1>5, <3>1, <3>2
    <2> QED
      BY <1>3, <2>1, <2>2, <2>3, NothingSaid
  <1>6. CASE \E i \in DOMAIN transactions : Include(i)
    BY <1>1, <1>6, IncludeKeepsCount
  <1>7. CASE \/ \E r \in Request : CompleteAuthorization(r) \/ GoStale(r)
             \/ \E s \in Scheduler : SchedulerStep(s)
             \/ \E m \in Mandate : Revoke(m) \/ ChangeFunds(m)
             \/ AdvanceTime \/ UNCHANGED vars
    <2>1. UNCHANGED <<transactions, used, webhooks, worker>>
      <3>1. CASE \E r \in Request : CompleteAuthorization(r) \/ GoStale(r)
        BY <3>1 DEF CompleteAuthorization, GoStale, chain
      <3>2. CASE \E s \in Scheduler : SchedulerStep(s)
        <4>1. ASSUME NEW s \in Scheduler, Recover(s)
              PROVE  UNCHANGED <<transactions, used, webhooks, worker>>
          BY <4>1 DEF Recover, chain
        <4>2. ASSUME NEW s \in Scheduler, FindDue(s)
              PROVE  UNCHANGED <<transactions, used, webhooks, worker>>
          BY <4>2 DEF FindDue, database, chain
        <4>3. ASSUME NEW s \in Scheduler, NEW r \in Request, EnqueueDue(s, r)
              PROVE  UNCHANGED <<transactions, used, webhooks, worker>>
          BY <4>3 DEF EnqueueDue, database, chain
        <4> QED
          BY <3>2, <4>1, <4>2, <4>3 DEF SchedulerStep
      <3>3. CASE \/ \E m \in Mandate : Revoke(m) \/ ChangeFunds(m)
                 \/ AdvanceTime \/ UNCHANGED vars
        BY <3>3 DEF Revoke, ChangeFunds, AdvanceTime, vars, database, chain
      <3> QED
        BY <1>7, <3>1, <3>2, <3>3
    <2>2. \A w \in Worker : Continues(w)
      BY <1>2, <2>1, NothingAppended, OthersContinue
    <2> QED
      BY <1>1, <2>1, <2>2, CountStays, NothingSaid
  <1> QED
    BY <1>4, <1>5, <1>6, <1>7 DEF Next

(***************************************************************************)
(* mandate.completed is enqueued once per mandate at most, and only when   *)
(* the contract has charged it max_successful_charges times, although step *)
(* 8 of pipeline.ts decides it from the count that step 3 has read.        *)
(***************************************************************************)
THEOREM CompletionAnnounced == Spec => []CompletionIsTrue
  <1>1. CountInv => CompletionIsTrue
    BY CompletionFollows
  <1> QED
    BY <1>1, CountInit, CountStep, PTL DEF Spec
=============================================================================
