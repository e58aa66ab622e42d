# A TLA+ development of PayMap (StellarJourney)

PayMap is a subscription-payments product on Stellar. A payer creates an on-chain
*mandate*; the merchant named in it may then pull money from the payer's token account
within the mandate's bounds. A Soroban contract is the only authority over money. Around
it sit an HTTP API that accepts charge requests, a relayer that executes them and delivers
webhooks, an indexer that copies lifecycle events into Postgres, and a web application for
payers and merchants. All paths below are relative to `src/`.

## Inventory

| part | state it keeps | operations |
|---|---|---|
| `contracts/mandate-registry` | mandates, used charge ids per mandate, used refund ids (one namespace), payment and refund receipts, refunded totals | `create_mandate`, `pause_mandate`, `resume_mandate`, `revoke_mandate`, `charge`, `refund`, reads |
| token (SEP-41; `contracts/mock-token` in tests) | balances, allowances | `approve`, `transfer`, `transfer_from` |
| relayer: charge pipeline (`apps/relayer/src/{pipeline,scheduler,queue,worker,...}.ts`) | `ChargeRequest`, `ChargeAuthorization`, `Payment` rows, BullMQ jobs in Redis, the local variables of each run | scheduler tick (recover, find due, enqueue), job processing (claim, read, simulate, submit, settle or fail) |
| relayer: webhook delivery (`webhook-*.ts`) | `WebhookDelivery` rows, a second BullMQ queue | scheduler tick, claim, POST, delivered / retry / dead letter |
| relayer: event indexer (`indexer/`) | `IndexerCursor`, `MandateIndex` | tick: read a page of events, apply each, advance the cursor by compare-and-swap |
| API: charge authorizations (`routes/charges.ts`, `chain/precheck.ts`) | `ChargeAuthorization`, `ChargeRequest` | issue, complete |
| API: idempotency (`idempotency/middleware.ts`) | `IdempotencyKey` | `runIdempotent` |
| API: checkout sessions, products | `CheckoutSession`, `Product`, `MandateIndex` | create, link a mandate |
| API: payments and refunds | `Payment`, `RefundRequest` | list, request a refund |
| API: merchant sessions, API keys | `MerchantAuthChallenge`, `MerchantSession`, `ApiKey` | challenge, complete, authenticate, register, revoke, rotate |
| web: checkout page and cancel dialog | the reducers of `checkout-state.ts` and `revoke-flow.ts`, per browser tab | connect, create, approve, link, retry; revoke, zero the allowance |
| web: payer's dashboard (`dashboard-shell.tsx`) | what it has read of the API and the chain | load, read, pause, resume, revoke, change the wallet |
| web: merchant's dashboard (`app/merchant`, `components/merchant`, `lib/merchant-*.ts`) | one cookie per browser; per tab the page, its lists, the sign-in panel, an action in flight | sign in, name the profile, sign out; open a page; create a product, a link, a refund, a key, an endpoint; revoke a key |
| `packages/*` | none | conversions (money, XDR, errors), signatures, typed clients |
| `scripts`, `ops` | none of the domain's | deployment, demo |

**Interaction.** API and relayer share Postgres and nothing else: the API inserts a
`ChargeRequest` and the scheduler finds it. Scheduler and workers share Redis (jobs) and
Postgres (rows). The relayer talks to the contract over RPC: it reads, simulates,
broadcasts, then polls for a bounded time; the ledger includes a transaction when it
likes. The pipeline and the indexer both insert `WebhookDelivery` rows, the delivery
workers consume them. `MandateIndex` has three writers (the indexer, `GET /mandates/:id`
and the checkout link). The browser signs and sends the payer's transactions itself and
tells the API afterwards; the dashboard lists what the API knows and shows what the chain
says.

**What is hard.** The contract: state that is refreshed lazily (expiry, billing period),
totals kept in several storage entries, fixed-width arithmetic. The relayer: runs of the
same request at the same time, a crash between any two awaits, jobs handed out twice, a
scheduler that takes rows back from runs that are still alive, a submission whose outcome
is not known, values read before an await and used after it; ticks that apply the same
events at the same time. The API: requests that are sent again while the first is under
way, checks in one statement and writes in the next. The browser: three transactions that
can fail or lose their answer one by one, reads that answer in any order, and tabs that
share a cookie.
`PROJECT.json` lists each hazard at its line with the properties that cover it.

**What makes each part correct.**

* Contract: no billing period collects more than the cap; charges keep their distance;
  receipts fit the terms; the counter, the totals, the guards and the receipts agree;
  completion exactly at the limit; refunds never exceed the payment; what is over stays
  over.
* Charge pipeline: at most one run submits a request at a time; a payment is recorded only
  for money that moved; the row, the payment and the webhooks tell one story; every
  request comes to an end.
* Webhook delivery: at most one POST per attempt, as many attempts as the schedule has,
  every event is attempted.
* Indexer: every event is applied at least once and announced exactly once, none is passed
  over, and the ledger recorded in a row is not behind what was announced.
* Idempotency: one effect per key and one answer for its repetitions. Authorizations: one
  completion. Sessions: a challenge is used once. Keys: a rotation leaves one that works.
* Programs that mirror the contract (precheck, dashboard, exposure, product form): the
  same verdict and the same numbers in every state a mandate can be in.
* Checkout: the screens tell the truth, a retry takes up where the failure was, a session
  names the payer of its mandate. Dashboard: cards keep up with the payer's actions and
  belong to the connected wallet, and nothing spins for ever. Merchant's dashboard: a page
  and a secret on it are one merchant's, and a stale form changes nobody else's rows.

## Modules

| module | what it is |
|---|---|
| `MandateRegistry` | the contract, its token and the ledger clock |
| `SpendingAuthority` | what a mandate promises its payer, abstractly |
| `MandateAccounting` | sums over receipts; the refinement of `SpendingAuthority` |
| `MandateViews` | what API and web pages compute from a mandate: precheck, card, exposure, allowance |
| `ProductTerms` | from the product form to the terms a payer signs |
| `MandateRegistryProofs` | theorems about the contract, its totals, the refinement and the programs that mirror it |
| `ChargePipeline` | scheduler, queue, workers, crashes, ledger |
| `ChargePipelineProofs` | theorems about the pipeline |
| `WebhookDelivery` | scheduler, queue that keeps finished jobs, delivery runs, the merchant's server |
| `WebhookDeliveryProofs` | theorems about the delivery |
| `EventIndexer` | indexer ticks, cursor, the RPC server's window of events, the other writers of `MandateIndex` |
| `EventIndexerProofs` | theorems about the indexer |
| `MerchantAccess` | challenges, sessions, API keys |
| `OncePerKey` | what the `Idempotency-Key` header promises, abstractly |
| `MerchantRequests` | the idempotent writes and the completion of an authorization, behind `MerchantAccess`; implements `OncePerKey` |
| `MerchantRequestsProofs` | theorems about logins, keys and idempotent writes |
| `CheckoutFlow` | the checkout page in several tabs, the session's link, the cancel dialog |
| `CheckoutFlowProofs` | theorems about checkout and dialog |
| `PayerDashboard` | the payer's dashboard |
| `PayerDashboardProofs` | theorems about the dashboard |
| `MerchantConsole` | the merchant's dashboard in a tab, next to other tabs |
| `MerchantConsoleProofs` | theorems about it |
| `MC*` | instances for TLC |

`ProductTerms` extends `MandateViews`, which extends `MandateAccounting` and so
`MandateRegistry`: all of them speak of the states of one contract. `MerchantRequests`
extends `MerchantAccess` and composes its steps with its own.

### MandateRegistry

One action per entry point that changes state: `CreateMandate`, `PauseMandate`,
`ResumeMandate`, `RevokeMandate`, `Charge`, `Refund`. An invocation that returns an
`Error` or traps is reverted by the host, so it is a stuttering step and the guard of the
action is the conjunction of all its checks. `require_auth` is checked by the host; an
action stands for a call the right party signed. Mandate ids are hashes of payer,
merchant, asset and nonce (`id.rs`), so those are functions of the id (`PayerOf`,
`MerchantOf`, `AssetOf`); a payment id is the hash of mandate id and charge id, so a
payment is named by the pair.

The variables are the contract's `DataKey` entries, the token's tables and the clock.
`gross` is a history variable: what was collected per mandate and billing period.
`EffectiveStatus` is the lazily computed expiry; the stored status never says Expired.
`PeriodStart` and `PeriodCollected` are step 11 of `charge()`: the stored boundary is
compared with the computed one, and whatever it stored is dropped when they differ. Widths
are `MaxU64`, `MaxI128`, `MaxU32`: an addition of the contract that would overflow is a
refused step. Outside the contract, `Approve` and `Spend` change the token's tables and
`AdvanceTime` the clock.

`SpendingAuthority` keeps only phase, limits, number of pulls and sums, no clock, token or
storage. `MandateAccounting` maps the contract to it: the phase is the effective status
(so a step of the clock is `End` of every mandate that expires at that instant), the
limits are the stored terms, `spent` is `gross`.

### ChargePipeline

`Recover`, `FindDue` and `EnqueueDue` are the steps of a scheduler tick; ticks of one
process may overlap (`setInterval` does not wait) and several processes may run them, so
there is a set of them. A worker run keeps the local variables of `processChargeRequest`
in `worker[w]`: its step, its job, the status it last wrote (`believes`), the attempt
number it computed, the count it read, the transaction it broadcast, and the failure it is
about to record. Each step is what happens between two awaits; every database write is one
transaction:

| action | code |
|---|---|
| `TakeJob`, `Claim` | the read, and the guarded update to `processing` |
| `ReadMandate` | step 2 and the merchant's context; `seen` is the count used much later |
| `Authorize`, `CheckLedger`, `ExpireAuthorization` | the merchant's signature and its expiry ledger |
| `Prepare` | simulation against the current ledger; any mismatch of step 5 is the permanent failure already possible in `ReadMandate` |
| `MarkSimulated`, `MarkSubmitted` | the two guarded updates of step 6 |
| `Send`, `Poll` | `signAndSend` and its polling window, in `chain-gateway.ts` |
| `Settle` | the transaction of step 8, which rolls back as a whole |
| `Fail` | `fail()`: a retry, or `permanently_failed` with its webhook |

A guarded update that matches no row throws; the exception ends the run (`Finish`).
`Include` executes a broadcast transaction with the contract's `Verdict` at that moment.
The contract's limit, revocation and lack of funds are kept: `InsufficientBalance` stands
for the two retryable errors of the table, `MandateRevoked` for the permanent ones that do
not depend on earlier charges. Before all of them comes the merchant's signature
(`charge.rs:136`): it is one per request, with an expiry ledger and a nonce that a charge
consumes, so a second transaction of a request, or a late one, traps. `DuplicateCharge`
therefore never occurs: a request's charge id is as unique as its signature. Faults:
`Crash` (a process dies or an exception escapes; BullMQ hands out the job again, or not),
`LoseLock` (BullMQ hands out a job whose run is alive), `GoStale` for a row that is in
hand (a run that hangs for over ten minutes).

### WebhookDelivery

The second claim-and-retry pipeline. Each tick holds the rows it found and has not yet
enqueued (`FindDue`, `EnqueueDue`); `worker[w]` holds the local variables of
`processWebhookDelivery`. Two ghost variables record what the code does not: `posts`, how
many POSTs have left, and `fate`, what the merchant's server made of the latest attempt.
`fate` keeps apart what the code does not: an address it must not call, and a host that
did not resolve just then.

| action | code |
|---|---|
| `Create`, `Register` | a new row; the merchant's URL and secret, written in one update |
| `TakeJob`, `ReadRow`, `Claim` | the job, `findUnique`, the guarded update to `delivering` |
| `ReadEndpoint` | the merchant's row and the decryption of the secret |
| `Send`, `Receive` | `sendWebhook`: the address check refuses, or DNS fails within it, or the POST leaves; its answer |
| `Settle` | the verdict: `delivered`, `retry_scheduled` or `dead_letter` |
| `Crash`, `LoseLock`, `BreakTick` | a run dies or throws; its lock expires; an enqueue throws |

BullMQ is modelled by what the two pipelines rely on: an `add` whose job id exists is
ignored. Here an id exists while its job waits, is active under a lock, or is among the
`Retained` latest completed or failed jobs (`removeOnComplete: { count: 1000 }`); the
charge queue removes finished jobs at once. One merchant is modelled: deliveries of
different merchants share only the queue.

### MandateViews and ProductTerms

Three programs repeat rules of the contract in TypeScript with unbounded integers. They
keep no state, so they are operators, and the properties compare them with the contract in
every state that charges, refunds, pauses and the clock have made. `ChargeError` is
`charge()` as the error it ends with, in the order of its checks; `PrecheckCharge` is
`precheck.ts`. `MandateCard` is what the payer's card shows (`mandate-status.ts`,
`mandate-card.tsx`), evaluated at any later time at which the page may still be open.
`MaxExposure`, `BoundedAllowance` and `ApprovalLife` are the numbers of the checkout page
(`mandate-terms.ts`, `token.ts`).

`ProductTerms` follows a product from the form (`FormAccepts`) over the API (`ApiAccepts`)
and the row (`Stored`: the columns are int4) to the terms a payer signs. A decimal is its
digits and its number of places, so that fractions, rounding and too many places occur
without strings.

### EventIndexer

| action | code |
|---|---|
| `StartTick` | the cursor is read, the request prepared (`indexer.ts:101-115`) |
| `Fetch` | one page, with the retention checks before and after it |
| `ApplyEvent` | one event in its transaction: `MandateIndex`, webhook |
| `Advance` | the compare-and-swap of the cursor |
| `TickFails` | an exception, or the process dies; what was applied stays |
| `ReadMandate`, `RefreshIndex` | `GET /mandates/:id`: the read from the chain and, later, the write |
| `Emit`, `CloseLedger`, `Register` | contract, ledger and merchant registration, outside the relayer |

An event is its place in the chain's log. The RPC server keeps the last `Retention`
ledgers and answers with pages of `PageLimit` raw events. `unknown` remembers the events
that the code skips with a log line because nobody knows their merchant, `lost` those the
server had pruned before they were read, `origin` where a first start began.

### MerchantAccess and MerchantRequests

`MerchantAccess` has the two ways in. A challenge is read and checked (`CheckChallenge`),
then consumed in a transaction guarded by `usedAt` (`ConsumeChallenge`); a session's
merchant is authenticated first and upserted later. A request about API keys is
authenticated (`AuthenticateManager`) and acts in a later step (`RotateKey`, `CreateKey`,
`DeleteKey`), so overlapping requests meet.

`MerchantRequests` takes `runIdempotent` apart: `InsertKey` waits while another
transaction holds the key (`ON CONFLICT` on a unique index), `Lookup` compares the body
and replays, `Handle` and `Commit` are the write; `TransactionFails` is a rollback at any
point. Then `ReadAuthorization` and `CompleteAuthorization` are the two halves of `POST
/charge-authorizations/:id/complete`. `OncePerKey` knows only which call ran for a key,
and what each request was answered; a commit is its `Execute`.

### CheckoutFlow

`tab[t]` is the state of `checkoutReducer` with the await that `runApprove` or the API's
link is at. Each transaction or request ends well, fails, or lands without its answer (at
most `MaxFaults` times); an approval or a revocation may also be included as FAILED, which
`signAndSend` reports like one that worked, and `unread` remembers those.
(`create_mandate` unwraps its result and throws.) `Reload` forgets the page. `LinkedSession` writes after
`CheckLink` has checked, in a step of its own. The dialog is `revokeFlowReducer` with its
three calls. The mandate contract is one spender for all mandates of a payer, so
`allowance` is per payer.

### PayerDashboard

`loads` are the calls of `loadDiscoveryAndHistory`, `reads` those of `refreshMandate`,
`runs` the signed actions: each waits at its await until its answer is delivered, in any
order, whatever wallet is connected by then. A load has no name in the code, so the next one is always the
first that is left. A mandate is its status and a version that
grows with each change; `confirmed` remembers the version at which the dashboard last
reported an action done: the one it made (`Succeeds`), or the one it left as it was because
it was included as FAILED and nobody looked (`IncludedAsFailed`), `overlap` the mandates that were read twice at once, `clean` that nothing was in
flight when the wallet connected.

### MerchantConsole

`jar` is the cookie, `sessions` and `merchants` are the API's rows as far as they decide
whom a token speaks for. `tab` is what one tab shows: `Open` renders a page with the
cookie of the request, or the sign-in without one; `Serve` is one answer to
`merchantFetch`, and `Answered` begins the page's second round of lists, ends in
`notFound()` or shows the page. `call` is the server action in flight: `Press` or the
panel's `Signed` submits it with the cookie of that moment, `Perform` and `Refuse` are the
API's side, and there is one answering action per way the code ends it: `redirect`,
`revalidatePath`, a state for the form, an error thrown. The other tabs are `Elsewhere`:
sessions begin, get a profile and end, and the cookie becomes any token that was ever
given, or none, between any two steps. An action the tab has left before its answer is one
of theirs from then on. A row, a list or a secret is the wallet of its merchant.
An action that sets the cookie has its page rendered again, so a new merchant's page, which
asks for a name, already has the sign-out of the new session (`SignedIn`).

## Runs

All bounds are constants of the cfg files. Every run disables the deadlock check: clocks,
events, requests and faults are bounded, and a system with nothing left to do rests.

| run | instance | checks |
|---|---|---|
| `mandate_one` | 1 mandate, 3 kinds of terms, 3 charge ids, 1 refund id, clock 0..7, amounts -1..2, products on both sides of each bound | cap and spacing; precheck, dashboard, exposure and product form against the contract |
| `mandate_two` | 2 mandates of one payer, 2 charge and 2 refund ids | totals equal sums; `ImplementsAuthority` |
| `pipeline` | 1 request, 2 runs, 1 tick, 1 fault, 1 retry, 2 broadcasts, fair | the pipeline's safety; `EveryRequestSettles` |
| `pipeline_two` | 2 requests of a mandate with a limit of 2, 2 runs, 2 ticks, 1 fault, no retry | `CompletionIsTrue` |
| `webhook_two` | 2 deliveries, 2 runs, 1 tick, 2 faults, 1 retry, 1 job kept, fair | the delivery's safety; every event is attempted |
| `indexer` | 1 mandate, 2 events in 3 ledgers of which 1 is kept, pages of 1 event, 2 ticks, 1 API reader, 1 fault, fair | announced once, nothing skipped, index not behind, all handled |
| `requests` | 2 attempts out of 6 calls, 2 logins, 2 challenges, 2 key managers, fair | one effect per key, `OncePerKey`, completions, sessions, keys, answers |
| `checkout` | 2 tabs, 2 payers, 2 mandates per tab, 1 fault (a failed call, a lost answer, a FAILED inclusion or a reload), fair | screens, session, allowance, retries |
| `dashboard` | 2 wallets, 1 mandate, 2 loads, 1 change, 1 failure (or FAILED inclusion), fair | cards, wallets, nothing spins |
| `console` | 1 tab, all 13 pages, 2 wallets, 2 sessions, other tabs as they like, fair | lists, secrets and rows of one merchant; no button waits for ever |
| `pipeline_guess`, `webhook_swallowed` | as small as shows it | statements of the docs that the code does not meet |

Why the bounds are enough. The terms of `mandate_one` have periods of 2 and 3 ticks in a
clock of 8, so whole periods pass without a charge, a period holds one, several or no
charges, and one interval overflows the clock (`MaxU64 = 7`); three charge ids reach and
overrun the limits of 2 and 3. In `mandate_two` the two mandates compete for allowance,
balance and refund ids. In the pipeline, two runs and a fault are what a run that lost
its row needs to meet a later run of the same request; one retry delay gives a retry and
the exhaustion of the schedule; two broadcasts give the pair of transactions whose order
decides. In `pipeline_two` two overlapping ticks put two requests in the queue and the
fault may hit either; more faults, ticks and retries at once are left to the theorems. In `webhook_two` the two deliveries push each other's
job ids out of the kept jobs (`Retained = 1`), so retries do run; of two faults one may
duplicate a job and the other kill either run. In `indexer` two events fit into one ledger
that a page of one splits, or into two of which the first is pruned; two ticks overlap at
every step. In `requests` two attempts are all that a key, an authorization or a challenge
can be raced by, and the calls differ in one of merchant, key, kind, target and body at a
time; the constraint `Focus` lets logins and key requests meet in every order, and writes
meet one of the two with one challenge, since writes share with them only the credentials
they read as they arrive. In `checkout` the two payers race for one session, and one payer
has two tabs; one fault may hit each call, as a failure, a lost answer or an unnoticed FAILED. In `dashboard`
one mandate belongs to one of the two wallets: a list that shows it to the other is wrong,
and two loads are an old and a new connection, or a retry. In `console` two sessions of two
wallets are the cookie before and after; a fresh token is always the first that is left,
since nothing but its novelty matters, and further tabs would only do what `Elsewhere`
does.

`TypeOK` of every module but `MerchantConsole`, and `PeriodBooks`, `ReceiptsWithinTerms`,
`CompletedAtLimit`, `RefundsBounded`, `HistoryIsFinal`, `TerminalIsFinal` and
`QuietAfterTheEnd` are proved for every instance (see Proofs) and not run again.

**Fairness** (`FairSpec`). Pipeline and delivery: weak fairness of each scheduler tick and
of the clock (interval timers), of each worker (every await returns: RPC calls and the
polling window end), and of a row growing stale when no run has it in hand (time passes).
Indexer: of every tick (an interval timer; each await ends or throws). Requests: of the
server's steps of a request that has arrived, not of clients. Checkout: of the calls a
page has begun. Dashboard: of the answers to what is in flight. Merchant's dashboard: of
the API and of the wallet, which at least declines; not of the merchant. Nothing is assumed of the
ledger, the payer, the merchant or the faults; a bounded number of faults is the
assumption that they do not go on for ever. `NeverStranded` takes the payer's retry as one
of the page's steps: it says that a payer who tries again arrives.

### Divergences the runs show

* `pipeline_guess`: a submission misses the polling window and the row goes from
  `submitted` to `retryable_failed`; the transaction is included after that and the money
  moves. The retry comes when the signature has run out and stops there
  (`pipeline.ts:255-260`), so the merchant receives `payment.failed`
  (`MERCHANT_AUTHORIZATION_EXPIRED`) for a charge that was made, and no `Payment` row is
  written. `scheduler.ts:19-21` says that the outcome of a `submitted` row "must be
  reconciled, never guessed".
* `webhook_swallowed`: the retry of a webhook is not enqueued while its first job is among
  the thousand finished jobs the queue keeps.

Each is quoted with its lines under "findings" in `PROJECT.json`.

### Observations

Facts met while modelling; where they concern what is modelled the models behave the same
way, and properties that would be false because of one name it as their exception.

**Relayer**

* A retry of a signed request cannot succeed: the signature lives 720 ledgers, about an
  hour (`charges.ts:28-29,126-129`), the first retry comes after six
  (`retry-schedule.ts`).
* Two charges of one mandate that read the same count before they charge lose
  `mandate.completed` (`pipeline.ts:407-409`).
* A claim does not look at `nextAttemptAt`, and a tick enqueues from a list it read
  earlier (`scheduler.ts:48-59`): a retry may run before its time.
* The recovery writes `simulated -> retryable_failed` (`scheduler.ts:28`), an edge the
  transition table of `state-machine.ts` does not have.
* A run that dies between claim and verdict leaves its webhook row `delivering`, and no
  step takes it back (`webhook-scheduler.ts:15`).
* After a lost lock an old attempt number may be written again
  (`webhook-delivery.ts:108`), and an event POSTed more often than the schedule has
  attempts; `SixAttempts` is therefore about behaviours without faults.
* A DNS failure, however short, ends an event at the attempt it hits, the first included:
  the address check throws for it what it throws for an unsafe address
  (`packages/shared/src/webhook-url-guard.ts:189-196`), and `webhook-http.ts:69-70` reports
  either as `ssrf_blocked`, which is permanent. `docs/merchant-api.md:766` and the table in
  `webhook-classify.ts:19` both call a DNS error retryable. `Send` has this path (`fate` is
  `"unresolved"`), and `OutcomeIsReal` names it as the one way in which an event that the
  merchant might have taken is given up early; without that disjunct it would be false.
* A test event is POSTed to the merchant's registered URL (`webhook-delivery.ts:175`), not
  to the candidate URL of the request; a row whose merchant has no secret is
  dead-lettered, not skipped (`webhook-endpoints.ts:162-170`).

**Indexer**

* `lastLedger` moves only with events, so a stream that is quiet for longer than the
  retention looks like a gap and stops the indexer until an operator resets the cursor
  (`indexer.ts:129`).
* When a full page ends inside a ledger, the check against `lastLedger + 1` is one ledger
  too late for the rest of it (`SplitByAPage`).
* Replaying part of a ledger puts a row back to an earlier event of the same ledger until
  the rest is applied (`mandate-index-sync.ts:133`, `<=`); the comment in lines 28-30
  calls the replay a safe no-op.
* `GET /mandates/:id` writes a status it read earlier, without the ledger guard
  (`mandates.ts:127-149`), so the status may be older than `lastIndexedLedger` says.
* Events of a merchant that is not registered yet are skipped for good.

**API**

* The idempotency hash covers the body and not the route or target: one key used for
  another mandate with the same body replays the first answer. The web client and the SDK
  draw a fresh key per call, so their users' repetitions are new requests.
* A refund request is compared with confirmed refunds only (`payments.ts:170-175`), and no
  relayer step submits it.
* Two rotations admitted with one key leave two active successors, a rotation admitted
  before its key's `DELETE` still issues a successor, and two keys can delete each other;
  `api-key.ts:155` says there are never "zero or two active keys". A rotation whose answer
  is lost leaves no known key.
* A product's period cap below one charge, or an amount beyond i128, is accepted and
  refused only when the payer signs; integers beyond int4 fail at the insert; the form
  does not check the description's length.

**Web**

* "No money can move until you finish this step" (`checkout-flow.tsx:228`) is untrue with
  an earlier allowance, or when only the approval's answer was lost.
* `signAndSend` resolves for a transaction that was included with status FAILED, and the
  results of `approve` (`lib/chain-gateway.ts:78`, `mandate-gateway.ts:130`) and of pause,
  resume and revoke (`mandate-gateway.ts:66-96` over `packages/stellar/src/submit.ts:38-43`)
  are not inspected. So a checkout goes on to its confirmation without an allowance (also
  the confirmation that `NeverStranded` promises), the dialog says "cancelled" of a mandate
  that still stands, or "complete" with the allowance in place, and the dashboard reports
  a pause done that was none, until the card is read again. `CheckoutFlow` and
  `PayerDashboard` have these steps (`IncludedAsFailed`); `ScreensTellTheTruth` names them
  as its exception, and `CardKeepsUp` holds through them, since the card is read again.
* A lost answer of `create_mandate`, or a reload, leads to a second mandate. `linkWarning`
  stays after a link that failed first (`checkout-state.ts:82-88`).
* Two payers of one session: the last link wins (`checkout-sessions.ts:254`). A later
  checkout replaces the allowance that an earlier mandate of the same payer still needs.
* A lost answer of `revoke_mandate` makes each further try end in `MandateRevoked`, and
  the payer does not get to the allowance step.
* A mandate that outlasts the network's longest approval (about a year) outlives its
  allowance (`token.ts:85-103`).
* Dashboard: of two reads in flight the older answer may win; answers for a wallet that
  has gone are shown to the next one; a card whose read failed vanishes from every list
  without a retry; a payer without mandates cannot reach the settings, and so cannot
  disconnect (`dashboard-shell.tsx:265-318`); dialog and action states survive a
  disconnect.
* Merchant's dashboard: a stale page creates products, keys and endpoints for whoever is
  signed in now; the page after it shows so. A session that ended while its cookie is
  there, or one without a profile, gets the framework's error page everywhere but on
  `/merchant/connect` (no `error.tsx` under `app/merchant`). So does a revocation the API
  refuses, although `merchant-actions.ts:8-11` says every action returns its error.
* The profile form shows the address that signed (`merchant-auth-panel.tsx:94`) and
  registers the wallet of the cookie at the moment it is submitted
  (`merchant-actions.ts:108`), which another tab may have replaced.
* The answer to a sign-out clears whatever session is in the cookie by then; a failed
  logout call is swallowed (`merchant-actions.ts:124`), and its session lives on for its
  day. `merchantFetch` declares a JSON body for the logout and for the deletion of a key,
  which have none (`merchant-api.ts:47`); whether the server's framework accepts that is
  outside this repository, and the model lets both succeed and be refused.
* A key or webhook secret whose answer is lost, or whose page cannot be rendered again, is
  never shown. A refund or link whose answer is an error after the row was written is shown
  as refused, and trying again draws a fresh idempotency key (`merchant-api.ts:310`, `476`).

## Proofs

TLAPS proves, for all values of the constants that satisfy the named assumptions of the
modules, every invariant and action property the passing runs check and both refinements:

| module | invariants of `Spec` | action properties, refinements |
|---|---|---|
| `MandateRegistryProofs` | `TypeOK`, `PeriodBooks`, `PeriodCapRespected`, `ReceiptsWithinTerms`, `BooksAgree`, `ChargesSpaced`, `CompletedAtLimit`, `RefundsBounded`, `TotalsMatchReceipts`, `ExposureCoversCollection`, `PrecheckAgrees`, `DashboardIsRight`, `ProductsAreSignable` | `HistoryIsFinal`, `ImplementsAuthority` |
| `ChargePipelineProofs` | `TypeOK`, `SingleSubmitter`, `OneStory`, `PaymentsAreReal`, `CompletionIsTrue` | `TerminalIsFinal` |
| `WebhookDeliveryProofs` | `TypeOK`, `OneSender`, `OutcomeIsReal`, `SixAttempts` | `QuietAfterTheEnd` |
| `EventIndexerProofs` | `TypeOK`, `AnnouncedOnce`, `IndexNotBehind`, `NothingSkipped` | |
| `MerchantRequestsProofs` | `TypeOK`, `OneEffectPerKey`, `CompletionsAgree`, `OneSessionPerChallenge`, `NeverWithoutAKey` | `ImplementsPromise` |
| `CheckoutFlowProofs` | `TypeOK`, `ScreensTellTheTruth`, `SessionNamesItsPayer`, `ResetBeforeRaise`, `NoNeedlessMandate` | |
| `PayerDashboardProofs` | `TypeOK`, `CardKeepsUp`, `OneWalletAtATime` | |
| `MerchantConsoleProofs` | `TypeOK`, `OneMerchantPerPage`, `OnlyOwnRows` | |

**The contract.** `PeriodCapRespected` is not inductive: the cap is compared
with the stored sum of the stored period, so a step can only be shown safe when these are
known to describe the period of `now`. `PeriodBooks` says so: the stored boundary is the
one of the last charge, the stored sum is what that period collected, and nothing was
collected after it. Its step rests on arithmetic lemmas about `PeriodStart` (boundaries do
not decrease with time, equal boundaries are one period). `ChargesSpaced` and
`HistoryIsFinal` use `PeriodBooks` too (no receipt is later than the last charge);
`BooksAgree` needs finite sets of receipts, which follows from its own counter. The
refinement uses all of them: a charge is a `Pull` because the replay guard agrees with the
receipts and the count is below the limit, a step of the clock is the `End` of those
mandates that it carries past their expiry.

**Sums.** `TotalsMatchReceipts` compares totals with folds over sets of receipts. The
library's induction theorems take an operator as a parameter, so they cannot be used;
`SetInduction` is proved instead from the well-foundedness of the naturals, for a set of
naturals rather than a predicate; the set is that of the sizes for which the claim holds.
With it the sum of a finite set exists and is unique, and grows by what a new element
brings (`AmountSumAdd`), which is what a charge and a refund do.

**Exposure.** The maximum exposure counts periods until expiry. `ExposureInv` adds to the
contract's books that what was collected in all is at most one charge's limit for each
charge, and at most `j` caps and the sum of the stored period, where `j` periods have gone
by before that one; its boundary lies before the expiry, so `j` is less than the number
shown.

**The programs that mirror the contract.** `PrecheckAgrees` compares the first check that
fires on either side, step by step, given the books. For `DashboardIsRight` the search for
the next charge date is followed to its end: it starts at an instant that is not too early,
and a candidate it turns away for the cap is followed by one at the start of the next
period, where the cap is free again, so it stops within two periods. `ProductsAreSignable`
is the round trip of an amount through form, row, response and terms.

**The pipeline.** `SingleSubmitter` speaks of the steps runs are at, and
transitions look only at the row; the link is `Belief`, what a run takes its row's status
to be at each of its steps. With it a run submits exactly when it believes `submitted`
(`OneBeliever`), a guarded transition by any other run leaves a submitted row alone, and
`Recover` never touches one; `SubmitInv` is inductive. No run believes a terminal status,
so every step either ends no request (`NoVerdict`) or is one run's `Decides`, which turns
`OneStory` and `TerminalIsFinal` into one lemma per kind of step. `PaymentsAreReal` rests
on `PaymentInv`: what a run saw of its transaction stays so (`Watches`), and two
transactions of a request cannot both have succeeded, because the first one consumed its
signature and its charge id. For `CompletionIsTrue`, `CountInv` says that the count a run has read, with its
own charge if that was included, is never more than the contract's; the contract's never
passes the limit, so a run that would announce the completion has made the last charge
there can be, and no other run has. All of it needs that queue, ticks and runs only refer
to requests that have a row (`Existing`).

**Webhook delivery.** A row that is `delivering` satisfies no claim's guard,
and only the run that claimed it takes it out of that status, so `OneSender` is inductive
on its own. What is written is true because of `Evidence`: what a claimed run knows of its
attempt (`RunEvidence`) is what the merchant's server made of it, or why it was not asked,
and no other run can change that, and what a row says (`RowEvidence`) was known to the run that wrote it. Steps
are sorted by their effect (`Outside`, `Harmless`, `Claims`, `Advances`, `Settles`), with
one lemma for each. Silence after an acknowledgement follows: such a row is `delivering`
or `delivered`, and the run that could POST has not been answered yet. `SixAttempts` holds
while there has been no fault, where `Orderly` is inductive: each run holds the lock of its
job and is alone on it (`Lone`), so the attempt number it read is still its row's when it
claims, and the row counts its POSTs (`Counting`).

**The indexer.** A cursor is `WellPlaced`: the events behind its place that are of its
ledger or an earlier one are of the ledger of the event at its place. A lenient response
that leaves pruned events out passes the retention check only if those are of no later
ledger than that, so they are the rest of a ledger that a page had split, the one exception
`NothingSkipped` makes. Every event between the place a tick asked for and the one it has
reached was taken care of (`RunInv`, `Taken`), and stays so: `AnnouncedInv` says that no
row goes back to a ledger before one that was announced. A cursor that wins its
compare-and-swap extends what the old one vouched for.

**Logins, keys, idempotent writes.** The three touch disjoint tables, so `Inv` is the
conjunction of three invariants that are inductive on their own. `LoginInv`: what a request
has read of its challenge, and that a session's challenge is used. `KeyInv`: the successor
of a rotation is a fresh row, and what admitted a rotation could manage keys; so of the
keys of a merchant who deleted none, one works and manages (`Kept`). `RequestInv`: who is
past its insert of a key is the one that holds it, and the key is not stored yet
(`Holding`); what is stored names the one row it was stored with (`Stored`); an answer names
a row that exists. In the refinement of `OncePerKey` a `Commit` is `Execute`, a `Lookup`
that answers is `Replay` or `Refuse`, and what is answered before the insert is `Reject`.

**Checkout and dialog.** A page keeps its payer until it is loaded again, so only a payer's
own pages raise that payer's allowance: `ResetBeforeRaise` is inductive with it. The mandates
of a tab are numbered as they are created (`Numbered`), so a new one is no other's; a page
without a mandate has created no more of them than answers were lost and pages reloaded,
one that has a mandate one more. A page past its approval has `Passed` it and a dialog past the revocation calls
its mandate `Gone`: the chain says so, or `unread` has the FAILED transaction that was taken
for it. That a mandate has its payer, was funded, is linked or revoked, or has such an entry
is never taken back, so a screen that was true stays true.

**The dashboard.** For a mandate that was never read twice at once, `CardInv` says that at
most one read of it is in flight, and that card and answer are not older than the last
success that was reported; an action that succeeds begins a new read before the card can
change, and the chain's version only grows; an action included as FAILED begins that read too. `LoadsInv` says that a wallet which connected
while nothing was under way is the one every load works for.

**The merchant's dashboard.** `OneMerchantPerPage` is not inductive: it does not say whose
the lists are. `PageInv` does: all that is on a page is of the wallet of the token it was
rendered with, and a session never changes its wallet; a page that asks for a sign-in or a
name shows nothing of any merchant, whatever its token. A page with an action under way has
loaded and stays the same (`CallInv`), so an answer that renders it again finds lists of
one merchant; a revocation leaves the secret on show where it is, which is right because
the key it names was on the page and was found for the session, so both are the same
merchant. `RowInv` keeps pages about a row apart from those that are rendered again.

**Assumptions.** The named `ASSUME`s of the modules: the types of the constants, that
`None` is none of the values it stands beside, that pages, retention, buffers and a total
are not zero, that ids are fresh (`AccessAssumption`: a key's id is not that of another)
and that the cap in a merchant's terms is an `i128` (`InputAssumption`). TLC evaluates each of them in the runs.

**Only model-checked.** Liveness, which needs fairness and `ENABLED`:
`EveryRequestSettles`, `FirstAttemptHappens`, `EveryEventHandled`, `EveryRequestAnswered`,
`NeverStranded`, `EverythingLoads`, `NothingHangs`. The two statements that the code does
not meet are refuted by TLC.

## Not modelled

Pages that only show what they are given (the landing page), what the merchant's lists say,
configuration, logging and metrics, deployment scripts; encryption, signatures and hashes,
which are stateless; the wallet adapter and Next.js, which are not this project's code.
Hash collisions of ids and storage archival on the ledger. Read endpoints that change
nothing. Details per component are in `PROJECT.json`.

## Plan

1. *Done*: the contract with its views, the two relayer pipelines, the indexer, the API's
   concurrent writes, checkout and the two dashboards, with every safety property proved.
2. A composition of the pipeline with the contract's own `Charge` in place of its
   `Verdict`, and the proof that the `Verdict` abstracts it.
3. Stability of what the index says: that a row which stands for the chain's last event of
   its mandate has the chain's status, under the conditions where that is so.
