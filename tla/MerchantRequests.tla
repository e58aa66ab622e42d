-------------------------- MODULE MerchantRequests --------------------------
(***************************************************************************)
(* The API's three idempotent writes - POST /mandates/:id/charge-          *)
(* authorizations, POST /payments/:id/refunds and POST /checkout-sessions  *)
(* - as a merchant's clients use them: requests that are sent again when   *)
(* no answer came, and that overlap.  runIdempotent puts the insert of the *)
(* key, the write and the stored answer into one transaction; a second     *)
(* insert of the key waits for the first transaction to end.  A charge is  *)
(* made of two calls (StellarMandates.charges.create): the authorization   *)
(* that was answered is signed and completed, which creates the charge     *)
(* request that the relayer collects.                                      *)
(*                                                                         *)
(* Whether an answer reaches the client is not modelled: a client without  *)
(* one may send its request again, and that is what other attempts of the  *)
(* same call are.  A row that an attempt writes is named after it.         *)
(***************************************************************************)
EXTENDS MerchantAccess

CONSTANTS
  Attempt,
  Call  \* [merchant, key, op, target, body]

Op == {"authorization", "refund", "checkout_session"}

\* Of a ChargeAuthorization, a RefundRequest or a CheckoutSession.
RowStatus == {"scheduled", "pending", "ready", "consumed", "expired"}

ASSUME RequestsAssumption ==
  /\ \A call \in Call : call.op \in Op
  /\ None \notin Attempt \cup RowStatus /\ None \notin Call
  /\ None \notin [body : {call.body : call \in Call}, response : Attempt]
  /\ None \notin [by : Attempt, body : {call.body : call \in Call}]

\* @@unique([merchantId, key]); the mutant forgets whose key it is.
Slot_KeyOnly(call) == <<call.key, call.key>>
Slot(call) == <<call.merchant, call.key>>
Slots == {Slot(call) : call \in Call}

VARIABLES
  keys,     \* committed IdempotencyKey rows, by slot
  holder,   \* who has inserted the slot's row and has not committed yet
  effects,  \* status of the row an attempt created; None: there is none
  charges,  \* per authorization: who created its ChargeRequest
  attempt

requestVars == <<keys, holder, effects, charges, attempt>>
vars == <<accessVars, requestVars>>

New == [pc |-> "new", call |-> None, answer |-> None, charge |-> None]

Init ==
  /\ AccessInit
  /\ keys = [s \in Slots |-> None]
  /\ holder = [s \in Slots |-> None]
  /\ effects = [a \in Attempt |-> None]
  /\ charges = [a \in Attempt |-> None]
  /\ attempt = [a \in Attempt |-> New]

SlotOf(a) == Slot(attempt[a].call)
KeyOf(a) == keys[SlotOf(a)]

Answered(a, status, effect) ==
  attempt' = [attempt EXCEPT ![a].pc = "answered",
                ![a].answer = [status |-> status, effect |-> effect]]

\* Authentication, by API key or by session, validation, the chain precheck
\* and the lookup of payment or product all come before the transaction and
\* write nothing; a session may end, or a key be revoked, right after.
Arrive(a, call) ==
  /\ attempt[a].pc = "new"
  /\ \/ /\ \/ \E k \in Key : KeyWorks(k) /\ apiKeys[k].merchant = call.merchant
           \/ \E l \in Login : SpeaksFor(l, call.merchant)
        /\ attempt' = [attempt EXCEPT ![a].pc = "insert", ![a].call = call]
     \/ attempt' = [attempt EXCEPT ![a].pc = "answered", ![a].call = call,
                      ![a].answer = [status |-> "rejected", effect |-> None]]
  /\ UNCHANGED <<accessVars, keys, holder, effects, charges>>

\* INSERT ... ON CONFLICT DO NOTHING waits while another transaction has
\* inserted the same key; the mutant does not.
MustWait_Never(a) == FALSE
MustWait(a) == holder[SlotOf(a)] # None

InsertKey(a) ==
  /\ attempt[a].pc = "insert"
  /\ ~MustWait(a)
  /\ IF KeyOf(a) = None
     THEN /\ holder' = [holder EXCEPT ![SlotOf(a)] = a]
          /\ attempt' = [attempt EXCEPT ![a].pc = "handle"]
     ELSE /\ attempt' = [attempt EXCEPT ![a].pc = "lookup"]
          /\ UNCHANGED holder
  /\ UNCHANGED <<accessVars, keys, effects, charges>>

\* The key was used: compare the bodies, then the stored answer.
Lookup(a) ==
  /\ attempt[a].pc = "lookup"
  /\ CASE KeyOf(a).body # attempt[a].call.body -> Answered(a, "reused", None)
       [] KeyOf(a).body = attempt[a].call.body /\ KeyOf(a).response = None ->
            Answered(a, "processing", None)
       [] OTHER -> Answered(a, "replayed", KeyOf(a).response)
  /\ UNCHANGED <<accessVars, keys, holder, effects, charges>>

\* The caller's write and the stored response, inside the transaction.
Handle(a) ==
  /\ attempt[a].pc = "handle"
  /\ attempt' = [attempt EXCEPT ![a].pc = "commit"]
  /\ UNCHANGED <<accessVars, keys, holder, effects, charges>>

\* The defaults of ChargeAuthorization, RefundRequest and CheckoutSession.
FirstStatus(op) == IF op = "refund" THEN "scheduled" ELSE "pending"

\* What a commit makes visible; the mutant commits the key alone and leaves
\* the answer for later.
CommittedKey_NoResponse(a) == [body |-> attempt[a].call.body, response |-> None]
CommittedKey(a) == [body |-> attempt[a].call.body, response |-> a]

Commit(a) ==
  /\ attempt[a].pc = "commit"
  /\ keys' = [keys EXCEPT ![SlotOf(a)] = CommittedKey(a)]
  /\ effects' = [effects EXCEPT ![a] = FirstStatus(attempt[a].call.op)]
  /\ holder' = [holder EXCEPT ![SlotOf(a)] = None]
  /\ Answered(a, "created", a)
  /\ UNCHANGED <<accessVars, charges>>

\* What a rollback leaves of the key; the mutant keeps it locked.
AfterRollback_Held(a) == holder
AfterRollback(a) ==
  IF holder[SlotOf(a)] = a THEN [holder EXCEPT ![SlotOf(a)] = None] ELSE holder

\* The handler throws, the 15 s timeout passes - waiting for the key counts
\* -, or the process or its connection dies: everything is rolled back.
TransactionFails(a) ==
  /\ attempt[a].pc \in {"insert", "lookup", "handle", "commit"}
  /\ holder' = AfterRollback(a)
  /\ Answered(a, "rejected", None)
  /\ UNCHANGED <<accessVars, keys, effects, charges>>

-----------------------------------------------------------------------------
(* POST /charge-authorizations/:id/complete, by whoever was answered with  *)
(* an authorization                                                        *)

Authorization(a) ==
  IF attempt[a].answer = None THEN None ELSE attempt[a].answer.effect

IsAuthorization(e) == e # None /\ attempt[e].call.op = "authorization"

Completed(a, result) ==
  attempt' = [attempt EXCEPT ![a].pc = "done", ![a].charge = result]

\* A signature that does not match, or too old a one.
ReadAuthorization(a) ==
  LET e == Authorization(a)
  IN  /\ attempt[a].pc = "answered" /\ IsAuthorization(e)
      /\ CASE charges[e] # None -> Completed(a, "charge")
           [] charges[e] = None /\ effects[e] # "pending" ->
                Completed(a, "not_pending")
           [] OTHER -> \/ attempt' = [attempt EXCEPT ![a].pc = "validated"]
                       \/ Completed(a, "invalid")
      /\ UNCHANGED <<accessVars, keys, holder, effects, charges>>

\* The WHERE clause of the updateMany; the mutant names only the id.
StillPending_ById(e) == TRUE
StillPending(e) == effects[e] = "pending"

\* One transaction.  authorizationId is unique: a second ChargeRequest fails
\* it.
CompleteAuthorization(a) ==
  LET e == Authorization(a)
  IN  /\ attempt[a].pc = "validated"
      /\ IF StillPending(e) /\ charges[e] = None
         THEN /\ effects' = [effects EXCEPT ![e] = "ready"]
              /\ charges' = [charges EXCEPT ![e] = a]
              /\ Completed(a, "charge")
         ELSE /\ Completed(a, IF StillPending(e) THEN "error"
                              ELSE IF charges[e] # None THEN "charge" ELSE "used")
              /\ UNCHANGED <<effects, charges>>
      /\ UNCHANGED <<accessVars, keys, holder>>

\* The relayer collects the request, or finds its signature expired.
RelayerSettles(e) ==
  /\ effects[e] = "ready"
  /\ \E status \in {"consumed", "expired"} :
       effects' = [effects EXCEPT ![e] = status]
  /\ UNCHANGED <<accessVars, keys, holder, charges, attempt>>

Step(a) ==
  \/ InsertKey(a) \/ Lookup(a) \/ Handle(a) \/ Commit(a)
  \/ ReadAuthorization(a) \/ CompleteAuthorization(a)

Next ==
  \/ AccessNext /\ UNCHANGED requestVars
  \/ \E a \in Attempt :
       \/ \E call \in Call : Arrive(a, call)
       \/ Step(a) \/ TransactionFails(a) \/ RelayerSettles(a)

Spec == Init /\ [][Next]_vars

\* The server works on what has arrived; nobody has to send anything.
FairSpec == Spec /\ \A a \in Attempt : WF_vars(Step(a))

-----------------------------------------------------------------------------
(* Properties.                                                             *)

(***************************************************************************)
(* The rows of IdempotencyKey, the statuses of the three tables, and what  *)
(* a request can be answered; "processing" is not among it: a committed    *)
(* key always has its answer.                                              *)
(***************************************************************************)
TypeOK ==
  /\ AccessTypeOK
  /\ keys \in [Slots ->
       [body : {call.body : call \in Call}, response : Attempt] \cup {None}]
  /\ holder \in [Slots -> Attempt \cup {None}]
  /\ effects \in [Attempt -> RowStatus \cup {None}]
  /\ charges \in [Attempt -> Attempt \cup {None}]
  /\ \A a \in Attempt :
       /\ attempt[a].pc \in {"new", "insert", "lookup", "handle", "commit",
                             "answered", "validated", "done"}
       /\ attempt[a].call \in Call \cup {None}
       /\ attempt[a].answer \in
            [ status : {"rejected", "reused", "replayed", "created"},
              effect : Attempt \cup {None} ] \cup {None}
       /\ attempt[a].charge \in
            {None, "charge", "invalid", "not_pending", "used", "error"}

(***************************************************************************)
(* "did the side-effecting write happen more than once": whatever overlaps *)
(* and fails, the rows of one merchant and key are one row, and its key is *)
(* stored exactly when it is - never a key without its effect, which would *)
(* swallow the retry, and never an effect without its key, which would     *)
(* repeat it.                                                              *)
(***************************************************************************)
EffectsOf(s) == {a \in Attempt : effects[a] # None /\ SlotOf(a) = s}

OneEffectPerKey ==
  \A s \in Slots :
    EffectsOf(s) = IF keys[s] = None THEN {} ELSE {keys[s].response}

(***************************************************************************)
(* The promise of docs/merchant-api.md, of which every step of the         *)
(* transactions is a step or no step at all.                               *)
(***************************************************************************)
Promise == INSTANCE OncePerKey WITH
  outcome <- [s \in {<<call.merchant, call.key>> : call \in Call} |->
                LET own == IF s \in Slots THEN keys[s] ELSE None
                IN  IF own = None THEN None
                    ELSE [by |-> own.response, body |-> own.body]],
  answer  <- [a \in Attempt |-> attempt[a].answer]

ImplementsPromise == Promise!Spec

(***************************************************************************)
(* An authorization is completed once, however many clients hold it and    *)
(* race, and none of them is turned away for having lost: who presents a   *)
(* valid signature is answered with the one charge request.                *)
(***************************************************************************)
CompletionsAgree ==
  /\ \A e \in Attempt :
       (charges[e] # None) <=> effects[e] \in {"ready", "consumed", "expired"}
  /\ \A a \in Attempt : attempt[a].charge \in {None, "charge", "invalid"}

(***************************************************************************)
(* Nobody waits for ever: a request that has arrived is answered, although *)
(* its key may be held by another whose transaction fails, and although    *)
(* those that wait hold what others wait for.                              *)
(***************************************************************************)
EveryRequestAnswered ==
  \A a \in Attempt :
    (attempt[a].pc = "insert") ~> (attempt[a].answer # None)
=============================================================================
