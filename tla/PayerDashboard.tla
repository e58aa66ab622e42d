--------------------------- MODULE PayerDashboard ---------------------------
(***************************************************************************)
(* The payer's dashboard (apps/web/src/components/dashboard/dashboard-     *)
(* shell.tsx) between the API it discovers mandates and payments with      *)
(* (lib/dashboard-api.ts, apps/api/src/routes/consumer.ts) and the chain   *)
(* it reads and changes them on (lib/mandate-gateway.ts).  Every await is  *)
(* a step that ends when it likes, and a callback that was begun for one   *)
(* wallet goes on after another has connected.                             *)
(*                                                                         *)
(* A mandate is its status and how often it changed.  The tabs are one     *)
(* page; the steps inside the cancel dialog after the revocation are those *)
(* of CheckoutFlow.  A wallet that refuses to connect changes nothing.     *)
(***************************************************************************)
EXTENDS Integers, FiniteSets

CONSTANTS
  Payer,
  Mandate,
  PayerOf,      \* [Mandate -> Payer]
  Load,         \* calls of loadDiscoveryAndHistory, bounds their number
  MaxChanges,   \* bound on how often a mandate changes
  MaxFailures,  \* bound on failed and lost calls
  None

ASSUME DashboardAssumption ==
  /\ PayerOf \in [Mandate -> Payer]
  /\ MaxChanges \in Nat /\ MaxFailures \in Nat
  /\ None \notin Payer \cup Mandate \cup Load

Action == {"pause", "resume", "revoke"}

\* MandateStatus, and how often it changed.
Mandates == [status : {"Active", "Paused", "Ended"}, version : 0 .. MaxChanges]

\* A read is begun by a load or by an action, and never by what is both.
ASSUME NamesAssumption == None \notin Mandates /\ Load \cap Action = {}

VARIABLES
  chain,      \* per mandate: [status, version]
  address,    \* the connected wallet
  discovery,  \* [status, ids]: the answer of /v1/consumer/mandates
  history,    \* [status, of]: the answer of /v1/consumer/payments
  live,       \* per mandate: [status, seen], what getMandate answered
  acting,     \* actionStates: the action pending, "error", or None
  dialog,     \* the cancel dialog: [mandate, phase], or None
  loads,      \* per load: [pc, payer]
  reads,      \* refreshMandate calls in flight: [mandate, by, answer]
  runs,       \* signed actions in flight: [mandate, action, signer]
  failures,
  (* What the properties remember *)
  confirmed,  \* version a mandate had when its last action was reported done
  overlap,    \* mandates of which two reads have been in flight at once
  clean       \* nothing was in flight when the wallet connected

pageVars == <<address, discovery, history, live, acting, dialog>>
callVars == <<loads, reads, runs>>
memory == <<confirmed, overlap, clean>>
vars == <<chain, pageVars, callVars, failures, memory>>

Idle == [status |-> "idle", ids |-> {}]
Absent == [status |-> "absent", seen |-> None]

Init ==
  /\ chain \in [Mandate -> [status : {"Active", "Paused"}, version : {0}]]
  /\ address = None
  /\ discovery = Idle
  /\ history = [status |-> "idle", of |-> None]
  /\ live = [m \in Mandate |-> Absent]
  /\ acting = [m \in Mandate |-> None]
  /\ dialog = None
  /\ loads = [l \in Load |-> [pc |-> "new", payer |-> None]]
  /\ reads = {} /\ runs = {}
  /\ failures = 0
  /\ confirmed = [m \in Mandate |-> 0]
  /\ overlap = {} /\ clean = TRUE

Fail == failures < MaxFailures /\ failures' = failures + 1

-----------------------------------------------------------------------------
(* The chain                                                               *)

\* pause, resume and revoke of lifecycle.rs; each requires the payer's
\* authorization, so that a transaction another wallet signed is refused.
After(m, action) ==
  CASE action = "pause"  /\ chain[m].status = "Active" -> "Paused"
    [] action = "resume" /\ chain[m].status = "Paused" -> "Active"
    [] action = "revoke" /\ chain[m].status \in {"Active", "Paused"} -> "Ended"
    [] OTHER -> None

Accepted(r) == r.signer = PayerOf[r.mandate] /\ After(r.mandate, r.action) # None

Change(m, status) ==
  /\ chain[m].version < MaxChanges
  /\ chain' = [chain EXCEPT ![m] =
                 [status |-> status, version |-> chain[m].version + 1]]

\* What the payer signs in another window, and what lands after the page has
\* given it up; that a charge completes a mandate, or that it expires, is as
\* if it was revoked.
ChangesElsewhere(m) ==
  /\ \E action \in Action :
       After(m, action) # None /\ Change(m, After(m, action))
  /\ UNCHANGED <<pageVars, callVars, failures, memory>>

-----------------------------------------------------------------------------
(* refreshMandate                                                          *)

\* Begins a read of each of the mandates ms.
Refresh(ms, by) ==
  /\ live' = [m \in Mandate |->
       IF m \in ms THEN [status |-> "loading", seen |-> None] ELSE live[m]]
  /\ reads' = reads \cup {[mandate |-> m, by |-> by, answer |-> None] : m \in ms}
  /\ overlap' = overlap \cup {m \in ms : \E r \in reads : r.mandate = m}

\* The catch of refreshMandate; the mutant has none.
ReadFailed_Silent(m) == live[m]
ReadFailed(m) == [status |-> "error", seen |-> None]

\* The node serves a read when it likes; the answer travels.
ServeRead(m, by) ==
  \E r \in reads :
    /\ r.mandate = m /\ r.by = by /\ r.answer = None
    /\ \E answer \in {[status |-> "success", seen |-> chain[m]], ReadFailed(m)} :
         /\ reads' = (reads \ {r}) \cup {[r EXCEPT !.answer = answer]}
         /\ IF answer.status = "success" THEN UNCHANGED failures ELSE Fail
    /\ UNCHANGED <<chain, pageVars, loads, runs, memory>>

\* Whatever else was asked since: the answer is put under the mandate's id.
DeliverRead(m, by) ==
  \E r \in reads :
    /\ r.mandate = m /\ r.by = by /\ r.answer # None
    /\ reads' = reads \ {r}
    /\ live' = [live EXCEPT ![m] = r.answer]
    /\ UNCHANGED <<chain, address, discovery, history, acting, dialog, loads,
                   runs, failures, memory>>

-----------------------------------------------------------------------------
(* Connecting and loading                                                  *)

\* While it has no summary of its mandate the dialog is not on the page, and
\* it comes back at its first question.
Restarted == IF dialog = None THEN None ELSE [dialog EXCEPT !.phase = "confirming"]

\* The calls have no names in the code: which one is next is no choice.
Unused == CHOOSE l \in Load : loads[l].pc = "new"

\* loadDiscoveryAndHistory(payer)
BeginLoad(payer) ==
  \E l \in Load :
    /\ loads[l].pc = "new" /\ l = Unused
    /\ loads' = [loads EXCEPT ![l] = [pc |-> "mandates", payer |-> payer]]
    /\ discovery' = [status |-> "loading", ids |-> {}]
    /\ history' = [status |-> "loading", of |-> None]
    /\ dialog' = Restarted

Connect(p) ==
  /\ address = None
  /\ address' = p
  /\ BeginLoad(p)
  /\ clean' = (reads = {} /\ \A l \in Load : loads[l].pc \in {"new", "done"})
  /\ UNCHANGED <<chain, live, acting, reads, runs, failures, confirmed, overlap>>

\* The API's answer: WHERE payerAddress = ...; the mutant has lost the WHERE.
Discovered_Everyone(p) == Mandate
Discovered(p) == {m \in Mandate : PayerOf[m] = p}

LoadMandates(l) ==
  /\ loads[l].pc = "mandates"
  /\ \/ /\ discovery' = [status |-> "success", ids |-> Discovered(loads[l].payer)]
        /\ Refresh(Discovered(loads[l].payer), l)
        /\ loads' = [loads EXCEPT ![l].pc = "refresh"]
        /\ UNCHANGED <<dialog, failures>>
     \/ /\ Fail
        /\ discovery' = [status |-> "error", ids |-> {}]
        /\ loads' = [loads EXCEPT ![l].pc = "history"]
        /\ dialog' = Restarted
        /\ UNCHANGED <<live, reads, overlap>>
  /\ UNCHANGED <<chain, address, history, acting, runs, confirmed, clean>>

\* Promise.all
AllRefreshed(l) ==
  /\ loads[l].pc = "refresh"
  /\ \A r \in reads : r.by # l
  /\ loads' = [loads EXCEPT ![l].pc = "history"]
  /\ UNCHANGED <<chain, pageVars, reads, runs, failures, memory>>

LoadHistory(l) ==
  /\ loads[l].pc = "history"
  /\ loads' = [loads EXCEPT ![l].pc = "done"]
  /\ \/ /\ history' = [status |-> "success", of |-> loads[l].payer]
        /\ UNCHANGED failures
     \/ /\ history' = [status |-> "error", of |-> None]
        /\ Fail
  /\ UNCHANGED <<chain, address, discovery, live, acting, dialog, reads, runs, memory>>

-----------------------------------------------------------------------------
(* The page                                                                *)

DialogShown == dialog # None /\ dialog.mandate \in discovery.ids

\* The page as it answers to the payer: nothing else does beside the dialog.
Usable == address # None /\ ~DialogShown

\* One read under way and every list is a skeleton.
Cards ==
  IF \E m \in discovery.ids : live[m].status = "loading" THEN {}
  ELSE {m \in discovery.ids : live[m].status = "success"}

\* deriveControlAvailability
Offered(m, action) ==
  /\ m \in Cards
  /\ CASE action = "pause"  -> live[m].seen.status = "Active"
       [] action = "resume" -> live[m].seen.status = "Paused"
       [] action = "revoke" -> live[m].seen.status \in {"Active", "Paused"}

\* An error offers to load everything again.
Retry ==
  /\ Usable
  /\ \/ discovery.status = "error"
     \/ history.status = "error" /\ discovery # [status |-> "success", ids |-> {}]
  /\ BeginLoad(address)
  /\ UNCHANGED <<chain, address, live, acting, reads, runs, failures, memory>>

\* The settings, which a payer without mandates does not get to see.
Disconnect ==
  /\ Usable
  /\ discovery # [status |-> "success", ids |-> {}]
  /\ address' = None
  /\ discovery' = Idle
  /\ live' = [m \in Mandate |-> Absent]
  /\ history' = [status |-> "idle", of |-> None]
  /\ dialog' = Restarted
  /\ UNCHANGED <<chain, acting, callVars, failures, memory>>

\* runAction's first half.
Act(m, action) ==
  /\ Usable
  /\ action # "revoke" /\ Offered(m, action) /\ acting[m] # action
  /\ acting' = [acting EXCEPT ![m] = action]
  /\ runs' = runs \cup {[ mandate |-> m, action |-> action,
                          signer |-> address ]}
  /\ UNCHANGED <<chain, address, discovery, history, live, dialog, loads, reads,
                 failures, memory>>

OpenDialog(m) ==
  /\ Usable
  /\ Offered(m, "revoke")
  /\ dialog' = [mandate |-> m, phase |-> "confirming"]
  /\ UNCHANGED <<chain, address, discovery, history, live, acting, callVars,
                 failures, memory>>

ConfirmRevoke ==
  /\ DialogShown /\ dialog.phase \in {"confirming", "revoke-error"}
  /\ dialog' = [dialog EXCEPT !.phase = "revoking"]
  /\ runs' = runs \cup {[ mandate |-> dialog.mandate, action |-> "revoke",
                          signer |-> address ]}
  /\ UNCHANGED <<chain, address, discovery, history, live, acting, loads, reads,
                 failures, memory>>

CloseDialog ==
  /\ DialogShown /\ dialog.phase # "revoking"
  /\ dialog' = None
  /\ UNCHANGED <<chain, address, discovery, history, live, acting, callVars,
                 failures, memory>>

-----------------------------------------------------------------------------
(* What a signed action comes back with                                    *)

\* Pause and resume leave their result on the card; a revocation, in the
\* dialog, if it is still at it.
Report(r, result) ==
  IF r.action = "revoke"
  THEN /\ dialog' = IF dialog = [mandate |-> r.mandate, phase |-> "revoking"]
                    THEN [dialog EXCEPT !.phase = result] ELSE dialog
       /\ UNCHANGED acting
  ELSE /\ acting' = [acting EXCEPT ![r.mandate] =
                       IF result = "revoke-error" THEN "error" ELSE None]
       /\ UNCHANGED dialog

\* onRevoked, and runAction's finally; the mutant has the refresh in its
\* catch, "alongside the error".
RefreshAfter_Error(r, result) == result = "revoke-error" /\ r.action # "revoke"
RefreshAfter(r, result) == result = "revoked" \/ r.action # "revoke"

Return(r, result) ==
  /\ Report(r, result)
  /\ IF RefreshAfter(r, result) THEN Refresh({r.mandate}, r.action)
     ELSE UNCHANGED <<live, reads, overlap>>
  /\ UNCHANGED <<address, discovery, history, loads, clean>>

Succeeds(r) ==
  /\ Accepted(r)
  /\ Change(r.mandate, After(r.mandate, r.action))
  /\ confirmed' = [confirmed EXCEPT ![r.mandate] = chain[r.mandate].version + 1]
  /\ Return(r, "revoked")
  /\ UNCHANGED failures

\* What the simulation let through executes otherwise, and is included with
\* status FAILED, only if the mandate has changed.  signAndSend resolves and
\* nobody looks at its result: it is reported done and has changed nothing.
IncludedAsFailed(r) ==
  /\ Fail
  /\ r.signer = PayerOf[r.mandate] /\ chain[r.mandate].version > 0
  /\ confirmed' = [confirmed EXCEPT ![r.mandate] = chain[r.mandate].version]
  /\ Return(r, "revoked")
  /\ UNCHANGED chain

\* The simulation finds that the contract refuses; at the bound, nothing
\* changes any more.
Refused(r) ==
  /\ ~Accepted(r) \/ chain[r.mandate].version = MaxChanges
  /\ Return(r, "revoke-error")
  /\ UNCHANGED <<chain, confirmed, failures>>

\* The wallet or the network fails, before the transaction has taken effect
\* or after.
Fails(r) ==
  /\ Fail
  /\ \/ UNCHANGED chain
     \/ Accepted(r) /\ Change(r.mandate, After(r.mandate, r.action))
  /\ Return(r, "revoke-error")
  /\ UNCHANGED confirmed

Answer(m, action) ==
  \E r \in runs :
    /\ r.mandate = m /\ r.action = action
    /\ runs' = runs \ {r}
    /\ Succeeds(r) \/ IncludedAsFailed(r) \/ Refused(r) \/ Fails(r)

-----------------------------------------------------------------------------
LoadStep(l) == LoadMandates(l) \/ AllRefreshed(l) \/ LoadHistory(l)
ReadStep(m, by) == ServeRead(m, by) \/ DeliverRead(m, by)

Next ==
  \/ \E p \in Payer : Connect(p)
  \/ Retry \/ Disconnect \/ ConfirmRevoke \/ CloseDialog
  \/ \E l \in Load : LoadStep(l)
  \/ \E m \in Mandate :
       \/ ChangesElsewhere(m) \/ OpenDialog(m)
       \/ \E action \in Action : Act(m, action) \/ Answer(m, action)
       \/ \E by \in Load \cup Action : ReadStep(m, by)

Spec == Init /\ [][Next]_vars

\* Calls come back, with an answer or with an error; the payer need not act.
Fairness ==
  /\ \A l \in Load : WF_vars(LoadStep(l))
  /\ \A m \in Mandate :
       /\ \A action \in Action : WF_vars(Answer(m, action))
       /\ \A by \in Load \cup Action : WF_vars(ReadStep(m, by))

FairSpec == Spec /\ Fairness

-----------------------------------------------------------------------------
(* Properties.                                                             *)

(***************************************************************************)
(* A card carries an answer exactly when it says so, a skeleton is waiting *)
(* for a read, and a load waits only for reads of its own payer's.         *)
(***************************************************************************)
TypeOK ==
  /\ chain \in [Mandate -> Mandates]
  /\ address \in Payer \cup {None}
  /\ discovery \in [ status : {"idle", "loading", "success", "error"},
                     ids : SUBSET Mandate ]
  /\ history.status \in {"idle", "loading", "success", "error"}
  /\ history.of \in Payer \cup {None}
  /\ \A m \in Mandate :
       /\ live[m].seen \in Mandates \cup {None}
       /\ live[m].status = "success" <=> live[m].seen # None
       /\ live[m].status = "loading" => \E r \in reads : r.mandate = m
       /\ acting[m] \in {"pause", "resume", "error", None}
  /\ \A r \in reads :
       r.by \in Load => /\ loads[r.by].pc = "refresh"
                        /\ loads[r.by].payer = PayerOf[r.mandate]
  /\ dialog # None =>
       dialog.phase \in {"confirming", "revoking", "revoke-error", "revoked"}

(***************************************************************************)
(* A card whose mandate was never read twice at once is at least as new as *)
(* the chain was when a pause, resume or revocation was last reported      *)
(* done: "so the card's controls re-derive correctly rather than staying   *)
(* stale" (dashboard-shell.tsx).  So an action that was included as FAILED *)
(* and reported done is on the card for what it was.  Of two reads in      *)
(* flight the older may come last.                                         *)
(***************************************************************************)
CardKeepsUp ==
  \A m \in Mandate \ overlap :
    live[m].status = "success" => live[m].seen.version >= confirmed[m]

(***************************************************************************)
(* "Shown on this page ... for this wallet address" (settings-panel.tsx):  *)
(* what a connected payer sees is theirs, provided that no load or read of *)
(* an earlier connection was under way when they connected.                *)
(***************************************************************************)
OneWalletAtATime ==
  clean /\ address # None =>
    /\ \A m \in discovery.ids : PayerOf[m] = address
    /\ history.of \in {address, None}

(***************************************************************************)
(* Nothing spins for ever: a skeleton gives way to a card or an error, a   *)
(* button that says "Pausing" comes back, and so does the dialog - after   *)
(* failures, lost answers and changes of the wallet as well.               *)
(***************************************************************************)
EverythingLoads ==
  /\ (discovery.status = "loading") ~> (discovery.status # "loading")
  /\ (history.status = "loading") ~> (history.status # "loading")
  /\ \A m \in Mandate :
       /\ (live[m].status = "loading") ~> (live[m].status # "loading")
       /\ (acting[m] \in Action) ~> (acting[m] \notin Action)
  /\ (dialog # None /\ dialog.phase = "revoking") ~>
       (dialog = None \/ dialog.phase # "revoking")
=============================================================================
