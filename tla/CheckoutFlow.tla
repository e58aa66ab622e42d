---------------------------- MODULE CheckoutFlow ----------------------------
(***************************************************************************)
(* The payer's browser.  A checkout page (checkout-flow.tsx and the        *)
(* reducer of checkout-state.ts) connects a wallet, has create_mandate     *)
(* signed, brings the allowance of the mandate contract to the bounded     *)
(* total - one shared spender for every mandate of the payer - and reports *)
(* the mandate to the API, which links it to the checkout session.  The    *)
(* dashboard's dialog (cancel-autopay-dialog.tsx, revoke-flow.ts) revokes  *)
(* a mandate and offers to bring the allowance back to zero.               *)
(*                                                                         *)
(* Pages of one session may be open in several tabs and with several       *)
(* payers.  A transaction or request may fail, or land without its answer; *)
(* a page may be loaded again.  What a handler does without waiting for    *)
(* wallet, chain or API is one step.                                       *)
(***************************************************************************)
EXTENDS Integers, FiniteSets

CONSTANTS
  Tab, Payer,
  Total,       \* computeBoundedAllowance(maxExposure).total
  MaxTries,    \* bound on the mandates a tab creates
  MaxFaults,   \* bound on failures, lost answers and pages loaded again
  None

ASSUME CheckoutAssumption ==
  /\ Total \in Nat \ {0}
  /\ MaxTries \in Nat \ {0} /\ MaxFaults \in Nat

MandateId == Tab \X (1 .. MaxTries)

ASSUME NoneAssumption == None \notin Payer \cup MandateId

VARIABLES
  tab,       \* CheckoutState, with the step runApprove or the API is at
  dialog,    \* RevokeFlowState and its mandate
  payerOf,   \* on chain: the payer of every mandate created
  revoked,   \* on chain
  allowance, \* on chain: what the mandate contract may spend of a payer's
  session,   \* the CheckoutSession row
  funded,    \* mandates for which the total was approved once they existed
  unread,    \* approvals and revocations included as FAILED, unnoticed
  lost,      \* per tab: mandates created without an answer
  reloads,   \* pages loaded again
  faults

chain == <<payerOf, revoked, allowance>>
history == <<funded, unread, lost, reloads>>
vars == <<tab, dialog, chain, session, history, faults>>

Blank == [ phase |-> "idle", step |-> None, payer |-> None, mandate |-> None,
           failed |-> None, warning |-> FALSE ]
NoDialog == [phase |-> "idle", mandate |-> None]

Created == {m \in MandateId : payerOf[m] # None}

Init ==
  /\ tab = [t \in Tab |-> Blank]
  /\ dialog = NoDialog
  /\ payerOf = [m \in MandateId |-> None]
  /\ revoked = {}
  /\ allowance = [p \in Payer |-> 0]
  /\ session = [status |-> "pending", mandate |-> None, payer |-> None]
  /\ funded = {} /\ unread = {}
  /\ lost = [t \in Tab |-> 0]
  /\ reloads = 0 /\ faults = 0

Fault == faults < MaxFaults /\ faults' = faults + 1

\* signAndSend resolves for a transaction that was included with status
\* FAILED, too.  create_mandate unwraps the result, which throws then; the
\* result of approve and revoke_mandate nobody looks at.  ("zero" is an
\* approve of nothing.)
IncludedAsFailed(call, m) == Fault /\ unread' = unread \cup {<<call, m>>}

-----------------------------------------------------------------------------
(* The reducer                                                             *)

Error(state, step) == [state EXCEPT !.phase = "error", !.failed = step, !.step = None]
Move(state, phase, step) ==
  [state EXCEPT !.phase = phase, !.step = step, !.failed = None]

\* APPROVE_ERROR keeps the mandate.  One mutant treats it like a failed
\* connection, the other sends the payer back to the first signature.
AfterApproveError_Restarts(state) == Error(state, "create-mandate")
AfterApproveError_StartsOver(state) == [Error(state, "approve") EXCEPT !.mandate = None]
AfterApproveError(state) == Error(state, "approve")

\* LINK_SUCCESS and LINK_ERROR; a warning once given stays in the state.
\* The mutant drops it.
AfterLinkError_Silent(state) == Move(state, "complete", None)
AfterLinkError(state) == [Move(state, "complete", None) EXCEPT !.warning = TRUE]
AfterLinkSuccess(state) == Move(state, "complete", None)

-----------------------------------------------------------------------------
(* The checkout page                                                       *)

Connect(t, p) ==
  /\ \/ tab[t].phase = "idle"
     \/ tab[t].phase = "error" /\ tab[t].failed = "connect"
  /\ \/ /\ tab' = [tab EXCEPT ![t] = [Blank EXCEPT !.phase = "ready", !.payer = p]]
        /\ UNCHANGED faults
     \/ /\ Fault
        /\ tab' = [tab EXCEPT ![t] = Error(Blank, "connect")]
  /\ UNCHANGED <<dialog, chain, session, history>>

Tries(t) == {n \in 1 .. MaxTries : payerOf[<<t, n>>] # None}

Authorize(t) ==
  /\ \/ tab[t].phase = "ready"
     \/ tab[t].phase = "error" /\ tab[t].failed = "create-mandate"
  /\ Cardinality(Tries(t)) < MaxTries
  /\ tab' = [tab EXCEPT ![t] = Move(@, "creating-mandate", None)]
  /\ UNCHANGED <<dialog, chain, session, history, faults>>

\* A fresh nonce, so a new mandate every time.  The wallet may refuse, the
\* transaction fail, or land without the page seeing it.
CreateMandate(t) ==
  LET m == <<t, Cardinality(Tries(t)) + 1>>
  IN  /\ tab[t].phase = "creating-mandate"
      /\ \/ /\ payerOf' = [payerOf EXCEPT ![m] = tab[t].payer]
            /\ tab' = [tab EXCEPT ![t] =
                 [Move(@, "approving", "query") EXCEPT !.mandate = m]]
            /\ UNCHANGED <<lost, faults>>
         \/ /\ Fault
            /\ tab' = [tab EXCEPT ![t] = Error(@, "create-mandate")]
            /\ \/ UNCHANGED <<payerOf, lost>>
               \/ /\ payerOf' = [payerOf EXCEPT ![m] = tab[t].payer]
                  /\ lost' = [lost EXCEPT ![t] = @ + 1]
      /\ UNCHANGED <<dialog, revoked, allowance, session, funded, unread, reloads>>

ApproveFails(t) == tab' = [tab EXCEPT ![t] = AfterApproveError(@)]

\* Nothing is reset when there is nothing; the mutant never resets.
FirstApproval_Direct(current) == "set"
FirstApproval(current) == IF current > 0 THEN "zero" ELSE "set"

\* queryAllowance, before the reset and after it.
QueryAllowance(t) ==
  LET current == allowance[tab[t].payer]
  IN  /\ tab[t].phase = "approving" /\ tab[t].step \in {"query", "confirm"}
      /\ \/ /\ UNCHANGED faults
            /\ IF tab[t].step = "confirm" /\ current # 0
               THEN ApproveFails(t)
               ELSE tab' = [tab EXCEPT ![t].step = FirstApproval(current)]
         \/ Fault /\ ApproveFails(t)
      /\ UNCHANGED <<dialog, chain, session, history>>

\* An approval replaces the allowance; the mutant adds to it.
Approved_Adds(current, amount) == current + amount
Approved(current, amount) == amount

\* An approve lands and is answered, lands without an answer, does not land,
\* or is included as FAILED, which the page takes for landed.
Approve(t) ==
  LET amount == IF tab[t].step = "set" THEN Total ELSE 0
      p == tab[t].payer
      Goes == tab' = [tab EXCEPT ![t] =
                IF amount = 0 THEN [@ EXCEPT !.step = "confirm"]
                ELSE Move(@, "linking", "send")]
      Lands == /\ allowance' = [allowance EXCEPT ![p] = Approved(@, amount)]
               /\ funded' = IF amount > 0 THEN funded \cup {tab[t].mandate}
                            ELSE funded
  IN  /\ tab[t].phase = "approving" /\ tab[t].step \in {"zero", "set"}
      /\ \/ Lands /\ Goes /\ UNCHANGED <<unread, faults>>
         \/ /\ Fault /\ ApproveFails(t)
            /\ Lands \/ UNCHANGED <<allowance, funded>>
            /\ UNCHANGED unread
         \/ /\ IncludedAsFailed(IF amount > 0 THEN "approve" ELSE "zero",
                                tab[t].mandate)
            /\ Goes
            /\ UNCHANGED <<allowance, funded>>
      /\ UNCHANGED <<dialog, payerOf, revoked, session, lost, reloads>>

RetryApprove(t) ==
  /\ tab[t].phase = "error" /\ tab[t].failed = "approve"
  /\ tab[t].mandate # None
  /\ tab' = [tab EXCEPT ![t] = Move(@, "approving", "query")]
  /\ UNCHANGED <<dialog, chain, session, history, faults>>

\* POST /checkout-sessions/:id/mandate, up to the write.
CheckLink(t) ==
  /\ tab[t].phase = "linking" /\ tab[t].step = "send"
  /\ \/ /\ UNCHANGED faults
        /\ tab' = [tab EXCEPT ![t] =
             IF session.mandate = tab[t].mandate THEN AfterLinkSuccess(@)
             ELSE IF session.mandate # None \/ session.status # "pending"
                     \/ payerOf[tab[t].mandate] # tab[t].payer
             THEN AfterLinkError(@)
             ELSE [@ EXCEPT !.step = "write"]]
     \/ Fault /\ tab' = [tab EXCEPT ![t] = AfterLinkError(@)]
  /\ UNCHANGED <<dialog, chain, session, history>>

\* The row that the update leaves; the mutant forgets the payer.
LinkedSession_NoPayer(t) ==
  [session EXCEPT !.status = "completed", !.mandate = tab[t].mandate]
LinkedSession(t) ==
  [status |-> "completed", mandate |-> tab[t].mandate, payer |-> tab[t].payer]

\* The update names only the session's id.
WriteLink(t) ==
  /\ tab[t].phase = "linking" /\ tab[t].step = "write"
  /\ \/ /\ session' = LinkedSession(t)
        /\ tab' = [tab EXCEPT ![t] = AfterLinkSuccess(@)]
        /\ UNCHANGED faults
     \/ /\ Fault
        /\ session' = LinkedSession(t) \/ UNCHANGED session
        /\ tab' = [tab EXCEPT ![t] = AfterLinkError(@)]
  /\ UNCHANGED <<dialog, chain, history>>

RetryLink(t) ==
  /\ tab[t].phase = "complete" /\ tab[t].warning
  /\ tab' = [tab EXCEPT ![t] = Move(@, "linking", "send")]
  /\ UNCHANGED <<dialog, chain, session, history, faults>>

\* The page is loaded again: all of its state is gone, and a session that is
\* not open shows a notice.
Reload(t) ==
  /\ Fault /\ reloads' = reloads + 1
  /\ tab[t].phase \notin {"idle", "closed"}
  /\ tab' = [tab EXCEPT ![t] =
       IF session.status = "pending" THEN Blank ELSE [Blank EXCEPT !.phase = "closed"]]
  /\ UNCHANGED <<dialog, chain, session, funded, unread, lost>>

-----------------------------------------------------------------------------
(* The dashboard's dialog                                                  *)

Show(phase) == dialog' = [dialog EXCEPT !.phase = phase]

OpenConfirm(m) ==
  /\ dialog.phase = "idle" /\ m \in Created \ revoked
  /\ dialog' = [phase |-> "confirming", mandate |-> m]
  /\ UNCHANGED <<tab, chain, session, history, faults>>

ConfirmRevoke ==
  /\ dialog.phase \in {"confirming", "revoke-error"}
  /\ Show("revoking")
  /\ UNCHANGED <<tab, chain, session, history, faults>>

\* What follows a revocation that failed; the mutant takes it for done.
AfterRevokeError_Done == "checking-allowance"
AfterRevokeError == "revoke-error"

\* The contract refuses to revoke what is revoked.
Revoke ==
  /\ dialog.phase = "revoking"
  /\ \/ /\ dialog.mandate \notin revoked
        /\ revoked' = revoked \cup {dialog.mandate}
        /\ Show("checking-allowance")
        /\ UNCHANGED <<unread, faults>>
     \/ /\ dialog.mandate \in revoked
        /\ Show(AfterRevokeError)
        /\ UNCHANGED <<revoked, unread, faults>>
     \/ /\ Fault
        /\ revoked' = revoked \cup {dialog.mandate} \/ UNCHANGED revoked
        /\ Show(AfterRevokeError)
        /\ UNCHANGED unread
     \/ /\ IncludedAsFailed("revoke", dialog.mandate)
        /\ Show("checking-allowance")
        /\ UNCHANGED revoked
  /\ UNCHANGED <<tab, payerOf, allowance, session, funded, lost, reloads>>

CheckAllowance ==
  /\ dialog.phase = "checking-allowance"
  /\ \/ /\ Show(IF allowance[payerOf[dialog.mandate]] > 0
                THEN "allowance-prompt" ELSE "complete")
        /\ UNCHANGED faults
     \/ Fault /\ Show("zero-allowance-error")
  /\ UNCHANGED <<tab, chain, session, history>>

ConfirmZero ==
  /\ dialog.phase \in {"allowance-prompt", "zero-allowance-error"}
  /\ Show("zeroing-allowance")
  /\ UNCHANGED <<tab, chain, session, history, faults>>

ZeroAllowance ==
  LET Lands == allowance' = [allowance EXCEPT ![payerOf[dialog.mandate]] = 0]
  IN  /\ dialog.phase = "zeroing-allowance"
      /\ \/ Lands /\ Show("complete") /\ UNCHANGED <<unread, faults>>
         \/ /\ Fault /\ Show("zero-allowance-error")
            /\ Lands \/ UNCHANGED allowance
            /\ UNCHANGED unread
         \/ /\ IncludedAsFailed("zero", dialog.mandate) /\ Show("complete")
            /\ UNCHANGED allowance
      /\ UNCHANGED <<tab, payerOf, revoked, session, funded, lost, reloads>>

SkipAllowance ==
  /\ dialog.phase \in {"allowance-prompt", "zero-allowance-error"}
  /\ Show("complete")
  /\ UNCHANGED <<tab, chain, session, history, faults>>

\* CLOSE is legal in these phases only.
Close ==
  /\ dialog.phase \in {"confirming", "complete", "revoke-error",
                       "zero-allowance-error"}
  /\ dialog' = NoDialog
  /\ UNCHANGED <<tab, chain, session, history, faults>>

-----------------------------------------------------------------------------
(* The rest of the world: the relayer collects, the session runs out.      *)

Charge(m) ==
  /\ m \in Created \ revoked
  /\ allowance[payerOf[m]] > 0
  /\ allowance' = [allowance EXCEPT ![payerOf[m]] = @ - 1]
  /\ UNCHANGED <<tab, dialog, payerOf, revoked, session, history, faults>>

SessionExpires ==
  /\ session.status = "pending"
  /\ session' = [session EXCEPT !.status = "expired"]
  /\ UNCHANGED <<tab, dialog, chain, history, faults>>

\* What goes on by itself or by a payer who does not give up.
PageStep(t) ==
  \/ CreateMandate(t) \/ QueryAllowance(t) \/ Approve(t) \/ RetryApprove(t)
  \/ CheckLink(t) \/ WriteLink(t)

Next ==
  \/ \E t \in Tab :
       \/ \E p \in Payer : Connect(t, p)
       \/ Authorize(t) \/ PageStep(t) \/ RetryLink(t) \/ Reload(t)
  \/ \E m \in MandateId : OpenConfirm(m) \/ Charge(m)
  \/ ConfirmRevoke \/ Revoke \/ CheckAllowance \/ ConfirmZero
  \/ ZeroAllowance \/ SkipAllowance \/ Close
  \/ SessionExpires

Spec == Init /\ [][Next]_vars
FairSpec == Spec /\ \A t \in Tab : WF_vars(PageStep(t))

-----------------------------------------------------------------------------
(* Properties.                                                             *)

(***************************************************************************)
(* The reducers' states and the rows and ledger entries behind them.       *)
(***************************************************************************)
TypeOK ==
  /\ tab \in [Tab ->
       [ phase : {"idle", "ready", "creating-mandate", "approving", "linking",
                  "complete", "error", "closed"},
         step : {None, "query", "zero", "confirm", "set", "send", "write"},
         payer : Payer \cup {None}, mandate : MandateId \cup {None},
         failed : {None, "connect", "create-mandate", "approve"},
         warning : BOOLEAN ]]
  /\ dialog \in
       [ phase : {"idle", "confirming", "revoking", "revoke-error",
                  "checking-allowance", "allowance-prompt",
                  "zeroing-allowance", "zero-allowance-error", "complete"},
         mandate : MandateId \cup {None} ]
  /\ payerOf \in [MandateId -> Payer \cup {None}]
  /\ revoked \subseteq Created
  /\ allowance \in [Payer -> 0 .. Total]
  /\ session \in [ status : {"pending", "completed", "expired"},
                   mandate : MandateId \cup {None}, payer : Payer \cup {None} ]
  /\ funded \subseteq Created
  /\ unread \subseteq {"approve", "revoke", "zero"} \X Created
  /\ lost \in [Tab -> Nat]
  /\ reloads \in 0 .. faults /\ faults \in 0 .. MaxFaults

(***************************************************************************)
(* What the payer reads is so.  A page that has gone past the approval     *)
(* shows a mandate of this payer for which the total was approved, one     *)
(* that is complete without a warning has been saved with the session; and *)
(* a dialog that says "cancelled" stands for a revoked mandate.  After     *)
(* every failure, lost answer and retry.  The exception is a transaction   *)
(* that was included as FAILED for that very mandate: its result is not    *)
(* looked at (chain-gateway.ts, mandate-gateway.ts), and the screen goes   *)
(* on without the funding, or the revocation, that it reports.             *)
(***************************************************************************)
ScreensTellTheTruth ==
  /\ \A t \in Tab :
       /\ tab[t].mandate # None =>
            payerOf[tab[t].mandate] # None /\ payerOf[tab[t].mandate] = tab[t].payer
       /\ tab[t].phase \in {"linking", "complete"} =>
            \/ tab[t].mandate \in funded
            \/ <<"approve", tab[t].mandate>> \in unread
       /\ tab[t].phase = "complete" /\ ~tab[t].warning =>
            session.mandate # None
  /\ dialog.phase \in {"checking-allowance", "allowance-prompt",
                       "zeroing-allowance", "zero-allowance-error", "complete"} =>
       \/ dialog.mandate \in revoked
       \/ <<"revoke", dialog.mandate>> \in unread

(***************************************************************************)
(* What the merchant reads is so: a session is completed exactly when it   *)
(* names a mandate, and names its payer - also when two payers complete    *)
(* it at the same time and one's link replaces the other's.                *)
(***************************************************************************)
SessionNamesItsPayer ==
  /\ session.status = "completed" <=> session.mandate # None
  /\ session.mandate # None =>
       session.payer # None /\ session.payer = payerOf[session.mandate]

(***************************************************************************)
(* The allowance is one for all of the payer's mandates: when the page     *)
(* asks for the new amount, the old one is gone - whatever earlier         *)
(* approvals landed unseen - unless the payer has another page open.       *)
(***************************************************************************)
ResetBeforeRaise ==
  \A t \in Tab :
    tab[t].phase = "approving" /\ tab[t].step = "set" =>
      \/ allowance[tab[t].payer] = 0
      \/ \E u \in Tab \ {t} : tab[u].payer = tab[t].payer
      \/ reloads > 0

(***************************************************************************)
(* "Step 1 succeeding while step 2 fails must never strand the payer": a   *)
(* page that has a mandate gets to its confirmation, however often the     *)
(* approval fails, if failures end and the payer tries again.              *)
(***************************************************************************)
NeverStranded ==
  \A t \in Tab :
    (payerOf[<<t, 1>>] # None /\ tab[t].phase = "approving") ~>
      (tab[t].phase = "complete" \/ reloads > 0)

(***************************************************************************)
(* Trying again creates a second mandate only when an answer was lost or   *)
(* the page was loaded again, never after a failed approval or link.       *)
(***************************************************************************)
NoNeedlessMandate ==
  \A t \in Tab : Cardinality(Tries(t)) <= 1 + lost[t] + reloads
=============================================================================
