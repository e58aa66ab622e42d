-------------------------- MODULE CheckoutFlowProofs --------------------------
(***************************************************************************)
(* What holds of checkout pages and of the revocation dialog for any sets  *)
(* of tabs and payers, any total, and any number of tries and failures.    *)
(*                                                                         *)
(* The argument.  A page keeps its payer until it is loaded again, so the  *)
(* only pages that raise a payer's allowance are those of that payer.  The *)
(* mandates of a tab are numbered as they are created, so a new one is no  *)
(* other's.  A page without a mandate has created no more of them than     *)
(* answers were lost and pages loaded again; one that has a mandate, one   *)
(* more.  What else a page relies on - its mandate's payer, the approval,  *)
(* the link - nobody takes back.                                           *)
(***************************************************************************)
EXTENDS CheckoutFlow, FiniteSetTheorems, TLAPS

-----------------------------------------------------------------------------
(* The invariant.                                                          *)

Phase == { "idle", "ready", "creating-mandate", "approving", "linking",
           "complete", "error", "closed" }
ApprovalStep == {None, "query", "zero", "confirm", "set", "send", "write"}

Page ==
  [ phase : Phase, step : ApprovalStep, payer : Payer \cup {None},
    mandate : MandateId \cup {None},
    failed : {None, "connect", "create-mandate", "approve"},
    warning : BOOLEAN ]

NoPayer(s) ==
  s.phase \in {"idle", "closed"} \/ (s.phase = "error" /\ s.failed = "connect")

\* There is no mandate on the page yet.
Early(s) ==
  \/ s.phase \in {"idle", "ready", "creating-mandate"}
  \/ s.phase = "error" /\ s.failed \in {"connect", "create-mandate"}

\* The mandates of a tab are numbered.
Numbered(t, k) ==
  /\ Tries(t) = 1 .. k
  /\ tab[t].phase = "creating-mandate" => k < MaxTries
  /\ k <= lost[t] + reloads + (IF Early(tab[t]) THEN 0 ELSE 1)

\* The total was approved for m, and m was revoked, as far as the pages look.
Passed(m) == m \in funded \/ <<"approve", m>> \in unread
Gone(m) == m \in revoked \/ <<"revoke", m>> \in unread

PageInv(t) ==
  /\ tab[t].phase = "error" =>
       tab[t].failed \in {"connect", "create-mandate", "approve"}
  /\ NoPayer(tab[t]) <=> tab[t].payer = None
  /\ tab[t].phase = "approving" => tab[t].mandate # None
  /\ tab[t].mandate # None =>
       payerOf[tab[t].mandate] # None /\ payerOf[tab[t].mandate] = tab[t].payer
  /\ tab[t].phase \in {"linking", "complete"} => Passed(tab[t].mandate)
  /\ tab[t].phase = "complete" /\ ~tab[t].warning => session.mandate # None
  /\ \E k \in 0 .. MaxTries : Numbered(t, k)

Cancelled == { "checking-allowance", "allowance-prompt", "zeroing-allowance",
               "zero-allowance-error", "complete" }

DialogInv ==
  /\ dialog.phase # "idle" => dialog.mandate \in Created
  /\ dialog.phase \in Cancelled => Gone(dialog.mandate)

PagesInv == \A t \in Tab : PageInv(t)

Inv ==
  TypeOK /\ PagesInv /\ DialogInv /\ SessionNamesItsPayer /\ ResetBeforeRaise

-----------------------------------------------------------------------------
(* The reducer.                                                            *)

\* What a step of the reducer leaves alone.
SamePayer(r, s) ==
  r.payer = s.payer /\ r.mandate = s.mandate /\ (r.warning <=> s.warning)

LEMMA MoveFields ==
  ASSUME NEW s \in Page, NEW phase \in Phase, NEW step \in ApprovalStep
  PROVE  LET r == Move(s, phase, step)
         IN  /\ r \in Page /\ SamePayer(r, s)
             /\ r.phase = phase /\ r.step = step /\ r.failed = None
BY DEF Move, Page, SamePayer

LEMMA ErrorFields ==
  ASSUME NEW s \in Page, NEW step \in {"connect", "create-mandate", "approve"}
  PROVE  LET r == Error(s, step)
         IN  /\ r \in Page /\ SamePayer(r, s)
             /\ r.phase = "error" /\ r.failed = step
BY DEF Error, Page, SamePayer, Phase, ApprovalStep

LEMMA WarnFields ==
  ASSUME NEW s \in Page
  PROVE  LET r == AfterLinkError(s)
         IN  /\ r \in Page /\ r.phase = "complete" /\ r.warning = TRUE
             /\ r.payer = s.payer /\ r.mandate = s.mandate
<1> DEFINE q == Move(s, "complete", None)
<1>1. q \in Page /\ q.phase = "complete" /\ q.payer = s.payer /\ q.mandate = s.mandate
  BY MoveFields DEF SamePayer, Phase, ApprovalStep
<1> HIDE DEF q
<1> QED
  BY <1>1 DEF AfterLinkError, Page, q

LEMMA StepFields ==
  ASSUME NEW s \in Page, NEW step \in ApprovalStep
  PROVE  LET r == [s EXCEPT !.step = step]
         IN  /\ r \in Page /\ SamePayer(r, s)
             /\ r.phase = s.phase /\ r.step = step /\ r.failed = s.failed
BY DEF Page, SamePayer

LEMMA BlankFields ==
  /\ Blank \in Page /\ Blank.payer = None /\ Blank.mandate = None
  /\ Blank.phase = "idle" /\ Blank.warning = FALSE
BY DEF Blank, Page, Phase, ApprovalStep

-----------------------------------------------------------------------------
(* What nobody takes back.                                                 *)

LEMMA Typed ==
  ASSUME TypeOK
  PROVE  /\ tab \in [Tab -> Page] /\ \A t \in Tab : tab[t] \in Page
         /\ reloads \in Nat /\ faults \in Nat /\ faults <= MaxFaults
         /\ reloads <= faults
         /\ \A t \in Tab : lost[t] \in Nat
<1>1. tab \in [Tab -> Page]
  BY DEF TypeOK, Page, Phase, ApprovalStep
<1>2. /\ reloads \in Nat /\ faults \in Nat /\ faults <= MaxFaults
      /\ reloads <= faults
  BY CheckoutAssumption DEF TypeOK
<1> QED
  BY <1>1, <1>2 DEF TypeOK

PayersKept ==
  \A m \in MandateId : payerOf[m] # None => payerOf'[m] = payerOf[m]

Steady ==
  /\ PayersKept /\ funded \subseteq funded' /\ unread \subseteq unread'
  /\ session.mandate # None => session'.mandate # None
  /\ reloads' >= reloads

LEMMA PageStays ==
  ASSUME TypeOK, TypeOK', Steady, NEW t \in Tab, PageInv(t),
         tab'[t] = tab[t], lost'[t] = lost[t], Tries(t)' = Tries(t)
  PROVE  PageInv(t)'
<1>1. PICK k \in 0 .. MaxTries : Numbered(t, k)
  BY DEF PageInv
<1>2. Numbered(t, k)'
  <2>1. /\ reloads \in Nat /\ reloads' \in Nat /\ lost[t] \in Nat /\ k \in Int
        /\ reloads' >= reloads
    BY CheckoutAssumption DEF TypeOK, Steady
  <2> QED
    BY <1>1, <2>1 DEF Numbered
<1>3. tab[t].mandate # None =>
        payerOf'[tab[t].mandate] # None /\ payerOf'[tab[t].mandate] = tab[t].payer
  <2>1. tab[t].mandate \in MandateId \cup {None}
    BY Typed DEF Page
  <2> QED
    BY <2>1 DEF PageInv, Steady, PayersKept
<1> QED
  BY <1>1, <1>2, <1>3 DEF PageInv, Steady, Passed

LEMMA PagesFollow ==
  ASSUME TypeOK, TypeOK', PagesInv, Steady, NEW t \in Tab, NEW r \in Page,
         tab' = [tab EXCEPT ![t] = r], PageInv(t)',
         \A u \in Tab : u # t => lost'[u] = lost[u] /\ Tries(u)' = Tries(u)
  PROVE  PagesInv'
<1> SUFFICES ASSUME NEW u \in Tab PROVE PageInv(u)'
  BY DEF PagesInv
<1>1. u # t => tab'[u] = tab[u]
  BY Typed
<1> QED
  BY <1>1, PageStays DEF PagesInv

\* Payers stay, and who asks for the total has seen nothing left or already
\* asked before, when there was no more.
LEMMA ResetFollows ==
  ASSUME Inv, TypeOK', reloads' >= reloads,
         \A u \in Tab : tab[u].payer # None => tab'[u].payer = tab[u].payer,
         \A t \in Tab : tab'[t].phase = "approving" /\ tab'[t].step = "set" =>
           \/ allowance'[tab'[t].payer] = 0
           \/ \E u \in Tab \ {t} : tab'[u].payer = tab'[t].payer
           \/ /\ tab'[t] = tab[t]
              /\ allowance'[tab[t].payer] <= allowance[tab[t].payer]
  PROVE  ResetBeforeRaise'
<1> SUFFICES ASSUME NEW t \in Tab,
                    tab'[t].phase = "approving", tab'[t].step = "set",
                    tab'[t] = tab[t],
                    allowance'[tab[t].payer] <= allowance[tab[t].payer]
             PROVE  \/ allowance'[tab[t].payer] = 0
                    \/ \E u \in Tab \ {t} : tab'[u].payer = tab[t].payer
                    \/ reloads' > 0
  BY DEF ResetBeforeRaise
<1>1. tab[t].payer \in Payer
  BY Typed DEF Inv, PagesInv, PageInv, NoPayer, Page
<1>2. /\ allowance[tab[t].payer] \in Nat /\ allowance'[tab[t].payer] \in Nat
      /\ reloads \in Nat /\ reloads' \in Nat
  BY <1>1, CheckoutAssumption DEF Inv, TypeOK
<1>3. CASE allowance[tab[t].payer] = 0
  BY <1>2, <1>3
<1>4. CASE \E u \in Tab \ {t} : tab[u].payer = tab[t].payer
  BY <1>1, <1>4, NoneAssumption
<1>5. CASE reloads > 0
  BY <1>2, <1>5
<1> QED
  BY <1>3, <1>4, <1>5 DEF Inv, ResetBeforeRaise

\* A step of one page that changes nothing else: what it has to show.
LEMMA QuietStep ==
  ASSUME Inv, NEW t \in Tab, NEW r \in Page, tab' = [tab EXCEPT ![t] = r],
         UNCHANGED <<dialog, chain, session, history>>,
         faults' = faults \/ Fault,
         r.phase = "error" => r.failed \in {"connect", "create-mandate", "approve"},
         NoPayer(r) <=> r.payer = None,
         r.phase = "approving" => r.mandate # None,
         r.mandate # None =>
           r.mandate = tab[t].mandate /\ r.payer = tab[t].payer,
         r.phase \in {"linking", "complete"} => Passed(r.mandate),
         r.phase = "complete" /\ ~r.warning => session.mandate # None,
         r.phase = "creating-mandate" => Cardinality(Tries(t)) < MaxTries,
         Early(r) => Early(tab[t]),
         tab[t].payer # None => r.payer = tab[t].payer,
         r.phase = "approving" /\ r.step = "set" => allowance[r.payer] = 0
  PROVE  Inv'
<1>1. UNCHANGED <<dialog, payerOf, revoked, allowance, session, funded, unread,
                  lost, reloads>>
  BY DEF chain, history
<1>2. /\ tab' \in [Tab -> Page] /\ tab'[t] = r
      /\ \A u \in Tab : u # t => tab'[u] = tab[u]
  BY Typed DEF Inv
<1>3. faults' \in 0 .. MaxFaults /\ faults' >= faults /\ TypeOK
  BY CheckoutAssumption DEF Fault, Inv, TypeOK
<1>4. TypeOK'
  <2>1. reloads' \in 0 .. faults'
    BY <1>1, <1>3 DEF TypeOK
  <2> QED
    BY <1>1, <1>2, <1>3, <2>1
    DEF TypeOK, Created, Page, Phase, ApprovalStep
<1>5. Steady /\ \A u \in Tab : Tries(u)' = Tries(u)
  BY <1>1, <1>3, Typed DEF Steady, PayersKept, Tries
<1>6. PageInv(t)'
  <2>1. PICK k \in 0 .. MaxTries : Numbered(t, k)
    BY DEF Inv, PagesInv, PageInv
  <2>2. Cardinality(Tries(t)) = k /\ k \in Int
    BY <2>1, FS_Interval DEF Numbered
  <2>3. Numbered(t, k)'
    BY <1>1, <1>2, <1>3, <1>5, <2>1, <2>2, Typed DEF Numbered
  <2>4. r.mandate # None => payerOf[r.mandate] # None /\ payerOf[r.mandate] = r.payer
    BY DEF Inv, PagesInv, PageInv
  <2> QED
    BY <1>1, <1>2, <2>3, <2>4 DEF PageInv, Passed
<1>7. PagesInv'
  BY <1>1, <1>2, <1>3, <1>4, <1>5, <1>6, PagesFollow DEF Inv
<1>8. ResetBeforeRaise'
  BY <1>1, <1>2, <1>3, <1>4, Typed, ResetFollows DEF Inv, TypeOK, PageInv, PagesInv, NoPayer, Page
<1> QED
  BY <1>1, <1>4, <1>7, <1>8
  DEF Inv, DialogInv, Created, SessionNamesItsPayer, Gone

-----------------------------------------------------------------------------
(* The checkout page: what changes nothing but the page.                   *)

LEMMA ConnectKeeps ==
  ASSUME Inv, NEW t \in Tab, NEW p \in Payer, Connect(t, p)
  PROVE  Inv'
<1>1. /\ NoPayer(tab[t]) /\ Early(tab[t]) /\ tab[t].payer = None
      /\ UNCHANGED <<dialog, chain, session, history>>
  BY DEF Connect, NoPayer, Early, Inv, PagesInv, PageInv
<1>2. CASE /\ tab' = [tab EXCEPT ![t] = [Blank EXCEPT !.phase = "ready", !.payer = p]]
           /\ UNCHANGED faults
  <2> DEFINE r == [Blank EXCEPT !.phase = "ready", !.payer = p]
  <2>1. /\ r \in Page /\ r.phase = "ready" /\ r.payer = p /\ r.mandate = None
        /\ p # None
    BY BlankFields, NoneAssumption DEF Page, Phase
  <2> HIDE DEF r
  <2> QED
    BY <1>1, <1>2, <2>1, QuietStep DEF NoPayer, r
<1>3. CASE Fault /\ tab' = [tab EXCEPT ![t] = Error(Blank, "connect")]
  <2> DEFINE r == Error(Blank, "connect")
  <2>1. /\ r \in Page /\ r.phase = "error" /\ r.failed = "connect"
        /\ r.payer = None /\ r.mandate = None
    BY BlankFields, ErrorFields DEF SamePayer
  <2> HIDE DEF r
  <2> QED
    BY <1>1, <1>3, <2>1, QuietStep DEF NoPayer, r
<1> QED
  BY <1>2, <1>3 DEF Connect

LEMMA AuthorizeKeeps ==
  ASSUME Inv, NEW t \in Tab, Authorize(t)
  PROVE  Inv'
<1> DEFINE r == Move(tab[t], "creating-mandate", None)
<1>1. tab[t] \in Page /\ TypeOK
  BY Typed DEF Inv
<1>2. /\ tab' = [tab EXCEPT ![t] = r] /\ Cardinality(Tries(t)) < MaxTries
      /\ UNCHANGED <<dialog, chain, session, history, faults>>
      /\ Early(tab[t]) /\ ~NoPayer(tab[t])
  BY DEF Authorize, Early, NoPayer
<1>3. /\ r \in Page /\ SamePayer(r, tab[t]) /\ r.phase = "creating-mandate"
  BY <1>1, MoveFields DEF Phase, ApprovalStep
<1>4. tab[t].payer # None
  BY <1>2 DEF Inv, PagesInv, PageInv
<1> HIDE DEF r
<1> QED
  BY <1>2, <1>3, <1>4, QuietStep DEF NoPayer, SamePayer

\* runApprove goes on, or its error keeps the mandate.
LEMMA ApprovingGoesOn ==
  ASSUME Inv, NEW t \in Tab, NEW r \in Page, tab' = [tab EXCEPT ![t] = r],
         UNCHANGED <<dialog, chain, session, history>>,
         faults' = faults \/ Fault,
         tab[t].phase = "approving" \/ (tab[t].phase = "error" /\ tab[t].failed = "approve"),
         tab[t].mandate # None, SamePayer(r, tab[t]),
         r.phase = "approving" \/ (r.phase = "error" /\ r.failed = "approve"),
         r.phase = "approving" /\ r.step = "set" => allowance[r.payer] = 0
  PROVE  Inv'
<1>1. tab[t].payer # None
  BY DEF Inv, PagesInv, PageInv, NoPayer
<1> QED
  BY <1>1, QuietStep DEF NoPayer, Early, SamePayer

LEMMA QueryAllowanceKeeps ==
  ASSUME Inv, NEW t \in Tab, QueryAllowance(t)
  PROVE  Inv'
<1> DEFINE current == allowance[tab[t].payer]
<1>1. /\ tab[t] \in Page /\ tab[t].phase = "approving" /\ tab[t].mandate # None
      /\ UNCHANGED <<dialog, chain, session, history>>
  BY Typed DEF Inv, PagesInv, PageInv, QueryAllowance
<1>2. tab[t].payer \in Payer /\ current \in Nat
  BY <1>1, CheckoutAssumption DEF Inv, PagesInv, PageInv, NoPayer, TypeOK, Page
<1>3. CASE (faults' = faults \/ Fault) /\ ApproveFails(t)
  <2> DEFINE r == Error(tab[t], "approve")
  <2>1. /\ r \in Page /\ SamePayer(r, tab[t])
        /\ r.phase = "error" /\ r.failed = "approve"
    BY <1>1, ErrorFields
  <2>2. tab' = [tab EXCEPT ![t] = r]
    BY <1>3 DEF ApproveFails, AfterApproveError
  <2> HIDE DEF r
  <2> QED
    BY <1>1, <1>3, <2>1, <2>2, ApprovingGoesOn
<1>4. CASE /\ UNCHANGED faults
           /\ tab' = [tab EXCEPT ![t].step = FirstApproval(current)]
  <2> DEFINE r == [tab[t] EXCEPT !.step = FirstApproval(current)]
  <2>1. /\ FirstApproval(current) \in {"zero", "set"}
        /\ FirstApproval(current) \in ApprovalStep
        /\ FirstApproval(current) = "set" => current = 0
    BY <1>2 DEF FirstApproval, ApprovalStep
  <2>2. /\ r \in Page /\ SamePayer(r, tab[t]) /\ r.phase = "approving"
        /\ r.step = FirstApproval(current)
    BY <1>1, <2>1, StepFields
  <2>3. tab' = [tab EXCEPT ![t] = r]
    BY <1>4, Typed DEF Inv
  <2> HIDE DEF r
  <2> QED
    BY <1>1, <1>4, <2>1, <2>2, <2>3, ApprovingGoesOn DEF SamePayer
<1> QED
  BY <1>3, <1>4 DEF QueryAllowance

LEMMA RetryApproveKeeps ==
  ASSUME Inv, NEW t \in Tab, RetryApprove(t)
  PROVE  Inv'
<1> DEFINE r == Move(tab[t], "approving", "query")
<1>1. /\ r \in Page /\ SamePayer(r, tab[t]) /\ r.phase = "approving"
      /\ r.step = "query"
  BY Typed, MoveFields DEF Inv, Phase, ApprovalStep
<1>2. /\ tab' = [tab EXCEPT ![t] = r]
      /\ UNCHANGED <<dialog, chain, session, history, faults>>
      /\ tab[t].phase = "error" /\ tab[t].failed = "approve"
      /\ tab[t].mandate # None
  BY DEF RetryApprove
<1> HIDE DEF r
<1> QED
  BY <1>1, <1>2, ApprovingGoesOn

\* The page reports its mandate: what it shows is still approved, and it
\* shows no link that is not there.
LEMMA LinkingGoesOn ==
  ASSUME Inv, NEW t \in Tab, NEW r \in Page, tab' = [tab EXCEPT ![t] = r],
         UNCHANGED <<dialog, chain, session, history>>,
         faults' = faults \/ Fault,
         tab[t].phase \in {"linking", "complete"},
         r.phase \in {"linking", "complete"},
         r.payer = tab[t].payer, r.mandate = tab[t].mandate,
         r.phase = "complete" /\ ~r.warning => session.mandate # None
  PROVE  Inv'
<1>1. tab[t].payer # None /\ Passed(tab[t].mandate)
  BY DEF Inv, PagesInv, PageInv, NoPayer
<1> QED
  BY <1>1, QuietStep DEF NoPayer, Early

LEMMA FundedExists ==
  ASSUME Inv, NEW t \in Tab, tab[t].phase \in {"linking", "complete"}
  PROVE  /\ tab[t] \in Page /\ tab[t].mandate \in MandateId
         /\ tab[t].mandate # None /\ tab[t].payer \in Payer
         /\ payerOf[tab[t].mandate] = tab[t].payer
<1>1. tab[t] \in Page /\ tab[t].mandate \in MandateId
  BY Typed DEF Inv, PagesInv, PageInv, Passed, TypeOK, Created
<1>2. tab[t].mandate # None
  BY <1>1, NoneAssumption
<1> QED
  BY <1>1, <1>2 DEF Inv, PagesInv, PageInv, NoPayer, Page

LEMMA LinkSuccessFields ==
  ASSUME NEW s \in Page
  PROVE  LET r == AfterLinkSuccess(s)
         IN  r \in Page /\ SamePayer(r, s) /\ r.phase = "complete"
BY MoveFields DEF AfterLinkSuccess, Phase, ApprovalStep

LEMMA CheckLinkKeeps ==
  ASSUME Inv, NEW t \in Tab, CheckLink(t)
  PROVE  Inv'
<1>1. /\ tab[t] \in Page /\ tab[t].phase = "linking" /\ tab[t].mandate # None
      /\ UNCHANGED <<dialog, chain, session, history>>
      /\ faults' = faults \/ Fault
  BY FundedExists DEF CheckLink
<1>2. CASE /\ session.mandate = tab[t].mandate
           /\ tab' = [tab EXCEPT ![t] = AfterLinkSuccess(tab[t])]
  BY <1>1, <1>2, LinkSuccessFields, LinkingGoesOn DEF SamePayer
<1>3. CASE tab' = [tab EXCEPT ![t] = AfterLinkError(tab[t])]
  BY <1>1, <1>3, WarnFields, LinkingGoesOn
<1>4. CASE tab' = [tab EXCEPT ![t] = [tab[t] EXCEPT !.step = "write"]]
  <2> DEFINE r == [tab[t] EXCEPT !.step = "write"]
  <2>1. r \in Page /\ SamePayer(r, tab[t]) /\ r.phase = "linking"
    BY <1>1, StepFields DEF ApprovalStep
  <2> HIDE DEF r
  <2> QED
    BY <1>1, <1>4, <2>1, LinkingGoesOn DEF SamePayer, r
<1> QED
  BY <1>2, <1>3, <1>4 DEF CheckLink

LEMMA RetryLinkKeeps ==
  ASSUME Inv, NEW t \in Tab, RetryLink(t)
  PROVE  Inv'
<1> DEFINE r == Move(tab[t], "linking", "send")
<1>1. r \in Page /\ SamePayer(r, tab[t]) /\ r.phase = "linking"
  BY Typed, MoveFields DEF Inv, Phase, ApprovalStep
<1>2. /\ tab' = [tab EXCEPT ![t] = r] /\ tab[t].phase = "complete"
      /\ UNCHANGED <<dialog, chain, session, history, faults>>
  BY DEF RetryLink
<1> HIDE DEF r
<1> QED
  BY <1>1, <1>2, LinkingGoesOn DEF SamePayer

-----------------------------------------------------------------------------
(* The checkout page: what the chain and the API take note of.             *)

\* The mandate that lands, answered or not, is the tab's next one.
LEMMA MandateLands ==
  ASSUME Inv, NEW t \in Tab, tab[t].phase = "creating-mandate",
         payerOf' = [payerOf EXCEPT
                       ![<<t, Cardinality(Tries(t)) + 1>>] = tab[t].payer]
  PROVE  \E k \in 0 .. MaxTries - 1 :
           /\ Numbered(t, k) /\ Cardinality(Tries(t)) = k
           /\ <<t, k + 1>> \in MandateId /\ payerOf[<<t, k + 1>>] = None
           /\ tab[t].payer \in Payer
           /\ payerOf' \in [MandateId -> Payer \cup {None}]
           /\ payerOf'[<<t, k + 1>>] = tab[t].payer
           /\ PayersKept /\ Created \subseteq Created'
           /\ Tries(t)' = 1 .. k + 1
           /\ \A u \in Tab : u # t => Tries(u)' = Tries(u)
<1>1. PICK k \in 0 .. MaxTries : Numbered(t, k)
  BY DEF Inv, PagesInv, PageInv
<1>2. k \in Nat /\ k < MaxTries /\ Tries(t) = 1 .. k /\ MaxTries \in Nat
  BY <1>1, CheckoutAssumption DEF Numbered
<1>3. Cardinality(Tries(t)) = k
  BY <1>2, FS_Interval
<1> DEFINE m == <<t, k + 1>>
<1>4. m \in MandateId /\ k + 1 \in 1 .. MaxTries /\ k \in 0 .. MaxTries - 1
  BY <1>2 DEF MandateId
<1>5. payerOf[m] = None
  BY <1>2, <1>4 DEF Tries
<1>6. tab[t].payer \in Payer /\ tab[t].payer # None
  BY Typed, NoneAssumption DEF Inv, PagesInv, PageInv, NoPayer, Page
<1>7. /\ payerOf' = [payerOf EXCEPT ![m] = tab[t].payer]
      /\ payerOf' \in [MandateId -> Payer \cup {None}]
      /\ payerOf'[m] = tab[t].payer
      /\ \A i \in MandateId : i # m => payerOf'[i] = payerOf[i]
  <2>1. payerOf' = [payerOf EXCEPT ![m] = tab[t].payer]
    BY <1>3
  <2> HIDE DEF m
  <2> QED
    BY <1>4, <1>6, <2>1 DEF Inv, TypeOK
<1>8. PayersKept /\ Created \subseteq Created'
  BY <1>5, <1>6, <1>7 DEF PayersKept, Created
<1>9. Tries(t)' = 1 .. k + 1
  <2>1. \A n \in 1 .. MaxTries :
          payerOf'[<<t, n>>] # None <=> payerOf[<<t, n>>] # None \/ n = k + 1
    <3> TAKE n \in 1 .. MaxTries
    <3>1. <<t, n>> \in MandateId /\ (<<t, n>> = m <=> n = k + 1)
      BY DEF MandateId
    <3> HIDE DEF m
    <3> QED
      BY <1>5, <1>6, <1>7, <3>1 DEF m
  <2>2. \A n \in 1 .. MaxTries : payerOf[<<t, n>>] # None <=> n \in 1 .. k
    BY <1>2 DEF Tries
  <2>3. Tries(t)' = {n \in 1 .. MaxTries : n \in 1 .. k \/ n = k + 1}
    BY <2>1, <2>2 DEF Tries
  <2> QED
    BY <1>2, <2>3
<1>10. ASSUME NEW u \in Tab, u # t
       PROVE  Tries(u)' = Tries(u)
  <2>1. \A n \in 1 .. MaxTries : <<u, n>> \in MandateId /\ <<u, n>> # m
    BY <1>10 DEF MandateId
  <2> HIDE DEF m
  <2> QED
    BY <1>7, <2>1 DEF Tries
<1> QED
  BY <1>1, <1>3, <1>4, <1>5, <1>6, <1>7, <1>8, <1>9, <1>10

LEMMA CreateMandateKeeps ==
  ASSUME Inv, NEW t \in Tab, CreateMandate(t)
  PROVE  Inv'
<1> DEFINE fresh == <<t, Cardinality(Tries(t)) + 1>>
<1>1. /\ TypeOK /\ tab[t] \in Page /\ tab[t].phase = "creating-mandate"
      /\ UNCHANGED <<dialog, revoked, allowance, session, funded, unread, reloads>>
      /\ faults' = faults \/ Fault
  BY Typed DEF Inv, CreateMandate
<1>2. /\ faults' \in 0 .. MaxFaults /\ faults' >= faults
      /\ reloads' \in 0 .. faults'
  BY <1>1, CheckoutAssumption DEF Fault, TypeOK
\* What remains to be shown when the mandate has landed.
<1>3. ASSUME payerOf' = [payerOf EXCEPT ![fresh] = tab[t].payer],
             NEW r \in Page, tab' = [tab EXCEPT ![t] = r],
             r.payer = tab[t].payer,
             \/ /\ r.phase = "approving" /\ r.step = "query"
                /\ r.mandate = fresh /\ UNCHANGED lost
             \/ /\ r.phase = "error" /\ r.failed = "create-mandate"
                /\ r.mandate = tab[t].mandate
                /\ lost' = [lost EXCEPT ![t] = @ + 1]
      PROVE  Inv'
  <2>1. PICK k \in 0 .. MaxTries - 1 :
           /\ Numbered(t, k) /\ Cardinality(Tries(t)) = k
           /\ <<t, k + 1>> \in MandateId /\ payerOf[<<t, k + 1>>] = None
           /\ tab[t].payer \in Payer
           /\ payerOf' \in [MandateId -> Payer \cup {None}]
           /\ payerOf'[<<t, k + 1>>] = tab[t].payer
           /\ PayersKept /\ Created \subseteq Created'
           /\ Tries(t)' = 1 .. k + 1
           /\ \A u \in Tab : u # t => Tries(u)' = Tries(u)
    BY <1>1, <1>3, MandateLands
  <2>2. k \in Nat /\ k + 1 \in 0 .. MaxTries /\ fresh = <<t, k + 1>>
    BY <2>1, CheckoutAssumption
  <2>3. /\ tab' \in [Tab -> Page] /\ tab'[t] = r
        /\ \A u \in Tab : u # t => tab'[u] = tab[u]
    BY <1>1, <1>3, Typed
  <2>4. /\ lost' \in [Tab -> Nat] /\ \A u \in Tab : u # t => lost'[u] = lost[u]
        /\ r.phase = "approving" => lost'[t] = lost[t]
        /\ r.phase # "approving" => lost'[t] = lost[t] + 1
    BY <1>1, <1>3 DEF TypeOK
  <2>5. TypeOK'
    BY <1>1, <1>2, <2>1, <2>3, <2>4 DEF TypeOK, Page, Phase, ApprovalStep
  <2>6. Steady
    BY <1>1, <2>1, Typed DEF Steady
  <2>7. Numbered(t, k + 1)'
    <3>1. k <= lost[t] + reloads /\ lost[t] \in Nat /\ reloads \in Nat
      BY <1>1, <2>1, <2>2, Typed DEF Numbered, Early
    <3>2. k + 1 <= lost'[t] + reloads + (IF Early(r) THEN 0 ELSE 1)
      BY <1>3, <2>2, <2>4, <3>1 DEF Early
    <3> QED
      BY <1>1, <1>3, <2>1, <2>3, <3>2 DEF Numbered
  <2>8. PageInv(t)'
    <3>1. r.mandate # None =>
            payerOf'[r.mandate] # None /\ payerOf'[r.mandate] = r.payer
      <4>1. CASE r.mandate = fresh
        BY <1>3, <2>1, <2>2, <4>1, NoneAssumption
      <4>2. CASE r.mandate = tab[t].mandate
        BY <1>1, <1>3, <2>1, <4>2
        DEF Inv, PagesInv, PageInv, PayersKept, Page
      <4> QED
        BY <1>3, <4>1, <4>2
    <3>2. r.phase = "approving" => r.mandate # None
      BY <1>3, <2>1, <2>2, NoneAssumption
    <3> QED
      BY <1>3, <2>1, <2>2, <2>3, <2>7, <3>1, <3>2, NoneAssumption
      DEF PageInv, NoPayer
  <2>9. PagesInv'
    BY <1>1, <1>3, <2>1, <2>4, <2>5, <2>6, <2>8, PagesFollow DEF Inv
  <2>10. ResetBeforeRaise'
    <3>1. \A u \in Tab : tab[u].payer # None => tab'[u].payer = tab[u].payer
      BY <1>3, <2>3
    <3>2. \A u \in Tab : tab'[u].phase = "approving" /\ tab'[u].step = "set" =>
            /\ tab'[u] = tab[u]
            /\ allowance'[tab[u].payer] <= allowance[tab[u].payer]
      <4> SUFFICES ASSUME NEW u \in Tab, tab'[u].phase = "approving",
                          tab'[u].step = "set"
                   PROVE  /\ tab'[u] = tab[u]
                          /\ allowance'[tab[u].payer] <= allowance[tab[u].payer]
        OBVIOUS
      <4>1. u # t /\ tab'[u] = tab[u]
        BY <1>3, <2>3
      <4>2. tab[u].payer \in Payer
        BY <4>1, Typed DEF Inv, PagesInv, PageInv, NoPayer, Page
      <4>3. allowance[tab[u].payer] \in Int
        BY <1>1, <4>2, CheckoutAssumption DEF TypeOK
      <4> QED
        BY <1>1, <4>1, <4>3
    <3> QED
      BY <1>1, <2>5, <3>1, <3>2, ResetFollows, Typed
  <2>11. DialogInv'
    BY <1>1, <2>1 DEF Inv, DialogInv, Gone
  <2>12. SessionNamesItsPayer'
    BY <1>1, <2>1 DEF Inv, SessionNamesItsPayer, TypeOK, PayersKept
  <2> QED
    BY <2>5, <2>9, <2>10, <2>11, <2>12 DEF Inv
<1>4. CASE /\ payerOf' = [payerOf EXCEPT ![fresh] = tab[t].payer]
           /\ tab' = [tab EXCEPT ![t] =
                [Move(tab[t], "approving", "query") EXCEPT !.mandate = fresh]]
           /\ UNCHANGED lost
  <2> DEFINE q == Move(tab[t], "approving", "query")
             r == [q EXCEPT !.mandate = fresh]
  <2>1. q \in Page /\ SamePayer(q, tab[t]) /\ q.phase = "approving" /\ q.step = "query"
    BY <1>1, MoveFields DEF Phase, ApprovalStep
  <2>2. fresh \in MandateId
    BY <1>1, <1>4, MandateLands
  <2> HIDE DEF q, fresh
  <2>3. /\ r \in Page /\ r.phase = "approving" /\ r.step = "query"
        /\ r.mandate = fresh /\ r.payer = tab[t].payer
    BY <2>1, <2>2 DEF Page, SamePayer
  <2> HIDE DEF r
  <2> QED
    BY <1>3, <1>4, <2>3 DEF r, q
<1>5. CASE /\ Fault /\ tab' = [tab EXCEPT ![t] = Error(tab[t], "create-mandate")]
           /\ \/ UNCHANGED <<payerOf, lost>>
              \/ /\ payerOf' = [payerOf EXCEPT ![fresh] = tab[t].payer]
                 /\ lost' = [lost EXCEPT ![t] = @ + 1]
  <2> DEFINE r == Error(tab[t], "create-mandate")
  <2>1. /\ r \in Page /\ SamePayer(r, tab[t]) /\ r.phase = "error"
        /\ r.failed = "create-mandate"
    BY <1>1, ErrorFields
  <2>2. tab[t].payer # None
    BY <1>1 DEF Inv, PagesInv, PageInv, NoPayer
  <2> HIDE DEF r
  <2>3. CASE UNCHANGED <<payerOf, lost>>
    BY <1>1, <1>5, <2>1, <2>2, <2>3, QuietStep
    DEF NoPayer, Early, SamePayer, r, chain, history
  <2>4. CASE /\ payerOf' = [payerOf EXCEPT ![fresh] = tab[t].payer]
             /\ lost' = [lost EXCEPT ![t] = @ + 1]
    BY <1>3, <1>5, <2>1, <2>4 DEF SamePayer, r
  <2> QED
    BY <1>5, <2>3, <2>4
<1> QED
  BY <1>4, <1>5 DEF CreateMandate

LEMMA ApproveKeeps ==
  ASSUME Inv, NEW t \in Tab, Approve(t)
  PROVE  Inv'
<1> DEFINE p == tab[t].payer
           amount == IF tab[t].step = "set" THEN Total ELSE 0
<1>1. /\ TypeOK /\ tab[t] \in Page /\ tab[t].phase = "approving"
      /\ tab[t].mandate \in MandateId /\ tab[t].mandate # None
      /\ tab[t].mandate \in Created /\ p \in Payer /\ p # None
      /\ UNCHANGED <<dialog, payerOf, revoked, session, lost, reloads>>
      /\ faults' = faults \/ Fault
      /\ amount \in 0 .. Total
  BY Typed, CheckoutAssumption
  DEF Approve, IncludedAsFailed, Inv, PagesInv, PageInv, NoPayer, Page, Created
<1>2. /\ \/ allowance' = [allowance EXCEPT ![p] = amount]
         \/ allowance' = allowance
      /\ funded \subseteq funded' /\ funded' \subseteq funded \cup {tab[t].mandate}
      /\ unread \subseteq unread'
      /\ unread' \subseteq
           unread \cup {"approve", "zero"} \X {tab[t].mandate}
  BY DEF Approve, Approved, IncludedAsFailed
<1>3. PICK r \in Page :
        /\ tab' = [tab EXCEPT ![t] = r] /\ SamePayer(r, tab[t])
        /\ \/ r.phase = "approving" /\ r.step = "confirm"
           \/ /\ r.phase = "linking"
              /\ \/ tab[t].mandate \in funded'
                 \/ <<"approve", tab[t].mandate>> \in unread'
           \/ r.phase = "error" /\ r.failed = "approve"
  <2>1. CASE tab' = [tab EXCEPT ![t] = [tab[t] EXCEPT !.step = "confirm"]]
    <3> DEFINE r == [tab[t] EXCEPT !.step = "confirm"]
    <3>1. /\ r \in Page /\ SamePayer(r, tab[t]) /\ r.phase = "approving"
          /\ r.step = "confirm"
      BY <1>1, StepFields DEF ApprovalStep
    <3> HIDE DEF r
    <3> QED
      BY <2>1, <3>1 DEF r
  <2>2. CASE /\ tab' = [tab EXCEPT ![t] = Move(tab[t], "linking", "send")]
             /\ amount # 0
             /\ \/ tab[t].mandate \in funded'
                \/ <<"approve", tab[t].mandate>> \in unread'
    <3> DEFINE r == Move(tab[t], "linking", "send")
    <3>1. r \in Page /\ SamePayer(r, tab[t]) /\ r.phase = "linking"
      BY <1>1, MoveFields DEF Phase, ApprovalStep
    <3> HIDE DEF r
    <3> QED
      BY <2>2, <3>1 DEF r
  <2>3. CASE tab' = [tab EXCEPT ![t] = Error(tab[t], "approve")]
    <3> DEFINE r == Error(tab[t], "approve")
    <3>1. /\ r \in Page /\ SamePayer(r, tab[t]) /\ r.phase = "error"
          /\ r.failed = "approve"
      BY <1>1, ErrorFields
    <3> HIDE DEF r
    <3> QED
      BY <2>3, <3>1 DEF r
  <2>4. amount # 0 => amount > 0
    BY <1>1
  <2> QED
    BY <2>1, <2>2, <2>3, <2>4
    DEF Approve, ApproveFails, AfterApproveError, IncludedAsFailed
<1>4. /\ tab' \in [Tab -> Page] /\ tab'[t] = r
      /\ \A u \in Tab : u # t => tab'[u] = tab[u]
  BY <1>1, <1>3, Typed
<1>5. allowance' \in [Payer -> 0 .. Total]
      /\ \A q \in Payer : q # p => allowance'[q] = allowance[q]
  <2> HIDE DEF amount
  <2> QED
    BY <1>1, <1>2 DEF TypeOK
<1>6. TypeOK'
  <2>1. /\ faults' \in 0 .. MaxFaults /\ reloads' \in 0 .. faults'
    BY <1>1, CheckoutAssumption DEF Fault, TypeOK
  <2> QED
    BY <1>1, <1>2, <1>4, <1>5, <2>1
    DEF TypeOK, Created, Page, Phase, ApprovalStep
<1>7. Steady /\ \A u \in Tab : Tries(u)' = Tries(u)
  BY <1>1, <1>2, Typed DEF Steady, PayersKept, Tries
<1>8. PageInv(t)'
  <2>1. PICK k \in 0 .. MaxTries : Numbered(t, k)
    BY DEF Inv, PagesInv, PageInv
  <2>2. Numbered(t, k)'
    BY <1>1, <1>3, <1>4, <1>7, <2>1 DEF Numbered, Early
  <2> QED
    BY <1>1, <1>3, <1>4, <2>2
    DEF PageInv, NoPayer, SamePayer, Inv, PagesInv, Passed
<1>9. PagesInv'
  BY <1>1, <1>3, <1>6, <1>7, <1>8, PagesFollow DEF Inv
<1>10. ResetBeforeRaise'
  <2>1. \A u \in Tab : tab'[u].payer = tab[u].payer
    BY <1>3, <1>4 DEF SamePayer
  <2>2. ASSUME NEW u \in Tab, tab'[u].phase = "approving", tab'[u].step = "set"
        PROVE  \/ \E v \in Tab \ {u} : tab'[v].payer = tab'[u].payer
               \/ /\ tab'[u] = tab[u]
                  /\ allowance'[tab[u].payer] <= allowance[tab[u].payer]
    <3>1. u # t /\ tab'[u] = tab[u]
      BY <1>3, <1>4, <2>2
    <3>2. tab[u].payer \in Payer
      BY <2>2, <3>1, Typed DEF Inv, PagesInv, PageInv, NoPayer, Page
    <3>3. CASE tab[u].payer = p
      BY <2>1, <3>1, <3>3
    <3>4. CASE tab[u].payer # p
      <4>1. allowance[tab[u].payer] \in Int
        BY <1>1, <3>2, CheckoutAssumption DEF TypeOK
      <4> QED
        BY <1>5, <3>1, <3>2, <3>4, <4>1
    <3> QED
      BY <3>3, <3>4
  <2>3. reloads' >= reloads
    BY <1>1, Typed
  <2> QED
    BY <1>6, <2>1, <2>2, <2>3, ResetFollows
<1> QED
  BY <1>1, <1>2, <1>6, <1>9, <1>10
  DEF Inv, DialogInv, Created, SessionNamesItsPayer, Gone

LEMMA WriteLinkKeeps ==
  ASSUME Inv, NEW t \in Tab, WriteLink(t)
  PROVE  Inv'
<1>1. /\ TypeOK /\ tab[t] \in Page /\ tab[t].phase = "linking"
      /\ tab[t].mandate \in MandateId /\ tab[t].mandate # None
      /\ Passed(tab[t].mandate)
      /\ tab[t].payer \in Payer /\ tab[t].payer # None
      /\ payerOf[tab[t].mandate] = tab[t].payer
      /\ UNCHANGED <<dialog, chain, history>>
      /\ faults' = faults \/ Fault
  BY FundedExists, NoneAssumption DEF Inv, WriteLink, PagesInv, PageInv
<1>2. PICK r \in Page :
        /\ tab' = [tab EXCEPT ![t] = r] /\ r.phase = "complete"
        /\ r.payer = tab[t].payer /\ r.mandate = tab[t].mandate
        /\ r.warning \/ session' = LinkedSession(t)
  <2>1. CASE /\ session' = LinkedSession(t)
             /\ tab' = [tab EXCEPT ![t] = AfterLinkSuccess(tab[t])]
    BY <1>1, <2>1, LinkSuccessFields DEF SamePayer
  <2>2. CASE tab' = [tab EXCEPT ![t] = AfterLinkError(tab[t])]
    BY <1>1, <2>2, WarnFields
  <2> QED
    BY <2>1, <2>2 DEF WriteLink
<1>3. CASE UNCHANGED session
  <2>1. r.phase = "complete" /\ ~r.warning => session.mandate # None
    BY <1>1, <1>2, <1>3 DEF LinkedSession
  <2> QED
    BY <1>1, <1>2, <1>3, <2>1, LinkingGoesOn
<1>4. CASE session' = LinkedSession(t)
  <2>1. UNCHANGED <<dialog, payerOf, revoked, allowance, funded, unread, lost,
                    reloads>>
    BY <1>1 DEF chain, history
  <2>2. /\ tab' \in [Tab -> Page] /\ tab'[t] = r
        /\ \A u \in Tab : u # t => tab'[u] = tab[u]
    BY <1>1, <1>2, Typed
  <2>3. TypeOK'
    <3>1. faults' \in 0 .. MaxFaults /\ reloads' \in 0 .. faults'
      BY <1>1, <2>1, CheckoutAssumption DEF Fault, TypeOK
    <3> QED
      BY <1>1, <1>4, <2>1, <2>2, <3>1
      DEF TypeOK, Created, Page, Phase, ApprovalStep, LinkedSession
  <2>4. Steady /\ \A u \in Tab : Tries(u)' = Tries(u)
    BY <1>1, <1>4, <2>1, Typed DEF Steady, PayersKept, Tries, LinkedSession
  <2>5. PageInv(t)'
    <3>1. PICK k \in 0 .. MaxTries : Numbered(t, k)
      BY DEF Inv, PagesInv, PageInv
    <3>2. Numbered(t, k)'
      BY <1>1, <1>2, <2>1, <2>2, <2>4, <3>1 DEF Numbered, Early
    <3> QED
      BY <1>1, <1>2, <1>4, <2>1, <2>2, <3>2
      DEF PageInv, NoPayer, LinkedSession, Passed
  <2>6. PagesInv'
    BY <1>1, <1>2, <2>1, <2>3, <2>4, <2>5, PagesFollow DEF Inv
  <2>7. ResetBeforeRaise'
    <3>1. \A u \in Tab : tab'[u].payer = tab[u].payer
      BY <1>2, <2>2
    <3>2. ASSUME NEW u \in Tab, tab'[u].phase = "approving", tab'[u].step = "set"
          PROVE  /\ tab'[u] = tab[u]
                 /\ allowance'[tab[u].payer] <= allowance[tab[u].payer]
      <4>1. tab'[u] = tab[u]
        BY <1>2, <2>2, <3>2
      <4>2. tab[u].payer \in Payer
        BY <3>2, <4>1, Typed DEF Inv, PagesInv, PageInv, NoPayer, Page
      <4>3. allowance[tab[u].payer] \in Int
        BY <1>1, <4>2, CheckoutAssumption DEF TypeOK
      <4> QED
        BY <2>1, <4>1, <4>3
    <3>3. reloads' >= reloads
      BY <1>1, <2>1, Typed
    <3> QED
      BY <2>3, <3>1, <3>2, <3>3, ResetFollows
  <2>8. SessionNamesItsPayer'
    BY <1>1, <1>4, <2>1 DEF SessionNamesItsPayer, LinkedSession
  <2> QED
    BY <2>1, <2>3, <2>6, <2>7, <2>8 DEF Inv, DialogInv, Created, Gone
<1> QED
  BY <1>3, <1>4 DEF WriteLink

\* A page that is loaded again may leave one mandate behind: one reload more.
LEMMA ReloadKeeps ==
  ASSUME Inv, NEW t \in Tab, Reload(t)
  PROVE  Inv'
<1>1. /\ TypeOK /\ Fault /\ reloads' = reloads + 1 /\ reloads \in Nat
      /\ UNCHANGED <<dialog, payerOf, revoked, allowance, session, funded, unread,
                     lost>>
      /\ tab[t].phase \notin {"idle", "closed"}
  BY Typed DEF Inv, Reload, chain
<1>2. PICK r \in Page :
        /\ tab' = [tab EXCEPT ![t] = r] /\ r.phase \in {"idle", "closed"}
        /\ r.payer = None /\ r.mandate = None
  <2>1. CASE tab' = [tab EXCEPT ![t] = Blank]
    BY <2>1, BlankFields
  <2>2. CASE tab' = [tab EXCEPT ![t] = [Blank EXCEPT !.phase = "closed"]]
    <3> DEFINE r == [Blank EXCEPT !.phase = "closed"]
    <3>1. r \in Page /\ r.phase = "closed" /\ r.payer = None /\ r.mandate = None
      BY BlankFields DEF Page, Phase
    <3> HIDE DEF r
    <3> QED
      BY <2>2, <3>1 DEF r
  <2> QED
    BY <2>1, <2>2 DEF Reload
<1>3. /\ tab' \in [Tab -> Page] /\ tab'[t] = r
      /\ \A u \in Tab : u # t => tab'[u] = tab[u]
  BY <1>1, <1>2, Typed
<1>4. TypeOK'
  <2>1. faults' \in 0 .. MaxFaults /\ reloads' \in 0 .. faults'
    BY <1>1, CheckoutAssumption DEF Fault, TypeOK
  <2> QED
    BY <1>1, <1>3, <2>1 DEF TypeOK, Created, Page, Phase, ApprovalStep
<1>5. Steady /\ \A u \in Tab : Tries(u)' = Tries(u)
  BY <1>1 DEF Steady, PayersKept, Tries
<1>6. PageInv(t)'
  <2>1. PICK k \in 0 .. MaxTries : Numbered(t, k)
    BY DEF Inv, PagesInv, PageInv
  <2>2. Numbered(t, k)'
    <3>1. k <= lost[t] + reloads + 1 /\ lost[t] \in Nat /\ k \in Int
      BY <1>1, <2>1, Typed DEF Numbered
    <3>2. k <= lost[t] + reloads' + (IF Early(r) THEN 0 ELSE 1)
      BY <1>1, <3>1
    <3> QED
      BY <1>1, <1>2, <1>3, <1>5, <2>1, <3>2 DEF Numbered
  <2> QED
    BY <1>2, <1>3, <2>2 DEF PageInv, NoPayer
<1>7. PagesInv'
  BY <1>1, <1>2, <1>4, <1>5, <1>6, PagesFollow DEF Inv
<1>8. ResetBeforeRaise'
  BY <1>1 DEF ResetBeforeRaise
<1> QED
  BY <1>1, <1>4, <1>7, <1>8
  DEF Inv, DialogInv, Created, SessionNamesItsPayer, Gone

-----------------------------------------------------------------------------
(* The dialog, the relayer and the session's end.                          *)

Dialog ==
  [ phase : {"idle", "confirming", "revoking", "revoke-error",
             "checking-allowance", "allowance-prompt", "zeroing-allowance",
             "zero-allowance-error", "complete"},
    mandate : MandateId \cup {None} ]

\* Pages do not move, and nobody is given a higher allowance.
LEMMA PagesRest ==
  ASSUME Inv, UNCHANGED <<tab, payerOf, funded, lost, reloads>>,
         unread \subseteq unread',
         unread' \subseteq {"approve", "revoke", "zero"} \X Created,
         faults' = faults \/ Fault,
         session' \in [ status : {"pending", "completed", "expired"},
                        mandate : MandateId \cup {None}, payer : Payer \cup {None} ],
         session'.mandate = session.mandate,
         session'.payer = session.payer,
         session'.status = "completed" <=> session.status = "completed",
         allowance' \in [Payer -> 0 .. Total],
         \A p \in Payer : allowance'[p] <= allowance[p],
         revoked \subseteq revoked', revoked' \subseteq Created,
         dialog' \in Dialog,
         dialog'.phase # "idle" => dialog'.mandate \in Created,
         dialog'.phase \in Cancelled => Gone(dialog.mandate)'
  PROVE  Inv'
<1>1. UNCHANGED <<funded, lost, reloads>> /\ TypeOK
  BY DEF Inv
<1>2. TypeOK'
  <2>1. faults' \in 0 .. MaxFaults /\ reloads' \in 0 .. faults'
    BY <1>1, CheckoutAssumption DEF Fault, TypeOK
  <2> QED
    BY <1>1, <2>1 DEF TypeOK, Created, Dialog
<1>3. Steady /\ \A u \in Tab : Tries(u)' = Tries(u)
  BY <1>1, Typed DEF Steady, PayersKept, Tries
<1>4. PagesInv'
  BY <1>1, <1>2, <1>3, PageStays DEF Inv, PagesInv
<1>5. ResetBeforeRaise'
  <2>1. ASSUME NEW u \in Tab, tab[u].phase = "approving"
        PROVE  allowance'[tab[u].payer] <= allowance[tab[u].payer]
    <3>1. tab[u].payer \in Payer
      BY <1>1, <2>1, Typed DEF Inv, PagesInv, PageInv, NoPayer, Page
    <3> QED
      BY <3>1
  <2>2. reloads' >= reloads
    BY <1>1, Typed
  <2> QED
    BY <1>2, <2>1, <2>2, ResetFollows
<1>6. DialogInv'
  BY DEF DialogInv, Created
<1>7. SessionNamesItsPayer'
  BY DEF Inv, SessionNamesItsPayer
<1> QED
  BY <1>2, <1>4, <1>5, <1>6, <1>7 DEF Inv

LEMMA DialogTyped ==
  ASSUME Inv
  PROVE  /\ dialog \in Dialog
         /\ allowance \in [Payer -> 0 .. Total]
         /\ \A p \in Payer : allowance[p] <= allowance[p] /\ allowance[p] \in Int
         /\ dialog.phase # "idle" =>
              /\ dialog.mandate \in Created /\ dialog.mandate \in MandateId
              /\ payerOf[dialog.mandate] \in Payer
         /\ revoked \subseteq Created
         /\ unread \subseteq {"approve", "revoke", "zero"} \X Created
BY CheckoutAssumption DEF Inv, TypeOK, Dialog, DialogInv, Created

LEMMA ShowFields ==
  ASSUME Inv, NEW phase \in Cancelled \cup {"confirming", "revoking", "revoke-error"},
         Show(phase)
  PROVE  /\ dialog' \in Dialog /\ dialog'.phase = phase
         /\ dialog'.mandate = dialog.mandate
BY DialogTyped DEF Show, Dialog, Cancelled

\* What waits for nothing: opening, confirming, skipping and closing.
LEMMA DialogMoves ==
  ASSUME Inv,
         \/ \E m \in MandateId : OpenConfirm(m)
         \/ ConfirmRevoke \/ ConfirmZero \/ SkipAllowance \/ Close
  PROVE  Inv'
<1>1. UNCHANGED <<tab, payerOf, revoked, allowance, funded, unread, lost,
                  reloads, session, faults>>
  BY DEF OpenConfirm, ConfirmRevoke, ConfirmZero, SkipAllowance, Close, chain,
         history
<1>2. /\ dialog' \in Dialog
      /\ dialog'.phase # "idle" => dialog'.mandate \in Created
      /\ dialog'.phase \in Cancelled => Gone(dialog'.mandate)
  <2>1. CASE \E m \in MandateId : OpenConfirm(m)
    BY <2>1 DEF OpenConfirm, Dialog, Cancelled
  <2>2. CASE ConfirmRevoke
    BY <2>2, ShowFields, DialogTyped DEF ConfirmRevoke, Cancelled
  <2>3. CASE ConfirmZero
    BY <2>3, ShowFields, DialogTyped DEF ConfirmZero, Cancelled, Inv, DialogInv
  <2>4. CASE SkipAllowance
    BY <2>4, ShowFields, DialogTyped DEF SkipAllowance, Cancelled, Inv, DialogInv
  <2>5. CASE Close
    BY <2>5 DEF Close, NoDialog, Dialog, Cancelled
  <2> QED
    BY <2>1, <2>2, <2>3, <2>4, <2>5
<1> QED
  BY <1>1, <1>2, DialogTyped, PagesRest DEF Inv, TypeOK, Gone, history

LEMMA RevokeKeeps ==
  ASSUME Inv, Revoke
  PROVE  Inv'
<1>1. /\ UNCHANGED <<tab, payerOf, allowance, session, funded, lost, reloads>>
      /\ faults' = faults \/ Fault
      /\ dialog.phase = "revoking" /\ dialog.mandate \in Created
      /\ revoked \subseteq revoked' /\ revoked' \subseteq Created
      /\ unread \subseteq unread'
      /\ unread' \subseteq unread \cup {<<"revoke", dialog.mandate>>}
  BY DialogTyped DEF Revoke, IncludedAsFailed
<1>2. \/ /\ Show("checking-allowance")
         /\ \/ dialog.mandate \in revoked'
            \/ <<"revoke", dialog.mandate>> \in unread'
      \/ Show("revoke-error")
  BY DEF Revoke, AfterRevokeError, IncludedAsFailed
<1>3. /\ dialog' \in Dialog /\ dialog'.mandate = dialog.mandate
      /\ dialog'.phase \in Cancelled => Gone(dialog.mandate)'
  BY <1>1, <1>2, ShowFields DEF Cancelled, Gone
<1> QED
  BY <1>1, <1>3, DialogTyped, PagesRest DEF Inv, TypeOK, Gone, history

LEMMA CheckAllowanceKeeps ==
  ASSUME Inv, CheckAllowance
  PROVE  Inv'
<1>1. /\ UNCHANGED <<tab, payerOf, revoked, allowance, session, funded, unread,
                     lost, reloads>>
      /\ faults' = faults \/ Fault
      /\ dialog.phase = "checking-allowance" /\ Gone(dialog.mandate)
      /\ dialog.mandate \in Created
  BY DialogTyped DEF CheckAllowance, chain, history, Inv, DialogInv, Cancelled
<1>2. \/ Show("allowance-prompt") \/ Show("complete")
      \/ Show("zero-allowance-error")
  BY DEF CheckAllowance
<1>3. /\ dialog' \in Dialog /\ dialog'.mandate = dialog.mandate
  BY <1>2, ShowFields DEF Cancelled
<1> QED
  BY <1>1, <1>3, DialogTyped, PagesRest DEF Inv, TypeOK, Gone, history

LEMMA ZeroAllowanceKeeps ==
  ASSUME Inv, ZeroAllowance
  PROVE  Inv'
<1> DEFINE q == payerOf[dialog.mandate]
<1>1. /\ UNCHANGED <<tab, payerOf, revoked, session, funded, lost, reloads>>
      /\ faults' = faults \/ Fault
      /\ dialog.phase = "zeroing-allowance" /\ Gone(dialog.mandate)
      /\ dialog.mandate \in Created /\ q \in Payer
      /\ unread \subseteq unread'
      /\ unread' \subseteq unread \cup {<<"zero", dialog.mandate>>}
      /\ allowance' = [allowance EXCEPT ![q] = 0] \/ allowance' = allowance
  BY DialogTyped DEF ZeroAllowance, IncludedAsFailed, Inv, DialogInv, Cancelled
<1>2. Show("complete") \/ Show("zero-allowance-error")
  BY DEF ZeroAllowance, IncludedAsFailed
<1>3. /\ dialog' \in Dialog /\ dialog'.mandate = dialog.mandate
  BY <1>2, ShowFields DEF Cancelled
<1>4. /\ allowance' \in [Payer -> 0 .. Total]
      /\ \A p \in Payer : allowance'[p] <= allowance[p]
  <2>1. 0 \in 0 .. Total /\ allowance \in [Payer -> 0 .. Total]
        /\ \A p \in Payer : allowance[p] <= allowance[p] /\ 0 <= allowance[p]
    BY CheckoutAssumption DEF Inv, TypeOK
  <2> HIDE DEF q
  <2> QED
    BY <1>1, <2>1
<1> QED
  BY <1>1, <1>3, <1>4, DialogTyped, PagesRest DEF Inv, TypeOK, Gone, history

LEMMA ChargeKeeps ==
  ASSUME Inv, NEW m \in MandateId, Charge(m)
  PROVE  Inv'
<1> DEFINE q == payerOf[m]
<1>1. /\ UNCHANGED <<tab, dialog, payerOf, revoked, session, history, faults>>
      /\ q \in Payer /\ allowance[q] > 0
      /\ allowance' = [allowance EXCEPT ![q] = allowance[q] - 1]
  BY DEF Charge, Inv, TypeOK, Created
<1>2. /\ allowance' \in [Payer -> 0 .. Total]
      /\ \A p \in Payer : allowance'[p] <= allowance[p]
  <2>1. /\ allowance \in [Payer -> 0 .. Total] /\ Total \in Nat
        /\ \A p \in Payer : allowance[p] \in 0 .. Total
    BY CheckoutAssumption DEF Inv, TypeOK
  <2>2. allowance[q] - 1 \in 0 .. Total /\ allowance[q] - 1 <= allowance[q]
    BY <1>1, <2>1
  <2> HIDE DEF q
  <2> QED
    BY <1>1, <2>1, <2>2
<1>3. dialog.phase \in Cancelled => Gone(dialog.mandate)
  BY DEF Inv, DialogInv
<1> QED
  BY <1>1, <1>2, <1>3, DialogTyped, PagesRest DEF Inv, TypeOK, Gone, history

LEMMA SessionExpiresKeeps ==
  ASSUME Inv, SessionExpires
  PROVE  Inv'
<1> DEFINE row == [session EXCEPT !.status = "expired"]
<1>1. /\ UNCHANGED <<tab, dialog, payerOf, revoked, allowance, history, faults>>
      /\ session.status = "pending" /\ session' = row
  BY DEF SessionExpires, chain
<1>2. /\ row \in [ status : {"pending", "completed", "expired"},
                   mandate : MandateId \cup {None}, payer : Payer \cup {None} ]
      /\ row.mandate = session.mandate /\ row.payer = session.payer
      /\ row.status = "expired"
  BY DEF Inv, TypeOK
<1>3. dialog.phase \in Cancelled => Gone(dialog.mandate)
  BY DEF Inv, DialogInv
<1> HIDE DEF row
<1> QED
  BY <1>1, <1>2, <1>3, DialogTyped, PagesRest DEF Gone, history

-----------------------------------------------------------------------------
(* The theorems.                                                           *)

LEMMA InvInit == Init => Inv
<1> SUFFICES ASSUME Init PROVE Inv
  OBVIOUS
<1>1. \A t \in Tab : tab[t] = Blank
  BY DEF Init
<1>2. TypeOK
  <2>1. tab \in [Tab -> Page]
    BY BlankFields DEF Init
  <2>2. Blank \in Page
    BY BlankFields
  <2> QED
    BY <2>1, CheckoutAssumption
    DEF Init, TypeOK, Page, Phase, ApprovalStep, NoDialog, Created
<1>3. PagesInv
  <2> SUFFICES ASSUME NEW t \in Tab PROVE PageInv(t)
    BY DEF PagesInv
  <2>1. Tries(t) = 1 .. 0
    <3>1. \A n \in 1 .. MaxTries : <<t, n>> \in MandateId
      BY DEF MandateId
    <3> QED
      BY <3>1 DEF Init, Tries
  <2>2. Numbered(t, 0) /\ 0 \in 0 .. MaxTries
    BY <1>1, <2>1, BlankFields, CheckoutAssumption DEF Numbered, Early, Init
  <2> QED
    BY <1>1, <2>2, BlankFields DEF PageInv, NoPayer
<1>4. DialogInv /\ SessionNamesItsPayer
  BY DEF Init, DialogInv, NoDialog, Cancelled, SessionNamesItsPayer
<1>5. ResetBeforeRaise
  BY <1>1, BlankFields DEF ResetBeforeRaise
<1> QED
  BY <1>2, <1>3, <1>4, <1>5 DEF Inv

LEMMA InvStep ==
  ASSUME Inv, [Next]_vars
  PROVE  Inv'
<1>1. CASE UNCHANGED vars
  <2>1. UNCHANGED <<tab, dialog, payerOf, revoked, allowance, session, history,
                    faults>>
    BY <1>1 DEF vars, chain
  <2>2. dialog.phase \in Cancelled => Gone(dialog.mandate)
    BY DEF Inv, DialogInv
  <2> QED
    BY <2>1, <2>2, DialogTyped, PagesRest DEF Inv, TypeOK, Gone, history
<1>2. CASE Next
  BY <1>2, ConnectKeeps, AuthorizeKeeps, CreateMandateKeeps,
     QueryAllowanceKeeps, ApproveKeeps, RetryApproveKeeps, CheckLinkKeeps,
     WriteLinkKeeps, RetryLinkKeeps, ReloadKeeps, DialogMoves, RevokeKeeps,
     CheckAllowanceKeeps, ZeroAllowanceKeeps, ChargeKeeps, SessionExpiresKeeps
  DEF Next, PageStep
<1> QED
  BY <1>1, <1>2

LEMMA Invariance == Spec => []Inv
<1>1. Inv /\ [Next]_vars => Inv'
  BY InvStep
<1> QED
  BY <1>1, InvInit, PTL DEF Spec

\* Types: the reducers' states, and the rows and ledger entries behind them.
THEOREM TypeCorrectness == Spec => []TypeOK
<1>1. Inv => TypeOK
  BY DEF Inv
<1> QED
  BY <1>1, Invariance, PTL

\* checkout-state.ts and revoke-flow.ts: a page past its approval shows a
\* funded mandate of its payer, a completed one without a warning is linked,
\* and "cancelled" means revoked - unless the approval, or the revocation, of
\* that mandate was included as FAILED and mandate-gateway.ts took it for done.
THEOREM ScreensAreTrue == Spec => []ScreensTellTheTruth
<1>1. Inv => ScreensTellTheTruth
  BY DEF Inv, PagesInv, PageInv, DialogInv, Cancelled, ScreensTellTheTruth,
         Passed, Gone
<1> QED
  BY <1>1, Invariance, PTL

\* POST /checkout-sessions/:id/mandate: a completed session names a mandate
\* and that mandate's payer, whichever of two links was written last.
THEOREM SessionsNamePayers == Spec => []SessionNamesItsPayer
<1>1. Inv => SessionNamesItsPayer
  BY DEF Inv
<1> QED
  BY <1>1, Invariance, PTL

\* runApprove: the total is asked for only when nothing is left of an older
\* allowance, unless the payer has another page.
THEOREM ResetComesFirst == Spec => []ResetBeforeRaise
<1>1. Inv => ResetBeforeRaise
  BY DEF Inv
<1> QED
  BY <1>1, Invariance, PTL

\* The retries of checkout-flow.tsx: one mandate per tab, and one more for
\* every lost answer and page loaded again.
THEOREM NoMandateTwice == Spec => []NoNeedlessMandate
<1>1. Inv => NoNeedlessMandate
  <2> SUFFICES ASSUME Inv, NEW t \in Tab
               PROVE  Cardinality(Tries(t)) <= 1 + lost[t] + reloads
    BY DEF NoNeedlessMandate
  <2>1. PICK k \in 0 .. MaxTries : Numbered(t, k)
    BY DEF Inv, PagesInv, PageInv
  <2>2. Cardinality(Tries(t)) = k
    BY <2>1, FS_Interval DEF Numbered
  <2> QED
    BY <2>1, <2>2, Typed DEF Numbered, Inv
<1> QED
  BY <1>1, Invariance, PTL

=============================================================================
