------------------------ MODULE MerchantConsoleProofs ------------------------
(***************************************************************************)
(* What holds of the merchant's dashboard for any number of wallets and    *)
(* sessions.                                                               *)
(*                                                                         *)
(* The argument.  A session never changes its wallet, and everything on a  *)
(* page came with the token the page was rendered with: lists because each *)
(* request carries it, the secret because the page is rendered again with  *)
(* the token of the action that drew it.  A page that is still loading has *)
(* no form, so no list of the page before arrives after that.              *)
(***************************************************************************)
EXTENDS MerchantConsole, FiniteSetTheorems, TLAPS

-----------------------------------------------------------------------------
(* The invariant.                                                          *)

\* The merchants whose lists, and whose secret, the tab shows.
ShownOf == (tab.of \cup {tab.secret}) \ {None}

\* A page shows its token's merchant only, and nothing without a token; the
\* sign-in page has no lists.
PageInv ==
  /\ ShownOf # {} \/ tab.waiting # {} => tab.page \in Page /\ tab.token # None
  /\ tab.page = "connect" => tab.waiting = {} /\ ShownOf = {}
  /\ \A w \in ShownOf : w = sessions[tab.token].wallet

\* Only two pages are about a row, and once shown they have found it.
RowInv ==
  tab.row # None =>
    /\ tab.page \in {"mandate", "refund"}
    /\ tab.waiting = {} => tab.row \in tab.of

\* The page an action was submitted from is still there and has loaded, and
\* an action that is done was done for a merchant, and on this merchant's row.
PageOf(kind) ==
  CASE kind = "complete" -> {"connect"}
    [] kind \in {"create_key", "revoke_key"} -> {"developers"}
    [] kind = "webhook" -> {"webhooks"}
    [] OTHER -> Page

NeedsMerchant == NamesARow \cup {"create_key", "webhook", "product"}

CallInv ==
  call # None =>
    /\ tab.page \in PageOf(call.kind) /\ tab.waiting = {}
    /\ call.kind \in NamesARow => call.subject \in tab.of
    /\ call.kind = "complete" => call.subject # None
    /\ call.stage = "done" =>
         /\ call.kind = "complete" => call.gained # None
         /\ call.kind \in NeedsMerchant =>
              /\ call.token # None
              /\ call.kind \in NamesARow
                   => call.subject = sessions[call.token].wallet

IInv == TypeOK /\ PageInv /\ RowInv /\ CallInv

-----------------------------------------------------------------------------
(* The pages.                                                              *)

LEMMA NoneIsNoValue == None \notin Wallet /\ None \notin Session /\ None \notin SessionRow
BY ConsoleAssumption

(***************************************************************************)
(* What the table of pages says: the lists and forms are among Lists and   *)
(* Kinds, the two pages about a row ask for a list first, the sign-in page *)
(* for none, and keys and endpoints are made on their own pages.           *)
(***************************************************************************)
LEMMA PageFacts ==
  ASSUME NEW page \in Page
  PROVE  /\ Asks(page).first \subseteq Lists
         /\ Asks(page).then \subseteq Lists
         /\ Asks(page).forms \subseteq Kinds
         /\ Asks(page).row # None
              => page \in {"mandate", "refund"} /\ Asks(page).first # {}
         /\ page = "connect" => Asks(page).first = {}
         /\ "complete" \notin Asks(page).forms
         /\ {"create_key", "revoke_key"} \cap Asks(page).forms # {}
              => page = "developers"
         /\ "webhook" \in Asks(page).forms => page = "webhooks"
<1>1. /\ Asks(page).first \subseteq Lists
      /\ Asks(page).then \subseteq Lists
      /\ Asks(page).forms \subseteq Kinds
  BY DEF Lists, Kinds
<1>2. /\ Asks(page).row # None
           => page \in {"mandate", "refund"} /\ Asks(page).first # {}
      /\ page = "connect" => Asks(page).first = {}
      /\ "complete" \notin Asks(page).forms
  BY DEF Page, Asks, Listing, ConnectPage, NewProductPage, ProductsPage,
         LinksPage, MandatesPage, MandatePage, UpcomingPage, FailedPage,
         PaymentsPage, RefundPage, RefundsPage, DevelopersPage, WebhooksPage
<1>3. /\ {"create_key", "revoke_key"} \cap Asks(page).forms # {}
           => page = "developers"
      /\ "webhook" \in Asks(page).forms => page = "webhooks"
  BY DEF Page, Asks, Listing, ConnectPage, NewProductPage, ProductsPage,
         LinksPage, MandatesPage, MandatePage, UpcomingPage, FailedPage,
         PaymentsPage, RefundPage, RefundsPage, DevelopersPage, WebhooksPage
<1> QED
  BY <1>1, <1>2, <1>3

-----------------------------------------------------------------------------
(* Sessions.                                                               *)

\* Rows keep their types, and a session its wallet.
Kept ==
  /\ sessions' \in [Session -> SessionRow \cup {None}]
  /\ merchants' \subseteq Wallet
  /\ \A s \in Session : sessions[s] # None =>
       sessions'[s] # None /\ sessions'[s].wallet = sessions[s].wallet

LEMMA KeptUnchanged ==
  ASSUME TypeOK, UNCHANGED apiVars
  PROVE  Kept
BY DEF TypeOK, apiVars, Kept

LEMMA KeptNewSession ==
  ASSUME TypeOK, NEW s \in Session, NEW w \in Wallet, NewSession(s, w)
  PROVE  Kept /\ sessions'[s] # None
<1> DEFINE new == [wallet |-> w, linked |-> w \in merchants, over |-> FALSE]
<1>1. new \in SessionRow /\ new # None
  <2>1. \A b \in BOOLEAN : [wallet |-> w, linked |-> b, over |-> FALSE] \in SessionRow
    BY DEF SessionRow
  <2>2. (w \in merchants) = TRUE \/ (w \in merchants) = FALSE
    OBVIOUS
  <2> QED
    BY <2>1, <2>2, NoneIsNoValue
<1>2. sessions' = [sessions EXCEPT ![s] = new] /\ sessions[s] = None
  BY DEF NewSession, Fresh
<1>3. merchants' = merchants
  BY DEF NewSession
<1> QED
  BY <1>1, <1>2, <1>3 DEF TypeOK, Kept

LEMMA KeptRegister ==
  ASSUME TypeOK, NEW s \in Session, Register(s)
  PROVE  Kept
<1> DEFINE new == [sessions[s] EXCEPT !.linked = TRUE]
<1>1. sessions[s] \in SessionRow
  BY DEF Register, Live, TypeOK
<1>2. new \in SessionRow /\ new # None /\ new.wallet = sessions[s].wallet
  BY <1>1, NoneIsNoValue DEF SessionRow
<1>3. sessions' = [sessions EXCEPT ![s] = new]
  BY DEF Register, TypeOK
<1>4. merchants' \subseteq Wallet
  BY <1>1 DEF Register, TypeOK, SessionRow
<1> QED
  BY <1>2, <1>3, <1>4 DEF TypeOK, Kept

LEMMA KeptEnd ==
  ASSUME TypeOK, NEW s \in Session, End(s)
  PROVE  Kept
<1> DEFINE new == [sessions[s] EXCEPT !.over = TRUE]
<1>1. sessions[s] \in SessionRow
  BY DEF End, Live, TypeOK
<1>2. new \in SessionRow /\ new # None /\ new.wallet = sessions[s].wallet
  BY <1>1, NoneIsNoValue DEF SessionRow
<1>3. sessions' = [sessions EXCEPT ![s] = new] /\ merchants' = merchants
  BY DEF End, TypeOK
<1> QED
  BY <1>2, <1>3 DEF TypeOK, Kept

\* The wallet of a token that speaks for a merchant.
LEMMA OwnerFacts ==
  ASSUME TypeOK, NEW s \in Session \cup {None}, OwnerOf(s) # None
  PROVE  /\ s \in Session /\ sessions[s] # None
         /\ OwnerOf(s) = sessions[s].wallet /\ OwnerOf(s) \in Wallet
BY NoneIsNoValue DEF OwnerOf, Live, TypeOK, SessionRow

-----------------------------------------------------------------------------
(* Pages that come and go.                                                 *)

LEMMA NewPage ==
  ASSUME Kept, call' = None,
         jar' \in Session \cup {None}, jar' # None => sessions'[jar'] # None,
         NEW page \in Page, NEW token \in Session \cup {None},
         token # None => sessions'[token] # None,
         NEW row \in Wallet \cup {None},
         row # None => page \in {"mandate", "refund"} /\ Asks(page).first # {},
         tab' = Rendered(page, token, row)
  PROVE  IInv'
<1>1. CASE token = None
  <2>1. /\ Asks("connect").first = {} /\ "connect" \in Page
    BY PageFacts DEF Page
  <2>2. tab' = [ page |-> "connect", token |-> None, waiting |-> {}, of |-> {},
                 row |-> None, secret |-> None, panel |-> "idle" ]
    BY <1>1, <2>1 DEF Rendered, Blank, Screen
  <2>3. TypeOK'
    BY <2>1, <2>2 DEF Kept, TypeOK, TabState
  <2>4. ShownOf' = {}
    BY <2>2 DEF ShownOf
  <2> QED
    BY <2>2, <2>3, <2>4 DEF IInv, PageInv, RowInv, CallInv
<1>2. CASE token # None
  <2>1. /\ Asks(page).first \subseteq Lists
        /\ page = "connect" => Asks(page).first = {}
    BY PageFacts
  <2>2. tab' = [ page |-> page, token |-> token, waiting |-> Asks(page).first,
                 of |-> {}, row |-> row, secret |-> None, panel |-> "idle" ]
    BY <1>2 DEF Rendered, Blank, Screen
  <2>3. TypeOK'
    BY <2>1, <2>2 DEF Kept, TypeOK, TabState
  <2>4. ShownOf' = {}
    BY <2>2 DEF ShownOf
  <2> QED
    BY <1>2, <2>1, <2>2, <2>3, <2>4 DEF IInv, PageInv, RowInv, CallInv
<1> QED
  BY <1>1, <1>2

LEMMA PageEnds ==
  ASSUME Kept, call' = None,
         jar' \in Session \cup {None}, jar' # None => sessions'[jar'] # None,
         NEW page \in {"closed", "error", "missing"}, tab' = Screen(page)
  PROVE  IInv'
<1>1. tab' = [ page |-> page, token |-> None, waiting |-> {}, of |-> {},
               row |-> None, secret |-> None, panel |-> "idle" ]
  BY DEF Screen
<1>2. TypeOK'
  BY <1>1 DEF Kept, TypeOK, TabState
<1>3. ShownOf' = {}
  BY <1>1 DEF ShownOf
<1> QED
  BY <1>1, <1>2, <1>3 DEF IInv, PageInv, RowInv, CallInv

\* The tab and its action stay as they are while the API goes on.
LEMMA SameTab ==
  ASSUME IInv, Kept, UNCHANGED <<tab, call>>,
         jar' \in Session \cup {None}, jar' # None => sessions'[jar'] # None
  PROVE  IInv'
<1>1. TypeOK'
  BY DEF IInv, TypeOK, Kept, TabState, CallState
<1>2. PageInv'
  BY NoneIsNoValue DEF IInv, TypeOK, TabState, PageInv, ShownOf, Kept
<1>3. RowInv' /\ CallInv'
  BY DEF IInv, TypeOK, CallState, RowInv, CallInv, Kept
<1> QED
  BY <1>1, <1>2, <1>3 DEF IInv

\* A page that stays, but for its panel and a secret that goes.
LEMMA PageStays ==
  ASSUME IInv, Kept, tab' \in TabState,
         tab'.page = tab.page, tab'.token = tab.token,
         tab'.waiting = tab.waiting, tab'.of = tab.of, tab'.row = tab.row,
         tab'.secret \in {tab.secret, None}
  PROVE  PageInv' /\ RowInv'
<1>1. ShownOf' \subseteq ShownOf
  BY DEF ShownOf
<1>2. PageInv'
  BY <1>1, NoneIsNoValue DEF IInv, TypeOK, TabState, PageInv, Kept
<1>3. RowInv'
  BY DEF IInv, RowInv
<1> QED
  BY <1>2, <1>3

-----------------------------------------------------------------------------
(* The steps of a page.                                                    *)

LEMMA OpenKeeps ==
  ASSUME IInv, NEW page \in Page, NEW row \in Wallet \cup {None}, Open(page, row)
  PROVE  IInv'
<1>1. /\ tab' = Rendered(page, jar, row) /\ call' = None
      /\ UNCHANGED <<jar, apiVars>>
      /\ Asks(page).row = None => row = None
  BY DEF Open
<1>2. Kept
  BY <1>1, KeptUnchanged DEF IInv
<1>3. row # None => page \in {"mandate", "refund"} /\ Asks(page).first # {}
  BY <1>1, PageFacts
<1> QED
  BY <1>1, <1>2, <1>3, NewPage DEF IInv, TypeOK, apiVars

LEMMA ServeKeeps ==
  ASSUME IInv, NEW list \in Lists, Serve(list)
  PROVE  IInv'
<1> DEFINE owner == OwnerOf(tab.token)
<1>1. /\ list \in tab.waiting /\ UNCHANGED <<jar, apiVars, call>>
      /\ \/ owner # None /\ tab' = Answered(list, owner)
         \/ tab' = Screen("error")
  BY DEF Serve, PageToken
<1>2. Kept /\ call = None
  BY <1>1, KeptUnchanged DEF IInv, CallInv
<1>3. CASE tab' = Screen("error") \/ tab' = Screen("missing")
  BY <1>1, <1>2, <1>3, PageEnds DEF IInv, TypeOK, apiVars
<1>4. CASE owner # None /\ tab' = Answered(list, owner) /\ tab' # Screen("missing")
  <2>1. /\ tab.page \in Page /\ tab.token # None /\ tab.token \in Session
        /\ sessions[tab.token] # None
        /\ owner = sessions[tab.token].wallet /\ owner \in Wallet
    BY <1>1, <1>4, OwnerFacts DEF IInv, PageInv, TypeOK, TabState
  <2>2. Asks(tab.page).then \subseteq Lists
    BY <2>1, PageFacts
  <2>3. PICK waiting \in SUBSET Lists :
          /\ tab' = [tab EXCEPT !.waiting = waiting, !.of = tab.of \cup {owner}]
          /\ waiting = {} => tab.row = None \/ tab.row \in tab.of \cup {owner}
    <3>1. CASE tab.waiting \ {list} # {}
      <4>1. tab' = [tab EXCEPT !.waiting = tab.waiting \ {list},
                               !.of = tab.of \cup {owner}]
        BY <1>4, <3>1 DEF Answered
      <4>2. tab.waiting \ {list} \in SUBSET Lists
        BY DEF IInv, TypeOK, TabState
      <4> DEFINE rest == tab.waiting \ {list}
      <4> HIDE DEF rest
      <4>3. /\ rest \in SUBSET Lists /\ rest # {}
            /\ tab' = [tab EXCEPT !.waiting = rest, !.of = tab.of \cup {owner}]
        BY <4>1, <4>2, <3>1 DEF rest
      <4> QED
        BY <4>3
    <3>2. CASE tab.waiting \ {list} = {}
      <4> DEFINE then == IF list \in Asks(tab.page).then THEN {} ELSE Asks(tab.page).then
      <4>1. /\ IsThere(tab.of \cup {owner})
            /\ tab' = [tab EXCEPT !.waiting = then, !.of = tab.of \cup {owner}]
        BY <1>4, <3>2 DEF Answered
      <4>2. then \in SUBSET Lists
        BY <2>2
      <4> QED
        BY <4>1, <4>2 DEF IsThere
    <3> QED
      BY <3>1, <3>2
  <2>4. TypeOK'
    BY <1>1, <2>1, <2>3 DEF IInv, TypeOK, TabState, apiVars
  <2>5. /\ tab' \in TabState /\ tab'.page = tab.page /\ tab'.token = tab.token
        /\ tab'.of = tab.of \cup {owner} /\ tab'.row = tab.row
        /\ tab'.secret = tab.secret /\ tab'.waiting = waiting
    BY <2>3, <2>4 DEF IInv, TypeOK, TabState
  <2>6. ShownOf' \subseteq ShownOf \cup {owner}
    BY <2>5 DEF ShownOf
  <2>7. PageInv'
    BY <1>1, <2>1, <2>5, <2>6 DEF IInv, PageInv, apiVars
  <2>8. RowInv'
    BY <2>3, <2>5 DEF IInv, RowInv
  <2>9. CallInv'
    BY <1>1, <1>2 DEF CallInv
  <2> QED
    BY <2>4, <2>7, <2>8, <2>9 DEF IInv
<1> QED
  BY <1>1, <1>3, <1>4

-----------------------------------------------------------------------------
(* The steps of the sign-in panel, and of the buttons.                     *)

LEMMA PanelKeeps ==
  ASSUME IInv, UNCHANGED apiVars,
         jar' \in Session \cup {None}, jar' # None => sessions[jar'] # None,
         NEW phase \in {"idle", "connecting", "signing", "completing", "profile"},
         tab.page = "connect" \/ phase = "idle",
         tab' = [tab EXCEPT !.panel = phase],
         call' = None \/ call' = call
  PROVE  IInv'
<1>1. Kept
  BY KeptUnchanged DEF IInv
<1>2. TypeOK'
  BY NoneIsNoValue DEF IInv, TypeOK, TabState, CallState, apiVars
<1>3. /\ tab' \in TabState /\ tab'.page = tab.page /\ tab'.token = tab.token
      /\ tab'.waiting = tab.waiting /\ tab'.of = tab.of /\ tab'.row = tab.row
      /\ tab'.secret = tab.secret
  BY <1>2 DEF IInv, TypeOK, TabState
<1>4. PageInv' /\ RowInv'
  BY <1>1, <1>3, PageStays
<1>5. CallInv'
  BY <1>3 DEF IInv, CallInv, apiVars
<1> QED
  BY <1>2, <1>4, <1>5 DEF IInv

LEMMA SignedKeeps ==
  ASSUME IInv, NEW w \in Wallet, Signed(w)
  PROVE  IInv'
<1>1. /\ tab.panel = "signing" /\ UNCHANGED <<jar, apiVars>>
      /\ tab' = [tab EXCEPT !.panel = "completing"]
      /\ call' = [ kind |-> "complete", token |-> None, subject |-> w,
                   stage |-> "sent", gained |-> None ]
  BY DEF Signed, Submit
<1>2. tab.page = "connect" /\ Kept
  BY <1>1, KeptUnchanged DEF IInv, TypeOK
<1>3. call' \in CallState /\ call'.token = None /\ call'.gained = None
  BY <1>1 DEF CallState, Kinds
<1>4. TypeOK'
  BY <1>1, <1>2, <1>3 DEF IInv, TypeOK, TabState, apiVars
<1>5. /\ tab' \in TabState /\ tab'.page = tab.page /\ tab'.token = tab.token
      /\ tab'.waiting = tab.waiting /\ tab'.of = tab.of /\ tab'.row = tab.row
      /\ tab'.secret = tab.secret
  BY <1>1, <1>4 DEF IInv, TypeOK, TabState
<1>6. PageInv' /\ RowInv'
  BY <1>2, <1>5, PageStays
<1>7. tab.waiting = {}
  BY <1>2 DEF IInv, PageInv
<1>8. CallInv'
  BY <1>1, <1>2, <1>5, <1>7, NoneIsNoValue DEF CallInv, PageOf, NamesARow
<1> QED
  BY <1>4, <1>6, <1>8 DEF IInv

LEMMA PressKeeps ==
  ASSUME IInv, NEW kind \in Kinds, Press(kind)
  PROVE  IInv'
<1>1. PICK w \in IF kind \in NamesARow THEN tab.of ELSE {None} :
        /\ UNCHANGED <<jar, apiVars, tab>>
        /\ call' = [ kind |-> kind, token |-> IF kind = "complete" THEN None ELSE jar,
                     subject |-> w, stage |-> "sent", gained |-> None ]
  BY DEF Press, Submit
<1>2. /\ tab.page \in Page /\ tab.waiting = {}
      /\ kind \in Asks(tab.page).forms \cup {"sign_out"}
  BY DEF Press, Shown, Offered
<1>3. PICK token \in {None, jar} :
        call' = [ kind |-> kind, token |-> token, subject |-> w,
                  stage |-> "sent", gained |-> None ]
  BY <1>1
<1>4. w \in Wallet \cup {None} /\ token \in Session \cup {None}
  BY <1>1, <1>3 DEF IInv, TypeOK, TabState
<1>5. /\ call' \in CallState /\ call'.token = token /\ call'.gained = None
      /\ call'.kind = kind /\ call'.subject = w /\ call'.stage = "sent"
  BY <1>3, <1>4 DEF CallState
<1>6. TypeOK'
  BY <1>1, <1>3, <1>5 DEF IInv, TypeOK, apiVars
<1>7. tab.page \in PageOf(kind) /\ kind # "complete"
  BY <1>2, PageFacts DEF PageOf
<1>8. CallInv'
  BY <1>1, <1>2, <1>5, <1>7 DEF CallInv, NamesARow
<1>9. PageInv' /\ RowInv'
  BY <1>1 DEF IInv, PageInv, ShownOf, RowInv, apiVars
<1> QED
  BY <1>6, <1>8, <1>9 DEF IInv

-----------------------------------------------------------------------------
(* The server's steps.                                                     *)

\* The stage of an action moves on while the page stays.
LEMMA StageMoves ==
  ASSUME IInv, Kept, call # None, UNCHANGED <<jar, tab>>,
         NEW stage \in {"sent", "done", "refused", "lost"},
         NEW gained \in Session \cup {None},
         gained # None => sessions'[gained] # None,
         Settled(stage, gained),
         stage = "done" =>
           /\ call.kind = "complete" => gained # None
           /\ call.kind \in NeedsMerchant =>
                /\ call.token # None
                /\ call.kind \in NamesARow
                     => call.subject = sessions[call.token].wallet
  PROVE  IInv'
<1>1. /\ call \in CallState /\ call # None
      /\ call' = [call EXCEPT !.stage = stage, !.gained = gained]
  BY DEF IInv, TypeOK, Settled
<1>2. /\ call' \in CallState /\ call'.kind = call.kind
      /\ call'.token = call.token /\ call'.subject = call.subject
      /\ call'.stage = stage /\ call'.gained = gained
  BY <1>1 DEF CallState
<1>3. TypeOK'
  BY <1>1, <1>2 DEF IInv, TypeOK, TabState, CallState, Kept
<1>4. PageInv'
  BY NoneIsNoValue DEF IInv, TypeOK, TabState, PageInv, ShownOf, Kept
<1>5. RowInv'
  BY DEF IInv, RowInv
<1>6. call.token # None => sessions'[call.token].wallet = sessions[call.token].wallet
  BY <1>1 DEF IInv, TypeOK, CallState, Kept
<1>7. CallInv'
  BY <1>1, <1>2, <1>6 DEF IInv, CallInv, NeedsMerchant
<1> QED
  BY <1>3, <1>4, <1>5, <1>7 DEF IInv

LEMMA RefuseKeeps ==
  ASSUME IInv, Refuse
  PROVE  IInv'
<1>1. PICK stage \in {"refused", "lost"} : Settled(stage, None)
  BY DEF Refuse
<1>2. Kept /\ call # None /\ UNCHANGED <<jar, tab>>
  BY KeptUnchanged DEF Refuse, IInv
<1> QED
  BY <1>1, <1>2, StageMoves

\* What the API has done for an action.
LEMMA EffectFacts ==
  ASSUME IInv, call # None, NEW gained \in Gains, Effect(gained)
  PROVE  /\ Kept /\ gained \in Session \cup {None}
         /\ gained # None => sessions'[gained] # None
         /\ call.kind = "complete" => gained # None
         /\ call.kind \in NeedsMerchant =>
              /\ call.token # None
              /\ call.kind \in NamesARow
                   => call.subject = sessions[call.token].wallet
<1>1. /\ call \in CallState /\ call.token \in Session \cup {None}
      /\ call.subject \in Wallet \cup {None}
  BY DEF IInv, TypeOK, CallState
<1>2. CASE call.kind = "complete"
  <2>1. gained \in Session /\ gained # None /\ call.subject \in Wallet
    BY <1>1, <1>2, NoneIsNoValue DEF Gains, IInv, CallInv
  <2>2. NewSession(gained, call.subject)
    BY <1>2 DEF Effect
  <2> QED
    BY <1>2, <2>1, <2>2, KeptNewSession DEF IInv, NeedsMerchant, NamesARow
<1>3. CASE call.kind = "profile"
  <2>1. Register(call.token) /\ call.token \in Session
    BY <1>1, <1>3 DEF Effect, Register, Live
  <2> QED
    BY <1>3, <2>1, KeptRegister DEF IInv, Gains, NeedsMerchant, NamesARow
<1>4. CASE call.kind = "sign_out"
  <2>1. End(call.token) /\ call.token \in Session
    BY <1>1, <1>4 DEF Effect, End, Live
  <2> QED
    BY <1>4, <2>1, KeptEnd DEF IInv, Gains, NeedsMerchant, NamesARow
<1>5. CASE call.kind \notin {"complete", "profile", "sign_out"}
  <2>1. OwnerOf(call.token) # None /\ Found /\ UNCHANGED apiVars
    BY <1>5 DEF Effect
  <2>2. /\ call.token \in Session
        /\ OwnerOf(call.token) = sessions[call.token].wallet
    BY <1>1, <2>1, OwnerFacts DEF IInv
  <2>3. Kept /\ gained = None
    BY <1>5, <2>1, KeptUnchanged DEF IInv, Gains
  <2>4. call.kind \in NamesARow => call.subject # None
    BY NoneIsNoValue DEF IInv, CallInv, TypeOK, TabState
  <2> QED
    BY <1>5, <2>1, <2>2, <2>3, <2>4, NoneIsNoValue DEF Found
<1> QED
  BY <1>2, <1>3, <1>4, <1>5

LEMMA PerformKeeps ==
  ASSUME IInv, Perform
  PROVE  IInv'
<1>1. call # None /\ UNCHANGED <<jar, tab>>
  BY DEF Perform
<1>2. PICK gained \in Gains :
        /\ Effect(gained)
        /\ \/ Settled("done", gained)
           \/ \E stage \in {"refused", "lost"} : Settled(stage, None)
  BY DEF Perform
<1>3. /\ Kept /\ gained \in Session \cup {None}
      /\ gained # None => sessions'[gained] # None
      /\ call.kind = "complete" => gained # None
      /\ call.kind \in NeedsMerchant =>
           /\ call.token # None
           /\ call.kind \in NamesARow
                => call.subject = sessions[call.token].wallet
  BY <1>1, <1>2, EffectFacts
<1>4. CASE Settled("done", gained)
  BY <1>1, <1>3, <1>4, StageMoves
<1>5. CASE \E stage \in {"refused", "lost"} : Settled(stage, None)
  BY <1>1, <1>3, <1>5, StageMoves
<1> QED
  BY <1>2, <1>4, <1>5

-----------------------------------------------------------------------------
(* The answers.                                                            *)

\* What every answer finds, and leaves.
LEMMA HearsFacts ==
  ASSUME IInv, NEW kinds, NEW stages, Hears(kinds, stages)
  PROVE  /\ call # None /\ call \in CallState /\ call' = None
         /\ call.kind \in kinds /\ call.stage \in stages
         /\ UNCHANGED apiVars /\ sessions' = sessions /\ Kept
BY KeptUnchanged DEF Hears, IInv, TypeOK, apiVars

LEMMA SignedInKeeps ==
  ASSUME IInv, SignedIn
  PROVE  IInv'
<1> DEFINE s == call.gained
<1>1. /\ Hears({"complete"}, {"done"}) /\ jar' = s
      /\ IF sessions[s].linked
         THEN Redirected("products", s)
         ELSE tab' = [tab EXCEPT !.panel = "profile", !.token = s]
  BY DEF SignedIn
<1>2. /\ call # None /\ call' = None /\ UNCHANGED apiVars
      /\ sessions' = sessions /\ Kept
      /\ call.kind = "complete" /\ call.stage = "done"
  BY <1>1, HearsFacts
<1>3. /\ s \in Session /\ sessions[s] # None
      /\ tab.page = "connect"
  BY <1>2 DEF IInv, TypeOK, CallState, CallInv, PageOf
<1>4. CASE sessions[s].linked
  <2>1. tab' = Rendered("products", s, None) /\ "products" \in Page
    BY <1>1, <1>4 DEF Redirected, Page
  <2> QED
    BY <1>1, <1>2, <1>3, <2>1, NewPage
<1>5. CASE ~sessions[s].linked
  <2>1. /\ tab \in TabState /\ tab' \in TabState
        /\ tab'.page = "connect" /\ tab'.token = s
        /\ tab'.waiting = tab.waiting /\ tab'.of = tab.of
        /\ tab'.row = tab.row /\ tab'.secret = tab.secret
    BY <1>1, <1>3, <1>5 DEF IInv, TypeOK, TabState
  <2>2. TypeOK'
    BY <1>1, <1>2, <1>3, <2>1 DEF IInv, TypeOK, apiVars
  <2>3. ShownOf' = {} /\ tab'.waiting = {}
    BY <1>3, <2>1 DEF IInv, PageInv, ShownOf
  <2>4. PageInv'
    BY <2>1, <2>3, <1>3 DEF PageInv, Page
  <2>5. RowInv' /\ CallInv'
    BY <1>2, <1>3, <2>1, <2>3 DEF IInv, RowInv, CallInv
  <2> QED
    BY <2>2, <2>4, <2>5 DEF IInv
<1> QED
  BY <1>4, <1>5

LEMMA SignInFailsKeeps ==
  ASSUME IInv, SignInFails
  PROVE  IInv'
<1>1. /\ call' = None /\ UNCHANGED apiVars /\ jar' = jar
      /\ tab' = [tab EXCEPT !.panel = "idle"]
  BY HearsFacts DEF SignInFails
<1> QED
  BY <1>1, PanelKeeps DEF IInv, TypeOK

LEMMA SignedOutKeeps ==
  ASSUME IInv, SignedOut
  PROVE  IInv'
<1>1. /\ Hears({"sign_out"}, {"done", "refused"}) /\ jar' = None
      /\ tab' = Rendered("connect", None, None)
  BY DEF SignedOut, Redirected
<1>2. call' = None /\ Kept /\ "connect" \in Page
  BY <1>1, HearsFacts DEF Page
<1> QED
  BY <1>1, <1>2, NewPage

LEMMA MadeKeeps ==
  ASSUME IInv, Made
  PROVE  IInv'
<1>1. /\ Hears({"profile", "product", "link", "refund"}, {"done"}) /\ jar' = jar
      /\ \E token \in {call.token, jar} :
           tab' = Rendered(Landing(call.kind), token, None)
  BY DEF Made, Redirected
<1>2. /\ call # None /\ call \in CallState /\ call' = None
      /\ sessions' = sessions /\ Kept
      /\ call.kind \in {"profile", "product", "link", "refund"}
  BY <1>1, HearsFacts
<1>3. Landing(call.kind) \in Page
  BY <1>2 DEF Landing, Page
<1>4. PICK token \in Session \cup {None} :
        /\ token # None => sessions'[token] # None
        /\ tab' = Rendered(Landing(call.kind), token, None)
  BY <1>1, <1>2 DEF IInv, TypeOK, CallState
<1>5. jar' \in Session \cup {None} /\ (jar' # None => sessions'[jar'] # None)
  BY <1>1, <1>2 DEF IInv, TypeOK
<1> QED
  BY <1>2, <1>3, <1>4, <1>5, NewPage

\* The page of a key or an endpoint, rendered again for the merchant whose
\* action it was: a secret on it is this merchant's.
LEMMA RerenderKeeps ==
  ASSUME IInv, NEW kinds, Hears(kinds, {"done"}),
         kinds \subseteq {"create_key", "revoke_key", "webhook"}, jar' = jar,
         NEW secret \in {tab.secret, sessions[call.token].wallet},
         "revoke_key" \notin kinds => secret = sessions[call.token].wallet,
         "revoke_key" \in kinds => kinds = {"revoke_key"},
         Rerender([Rerendered EXCEPT !.secret = secret])
  PROVE  IInv'
<1> DEFINE w == sessions[call.token].wallet
<1>1. /\ call # None /\ call \in CallState /\ call' = None
      /\ UNCHANGED apiVars /\ sessions' = sessions /\ Kept
      /\ call.kind \in kinds /\ call.stage = "done"
  BY HearsFacts
<1>2. jar' \in Session \cup {None} /\ (jar' # None => sessions'[jar'] # None)
  BY <1>1 DEF IInv, TypeOK
<1>3. CASE tab' = Screen("error")
  BY <1>1, <1>2, <1>3, PageEnds
<1>4. CASE /\ OwnerOf(call.token) # None
           /\ tab' = [Rerendered EXCEPT !.secret = secret]
  <2>1. /\ call.token \in Session /\ call.token # None
        /\ sessions[call.token] # None
        /\ OwnerOf(call.token) = w /\ w \in Wallet
    BY <1>1, <1>4, OwnerFacts, NoneIsNoValue DEF IInv, CallState
  <2>2. /\ tab.page \in {"developers", "webhooks"} /\ tab.waiting = {}
        /\ tab.page \in Page /\ tab.row = None
    BY <1>1 DEF IInv, CallInv, PageOf, RowInv, Page
  <2>3. secret \in {w, None}
    <3>1. CASE "revoke_key" \notin kinds
      BY <3>1
    <3>2. CASE "revoke_key" \in kinds
      <4>1. call.subject \in tab.of /\ call.subject = w
        BY <1>1, <3>2 DEF IInv, CallInv, NeedsMerchant, NamesARow
      <4>2. w \in ShownOf
        BY <2>1, <4>1, NoneIsNoValue DEF ShownOf
      <4>3. tab.secret # None => tab.secret \in ShownOf
        BY DEF ShownOf
      <4> QED
        BY <4>2, <4>3 DEF IInv, PageInv
    <3> QED
      BY <3>1, <3>2
  <2>4. tab' = [tab EXCEPT !.token = call.token, !.of = {w}, !.secret = secret]
    BY <1>4, <2>1 DEF Rerendered
  <2>5. /\ tab' \in TabState /\ tab'.page = tab.page /\ tab'.token = call.token
        /\ tab'.of = {w} /\ tab'.secret = secret /\ tab'.row = tab.row
        /\ tab'.waiting = tab.waiting /\ tab'.panel = tab.panel
    BY <2>1, <2>3, <2>4 DEF IInv, TypeOK, TabState
  <2>6. TypeOK'
    BY <1>1, <1>2, <2>1, <2>5 DEF IInv, TypeOK, apiVars
  <2>7. ShownOf' \subseteq {w}
    BY <2>3, <2>5 DEF ShownOf
  <2>8. PageInv'
    BY <1>1, <2>1, <2>2, <2>5, <2>7 DEF PageInv
  <2>9. RowInv' /\ CallInv'
    BY <1>1, <2>2, <2>5 DEF RowInv, CallInv
  <2> QED
    BY <2>6, <2>8, <2>9 DEF IInv
<1> QED
  BY <1>3, <1>4 DEF Rerender

LEMMA SecretShownKeeps ==
  ASSUME IInv, SecretShown
  PROVE  IInv'
BY RerenderKeeps DEF SecretShown

LEMMA RevokedKeeps ==
  ASSUME IInv, Revoked
  PROVE  IInv'
<1>1. Hears({"revoke_key"}, {"done"}) /\ Rerender(Rerendered) /\ jar' = jar
  BY DEF Revoked
<1>2. Rerendered = [Rerendered EXCEPT !.secret = tab.secret]
  BY DEF Rerendered, IInv, TypeOK, TabState
<1>3. Rerender([Rerendered EXCEPT !.secret = tab.secret])
  BY <1>1, <1>2
<1> QED
  BY <1>1, <1>3, RerenderKeeps

LEMMA ExplainedKeeps ==
  ASSUME IInv, Explained
  PROVE  IInv'
<1>1. /\ call' = None /\ UNCHANGED apiVars /\ jar' = jar
      /\ sessions' = sessions /\ Kept /\ tab' = [tab EXCEPT !.secret = None]
  BY HearsFacts DEF Explained
<1>2. TypeOK'
  BY <1>1 DEF IInv, TypeOK, TabState, apiVars
<1>3. /\ tab' \in TabState /\ tab'.page = tab.page /\ tab'.token = tab.token
      /\ tab'.waiting = tab.waiting /\ tab'.of = tab.of /\ tab'.row = tab.row
      /\ tab'.secret = None
  BY <1>1, <1>2 DEF IInv, TypeOK, TabState
<1> QED
  BY <1>1, <1>2, <1>3, PageStays DEF IInv, CallInv

LEMMA ThrownKeeps ==
  ASSUME IInv, RevokeRefused \/ Thrown
  PROVE  IInv'
<1>1. /\ call' = None /\ sessions' = sessions /\ Kept /\ jar' = jar
      /\ \/ tab' = Rendered("connect", None, None)
         \/ tab' = Screen("error")
  BY HearsFacts DEF RevokeRefused, Thrown, Redirected
<1>2. jar' \in Session \cup {None} /\ (jar' # None => sessions'[jar'] # None)
  BY <1>1 DEF IInv, TypeOK
<1> QED
  BY <1>1, <1>2, NewPage, PageEnds DEF Page

-----------------------------------------------------------------------------
(* Every step.                                                             *)

LEMMA ElsewhereKeeps ==
  ASSUME IInv, Elsewhere
  PROVE  IInv'
<1>1. UNCHANGED <<tab, call>> /\ Kept
  BY KeptUnchanged, KeptRegister, KeptEnd, KeptNewSession
     DEF Elsewhere, CookieSetElsewhere, RegisteredElsewhere, SessionEnds,
         SignedInElsewhere, IInv
<1>2. jar' \in Session \cup {None} /\ (jar' # None => sessions'[jar'] # None)
  <2>1. CASE CookieSetElsewhere
    BY <2>1 DEF CookieSetElsewhere, Fresh, apiVars
  <2>2. CASE jar' = jar
    BY <1>1, <2>2 DEF IInv, TypeOK, Kept
  <2> QED
    BY <2>1, <2>2 DEF Elsewhere, RegisteredElsewhere, SessionEnds, SignedInElsewhere
<1> QED
  BY <1>1, <1>2, SameTab

LEMMA StepKeeps == IInv /\ [Next]_vars => IInv'
<1> SUFFICES ASSUME IInv, [Next]_vars PROVE IInv'
  OBVIOUS
<1> USE DEF apiVars
<1>1. CASE \E page \in Page, row \in Wallet \cup {None} : Open(page, row)
  BY <1>1, OpenKeeps
<1>2. CASE Connect
  BY <1>2, PanelKeeps DEF Connect, IInv, TypeOK
<1>3. CASE \E kind \in Kinds : Press(kind)
  BY <1>3, PressKeeps
<1>4. CASE Load
  BY <1>4, ServeKeeps DEF Load
<1>5. CASE Panel
  <2>1. CASE Challenged \/ PanelFails
    BY <2>1, PanelKeeps DEF Challenged, PanelFails, IInv, TypeOK
  <2> QED
    BY <1>5, <2>1, SignedKeeps DEF Panel
<1>6. CASE Run
  BY <1>6, PerformKeeps, RefuseKeeps DEF Run
<1>7. CASE Answer
  BY <1>7, SignedInKeeps, SignInFailsKeeps, SignedOutKeeps, MadeKeeps,
     SecretShownKeeps, RevokedKeeps, ExplainedKeeps, ThrownKeeps DEF Answer
<1>8. CASE Elsewhere
  BY <1>8, ElsewhereKeeps
<1>9. CASE UNCHANGED vars
  BY <1>9, KeptUnchanged, SameTab DEF vars, IInv, TypeOK
<1> QED
  BY <1>1, <1>2, <1>3, <1>4, <1>5, <1>6, <1>7, <1>8, <1>9 DEF Next

LEMMA InitHolds == Init => IInv
<1> SUFFICES ASSUME Init PROVE IInv
  OBVIOUS
<1>1. tab = [ page |-> "closed", token |-> None, waiting |-> {}, of |-> {},
              row |-> None, secret |-> None, panel |-> "idle" ]
  BY DEF Init, Screen
<1>2. TypeOK
  BY <1>1 DEF Init, TypeOK, TabState
<1>3. ShownOf = {}
  BY <1>1 DEF ShownOf
<1> QED
  BY <1>1, <1>2, <1>3 DEF Init, IInv, PageInv, RowInv, CallInv

THEOREM ConsoleInvariant == Spec => []IInv
BY InitHolds, StepKeeps, PTL DEF Spec

-----------------------------------------------------------------------------
(* The theorems.                                                           *)

(***************************************************************************)
(* The types of the dashboard's variables; cookie, page and action carry   *)
(* tokens the API has stored (lib/merchant-session.ts).                    *)
(***************************************************************************)
THEOREM ConsoleTypes == Spec => []TypeOK
BY ConsoleInvariant, PTL DEF IInv

(***************************************************************************)
(* The lists of a page and the secret on it are one merchant's, however    *)
(* many other tabs sign in and out in between (lib/merchant-guard.ts, the  *)
(* revalidatePath of lib/merchant-actions.ts).                             *)
(***************************************************************************)
THEOREM PagesAreOneMerchants == Spec => []OneMerchantPerPage
<1>1. IInv => OneMerchantPerPage
  <2> SUFFICES ASSUME IInv PROVE Cardinality(ShownOf) <= 1
    BY DEF OneMerchantPerPage, ShownOf
  <2> DEFINE w == sessions[tab.token].wallet
  <2>1. ShownOf = {} \/ ShownOf = {w}
    BY DEF IInv, PageInv
  <2>2. Cardinality({}) = 0 /\ Cardinality({w}) = 1
    BY FS_EmptySet, FS_Singleton
  <2> QED
    BY <2>1, <2>2
<1> QED
  BY <1>1, ConsoleInvariant, PTL

(***************************************************************************)
(* A page about a row, and an action done on one, are of the merchant the  *)
(* row belongs to, whatever id a URL or a stale form names (notFound in    *)
(* app/merchant, the lookups by merchant of the API).                      *)
(***************************************************************************)
THEOREM RowsAreOnesOwn == Spec => []OnlyOwnRows
<1>1. IInv => OnlyOwnRows
  <2> SUFFICES ASSUME IInv PROVE OnlyOwnRows
    OBVIOUS
  <2>1. Shown /\ tab.row # None => tab.of = {tab.row}
    <3> SUFFICES ASSUME Shown, tab.row # None PROVE tab.of = {tab.row}
      OBVIOUS
    <3>1. tab.row \in tab.of
      BY DEF IInv, RowInv, Shown
    <3>2. tab.of \subseteq ShownOf
      BY NoneIsNoValue DEF IInv, TypeOK, TabState, ShownOf
    <3> QED
      BY <3>1, <3>2 DEF IInv, PageInv
  <2>2. call # None /\ call.stage = "done" /\ call.kind \in NamesARow
          => sessions[call.token].wallet = call.subject
    BY DEF IInv, CallInv, NeedsMerchant
  <2> QED
    BY <2>1, <2>2 DEF OnlyOwnRows
<1> QED
  BY <1>1, ConsoleInvariant, PTL

=============================================================================
