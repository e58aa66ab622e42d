--------------------------- MODULE MerchantConsole ---------------------------
(***************************************************************************)
(* The merchant's dashboard (apps/web/src/app/merchant,                    *)
(* components/merchant, lib/merchant-*.ts) in one tab of a browser.  The   *)
(* tabs share one cookie and nothing else: a page is rendered with the     *)
(* token its request carried, a server action runs with the token of the   *)
(* moment it is submitted, and another tab may have signed in as somebody  *)
(* else in between.  Of the other tabs only that is here, and of the API   *)
(* whom it takes a session for (MerchantAccess has the challenge, the      *)
(* tables and the keys) and whose rows it finds.                           *)
(*                                                                         *)
(* A row, a list or a secret is the wallet of the merchant it belongs to.  *)
(* What a form says, and the checks it makes on its own fields, are left   *)
(* out; a form that fails them is refused like any other.                  *)
(***************************************************************************)
EXTENDS Integers, FiniteSets

CONSTANTS
  Wallet,
  Session,    \* opaque session tokens, bounds the completed sign-ins
  None

-----------------------------------------------------------------------------
(* The pages: the lists each asks for, the list that has to hold the row   *)
(* its URL names, and the forms it has                                     *)

\* The mandate's own page waits for it before it asks for anything else.
Listing(lists, row, forms) ==
  [first |-> lists, then |-> {}, row |-> row, forms |-> forms]

Page ==
  { "connect", "new_product", "products", "links", "mandates", "mandate",
    "upcoming", "failed", "payments", "refund", "refunds", "developers",
    "webhooks" }

ConnectPage    == Listing({}, None, {"profile"})
NewProductPage == Listing({}, None, {"product"})
ProductsPage   == Listing({"products"}, None, {})
LinksPage      == Listing({"products", "sessions"}, None, {"link"})
MandatesPage   == Listing({"mandates", "products"}, None, {})
MandatePage    == [ first |-> {"mandate"}, then |-> {"products", "payments"},
                    row |-> "mandate", forms |-> {} ]
UpcomingPage   == Listing({"mandates", "products"}, None, {})
FailedPage     == Listing({"charges"}, None, {})
PaymentsPage   == Listing({"payments"}, None, {})
RefundPage     == Listing({"payments", "products"}, "payments", {"refund"})
RefundsPage    == Listing({"refunds"}, None, {})
DevelopersPage == Listing({"keys"}, None, {"create_key", "revoke_key"})
WebhooksPage   == Listing({"endpoint", "deliveries"}, None, {"webhook"})

Asks(page) ==
  CASE page = "connect"     -> ConnectPage
    [] page = "new_product" -> NewProductPage
    [] page = "products"    -> ProductsPage
    [] page = "links"       -> LinksPage
    [] page = "mandates"    -> MandatesPage
    [] page = "mandate"     -> MandatePage
    [] page = "upcoming"    -> UpcomingPage
    [] page = "failed"      -> FailedPage
    [] page = "payments"    -> PaymentsPage
    [] page = "refund"      -> RefundPage
    [] page = "refunds"     -> RefundsPage
    [] page = "developers"  -> DevelopersPage
    [] page = "webhooks"    -> WebhooksPage

Lists == UNION {Asks(page).first \cup Asks(page).then : page \in Page}

\* The server actions with a form, and those that name a row of the page.
Kinds == {"complete", "sign_out"} \cup UNION {Asks(page).forms : page \in Page}
NamesARow == {"link", "refund", "revoke_key"}

-----------------------------------------------------------------------------

VARIABLES
  jar,        \* the cookie: a session, or None
  sessions,   \* the API's MerchantSession rows: [wallet, linked, over]
  merchants,  \* wallets with a Merchant row
  tab,        \* the page in the tab, see Screen
  call        \* the server action of the tab in flight, or None

apiVars == <<sessions, merchants>>
vars == <<jar, apiVars, tab, call>>

SessionRow == [wallet : Wallet, linked : BOOLEAN, over : BOOLEAN]

ASSUME ConsoleAssumption ==
  None \notin Wallet \cup Session \cup Lists \cup SessionRow

\* The page and the token it was rendered with; the lists not answered yet,
\* the merchants of those that are, the merchant of the row in the URL, the
\* merchant of the secret on show; the sign-in panel.  The tab may be closed,
\* or show the framework's own error or not-found page.
Screen(page) ==
  [ page |-> page, token |-> None, waiting |-> {}, of |-> {},
    row |-> None, secret |-> None, panel |-> "idle" ]

Blank(page, token) ==
  [Screen(page) EXCEPT !.token = token, !.waiting = Asks(page).first]

Init ==
  /\ jar = None
  /\ sessions = [s \in Session |-> None]
  /\ merchants \in SUBSET Wallet
  /\ tab = Screen("closed")
  /\ call = None

Live(s) == s # None /\ sessions[s] # None /\ ~sessions[s].over

\* The merchant the API takes a token for: none while its profile is missing.
OwnerOf(s) == IF Live(s) /\ sessions[s].linked THEN sessions[s].wallet ELSE None

-----------------------------------------------------------------------------
(* Pages                                                                   *)

\* requireMerchantSession: no cookie, no page.
Rendered(page, token, row) ==
  IF token = None THEN Blank("connect", None)
  ELSE [Blank(page, token) EXCEPT !.row = row]

\* A link, an address typed in, a reload: at any time.  An action still on its
\* way goes on unheard, as one of another tab does.
Open(page, row) ==
  /\ IF Asks(page).row = None THEN row = None ELSE row \in merchants
  /\ tab' = Rendered(page, jar, row)
  /\ call' = None
  /\ UNCHANGED <<jar, apiVars>>

\* The token of a request of the page.
PageToken == tab.token

\* notFound: the row of the URL is on none of the lists.
IsThere(of) == tab.row = None \/ tab.row \in of

Answered(list, owner) ==
  LET of   == tab.of \cup {owner}
      rest == tab.waiting \ {list}
      then == IF list \in Asks(tab.page).then THEN {} ELSE Asks(tab.page).then
  IN  IF rest # {} THEN [tab EXCEPT !.waiting = rest, !.of = of]
      ELSE IF IsThere(of) THEN [tab EXCEPT !.waiting = then, !.of = of]
      ELSE Screen("missing")

\* One answer of the API; any that is not a list ends the page.
Serve(list) ==
  LET owner == OwnerOf(PageToken)
  IN  /\ list \in tab.waiting
      /\ \/ owner # None /\ tab' = Answered(list, owner)
         \/ tab' = Screen("error")
      /\ UNCHANGED <<jar, apiVars, call>>

Shown == tab.page \in Page /\ tab.waiting = {}

-----------------------------------------------------------------------------
(* Server actions: submitted by the tab, run by the server                 *)

\* One at a time: pending disables the button, and the router sends the
\* actions of a tab one after the other.  It carries the cookie of now,
\* which completing a sign-in does not read.
Submit(kind, subject) ==
  /\ call = None
  /\ call' = [ kind |-> kind, token |-> IF kind = "complete" THEN None ELSE jar,
               subject |-> subject, stage |-> "sent", gained |-> None ]

\* The sign-in panel: the wallet and the challenge, then its signature.
Connect ==
  /\ tab.page = "connect" /\ tab.panel = "idle" /\ call = None
  /\ tab' = [tab EXCEPT !.panel = "connecting"]
  /\ UNCHANGED <<jar, apiVars, call>>

Challenged ==
  /\ tab.panel = "connecting"
  /\ tab' = [tab EXCEPT !.panel = "signing"]
  /\ UNCHANGED <<jar, apiVars, call>>

Signed(w) ==
  /\ tab.panel = "signing"
  /\ Submit("complete", w)
  /\ tab' = [tab EXCEPT !.panel = "completing"]
  /\ UNCHANGED <<jar, apiVars>>

\* A wallet missing, locked, on another network or declining; a challenge
\* refused or lost: all end in the same catch.
PanelFails ==
  /\ tab.panel \in {"connecting", "signing"}
  /\ tab' = [tab EXCEPT !.panel = "idle"]
  /\ UNCHANGED <<jar, apiVars, call>>

\* The forms of a page, and the button of the layout.  The profile is asked
\* for once a wallet has signed; the webhook form makes way for its secret.
Offered ==
  { kind \in Asks(tab.page).forms \cup {"sign_out"} :
      /\ kind = "profile" => tab.panel = "profile"
      /\ kind = "webhook" => tab.secret = None
      /\ kind = "sign_out" => tab.token # None }

\* Rows come from the lists on the page.
Press(kind) ==
  /\ Shown /\ kind \in Offered
  /\ \E w \in IF kind \in NamesARow THEN tab.of ELSE {None} : Submit(kind, w)
  /\ UNCHANGED <<jar, apiVars, tab>>

\* The API looks a row up by its id and the merchant; the mutant by its id.
Found_ById == TRUE
Found == call.subject \in {None, OwnerOf(call.token)}

\* The API does what an action asks, and answers a sign-in with a token.
\* Products, links, refunds, keys and endpoints are rows nothing here reads.
\* A token says nothing but that it is new: any new one stands for all.
Fresh == {s \in Session : sessions[s] = None}

NewSession_Unstored(s, w) == s \in Fresh /\ UNCHANGED apiVars
NewSession(s, w) ==
  /\ s \in Fresh /\ s = CHOOSE t \in Fresh : TRUE
  /\ sessions' = [sessions EXCEPT ![s] =
       [wallet |-> w, linked |-> w \in merchants, over |-> FALSE]]
  /\ UNCHANGED merchants

Register(s) ==
  /\ Live(s)
  /\ merchants' = merchants \cup {sessions[s].wallet}
  /\ sessions' = [sessions EXCEPT ![s].linked = TRUE]

End(s) ==
  /\ Live(s)
  /\ sessions' = [sessions EXCEPT ![s].over = TRUE]
  /\ UNCHANGED merchants

Effect(gained) ==
  CASE call.kind = "complete" -> NewSession(gained, call.subject)
    [] call.kind = "profile"  -> Register(call.token)
    [] call.kind = "sign_out" -> End(call.token)
    [] OTHER -> OwnerOf(call.token) # None /\ Found /\ UNCHANGED apiVars

Gains == IF call.kind = "complete" THEN Session ELSE {None}

Settled(stage, gained) ==
  call' = [call EXCEPT !.stage = stage, !.gained = gained]

\* Done; or done, and the answer is a server's error or never comes.
Perform ==
  /\ call # None /\ call.stage = "sent"
  /\ \E gained \in Gains :
       /\ Effect(gained)
       /\ \/ Settled("done", gained)
          \/ \E stage \in {"refused", "lost"} : Settled(stage, None)
  /\ UNCHANGED <<jar, tab>>

\* No session, a field that is wrong, an API that says no; or no API at all.
Refuse ==
  /\ call # None /\ call.stage = "sent"
  /\ \E stage \in {"refused", "lost"} : Settled(stage, None)
  /\ UNCHANGED <<jar, apiVars, tab>>

-----------------------------------------------------------------------------
(* Answers                                                                 *)

\* The tab hears how its action ended.
Hears(kinds, stages) ==
  /\ call # None
  /\ call.kind \in kinds /\ call.stage \in stages
  /\ call' = None
  /\ UNCHANGED apiVars

\* redirect: rendered within the request, or fetched by the tab.
Redirected(page, token) == tab' = Rendered(page, token, None)

\* The cookie first; then the products, or the name of a new merchant.  An
\* action that sets a cookie has its page rendered again: with a way out.
SignedIn ==
  LET s == call.gained
  IN  /\ Hears({"complete"}, {"done"})
      /\ jar' = s
      /\ IF sessions[s].linked
         THEN Redirected("products", s)
         ELSE tab' = [tab EXCEPT !.panel = "profile", !.token = s]

\* The mutant has no catch around the sign-in.
SignInFails_Uncaught ==
  /\ Hears({"complete"}, {"refused", "lost"})
  /\ UNCHANGED <<tab, jar>>
SignInFails ==
  /\ Hears({"complete"}, {"refused", "lost"})
  /\ tab' = [tab EXCEPT !.panel = "idle"]
  /\ UNCHANGED jar

\* Whatever became of the logout call.
SignedOut ==
  /\ Hears({"sign_out"}, {"done", "refused"})
  /\ jar' = None
  /\ Redirected("connect", None)

\* The page that lists what has been made.
Landing(kind) ==
  CASE kind \in {"profile", "product"} -> "products"
    [] kind = "link" -> "links"
    [] kind = "refund" -> "refunds"

Made ==
  /\ Hears({"profile", "product", "link", "refund"}, {"done"})
  /\ \E token \in {call.token, jar} : Redirected(Landing(call.kind), token)
  /\ UNCHANGED jar

\* revalidatePath: the page is rendered again with the token of the action,
\* and what the tab holds for it stays.  The mutant leaves the page alone.
Rerendered_Never == tab
Rerendered == [tab EXCEPT !.token = call.token, !.of = {OwnerOf(call.token)}]

\* Or the action is done, and the lists cannot be had.
Rerender(after) ==
  \/ OwnerOf(call.token) # None /\ tab' = after
  \/ tab' = Screen("error")

\* A key or an endpoint comes with a secret, shown this once.
SecretShown ==
  /\ Hears({"create_key", "webhook"}, {"done"})
  /\ Rerender([Rerendered EXCEPT !.secret = sessions[call.token].wallet])
  /\ UNCHANGED jar

Revoked ==
  /\ Hears({"revoke_key"}, {"done"})
  /\ Rerender(Rerendered)
  /\ UNCHANGED jar

\* The form says why; a new state of the form takes a secret's place.
Explained ==
  /\ Hears({"profile", "product", "link", "refund", "create_key", "webhook"},
           {"refused"})
  /\ tab' = [tab EXCEPT !.secret = None]
  /\ UNCHANGED jar

\* revokeApiKeyAction has no state to answer with: it redirects or throws.
RevokeRefused ==
  /\ Hears({"revoke_key"}, {"refused"})
  /\ IF call.token = None THEN Redirected("connect", None)
     ELSE tab' = Screen("error")
  /\ UNCHANGED jar

\* Any other error is thrown, and nothing catches it.
Thrown ==
  /\ Hears(Kinds \ {"complete"}, {"lost"})
  /\ tab' = Screen("error")
  /\ UNCHANGED jar

-----------------------------------------------------------------------------
(* The other tabs, and time                                                *)

\* A sign-in or a sign-out there: the API's part, and the browser's.
SignedInElsewhere(s, w) == NewSession(s, w) /\ UNCHANGED <<jar, tab, call>>

CookieSetElsewhere ==
  /\ jar' \in {None} \cup (Session \ Fresh)
  /\ UNCHANGED <<apiVars, tab, call>>

RegisteredElsewhere(s) == Register(s) /\ UNCHANGED <<jar, tab, call>>

\* Signed out there, or a day has passed.
SessionEnds(s) == End(s) /\ UNCHANGED <<jar, tab, call>>

Elsewhere ==
  \/ CookieSetElsewhere
  \/ \E s \in Session :
       \/ RegisteredElsewhere(s) \/ SessionEnds(s)
       \/ \E w \in Wallet : SignedInElsewhere(s, w)

Load == \E list \in Lists : Serve(list)

Panel == PanelFails \/ Challenged \/ \E w \in Wallet : Signed(w)

Run == Perform \/ Refuse

Answer ==
  \/ SignedIn \/ SignInFails \/ SignedOut \/ Made
  \/ SecretShown \/ Revoked \/ Explained \/ RevokeRefused
  \/ Thrown

Next ==
  \/ \E page \in Page, row \in Wallet \cup {None} : Open(page, row)
  \/ Connect
  \/ \E kind \in Kinds : Press(kind)
  \/ Load \/ Panel \/ Run \/ Answer
  \/ Elsewhere

\* The wallet answers, if only by declining; the servers and the network do
\* what they have begun.  Nobody has to press anything.
Fairness == WF_vars(Load) /\ WF_vars(Panel) /\ WF_vars(Run) /\ WF_vars(Answer)

Spec == Init /\ [][Next]_vars /\ Fairness

-----------------------------------------------------------------------------
(* Properties                                                              *)

TabState ==
  [ page : Page \cup {"closed", "error", "missing"},
    token : Session \cup {None}, waiting : SUBSET Lists, of : SUBSET Wallet,
    row : Wallet \cup {None}, secret : Wallet \cup {None},
    panel : {"idle", "connecting", "signing", "completing", "profile"} ]

CallState ==
  [ kind : Kinds, token : Session \cup {None}, subject : Wallet \cup {None},
    stage : {"sent", "done", "refused", "lost"},
    gained : Session \cup {None} ]

\* The types of the variables; the cookie, the token of the page and the
\* tokens of an action are sessions the API has stored, and the sign-in panel
\* is on its own page.
TypeOK ==
  /\ jar \in Session \cup {None}
  /\ sessions \in [Session -> SessionRow \cup {None}]
  /\ merchants \subseteq Wallet
  /\ tab \in TabState
  /\ call \in CallState \cup {None}
  /\ \A s \in {jar, tab.token} : s # None => sessions[s] # None
  /\ call # None => \A s \in {call.token, call.gained} :
                       s # None => sessions[s] # None
  /\ tab.panel # "idle" => tab.page = "connect"

\* A page puts lists side by side, products next to payments, payments next
\* to the mandate they belong to, and a secret, which is shown once, over the
\* keys or the endpoint it belongs to.  All of them are one merchant's,
\* although another tab may sign in as another between any two requests.  A
\* stale page may well create a key for whoever is signed in by then: it is
\* revalidatePath that brings this merchant's keys.
OneMerchantPerPage == Cardinality((tab.of \cup {tab.secret}) \ {None}) <= 1

\* Whatever id a URL or a stale form names, a page shows a row only to the
\* merchant it belongs to, and an action is done on it for this merchant only.
OnlyOwnRows ==
  /\ Shown /\ tab.row # None => tab.of = {tab.row}
  /\ call # None /\ call.stage = "done" /\ call.kind \in NamesARow
       => sessions[call.token].wallet = call.subject

Waits == call # None \/ tab.panel \in {"connecting", "signing", "completing"}

\* Every button that is waiting comes back, or the tab is elsewhere: whatever
\* the wallet, the challenge, the server action or the API fails with.
NothingHangs == Waits ~> ~Waits

=============================================================================
