--------------------------- MODULE MerchantAccess ---------------------------
(***************************************************************************)
(* How a merchant is let in (apps/api/src/auth/).  Into the dashboard: the *)
(* wallet signs a challenge that lives for five minutes, completing it     *)
(* creates a session of a day, and the first session of a wallet registers *)
(* its merchant.  A server of the merchant's: with an API key, which a key *)
(* that may manage keys, or a session, rotates, adds or deletes.  Whether  *)
(* a signature or a hash is right is not modelled; the steps of            *)
(* overlapping requests are.  A session or a key is named after the        *)
(* request that created it, a first key after its merchant.                *)
(***************************************************************************)
EXTENDS Integers, FiniteSets

CONSTANTS
  Wallet,
  Challenge,
  Login,       \* requests to /merchant-auth/complete
  Integrated,  \* merchants created with a first API key
  Manager,     \* requests to /merchants/me/api-keys
  None

VARIABLES
  challenges,  \* MerchantAuthChallenge rows: [wallet, state]
  logins,      \* the requests: [pc, challenge]
  sessions,    \* MerchantSession rows: [wallet, linked, over]
  profiles,    \* sessions whose registration has authenticated
  merchants,   \* wallets with a Merchant row
  apiKeys,     \* ApiKey rows: [merchant, active, manages, from]
  managers     \* the requests about keys: [pc, merchant, by]

loginVars == <<challenges, logins, sessions, profiles, merchants>>
keyVars == <<apiKeys, managers>>
accessVars == <<loginVars, keyVars>>

Key == Integrated \cup Manager
Merchant == Integrated \cup Wallet

ChallengeRow == [wallet : Wallet, state : {"open", "used", "expired"}]
SessionRow == [wallet : Wallet, linked : BOOLEAN, over : BOOLEAN]
KeyRow == [ merchant : Merchant, active : BOOLEAN, manages : BOOLEAN,
            from : Key \cup {None} ]

\* Ids are fresh, and a row that is not there is none.
ASSUME AccessAssumption ==
  /\ Integrated \cap Manager = {}
  /\ None \notin Challenge \cup Key \cup Merchant
  /\ None \notin ChallengeRow \cup SessionRow \cup KeyRow

\* A new row has been rotated from another key, or from none.
NewKey(merchant, manages, from) ==
  [merchant |-> merchant, active |-> TRUE, manages |-> manages, from |-> from]

NewManager == [pc |-> "idle", merchant |-> None, by |-> None]

AccessInit ==
  /\ challenges = [c \in Challenge |-> None]
  /\ logins = [l \in Login |-> [pc |-> "idle", challenge |-> None]]
  /\ sessions = [l \in Login |-> None]
  /\ profiles = {}
  /\ merchants \in SUBSET Wallet
  /\ apiKeys = [k \in Key |->
       IF k \in Integrated THEN NewKey(k, TRUE, None) ELSE None]
  /\ managers = [g \in Manager |-> NewManager]

CreateChallenge(c, w) ==
  /\ challenges[c] = None
  /\ challenges' = [challenges EXCEPT ![c] = [wallet |-> w, state |-> "open"]]
  /\ UNCHANGED <<logins, sessions, profiles, merchants>>

ChallengeExpires(c) ==
  /\ challenges[c] # None /\ challenges[c].state = "open"
  /\ challenges' = [challenges EXCEPT ![c].state = "expired"]
  /\ UNCHANGED <<logins, sessions, profiles, merchants>>

\* The checks before the transaction.
CheckChallenge(l, c) ==
  /\ logins[l].pc = "idle"
  /\ challenges[c] # None /\ challenges[c].state = "open"
  /\ logins' = [logins EXCEPT ![l] = [pc |-> "checked", challenge |-> c]]
  /\ UNCHANGED <<challenges, sessions, profiles, merchants>>

\* The WHERE clause: expiry is compared with the time the request came, so
\* only usedAt can have changed.  The mutant has forgotten usedAt.
Unused_Unchecked(c) == TRUE
Unused(c) == challenges[c].state # "used"

ConsumeChallenge(l) ==
  LET c == logins[l].challenge
      w == challenges[c].wallet
  IN  /\ logins[l].pc = "checked"
      /\ IF Unused(c)
         THEN /\ challenges' = [challenges EXCEPT ![c].state = "used"]
              /\ sessions' = [sessions EXCEPT ![l] =
                   [wallet |-> w, linked |-> w \in merchants, over |-> FALSE]]
         ELSE UNCHANGED <<challenges, sessions>>
      /\ logins' = [logins EXCEPT ![l].pc = "done"]
      /\ UNCHANGED <<profiles, merchants>>

Live(l) == sessions[l] # None /\ ~sessions[l].over

\* POST /merchant-auth/register: authenticate, then upsert and link.
AuthenticateProfile(l) ==
  /\ Live(l) /\ ~sessions[l].linked
  /\ profiles' = profiles \cup {l}
  /\ UNCHANGED <<challenges, logins, sessions, merchants>>

RegisterMerchant(l) ==
  /\ l \in profiles
  /\ profiles' = profiles \ {l}
  /\ merchants' = merchants \cup {sessions[l].wallet}
  /\ sessions' = [sessions EXCEPT ![l].linked = TRUE]
  /\ UNCHANGED <<challenges, logins>>

\* Logout, or a day has passed.
EndSession(l) ==
  /\ Live(l)
  /\ sessions' = [sessions EXCEPT ![l].over = TRUE]
  /\ UNCHANGED <<challenges, logins, profiles, merchants>>

LoginStep ==
  \/ \E c \in Challenge :
       ChallengeExpires(c) \/ \E w \in Wallet : CreateChallenge(c, w)
  \/ \E l \in Login :
       \/ ConsumeChallenge(l) \/ EndSession(l)
       \/ AuthenticateProfile(l) \/ RegisterMerchant(l)
       \/ \E c \in Challenge : CheckChallenge(l, c)

-----------------------------------------------------------------------------
(* The credentials, as the auth preHandler finds them, and API keys        *)

SpeaksFor(l, w) == Live(l) /\ sessions[l].linked /\ sessions[l].wallet = w

KeyWorks(k) == apiKeys[k] # None /\ apiKeys[k].active

Admitted(g, merchant, by) ==
  managers' = [managers EXCEPT ![g] =
                 [pc |-> "admitted", merchant |-> merchant, by |-> by]]

\* By a key with the scope api_keys:manage, or by a session, which has all.
AuthenticateManager(g) ==
  /\ managers[g].pc = "idle"
  /\ \/ \E k \in Key :
          /\ KeyWorks(k) /\ apiKeys[k].manages
          /\ Admitted(g, apiKeys[k].merchant, k)
     \/ \E l \in Login, w \in Wallet : SpeaksFor(l, w) /\ Admitted(g, w, None)
  /\ UNCHANGED <<loginVars, apiKeys>>

ManagerDone(g) ==
  /\ managers[g].pc = "admitted"
  /\ managers' = [managers EXCEPT ![g].pc = "done"]
  /\ UNCHANGED loginVars

\* The successor keeps merchant, name and scopes; the mutant creates it as
\* any new key, with the scopes of a server that collects.
Successor_Plain(k) == NewKey(apiKeys[k].merchant, FALSE, k)
Successor(k) == NewKey(apiKeys[k].merchant, apiKeys[k].manages, k)

\* One transaction, which looks the key up by id: not whether it is active
\* still.
RotateKey(g) ==
  LET k == managers[g].by
  IN  /\ ManagerDone(g)
      /\ k # None
      /\ apiKeys' = [apiKeys EXCEPT ![k].active = FALSE, ![g] = Successor(k)]

CreateKey(g) ==
  /\ ManagerDone(g)
  /\ \E manages \in BOOLEAN :
       apiKeys' = [apiKeys EXCEPT ![g] =
                     NewKey(managers[g].merchant, manages, None)]

\* Not the credential itself (409); a key that is none of the merchant's, or
\* not active any more, is not found (404).
DeleteKey(g, k) ==
  /\ ManagerDone(g)
  /\ k # managers[g].by
  /\ apiKeys' = IF KeyWorks(k) /\ apiKeys[k].merchant = managers[g].merchant
                THEN [apiKeys EXCEPT ![k].active = FALSE]
                ELSE apiKeys

KeyStep ==
  \E g \in Manager :
    \/ AuthenticateManager(g) \/ RotateKey(g) \/ CreateKey(g)
    \/ \E k \in Key : DeleteKey(g, k)

AccessNext ==
  \/ LoginStep /\ UNCHANGED keyVars
  \/ KeyStep

-----------------------------------------------------------------------------
(* Properties.                                                             *)

\* The types, for the invariant of the module that composes this one.
AccessTypeOK ==
  /\ challenges \in [Challenge -> ChallengeRow \cup {None}]
  /\ logins \in [Login -> [ pc : {"idle", "checked", "done"},
                            challenge : Challenge \cup {None} ]]
  /\ sessions \in [Login -> SessionRow \cup {None}]
  /\ profiles \subseteq Login /\ merchants \subseteq Wallet
  /\ apiKeys \in [Key -> KeyRow \cup {None}]
  /\ managers \in [Manager ->
       [ pc : {"idle", "admitted", "done"},
         merchant : Merchant \cup {None}, by : Key \cup {None} ]]

(***************************************************************************)
(* A challenge is worth one session, however many requests complete it at  *)
(* the same time; and a wallet that no longer has to register has a        *)
(* merchant, and once it has it keeps it, whatever order sessions register *)
(* and end in.                                                             *)
(***************************************************************************)
OneSessionPerChallenge ==
  /\ \A l, k \in Login :
       sessions[l] # None /\ sessions[k] # None /\ l # k =>
         logins[l].challenge # logins[k].challenge
  /\ \A l \in Login :
       sessions[l] # None /\ sessions[l].linked =>
         sessions[l].wallet \in merchants

(***************************************************************************)
(* "A reader can never see zero ... active keys for this merchant mid-     *)
(* rotation" (api-key.ts): rotations, however they overlap, never leave a  *)
(* server without a key that works and may manage keys.  Only a DELETE     *)
(* does - a key that was deleted is a revoked one without a successor -,   *)
(* and no key comes back, or passes to another merchant.                   *)
(***************************************************************************)
Rotated(k) == \E j \in Key : apiKeys[j] # None /\ apiKeys[j].from = k

NeverWithoutAKey ==
  /\ \A merchant \in Integrated :
       LET own == {k \in Key : apiKeys[k] # None /\ apiKeys[k].merchant = merchant}
       IN  (\A k \in own : apiKeys[k].active \/ Rotated(k)) =>
             \E k \in own : KeyWorks(k) /\ apiKeys[k].manages
  /\ \A k \in Key : Rotated(k) => ~apiKeys[k].active
=============================================================================
