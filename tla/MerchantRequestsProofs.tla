----------------------- MODULE MerchantRequestsProofs -----------------------
(***************************************************************************)
(* What holds of the API's logins, keys and idempotent writes for any sets *)
(* of requests, calls, challenges, merchants and keys.                     *)
(*                                                                         *)
(* The argument.  Logins, requests about keys and writes touch disjoint    *)
(* tables, so each has an invariant of its own.  A challenge is used once  *)
(* it has a session.  A rotation's successor is fresh, and what admitted   *)
(* the rotation could manage keys.  Who is past its insert of a key holds  *)
(* the key, nobody else does, and the key is not stored yet (Holding);     *)
(* what is stored names the one row it was stored with (Stored).           *)
(***************************************************************************)
EXTENDS MerchantRequests, TLAPS

-----------------------------------------------------------------------------
(* Challenges and sessions.                                                *)

LoginTypes ==
  /\ challenges \in [Challenge -> ChallengeRow \cup {None}]
  /\ logins \in [Login -> [ pc : {"idle", "checked", "done"},
                            challenge : Challenge \cup {None} ]]
  /\ sessions \in [Login -> SessionRow \cup {None}]
  /\ profiles \subseteq Login /\ merchants \subseteq Wallet

\* What a request that has read its challenge knows of it, and what remains
\* of a challenge when its session exists.
LoginEvidence ==
  /\ \A l \in Login : logins[l].pc # "idle" =>
       /\ logins[l].challenge \in Challenge
       /\ challenges[logins[l].challenge] # None
  /\ \A l \in Login : sessions[l] # None =>
       /\ logins[l].pc = "done"
       /\ challenges[logins[l].challenge].state = "used"
  /\ \A l \in profiles : sessions[l] # None

LoginInv == LoginTypes /\ LoginEvidence /\ OneSessionPerChallenge

LEMMA LoginInit == AccessInit => LoginInv
<1> SUFFICES ASSUME AccessInit PROVE LoginInv
  OBVIOUS
<1> QED
  BY DEF AccessInit, LoginInv, LoginTypes, LoginEvidence,
         OneSessionPerChallenge

LEMMA CreateChallengeKeeps ==
  ASSUME LoginInv, NEW c \in Challenge, NEW w \in Wallet, CreateChallenge(c, w)
  PROVE  LoginInv'
<1>1. [wallet |-> w, state |-> "open"] \in ChallengeRow
  BY DEF ChallengeRow
<1>2. /\ challenges' \in [Challenge -> ChallengeRow \cup {None}]
      /\ challenges'[c] # None
      /\ \A d \in Challenge : d # c => challenges'[d] = challenges[d]
  BY <1>1, AccessAssumption DEF CreateChallenge, LoginInv, LoginTypes
<1>3. LoginTypes'
  BY <1>2 DEF CreateChallenge, LoginInv, LoginTypes
<1>4. LoginEvidence'
  BY <1>2 DEF CreateChallenge, LoginInv, LoginTypes, LoginEvidence
<1> QED
  BY <1>3, <1>4 DEF CreateChallenge, LoginInv, OneSessionPerChallenge

LEMMA ChallengeExpiresKeeps ==
  ASSUME LoginInv, NEW c \in Challenge, ChallengeExpires(c)
  PROVE  LoginInv'
<1>1. /\ challenges[c] \in ChallengeRow /\ challenges[c].state = "open"
      /\ challenges' = [challenges EXCEPT ![c].state = "expired"]
  BY DEF ChallengeExpires, LoginInv, LoginTypes
<1>2. [challenges[c] EXCEPT !.state = "expired"] \in ChallengeRow
  BY <1>1 DEF ChallengeRow
<1>3. /\ challenges' \in [Challenge -> ChallengeRow \cup {None}]
      /\ challenges'[c] # None
      /\ \A d \in Challenge : d # c => challenges'[d] = challenges[d]
  BY <1>1, <1>2, AccessAssumption DEF LoginInv, LoginTypes
<1>4. LoginTypes'
  BY <1>3 DEF ChallengeExpires, LoginInv, LoginTypes
<1>5. LoginEvidence'
  BY <1>1, <1>3 DEF ChallengeExpires, LoginInv, LoginTypes, LoginEvidence
<1> QED
  BY <1>4, <1>5 DEF ChallengeExpires, LoginInv, OneSessionPerChallenge

LEMMA CheckChallengeKeeps ==
  ASSUME LoginInv, NEW l \in Login, NEW c \in Challenge, CheckChallenge(l, c)
  PROVE  LoginInv'
<1>1. /\ sessions[l] = None
      /\ logins' = [logins EXCEPT ![l] = [pc |-> "checked", challenge |-> c]]
  BY DEF CheckChallenge, LoginInv, LoginEvidence
<1>2. LoginTypes'
  BY <1>1 DEF CheckChallenge, LoginInv, LoginTypes
<1>3. LoginEvidence'
  BY <1>1 DEF CheckChallenge, LoginInv, LoginTypes, LoginEvidence
<1>4. OneSessionPerChallenge'
  BY <1>1 DEF CheckChallenge, LoginInv, LoginTypes, OneSessionPerChallenge
<1> QED
  BY <1>2, <1>3, <1>4 DEF LoginInv

LEMMA SessionMade ==
  ASSUME NEW w \in Wallet, NEW S
  PROVE  LET row == [wallet |-> w, linked |-> w \in S, over |-> FALSE]
         IN  row \in SessionRow /\ (row.linked => row.wallet \in S)
<1>1. CASE w \in S
  <2>1. (w \in S) = TRUE
    BY <1>1
  <2> QED
    BY <2>1 DEF SessionRow
<1>2. CASE w \notin S
  <2>1. (w \in S) = FALSE
    BY <1>2
  <2> QED
    BY <2>1 DEF SessionRow
<1> QED
  BY <1>1, <1>2

LEMMA ConsumeChallengeKeeps ==
  ASSUME LoginInv, NEW l \in Login, ConsumeChallenge(l)
  PROVE  LoginInv'
<1> DEFINE c == logins[l].challenge
           row == [ wallet |-> challenges[c].wallet,
                    linked |-> challenges[c].wallet \in merchants,
                    over |-> FALSE ]
<1>1. /\ logins[l].pc = "checked" /\ c \in Challenge
      /\ challenges[c] \in ChallengeRow
      /\ sessions[l] = None
      /\ logins' = [logins EXCEPT ![l].pc = "done"]
      /\ UNCHANGED <<profiles, merchants>>
  BY DEF ConsumeChallenge, LoginInv, LoginTypes, LoginEvidence
<1>2. /\ logins' \in [Login -> [ pc : {"idle", "checked", "done"},
                                 challenge : Challenge \cup {None} ]]
      /\ logins'[l].pc = "done"
      /\ \A k \in Login : /\ logins'[k].challenge = logins[k].challenge
                          /\ k # l => logins'[k] = logins[k]
  BY <1>1 DEF LoginInv, LoginTypes
<1>3. CASE Unused(c)
  <2>1. /\ row \in SessionRow /\ row # None
        /\ row.linked => row.wallet \in merchants
        /\ [challenges[c] EXCEPT !.state = "used"] \in ChallengeRow
    <3>1. challenges[c].wallet \in Wallet
          /\ [challenges[c] EXCEPT !.state = "used"] \in ChallengeRow
      BY <1>1 DEF ChallengeRow
    <3>2. row \in SessionRow /\ (row.linked => row.wallet \in merchants)
      BY <3>1, SessionMade
    <3> QED
      BY <3>1, <3>2, AccessAssumption
  <2>2. /\ challenges' = [challenges EXCEPT ![c].state = "used"]
        /\ sessions' = [sessions EXCEPT ![l] = row]
    BY <1>3 DEF ConsumeChallenge
  <2>3. /\ challenges' \in [Challenge -> ChallengeRow \cup {None}]
        /\ challenges'[c] # None /\ challenges'[c].state = "used"
        /\ \A d \in Challenge : d # c => challenges'[d] = challenges[d]
    BY <1>1, <2>1, <2>2, AccessAssumption DEF LoginInv, LoginTypes
  <2>4. /\ sessions' \in [Login -> SessionRow \cup {None}]
        /\ sessions'[l] = row
        /\ \A k \in Login : k # l => sessions'[k] = sessions[k]
    BY <2>1, <2>2 DEF LoginInv, LoginTypes
  <2>5. LoginTypes'
    BY <1>1, <1>2, <2>3, <2>4 DEF LoginInv, LoginTypes
  <2>6. LoginEvidence'
    BY <1>1, <1>2, <2>1, <2>3, <2>4 DEF LoginInv, LoginTypes, LoginEvidence
  <2>7. \A k \in Login : sessions[k] # None => logins[k].challenge # c
    BY <1>3 DEF LoginInv, LoginEvidence, Unused
  <2> HIDE DEF row
  <2>8. OneSessionPerChallenge'
    BY <1>1, <1>2, <2>1, <2>4, <2>7 DEF LoginInv, OneSessionPerChallenge
  <2> QED
    BY <2>5, <2>6, <2>8 DEF LoginInv
<1>4. CASE ~Unused(c)
  <2>1. UNCHANGED <<challenges, sessions>>
    BY <1>4 DEF ConsumeChallenge
  <2>2. LoginTypes' /\ LoginEvidence'
    BY <1>1, <1>2, <2>1 DEF LoginInv, LoginTypes, LoginEvidence
  <2> QED
    BY <1>1, <1>2, <2>1, <2>2 DEF LoginInv, OneSessionPerChallenge
<1> QED
  BY <1>3, <1>4

LEMMA AuthenticateProfileKeeps ==
  ASSUME LoginInv, NEW l \in Login, AuthenticateProfile(l)
  PROVE  LoginInv'
BY DEF AuthenticateProfile, Live, LoginInv, LoginTypes, LoginEvidence,
       OneSessionPerChallenge

\* A session that is over or linked is still the same session.
LEMMA SessionUpdated ==
  ASSUME LoginInv, NEW l \in Login, sessions[l] # None, NEW row \in SessionRow,
         row.wallet = sessions[l].wallet,
         sessions' = [sessions EXCEPT ![l] = row],
         profiles' \subseteq profiles,
         merchants \subseteq merchants', merchants' \subseteq Wallet,
         row.linked => row.wallet \in merchants',
         UNCHANGED <<challenges, logins>>
  PROVE  LoginInv'
<1>1. /\ sessions' \in [Login -> SessionRow \cup {None}]
      /\ sessions'[l] = row
      /\ \A k \in Login : k # l => sessions'[k] = sessions[k]
  BY DEF LoginInv, LoginTypes
<1>2. \A k \in Login : (sessions'[k] # None) <=> (sessions[k] # None)
  BY <1>1, AccessAssumption
<1>3. LoginTypes' /\ LoginEvidence'
  BY <1>1, <1>2 DEF LoginInv, LoginTypes, LoginEvidence
<1> QED
  BY <1>1, <1>2, <1>3 DEF LoginInv, OneSessionPerChallenge

LEMMA RegisterMerchantKeeps ==
  ASSUME LoginInv, NEW l \in Login, RegisterMerchant(l)
  PROVE  LoginInv'
<1> DEFINE row == [sessions[l] EXCEPT !.linked = TRUE]
<1>1. sessions[l] # None /\ sessions[l] \in SessionRow
  BY DEF RegisterMerchant, LoginInv, LoginTypes, LoginEvidence
<1>2. row \in SessionRow /\ row.wallet = sessions[l].wallet
      /\ row.wallet \in Wallet
  BY <1>1 DEF SessionRow
<1>3. /\ sessions' = [sessions EXCEPT ![l] = row]
      /\ merchants' = merchants \cup {sessions[l].wallet}
      /\ profiles' = profiles \ {l}
      /\ UNCHANGED <<challenges, logins>>
  BY DEF RegisterMerchant
<1>4. merchants' \subseteq Wallet
  BY <1>2, <1>3 DEF LoginInv, LoginTypes
<1> HIDE DEF row
<1> QED
  BY <1>1, <1>2, <1>3, <1>4, SessionUpdated

LEMMA EndSessionKeeps ==
  ASSUME LoginInv, NEW l \in Login, EndSession(l)
  PROVE  LoginInv'
<1> DEFINE row == [sessions[l] EXCEPT !.over = TRUE]
<1>1. sessions[l] # None /\ sessions[l] \in SessionRow
  BY DEF EndSession, Live, LoginInv, LoginTypes
<1>2. /\ row \in SessionRow /\ row.wallet = sessions[l].wallet
      /\ row.linked = sessions[l].linked
  BY <1>1 DEF SessionRow
<1>3. sessions' = [sessions EXCEPT ![l] = row]
      /\ UNCHANGED <<challenges, logins, profiles, merchants>>
  BY DEF EndSession
<1>4. (row.linked => row.wallet \in merchants) /\ merchants \subseteq Wallet
  BY <1>1, <1>2 DEF LoginInv, LoginTypes, OneSessionPerChallenge
<1> HIDE DEF row
<1> QED
  BY <1>1, <1>2, <1>3, <1>4, SessionUpdated

LEMMA LoginInvStep ==
  ASSUME LoginInv, LoginStep \/ UNCHANGED loginVars
  PROVE  LoginInv'
<1>1. CASE UNCHANGED loginVars
  BY <1>1 DEF loginVars, LoginInv, LoginTypes, LoginEvidence,
              OneSessionPerChallenge
<1>2. CASE LoginStep
  BY <1>2, CreateChallengeKeeps, ChallengeExpiresKeeps, CheckChallengeKeeps,
     ConsumeChallengeKeeps, AuthenticateProfileKeeps, RegisterMerchantKeeps,
     EndSessionKeeps DEF LoginStep
<1> QED
  BY <1>1, <1>2

-----------------------------------------------------------------------------
(* API keys.                                                               *)

KeyTypes ==
  /\ apiKeys \in [Key -> KeyRow \cup {None}]
  /\ managers \in [Manager ->
       [ pc : {"idle", "admitted", "done"},
         merchant : Merchant \cup {None}, by : Key \cup {None} ]]

\* A request names its new key, which is not there until it has acted; an
\* admitted one acts for the merchant of its credential.
KeyEvidence ==
  /\ \A g \in Manager :
       /\ managers[g].pc # "done" => apiKeys[g] = None
       /\ managers[g].pc = "admitted" =>
            /\ managers[g].merchant \in Merchant
            /\ managers[g].by # None =>
                 /\ apiKeys[managers[g].by] # None
                 /\ apiKeys[managers[g].by].manages
                 /\ apiKeys[managers[g].by].merchant = managers[g].merchant
  /\ \A k \in Key : apiKeys[k] # None /\ apiKeys[k].from # None =>
       apiKeys[apiKeys[k].from] # None

\* The merchant has a key that works and manages, or one was deleted.
Kept(m) ==
  \E k \in Key :
    /\ apiKeys[k] # None /\ apiKeys[k].merchant = m
    /\ \/ apiKeys[k].active /\ apiKeys[k].manages
       \/ ~apiKeys[k].active /\ ~Rotated(k)

RotatedIsOff == \A k \in Key : Rotated(k) => ~apiKeys[k].active

KeyInv ==
  KeyTypes /\ KeyEvidence /\ (\A m \in Integrated : Kept(m)) /\ RotatedIsOff

LEMMA KeptMeansAKey ==
  NeverWithoutAKey <=> (\A m \in Integrated : Kept(m)) /\ RotatedIsOff
BY DEF NeverWithoutAKey, Kept, RotatedIsOff, KeyWorks

LEMMA NewKeyIsRow ==
  ASSUME NEW m \in Merchant, NEW manages \in BOOLEAN, NEW from \in Key \cup {None}
  PROVE  /\ NewKey(m, manages, from) \in KeyRow
         /\ NewKey(m, manages, from) # None
<1>1. CASE manages = TRUE
  <2>1. NewKey(m, manages, from) =
          [merchant |-> m, active |-> TRUE, manages |-> TRUE, from |-> from]
    BY <1>1 DEF NewKey
  <2>2. [merchant |-> m, active |-> TRUE, manages |-> TRUE, from |-> from] \in KeyRow
    BY DEF KeyRow
  <2> QED
    BY <2>1, <2>2, AccessAssumption
<1>2. CASE manages = FALSE
  <2>1. NewKey(m, manages, from) =
          [merchant |-> m, active |-> TRUE, manages |-> FALSE, from |-> from]
    BY <1>2 DEF NewKey
  <2>2. [merchant |-> m, active |-> TRUE, manages |-> FALSE, from |-> from] \in KeyRow
    BY DEF KeyRow
  <2> QED
    BY <2>1, <2>2, AccessAssumption
<1> QED
  BY <1>1, <1>2

LEMMA KeyInit == AccessInit => KeyInv
<1> SUFFICES ASSUME AccessInit PROVE KeyInv
  OBVIOUS
<1>1. \A k \in Integrated :
         /\ apiKeys[k] = NewKey(k, TRUE, None)
         /\ apiKeys[k] \in KeyRow /\ apiKeys[k] # None
  BY NewKeyIsRow DEF AccessInit, Key, Merchant
<1>2. /\ \A k \in Key : k \notin Integrated => apiKeys[k] = None
      /\ \A g \in Manager : g \in Key /\ g \notin Integrated
      /\ DOMAIN apiKeys = Key
      /\ managers = [g \in Manager |-> NewManager]
  BY AccessAssumption DEF AccessInit, Key
<1>3. KeyTypes
  <2>1. apiKeys = [k \in Key |-> apiKeys[k]]
    BY DEF AccessInit
  <2>2. \A k \in Key : apiKeys[k] \in KeyRow \cup {None}
    BY <1>1, <1>2
  <2> QED
    BY <1>2, <2>1, <2>2 DEF KeyTypes, NewManager
<1>4. \A k \in Key : apiKeys[k] # None =>
         /\ apiKeys[k].merchant = k /\ apiKeys[k].active = TRUE
         /\ apiKeys[k].manages = TRUE /\ apiKeys[k].from = None
  <2> SUFFICES ASSUME NEW k \in Integrated
               PROVE  /\ apiKeys[k].merchant = k /\ apiKeys[k].active = TRUE
                      /\ apiKeys[k].manages = TRUE /\ apiKeys[k].from = None
    BY <1>2
  <2>1. apiKeys[k] = [ merchant |-> k, active |-> TRUE, manages |-> TRUE,
                       from |-> None ]
    BY <1>1 DEF NewKey
  <2> QED
    BY <2>1
<1>5. KeyEvidence
  BY <1>2, <1>4 DEF KeyEvidence, NewManager
<1>6. \A k \in Key : ~Rotated(k)
  BY <1>4, AccessAssumption DEF Rotated
<1>7. \A m \in Integrated : Kept(m)
  BY <1>1, <1>4 DEF Kept, Key
<1> QED
  BY <1>3, <1>5, <1>6, <1>7 DEF KeyInv, RotatedIsOff

LEMMA AuthenticateManagerKeeps ==
  ASSUME KeyInv, NEW g \in Manager, AuthenticateManager(g)
  PROVE  KeyInv'
<1>1. PICK m \in Merchant, by \in Key \cup {None} :
        /\ Admitted(g, m, by)
        /\ by # None => /\ apiKeys[by] # None
                        /\ apiKeys[by].manages /\ apiKeys[by].merchant = m
  <2>1. CASE \E k \in Key : /\ KeyWorks(k) /\ apiKeys[k].manages
                            /\ Admitted(g, apiKeys[k].merchant, k)
    BY <2>1 DEF KeyWorks, KeyInv, KeyTypes, KeyRow
  <2>2. CASE \E l \in Login, w \in Wallet : SpeaksFor(l, w) /\ Admitted(g, w, None)
    BY <2>2 DEF Merchant
  <2> QED
    BY <2>1, <2>2 DEF AuthenticateManager
<1>2. /\ UNCHANGED apiKeys /\ managers[g].pc = "idle"
      /\ managers' = [managers EXCEPT ![g] =
                        [pc |-> "admitted", merchant |-> m, by |-> by]]
  BY <1>1 DEF AuthenticateManager, Admitted
<1>3. KeyTypes'
  BY <1>2 DEF KeyInv, KeyTypes
<1>4. KeyEvidence'
  BY <1>1, <1>2 DEF KeyInv, KeyTypes, KeyEvidence
<1> QED
  BY <1>2, <1>3, <1>4 DEF KeyInv, Kept, RotatedIsOff, Rotated

\* What a request that acts knows, and what becomes of the request.
LEMMA Acting ==
  ASSUME KeyInv, NEW g \in Manager, ManagerDone(g),
         managers' = [managers EXCEPT ![g].pc = "done"]
  PROVE  /\ g \in Key /\ apiKeys[g] = None
         /\ managers[g].merchant \in Merchant /\ managers[g].by \in Key \cup {None}
         /\ managers[g].by # None =>
              /\ apiKeys[managers[g].by] \in KeyRow
              /\ apiKeys[managers[g].by] # None
              /\ apiKeys[managers[g].by].manages
              /\ apiKeys[managers[g].by].merchant = managers[g].merchant
         /\ managers' \in [Manager ->
              [ pc : {"idle", "admitted", "done"},
                merchant : Merchant \cup {None}, by : Key \cup {None} ]]
         /\ managers'[g].pc = "done"
         /\ \A h \in Manager : h # g => managers'[h] = managers[h]
BY DEF ManagerDone, KeyInv, KeyTypes, KeyEvidence, Key

\* A rotation turns its credential off and leaves a successor that manages.
LEMMA RotateKeyKeeps ==
  ASSUME KeyInv, NEW g \in Manager, RotateKey(g)
  PROVE  KeyInv'
<1> DEFINE k == managers[g].by
           off == [apiKeys[k] EXCEPT !.active = FALSE]
           new == Successor(k)
<1>1. /\ k # None /\ ManagerDone(g)
      /\ managers' = [managers EXCEPT ![g].pc = "done"]
      /\ apiKeys' = [apiKeys EXCEPT ![k].active = FALSE, ![g] = new]
  BY DEF RotateKey, ManagerDone
<1>2. /\ g \in Key /\ apiKeys[g] = None /\ k \in Key
      /\ apiKeys[k] \in KeyRow /\ apiKeys[k] # None
      /\ apiKeys[k].manages
  BY <1>1, Acting
<1>3. /\ off \in KeyRow /\ off # None /\ off.active = FALSE
      /\ off.merchant = apiKeys[k].merchant /\ off.from = apiKeys[k].from
      /\ off.manages = apiKeys[k].manages
  BY <1>2, AccessAssumption DEF KeyRow
<1>4. new \in KeyRow /\ new # None
  <2>1. apiKeys[k].merchant \in Merchant /\ apiKeys[k].manages \in BOOLEAN
    BY <1>2 DEF KeyRow
  <2> QED
    BY <1>2, <2>1, NewKeyIsRow DEF Successor
<1>5. /\ new.merchant = apiKeys[k].merchant /\ new.from = k
      /\ new.manages = apiKeys[k].manages /\ new.active = TRUE
  BY DEF Successor, NewKey
<1>6. /\ apiKeys' \in [Key -> KeyRow \cup {None}]
      /\ apiKeys'[k] = off /\ apiKeys'[g] = new
      /\ \A j \in Key : j # k /\ j # g => apiKeys'[j] = apiKeys[j]
  BY <1>1, <1>2, <1>3, <1>4 DEF KeyInv, KeyTypes
<1> HIDE DEF off, new
<1>7. KeyTypes'
  BY <1>1, <1>6, Acting DEF KeyTypes
<1>8. KeyEvidence'
  <2>1. ASSUME NEW h \in Manager, managers'[h].pc # "done"
        PROVE  apiKeys'[h] = None
    <3>1. h # g /\ managers'[h] = managers[h] /\ h \in Key
      BY <1>1, <2>1, Acting DEF Key
    <3>2. apiKeys[h] = None
      BY <2>1, <3>1 DEF KeyInv, KeyEvidence
    <3> QED
      BY <1>2, <1>6, <3>1, <3>2
  <2>2. \A j \in Key : apiKeys[j] # None =>
           /\ apiKeys'[j] # None
           /\ apiKeys'[j].merchant = apiKeys[j].merchant
           /\ apiKeys'[j].manages = apiKeys[j].manages
           /\ apiKeys'[j].from = apiKeys[j].from
    BY <1>2, <1>3, <1>6
  <2>3. \A h \in Manager : managers'[h].pc = "admitted" =>
           /\ managers'[h] = managers[h] /\ managers[h].by \in Key \cup {None}
    BY <1>1, Acting DEF KeyInv, KeyTypes
  <2>4. \A j \in Key : apiKeys'[j] # None =>
           (j = g /\ apiKeys'[j].from = k)
             \/ (apiKeys[j] # None /\ apiKeys'[j].from = apiKeys[j].from
                   /\ apiKeys[j].from \in Key \cup {None})
    BY <1>2, <1>3, <1>5, <1>6 DEF KeyInv, KeyTypes, KeyRow
  <2>5. \A j \in Key : apiKeys'[j] # None /\ apiKeys'[j].from # None =>
           apiKeys'[apiKeys'[j].from] # None
    BY <1>2, <2>2, <2>4 DEF KeyInv, KeyEvidence
  <2> QED
    BY <2>1, <2>2, <2>3, <2>5 DEF KeyInv, KeyEvidence
<1>9. \A j \in Key : j # k => (Rotated(j)' <=> Rotated(j))
  BY <1>2, <1>3, <1>4, <1>5, <1>6 DEF Rotated
<1>10. ~Rotated(g)
  BY <1>2, AccessAssumption DEF Rotated, KeyInv, KeyEvidence
<1>11. RotatedIsOff'
  <2> SUFFICES ASSUME NEW j \in Key, Rotated(j)'
               PROVE  ~apiKeys'[j].active
    BY DEF RotatedIsOff
  <2>1. CASE j = k
    BY <1>3, <1>6, <2>1
  <2>2. CASE j # k
    BY <1>2, <1>6, <1>9, <1>10, <2>2 DEF KeyInv, RotatedIsOff
  <2> QED
    BY <2>1, <2>2
<1>12. ASSUME NEW m \in Integrated
       PROVE  Kept(m)'
  <2>1. CASE apiKeys[k].merchant = m
    BY <1>2, <1>4, <1>5, <1>6, <2>1 DEF Kept
  <2>2. CASE apiKeys[k].merchant # m
    <3>1. PICK j \in Key :
             /\ apiKeys[j] # None /\ apiKeys[j].merchant = m
             /\ \/ apiKeys[j].active /\ apiKeys[j].manages
                \/ ~apiKeys[j].active /\ ~Rotated(j)
      BY DEF KeyInv, Kept
    <3>2. j # k /\ j # g
      BY <1>2, <2>2, <3>1
    <3> QED
      BY <1>6, <1>9, <3>1, <3>2 DEF Kept
  <2> QED
    BY <2>1, <2>2
<1> QED
  BY <1>7, <1>8, <1>11, <1>12 DEF KeyInv

LEMMA CreateKeyKeeps ==
  ASSUME KeyInv, NEW g \in Manager, CreateKey(g)
  PROVE  KeyInv'
<1>1. PICK manages \in BOOLEAN :
        apiKeys' = [apiKeys EXCEPT ![g] =
                      NewKey(managers[g].merchant, manages, None)]
  BY DEF CreateKey
<1> DEFINE new == NewKey(managers[g].merchant, manages, None)
<1>2. ManagerDone(g) /\ managers' = [managers EXCEPT ![g].pc = "done"]
  BY DEF CreateKey, ManagerDone
<1>3. g \in Key /\ apiKeys[g] = None /\ managers[g].merchant \in Merchant
  BY <1>2, Acting
<1>4. new \in KeyRow /\ new # None /\ new.active = TRUE /\ new.from = None
  BY <1>3, NewKeyIsRow DEF NewKey
<1>5. /\ apiKeys' \in [Key -> KeyRow \cup {None}]
      /\ apiKeys'[g] = new
      /\ \A j \in Key : j # g => apiKeys'[j] = apiKeys[j]
  BY <1>1, <1>3, <1>4 DEF KeyInv, KeyTypes
<1> HIDE DEF new
<1>6. KeyTypes'
  BY <1>2, <1>5, Acting DEF KeyTypes
<1>7. KeyEvidence'
  <2>1. \A h \in Manager :
           managers'[h].pc # "done" => h # g /\ managers'[h] = managers[h]
    BY <1>2, Acting
  <2>2. \A j \in Key : apiKeys[j] # None => apiKeys'[j] = apiKeys[j]
    BY <1>3, <1>5
  <2>3. \A j \in Key : apiKeys'[j] # None /\ apiKeys'[j].from # None =>
           apiKeys[j] # None /\ apiKeys'[j] = apiKeys[j]
             /\ apiKeys[j].from \in Key
    BY <1>3, <1>4, <1>5 DEF KeyInv, KeyTypes, KeyRow
  <2>4. \A h \in Manager : h \in Key /\ managers[h].by \in Key \cup {None}
    BY DEF KeyInv, KeyTypes, Key
  <2>5. \A h \in Manager : managers'[h].pc # "done" => apiKeys'[h] = None
    BY <1>5, <2>1, <2>4 DEF KeyInv, KeyEvidence
  <2> QED
    BY <2>1, <2>2, <2>3, <2>4, <2>5 DEF KeyInv, KeyEvidence
<1>8. \A j \in Key : Rotated(j)' <=> Rotated(j)
  BY <1>3, <1>4, <1>5, AccessAssumption DEF Rotated
<1>9. ~Rotated(g)
  BY <1>3, AccessAssumption DEF Rotated, KeyInv, KeyEvidence
<1>10. RotatedIsOff'
  BY <1>5, <1>8, <1>9 DEF KeyInv, RotatedIsOff
<1>11. \A m \in Integrated : Kept(m)'
  BY <1>3, <1>5, <1>8 DEF KeyInv, Kept
<1> QED
  BY <1>6, <1>7, <1>10, <1>11 DEF KeyInv

\* A key that is deleted was active, so nothing was rotated from it: it is
\* itself the witness that something was deleted.
LEMMA DeleteKeyKeeps ==
  ASSUME KeyInv, NEW g \in Manager, NEW k \in Key, DeleteKey(g, k)
  PROVE  KeyInv'
<1>1. ManagerDone(g) /\ managers' = [managers EXCEPT ![g].pc = "done"]
  BY DEF DeleteKey, ManagerDone
<1>2. \A h \in Manager :
         /\ managers'[h].pc # "done" => managers'[h] = managers[h]
         /\ h \in Key /\ managers[h].by \in Key \cup {None}
  BY <1>1, Acting DEF KeyInv, KeyTypes, Key
<1>3. CASE UNCHANGED apiKeys
  <2>1. KeyTypes' /\ KeyEvidence'
    BY <1>1, <1>2, <1>3, Acting DEF KeyInv, KeyTypes, KeyEvidence
  <2> QED
    BY <1>3, <2>1 DEF KeyInv, Kept, RotatedIsOff, Rotated
<1>4. CASE KeyWorks(k) /\ apiKeys' = [apiKeys EXCEPT ![k].active = FALSE]
  <2> DEFINE off == [apiKeys[k] EXCEPT !.active = FALSE]
  <2>1. apiKeys[k] \in KeyRow /\ apiKeys[k] # None /\ apiKeys[k].active
    BY <1>4 DEF KeyWorks, KeyInv, KeyTypes
  <2>2. /\ off \in KeyRow /\ off # None /\ off.active = FALSE
        /\ off.merchant = apiKeys[k].merchant /\ off.from = apiKeys[k].from
        /\ off.manages = apiKeys[k].manages
    BY <2>1, AccessAssumption DEF KeyRow
  <2>3. /\ apiKeys' \in [Key -> KeyRow \cup {None}]
        /\ apiKeys'[k] = off
        /\ \A j \in Key : j # k => apiKeys'[j] = apiKeys[j]
    BY <1>4, <2>2 DEF KeyInv, KeyTypes
  <2> HIDE DEF off
  <2>4. \A j \in Key :
           /\ (apiKeys'[j] # None) <=> (apiKeys[j] # None)
           /\ apiKeys[j] # None =>
                /\ apiKeys'[j].merchant = apiKeys[j].merchant
                /\ apiKeys'[j].from = apiKeys[j].from
                /\ apiKeys'[j].manages = apiKeys[j].manages
                /\ apiKeys[j].from \in Key \cup {None}
    BY <2>1, <2>2, <2>3 DEF KeyInv, KeyTypes, KeyRow
  <2>5. KeyTypes'
    BY <1>1, <2>3, Acting DEF KeyTypes
  <2>6. KeyEvidence'
    BY <1>2, <2>4 DEF KeyInv, KeyEvidence
  <2>7. \A j \in Key : Rotated(j)' <=> Rotated(j)
    BY <2>4 DEF Rotated
  <2>8. RotatedIsOff'
    BY <2>2, <2>3, <2>7 DEF KeyInv, RotatedIsOff
  <2>9. ~Rotated(k)
    BY <2>1 DEF KeyInv, RotatedIsOff
  <2>10. \A m \in Integrated : Kept(m)'
    BY <2>1, <2>2, <2>3, <2>7, <2>9 DEF KeyInv, Kept
  <2> QED
    BY <2>5, <2>6, <2>8, <2>10 DEF KeyInv
<1> QED
  BY <1>3, <1>4 DEF DeleteKey

LEMMA KeyInvStep ==
  ASSUME KeyInv, KeyStep \/ UNCHANGED keyVars
  PROVE  KeyInv'
<1>1. CASE UNCHANGED keyVars
  BY <1>1 DEF keyVars, KeyInv, KeyTypes, KeyEvidence, Kept, RotatedIsOff, Rotated
<1>2. CASE KeyStep
  BY <1>2, AuthenticateManagerKeeps, RotateKeyKeeps, CreateKeyKeeps,
     DeleteKeyKeeps DEF KeyStep
<1> QED
  BY <1>1, <1>2

-----------------------------------------------------------------------------
(* Idempotent writes and completions.                                      *)

Request ==
  [ pc : {"new", "insert", "lookup", "handle", "commit", "answered",
          "validated", "done"},
    call : Call \cup {None},
    answer : [ status : {"rejected", "reused", "replayed", "created"},
               effect : Attempt \cup {None} ] \cup {None},
    charge : {None, "charge", "invalid", "not_pending", "used", "error"} ]

RequestTypes ==
  /\ keys \in [Slots ->
       [body : {call.body : call \in Call}, response : Attempt] \cup {None}]
  /\ holder \in [Slots -> Attempt \cup {None}]
  /\ effects \in [Attempt -> RowStatus \cup {None}]
  /\ charges \in [Attempt -> Attempt \cup {None}]
  /\ attempt \in [Attempt -> Request]
  /\ \A a \in Attempt : attempt[a].pc # "new" => attempt[a].call \in Call

\* Who is past its insert holds its key, and nobody else does; a key that is
\* held is not stored yet.
PastInsert(a) == attempt[a].pc \in {"handle", "commit"}

Holding ==
  /\ \A s \in Slots, a \in Attempt : holder[s] = a =>
       PastInsert(a) /\ SlotOf(a) = s /\ keys[s] = None
  /\ \A a \in Attempt : PastInsert(a) => holder[SlotOf(a)] = a

\* What is stored was answered, and names the row that was written with it.
Ended(a) == attempt[a].pc \in {"answered", "validated", "done"}

Stored ==
  /\ \A a \in Attempt : effects[a] # None =>
       /\ Ended(a)
       /\ keys[SlotOf(a)] # None /\ keys[SlotOf(a)].response = a
  /\ \A s \in Slots, a \in Attempt :
       keys[s] # None /\ keys[s].response = a =>
         effects[a] # None /\ SlotOf(a) = s

\* What a request that found its key has read, and what answers refer to.
Answers ==
  \A a \in Attempt :
    /\ attempt[a].pc = "lookup" => keys[SlotOf(a)] # None
    /\ ~Ended(a) => attempt[a].answer = None
    /\ Authorization(a) # None =>
         Authorization(a) \in Attempt /\ effects[Authorization(a)] # None

\* What was validated is an authorization; only refunds are scheduled.
Validated ==
  /\ \A a \in Attempt :
       attempt[a].pc = "validated" => IsAuthorization(Authorization(a))
  /\ \A a \in Attempt : effects[a] = "scheduled" => attempt[a].call.op = "refund"

RequestInv ==
  RequestTypes /\ Holding /\ Stored /\ Answers /\ Validated /\ CompletionsAgree

LEMMA SlotsOfCalls == \A call \in Call : Slot(call) \in Slots
BY DEF Slots

LEMMA StoredOnce == RequestInv => OneEffectPerKey
<1> SUFFICES ASSUME RequestInv, NEW s \in Slots
             PROVE  EffectsOf(s) = IF keys[s] = None THEN {} ELSE {keys[s].response}
  BY DEF OneEffectPerKey
<1>1. keys[s] # None => keys[s].response \in Attempt
  BY DEF RequestInv, RequestTypes
<1> QED
  BY <1>1 DEF RequestInv, Stored, EffectsOf

\* The rest of the requests while one moves.
Still(a) == \A b \in Attempt : b # a => attempt'[b] = attempt[b]

LEMMA AnsweredMoves ==
  ASSUME RequestTypes, NEW a \in Attempt, attempt[a].call \in Call,
         NEW status \in {"rejected", "reused", "replayed", "created"},
         NEW effect \in Attempt \cup {None}, Answered(a, status, effect)
  PROVE  /\ attempt' \in [Attempt -> Request] /\ Still(a)
         /\ attempt'[a].pc = "answered" /\ attempt'[a].call = attempt[a].call
         /\ attempt'[a].answer = [status |-> status, effect |-> effect]
         /\ attempt'[a].charge = attempt[a].charge
         /\ SlotOf(a)' = SlotOf(a)
<1> DEFINE r == [attempt[a] EXCEPT !.pc = "answered",
                   !.answer = [status |-> status, effect |-> effect]]
<1>1. attempt[a] \in Request
  BY DEF RequestTypes
<1>2. r \in Request /\ r.pc = "answered" /\ r.call = attempt[a].call
      /\ r.answer = [status |-> status, effect |-> effect]
      /\ r.charge = attempt[a].charge
  BY <1>1 DEF Request
<1>3. attempt' = [attempt EXCEPT ![a] = r]
  BY DEF Answered, RequestTypes
<1> HIDE DEF r
<1> QED
  BY <1>2, <1>3 DEF RequestTypes, Still, SlotOf

LEMMA GoesOn ==
  ASSUME RequestTypes, NEW a \in Attempt,
         NEW pc \in {"handle", "lookup", "commit", "validated"},
         attempt' = [attempt EXCEPT ![a].pc = pc]
  PROVE  /\ attempt' \in [Attempt -> Request] /\ Still(a)
         /\ attempt'[a].pc = pc /\ attempt'[a].call = attempt[a].call
         /\ attempt'[a].answer = attempt[a].answer
         /\ attempt'[a].charge = attempt[a].charge
<1> DEFINE r == [attempt[a] EXCEPT !.pc = pc]
<1>1. attempt[a] \in Request
  BY DEF RequestTypes
<1>2. /\ r \in Request /\ r.pc = pc /\ r.call = attempt[a].call
      /\ r.answer = attempt[a].answer /\ r.charge = attempt[a].charge
  BY <1>1 DEF Request
<1>3. attempt' = [attempt EXCEPT ![a] = r]
  BY DEF RequestTypes
<1> HIDE DEF r
<1> QED
  BY <1>2, <1>3 DEF RequestTypes, Still

LEMMA CompletedMoves ==
  ASSUME RequestTypes, NEW a \in Attempt,
         NEW result \in {"charge", "invalid", "not_pending", "used", "error"},
         Completed(a, result)
  PROVE  /\ attempt' \in [Attempt -> Request] /\ Still(a)
         /\ attempt'[a].pc = "done" /\ attempt'[a].call = attempt[a].call
         /\ attempt'[a].answer = attempt[a].answer
         /\ attempt'[a].charge = result
<1> DEFINE r == [attempt[a] EXCEPT !.pc = "done", !.charge = result]
<1>1. attempt[a] \in Request
  BY DEF RequestTypes
<1>2. /\ r \in Request /\ r.pc = "done" /\ r.call = attempt[a].call
      /\ r.answer = attempt[a].answer /\ r.charge = result
  BY <1>1 DEF Request
<1>3. attempt' = [attempt EXCEPT ![a] = r]
  BY DEF Completed, RequestTypes
<1> HIDE DEF r
<1> QED
  BY <1>2, <1>3 DEF RequestTypes, Still

-----------------------------------------------------------------------------
(* The invariant and the promise, step by step: a commit is the promise's  *)
(* execution, an answer one of its answers, any other step none of them.   *)

outcomeBar ==
  [s \in {<<call.merchant, call.key>> : call \in Call} |->
     LET own == IF s \in Slots THEN keys[s] ELSE None
     IN  IF own = None THEN None ELSE [by |-> own.response, body |-> own.body]]
answerBar == [a \in Attempt |-> attempt[a].answer]

PromiseStep == Promise!Next \/ UNCHANGED <<outcomeBar, answerBar>>

Sound == RequestInv' /\ PromiseStep

LEMMA OutcomeOfSlot ==
  /\ outcomeBar = [s \in Slots |-> IF keys[s] = None THEN None
                     ELSE [by |-> keys[s].response, body |-> keys[s].body]]
  /\ Promise!Slots = Slots
  /\ \A call \in Call : Promise!Slot(call) = Slot(call)
BY DEF outcomeBar, Slots, Slot, Promise!Slots, Promise!Slot

LEMMA RequestInit == Init => RequestInv /\ Promise!Init
<1> SUFFICES ASSUME Init PROVE RequestInv /\ Promise!Init
  OBVIOUS
<1>1. New \in Request /\ New.pc = "new" /\ New.answer = None
      /\ New.charge = None
  BY DEF New, Request
<1>2. RequestTypes
  BY <1>1 DEF Init, RequestTypes
<1>3. Holding /\ Stored /\ Answers
  BY <1>1, RequestsAssumption
  DEF Init, Holding, PastInsert, Stored, Answers, Authorization
<1>4. Validated /\ CompletionsAgree
  BY <1>1, RequestsAssumption DEF Init, Validated, CompletionsAgree, RowStatus
<1>5. Promise!Init
  <2>1. outcomeBar = [s \in Slots |-> None]
    BY OutcomeOfSlot DEF Init
  <2>2. answerBar = [a \in Attempt |-> None]
    BY <1>1 DEF Init, answerBar
  <2> QED
    BY <2>1, <2>2, OutcomeOfSlot DEF Promise!Init, outcomeBar, answerBar
<1> QED
  BY <1>2, <1>3, <1>4, <1>5 DEF RequestInv

\* Rejecting a request is a step of the promise.
LEMMA RejectIsPromised ==
  ASSUME RequestTypes, NEW a \in Attempt, attempt[a].answer = None, Still(a),
         attempt'[a].answer = [status |-> "rejected", effect |-> None],
         UNCHANGED keys
  PROVE  PromiseStep
<1>1. answerBar' = [answerBar EXCEPT ![a] =
                      [status |-> "rejected", effect |-> None]]
  BY DEF answerBar, Still
<1>2. answerBar[a] = None /\ outcomeBar' = outcomeBar
  BY DEF answerBar, outcomeBar
<1>3. Promise!Reject(a)
  BY <1>1, <1>2 DEF Promise!Reject, Promise!Answer, answerBar, outcomeBar
<1> QED
  BY <1>3 DEF PromiseStep, Promise!Next

\* So is no answer at all.
LEMMA SilenceIsPromised ==
  ASSUME UNCHANGED keys,
         \A a \in Attempt : attempt'[a].answer = attempt[a].answer
  PROVE  PromiseStep
BY DEF PromiseStep, answerBar, outcomeBar

LEMMA ArriveSound ==
  ASSUME RequestInv, NEW a \in Attempt, NEW call \in Call, Arrive(a, call)
  PROVE  Sound
<1> DEFINE rejected == [status |-> "rejected", effect |-> None]
<1>1. /\ attempt[a].pc = "new" /\ attempt[a].answer = None
      /\ attempt[a] \in Request
      /\ UNCHANGED <<keys, holder, effects, charges>>
  BY DEF Arrive, RequestInv, RequestTypes, Answers, Ended
<1>2. PICK r \in Request :
        /\ attempt' = [attempt EXCEPT ![a] = r]
        /\ r.call = call /\ r.charge = attempt[a].charge
        /\ \/ r.pc = "insert" /\ r.answer = None
           \/ r.pc = "answered" /\ r.answer = rejected
  <2>1. CASE attempt' = [attempt EXCEPT ![a].pc = "insert", ![a].call = call]
    <3> DEFINE r == [attempt[a] EXCEPT !.pc = "insert", !.call = call]
    <3>1. /\ r \in Request /\ r.call = call /\ r.charge = attempt[a].charge
          /\ r.pc = "insert" /\ r.answer = None
      BY <1>1 DEF Request
    <3>2. attempt' = [attempt EXCEPT ![a] = r]
      BY <2>1 DEF RequestInv, RequestTypes
    <3> QED
      BY <3>1, <3>2
  <2>2. CASE attempt' = [attempt EXCEPT ![a].pc = "answered", ![a].call = call,
                           ![a].answer = rejected]
    <3> DEFINE r == [attempt[a] EXCEPT !.pc = "answered", !.call = call,
                       !.answer = rejected]
    <3>1. /\ r \in Request /\ r.call = call /\ r.charge = attempt[a].charge
          /\ r.pc = "answered" /\ r.answer = rejected
      BY <1>1 DEF Request
    <3>2. attempt' = [attempt EXCEPT ![a] = r]
      BY <2>2 DEF RequestInv, RequestTypes
    <3> QED
      BY <3>1, <3>2
  <2> QED
    BY <2>1, <2>2 DEF Arrive
<1>3. attempt' \in [Attempt -> Request] /\ attempt'[a] = r /\ Still(a)
  BY <1>2 DEF RequestInv, RequestTypes, Still
<1>4. effects[a] = None
  BY <1>1 DEF RequestInv, Stored, Ended
<1>5. \A s \in Slots : holder[s] # a /\ (keys[s] # None => keys[s].response # a)
  BY <1>1, <1>4, RequestsAssumption
  DEF RequestInv, Holding, PastInsert, Stored
<1>6. \A b \in Attempt : b # a => SlotOf(b)' = SlotOf(b)
  BY <1>3 DEF Still, SlotOf
<1>7. RequestTypes'
  BY <1>1, <1>2, <1>3 DEF RequestInv, RequestTypes, Still
<1>8. Holding'
  BY <1>1, <1>2, <1>3, <1>5, <1>6
  DEF RequestInv, RequestTypes, Holding, PastInsert, Still
<1>9. Stored'
  BY <1>1, <1>3, <1>4, <1>5, <1>6
  DEF RequestInv, RequestTypes, Stored, Ended, Still
<1>10. Answers'
  BY <1>1, <1>2, <1>3, <1>6
  DEF RequestInv, Answers, Ended, Authorization, Still, SlotOf, KeyOf
<1>11. Validated'
  BY <1>1, <1>2, <1>3, <1>4, RequestsAssumption
  DEF RequestInv, Validated, Answers, Authorization, IsAuthorization, Still,
      RowStatus
<1>12. CompletionsAgree'
  BY <1>1, <1>2, <1>3 DEF RequestInv, CompletionsAgree, Still
<1>13. PromiseStep
  BY <1>1, <1>2, <1>3, RejectIsPromised, SilenceIsPromised
  DEF RequestInv, Still
<1> QED
  BY <1>7, <1>8, <1>9, <1>10, <1>11, <1>12, <1>13 DEF Sound, RequestInv

\* A request that goes on inside its transaction, and what holder it leaves.
LEMMA InsertKeySound ==
  ASSUME RequestInv, NEW a \in Attempt, InsertKey(a)
  PROVE  Sound
<1>1. /\ attempt[a].pc = "insert" /\ attempt[a].call \in Call
      /\ SlotOf(a) \in Slots /\ holder[SlotOf(a)] = None
      /\ UNCHANGED <<keys, effects, charges>>
  BY SlotsOfCalls
  DEF InsertKey, MustWait, RequestInv, RequestTypes, SlotOf
<1>2. PICK pc \in {"handle", "lookup"} :
        /\ attempt' = [attempt EXCEPT ![a].pc = pc]
        /\ pc = "handle" => /\ keys[SlotOf(a)] = None
                            /\ holder' = [holder EXCEPT ![SlotOf(a)] = a]
        /\ pc = "lookup" => keys[SlotOf(a)] # None /\ holder' = holder
  BY DEF InsertKey, KeyOf
<1>3. /\ attempt' \in [Attempt -> Request] /\ Still(a)
      /\ attempt'[a].pc = pc /\ attempt'[a].call = attempt[a].call
      /\ attempt'[a].answer = attempt[a].answer
      /\ attempt'[a].charge = attempt[a].charge
  BY <1>2, GoesOn DEF RequestInv
<1>4. \A b \in Attempt : SlotOf(b)' = SlotOf(b)
  BY <1>3 DEF Still, SlotOf
<1>5. effects[a] = None
  BY <1>1 DEF RequestInv, Stored, Ended
<1>6. holder' \in [Slots -> Attempt \cup {None}]
  BY <1>1, <1>2 DEF RequestInv, RequestTypes
<1>7. RequestTypes'
  BY <1>1, <1>3, <1>6 DEF RequestInv, RequestTypes, Still
<1>8. \A s \in Slots : holder[s] # a
  BY <1>1, RequestsAssumption DEF RequestInv, Holding, PastInsert
<1>9. Holding'
  <2>1. CASE pc = "lookup"
    BY <1>1, <1>2, <1>3, <1>4, <1>8, <2>1
    DEF RequestInv, RequestTypes, Holding, PastInsert, Still
  <2>2. CASE pc = "handle"
    <3>1. \A s \in Slots :
             holder'[s] = IF s = SlotOf(a) THEN a ELSE holder[s]
      BY <1>1, <1>2, <2>2 DEF RequestInv, RequestTypes
    <3>2. \A s \in Slots, b \in Attempt : holder'[s] = b =>
             PastInsert(b)' /\ SlotOf(b)' = s /\ keys'[s] = None
      BY <1>1, <1>2, <1>3, <1>4, <1>8, <2>2, <3>1
      DEF RequestInv, RequestTypes, Holding, PastInsert, Still
    <3>3. ASSUME NEW b \in Attempt, PastInsert(b)'
          PROVE  holder'[SlotOf(b)'] = b
      <4>1. CASE b = a
        BY <1>1, <1>4, <3>1, <4>1
      <4>2. CASE b # a
        <5>1. PastInsert(b) /\ holder[SlotOf(b)] = b /\ attempt[b].call \in Call
          BY <1>3, <3>3, <4>2
          DEF RequestInv, RequestTypes, Holding, PastInsert, Still
        <5>2. SlotOf(b) \in Slots /\ SlotOf(b) # SlotOf(a)
          BY <1>1, <5>1, SlotsOfCalls, RequestsAssumption DEF SlotOf
        <5> QED
          BY <1>4, <3>1, <5>1, <5>2
      <4> QED
        BY <4>1, <4>2
    <3> QED
      BY <3>2, <3>3 DEF Holding
  <2> QED
    BY <2>1, <2>2
<1>10. Stored'
  BY <1>1, <1>3, <1>4, <1>5 DEF RequestInv, Stored, Ended, Still
<1>11. Answers'
  BY <1>1, <1>2, <1>3, <1>4
  DEF RequestInv, Answers, Ended, Authorization, Still
<1>12. Validated'
  BY <1>1, <1>3 DEF RequestInv, Validated, Authorization, IsAuthorization, Still,
                   Answers
<1>13. CompletionsAgree'
  BY <1>1, <1>3 DEF RequestInv, CompletionsAgree, Still
<1>14. PromiseStep
  BY <1>1, <1>3, SilenceIsPromised DEF Still
<1> QED
  BY <1>7, <1>9, <1>10, <1>11, <1>12, <1>13, <1>14 DEF Sound, RequestInv

LEMMA HandleSound ==
  ASSUME RequestInv, NEW a \in Attempt, Handle(a)
  PROVE  Sound
<1>1. /\ attempt[a].pc = "handle"
      /\ UNCHANGED <<keys, holder, effects, charges>>
      /\ attempt' = [attempt EXCEPT ![a].pc = "commit"]
  BY DEF Handle
<1>2. /\ attempt' \in [Attempt -> Request] /\ Still(a)
      /\ attempt'[a].pc = "commit" /\ attempt'[a].call = attempt[a].call
      /\ attempt'[a].answer = attempt[a].answer
      /\ attempt'[a].charge = attempt[a].charge
  BY <1>1, GoesOn DEF RequestInv
<1>3. \A b \in Attempt : SlotOf(b)' = SlotOf(b)
  BY <1>2 DEF Still, SlotOf
<1>4. \A b \in Attempt : /\ PastInsert(b)' <=> PastInsert(b)
                         /\ Ended(b)' <=> Ended(b)
  BY <1>1, <1>2 DEF PastInsert, Ended, Still
<1>5. RequestTypes'
  BY <1>1, <1>2 DEF RequestInv, RequestTypes, Still
<1>6. Holding'
  BY <1>1, <1>3, <1>4 DEF RequestInv, RequestTypes, Holding
<1>7. Stored'
  BY <1>1, <1>3, <1>4 DEF RequestInv, RequestTypes, Stored
<1>8. Answers'
  BY <1>1, <1>2, <1>3, <1>4 DEF RequestInv, Answers, Authorization, Still
<1>9. Validated'
  BY <1>1, <1>2 DEF RequestInv, Validated, Authorization, IsAuthorization, Still,
                   Answers
<1>10. CompletionsAgree'
  BY <1>1, <1>2 DEF RequestInv, CompletionsAgree, Still
<1>11. PromiseStep
  BY <1>1, <1>2, SilenceIsPromised DEF Still
<1> QED
  BY <1>5, <1>6, <1>7, <1>8, <1>9, <1>10, <1>11 DEF Sound, RequestInv

LEMMA CommitSound ==
  ASSUME RequestInv, NEW a \in Attempt, Commit(a)
  PROVE  Sound
<1> DEFINE s == SlotOf(a)
           row == CommittedKey(a)
           first == FirstStatus(attempt[a].call.op)
<1>1. /\ attempt[a].pc = "commit" /\ attempt[a].call \in Call /\ s \in Slots
      /\ holder[s] = a /\ keys[s] = None /\ attempt[a].answer = None
  BY SlotsOfCalls, RequestsAssumption
  DEF Commit, RequestInv, RequestTypes, Holding, PastInsert, SlotOf, Answers, Ended
<1>2. /\ keys' = [keys EXCEPT ![s] = row]
      /\ effects' = [effects EXCEPT ![a] = first]
      /\ holder' = [holder EXCEPT ![s] = None]
      /\ charges' = charges /\ Answered(a, "created", a)
  BY DEF Commit
<1>3. /\ row = [body |-> attempt[a].call.body, response |-> a]
      /\ row # None
      /\ row \in [body : {call.body : call \in Call}, response : Attempt]
  BY <1>1, RequestsAssumption DEF CommittedKey
<1>4. /\ first \in {"scheduled", "pending"} /\ first # None
      /\ first = "scheduled" => attempt[a].call.op = "refund"
  BY RequestsAssumption DEF FirstStatus, RowStatus
<1>5. /\ attempt' \in [Attempt -> Request] /\ Still(a)
      /\ attempt'[a].pc = "answered" /\ attempt'[a].call = attempt[a].call
      /\ attempt'[a].answer = [status |-> "created", effect |-> a]
      /\ attempt'[a].charge = attempt[a].charge
  BY <1>1, <1>2, AnsweredMoves DEF RequestInv
<1>6. \A b \in Attempt : SlotOf(b)' = SlotOf(b)
  BY <1>5 DEF Still, SlotOf
<1> HIDE DEF row, first
<1>7. /\ keys' \in [Slots ->
           [body : {call.body : call \in Call}, response : Attempt] \cup {None}]
      /\ keys'[s] = row
      /\ \A r \in Slots : r # s => keys'[r] = keys[r]
  BY <1>1, <1>2, <1>3 DEF RequestInv, RequestTypes
<1>8. /\ effects' \in [Attempt -> RowStatus \cup {None}]
      /\ effects'[a] = first
      /\ \A b \in Attempt : b # a => effects'[b] = effects[b]
  BY <1>2, <1>4 DEF RequestInv, RequestTypes, RowStatus
<1>9. /\ holder' \in [Slots -> Attempt \cup {None}]
      /\ holder'[s] = None
      /\ \A r \in Slots : r # s => holder'[r] = holder[r]
  BY <1>1, <1>2 DEF RequestInv, RequestTypes
<1>10. RequestTypes'
  BY <1>1, <1>2, <1>5, <1>7, <1>8, <1>9 DEF RequestInv, RequestTypes, Still
<1>11. Holding'
  <2>1. ASSUME NEW r \in Slots, NEW b \in Attempt, holder'[r] = b
        PROVE  PastInsert(b)' /\ SlotOf(b)' = r /\ keys'[r] = None
    <3>1. r # s /\ holder[r] = b /\ keys'[r] = keys[r]
      BY <1>7, <1>9, <2>1, RequestsAssumption
    <3>2. PastInsert(b) /\ SlotOf(b) = r /\ keys[r] = None
      BY <3>1 DEF RequestInv, Holding
    <3>3. b # a
      BY <3>1, <3>2
    <3> QED
      BY <1>5, <1>6, <3>1, <3>2, <3>3 DEF PastInsert, Still
  <2>2. ASSUME NEW b \in Attempt, PastInsert(b)'
        PROVE  holder'[SlotOf(b)'] = b
    <3>1. b # a /\ PastInsert(b) /\ holder[SlotOf(b)] = b
          /\ attempt[b].call \in Call
      BY <1>5, <2>2 DEF RequestInv, RequestTypes, Holding, PastInsert, Still
    <3>2. SlotOf(b) \in Slots /\ SlotOf(b) # s
      BY <1>1, <3>1, SlotsOfCalls DEF SlotOf
    <3> QED
      BY <1>6, <1>9, <3>1, <3>2
  <2> QED
    BY <2>1, <2>2 DEF Holding
<1>12. Stored'
  <2>1. ASSUME NEW b \in Attempt, effects'[b] # None
        PROVE  /\ Ended(b)'
               /\ keys'[SlotOf(b)'] # None /\ keys'[SlotOf(b)'].response = b
    <3>1. CASE b = a
      BY <1>3, <1>5, <1>6, <1>7, <3>1 DEF Ended
    <3>2. CASE b # a
      <4>1. /\ effects[b] # None /\ Ended(b) /\ attempt[b].call \in Call
            /\ keys[SlotOf(b)] # None /\ keys[SlotOf(b)].response = b
        BY <1>8, <2>1, <3>2 DEF RequestInv, RequestTypes, Stored, Ended
      <4>2. SlotOf(b) \in Slots /\ SlotOf(b) # s
        BY <1>1, <4>1, SlotsOfCalls DEF SlotOf
      <4> QED
        BY <1>5, <1>6, <1>7, <3>2, <4>1, <4>2 DEF Ended, Still
    <3> QED
      BY <3>1, <3>2
  <2>2. ASSUME NEW r \in Slots, NEW b \in Attempt,
               keys'[r] # None, keys'[r].response = b
        PROVE  effects'[b] # None /\ SlotOf(b)' = r
    <3>1. CASE r = s
      BY <1>3, <1>4, <1>6, <1>7, <1>8, <2>2, <3>1
    <3>2. CASE r # s
      <4>1. effects[b] # None /\ SlotOf(b) = r
        BY <1>7, <2>2, <3>2 DEF RequestInv, Stored
      <4> QED
        BY <1>4, <1>6, <1>8, <4>1
    <3> QED
      BY <3>1, <3>2
  <2> QED
    BY <2>1, <2>2 DEF Stored
<1>13. Answers'
  <2>1. Authorization(a)' \in {a, None}
    BY <1>5 DEF Authorization
  <2>2. \A b \in Attempt : b # a => Authorization(b)' = Authorization(b)
    BY <1>5 DEF Authorization, Still
  <2>3. \A b \in Attempt : effects[b] # None => effects'[b] # None
    BY <1>4, <1>8
  <2>4. \A b \in Attempt : attempt'[b].pc = "lookup" =>
           b # a /\ attempt[b].pc = "lookup" /\ SlotOf(b) \in Slots
    BY <1>5, SlotsOfCalls DEF RequestInv, RequestTypes, SlotOf, Still
  <2>5. \A b \in Attempt : attempt'[b].pc = "lookup" => keys'[SlotOf(b)'] # None
    BY <1>3, <1>6, <1>7, <2>4 DEF RequestInv, Answers
  <2> QED
    BY <1>4, <1>5, <1>8, <2>1, <2>2, <2>3, <2>5
    DEF RequestInv, Answers, Ended, Still
<1>14. Validated'
  <2>1. \A b \in Attempt : attempt'[b].pc = "validated" =>
           /\ b # a /\ attempt[b].pc = "validated"
           /\ Authorization(b)' = Authorization(b)
           /\ Authorization(b) # None => Authorization(b) \in Attempt
    BY <1>5 DEF Authorization, Still, RequestInv, Answers
  <2>2. \A b \in Attempt : attempt'[b].call = attempt[b].call
    BY <1>5 DEF Still
  <2> QED
    BY <1>4, <1>8, <2>1, <2>2 DEF RequestInv, Validated, IsAuthorization
<1>15. CompletionsAgree'
  <2>1. effects[a] = None
    BY <1>1 DEF RequestInv, Stored, Ended
  <2>2. charges[a] = None
    BY <2>1, RequestsAssumption DEF RequestInv, CompletionsAgree, RowStatus
  <2> QED
    BY <1>2, <1>4, <1>5, <1>8, <2>2 DEF RequestInv, CompletionsAgree, Still
<1>16. PromiseStep
  <2>1. outcomeBar' = [outcomeBar EXCEPT ![s] =
                         [by |-> a, body |-> attempt[a].call.body]]
    <3>1. IF row = None THEN FALSE
          ELSE [by |-> row.response, body |-> row.body] =
                 [by |-> a, body |-> attempt[a].call.body]
      BY <1>3
    <3>2. outcomeBar' = [r \in Slots |-> IF keys'[r] = None THEN None
             ELSE [by |-> keys'[r].response, body |-> keys'[r].body]]
      BY OutcomeOfSlot, SlotsOfCalls DEF outcomeBar, Slots, Slot
    <3> QED
      BY <1>1, <1>7, <3>1, <3>2, OutcomeOfSlot
  <2>2. answerBar' = [answerBar EXCEPT ![a] = [status |-> "created", effect |-> a]]
    BY <1>5 DEF answerBar, Still
  <2>3. outcomeBar[s] = None /\ answerBar[a] = None
    BY <1>1, OutcomeOfSlot DEF answerBar
  <2>4. PICK call \in Call : call = attempt[a].call
    BY <1>1
  <2>5. Promise!Slot(call) = s
    BY <2>4, OutcomeOfSlot DEF SlotOf
  <2>6. Promise!Execute(a, call)
    BY <2>1, <2>2, <2>3, <2>4, <2>5
    DEF Promise!Execute, Promise!Answer, outcomeBar, answerBar
  <2> QED
    BY <2>6 DEF PromiseStep, Promise!Next
<1> QED
  BY <1>10, <1>11, <1>12, <1>13, <1>14, <1>15, <1>16 DEF Sound, RequestInv

\* A request that is answered without a row of its own: what it was told
\* exists.
LEMMA AnswerSound ==
  ASSUME RequestInv, NEW a \in Attempt, ~Ended(a), attempt[a].call \in Call,
         NEW status \in {"rejected", "reused", "replayed", "created"},
         NEW effect \in Attempt \cup {None}, Answered(a, status, effect),
         effect # None => effects[effect] # None,
         holder' \in [Slots -> Attempt \cup {None}],
         \A s \in Slots, b \in Attempt :
           holder'[s] = b <=> holder[s] = b /\ b # a,
         UNCHANGED <<keys, effects, charges>>
  PROVE  RequestInv'
<1>1. /\ attempt' \in [Attempt -> Request] /\ Still(a)
      /\ attempt'[a].pc = "answered" /\ attempt'[a].call = attempt[a].call
      /\ attempt'[a].answer = [status |-> status, effect |-> effect]
      /\ attempt'[a].charge = attempt[a].charge
  BY AnsweredMoves DEF RequestInv
<1>2. \A b \in Attempt : SlotOf(b)' = SlotOf(b)
  BY <1>1 DEF Still, SlotOf
<1>3. RequestTypes'
  BY <1>1 DEF RequestInv, RequestTypes, Still
<1>4. Holding'
  <2>1. ASSUME NEW b \in Attempt, PastInsert(b)'
        PROVE  holder'[SlotOf(b)'] = b
    <3>1. b # a /\ PastInsert(b) /\ attempt[b].call \in Call
      BY <1>1, <2>1 DEF RequestInv, RequestTypes, PastInsert, Still
    <3>2. holder[SlotOf(b)] = b /\ SlotOf(b) \in Slots
      BY <3>1, SlotsOfCalls DEF RequestInv, Holding, SlotOf
    <3> QED
      BY <1>2, <3>1, <3>2
  <2>2. \A s \in Slots, b \in Attempt : holder'[s] = b =>
           PastInsert(b)' /\ SlotOf(b)' = s /\ keys'[s] = None
    BY <1>1, <1>2 DEF RequestInv, Holding, PastInsert, Still
  <2> QED
    BY <2>1, <2>2 DEF Holding
<1>5. \A b \in Attempt : Ended(b) => Ended(b)'
  BY <1>1 DEF Ended, Still
<1>6. Stored'
  BY <1>2, <1>5 DEF RequestInv, Stored
<1>7. /\ Authorization(a)' \in {effect, None}
      /\ \A b \in Attempt : b # a => Authorization(b)' = Authorization(b)
  BY <1>1 DEF Authorization, Still
<1>8. Answers'
  BY <1>1, <1>2, <1>7 DEF RequestInv, Answers, Ended, Still
<1>9. Validated'
  <2>1. \A b \in Attempt : attempt'[b].pc = "validated" =>
           b # a /\ attempt[b].pc = "validated"
    BY <1>1 DEF Still
  <2>2. \A b \in Attempt : attempt'[b].call = attempt[b].call
    BY <1>1 DEF Still
  <2> QED
    BY <1>7, <2>1, <2>2 DEF RequestInv, Validated, IsAuthorization, Answers
<1>10. CompletionsAgree'
  BY <1>1 DEF RequestInv, CompletionsAgree, Still
<1> QED
  BY <1>3, <1>4, <1>6, <1>8, <1>9, <1>10 DEF RequestInv

LEMMA LookupSound ==
  ASSUME RequestInv, NEW a \in Attempt, Lookup(a)
  PROVE  Sound
<1> DEFINE s == SlotOf(a)
<1>1. /\ attempt[a].pc = "lookup" /\ attempt[a].call \in Call /\ s \in Slots
      /\ keys[s] # None /\ attempt[a].answer = None
      /\ UNCHANGED <<keys, holder, effects, charges>>
  BY SlotsOfCalls
  DEF Lookup, RequestInv, RequestTypes, SlotOf, Answers, Ended
<1>2. keys[s].response \in Attempt /\ effects[keys[s].response] # None
  BY <1>1 DEF RequestInv, RequestTypes, Stored
<1>3. PICK status \in {"reused", "replayed"}, effect \in Attempt \cup {None} :
        /\ Answered(a, status, effect)
        /\ \/ /\ status = "reused" /\ effect = None
              /\ keys[s].body # attempt[a].call.body
           \/ /\ status = "replayed" /\ effect = keys[s].response
              /\ keys[s].body = attempt[a].call.body
  <2>1. keys[s].response # None
    BY <1>2, RequestsAssumption
  <2> QED
    BY <1>2, <2>1 DEF Lookup, KeyOf
<1>4. \A r \in Slots, b \in Attempt : holder'[r] = b <=> holder[r] = b /\ b # a
  BY <1>1 DEF RequestInv, Holding, PastInsert
<1>5. holder' \in [Slots -> Attempt \cup {None}] /\ ~Ended(a)
  BY <1>1 DEF RequestInv, RequestTypes, Ended
<1>6. RequestInv'
  BY <1>1, <1>2, <1>3, <1>4, <1>5, RequestsAssumption, AnswerSound
<1>7. PromiseStep
  <2>1. attempt'[a].answer = [status |-> status, effect |-> effect] /\ Still(a)
    BY <1>1, <1>3, AnsweredMoves DEF RequestInv
  <2>2. answerBar' = [answerBar EXCEPT ![a] = [status |-> status, effect |-> effect]]
    BY <2>1 DEF answerBar, Still
  <2>3. /\ outcomeBar[s] # None /\ answerBar[a] = None
        /\ outcomeBar[s].by = keys[s].response
        /\ outcomeBar[s].body = keys[s].body
        /\ outcomeBar' = outcomeBar
    <3>1. outcomeBar[s] = [by |-> keys[s].response, body |-> keys[s].body]
      BY <1>1, OutcomeOfSlot
    <3>2. keys[s].body \in {call.body : call \in Call}
      BY <1>1 DEF RequestInv, RequestTypes
    <3>3. outcomeBar[s] \in [by : Attempt, body : {call.body : call \in Call}]
      BY <1>2, <3>1, <3>2
    <3>4. outcomeBar[s] # None
      BY <3>3, RequestsAssumption
    <3> QED
      BY <1>1, <3>1, <3>4 DEF answerBar, outcomeBar
  <2>4. PICK call \in Call : call = attempt[a].call
    BY <1>1
  <2>5. Promise!Slot(call) = s
    BY <2>4, OutcomeOfSlot DEF SlotOf
  <2>6. CASE status = "reused"
    <3>1. Promise!Refuse(a, call)
      BY <1>3, <2>2, <2>3, <2>4, <2>5, <2>6
      DEF Promise!Refuse, Promise!Answer, outcomeBar, answerBar
    <3> QED
      BY <3>1 DEF PromiseStep, Promise!Next
  <2>7. CASE status = "replayed"
    <3>1. /\ effect = outcomeBar[s].by /\ outcomeBar[s].body = call.body
          /\ answerBar' = [answerBar EXCEPT ![a] =
                            [status |-> "replayed", effect |-> outcomeBar[s].by]]
      BY <1>3, <2>2, <2>3, <2>4, <2>7
    <3>2. Promise!Replay(a, call)
      BY <2>3, <2>5, <3>1
      DEF Promise!Replay, Promise!Answer, outcomeBar, answerBar
    <3> QED
      BY <3>2 DEF PromiseStep, Promise!Next
  <2> QED
    BY <2>6, <2>7
<1> QED
  BY <1>6, <1>7 DEF Sound

LEMMA TransactionFailsSound ==
  ASSUME RequestInv, NEW a \in Attempt, TransactionFails(a)
  PROVE  Sound
<1> DEFINE s == SlotOf(a)
<1>1. /\ attempt[a].pc \in {"insert", "lookup", "handle", "commit"}
      /\ attempt[a].call \in Call /\ s \in Slots /\ attempt[a].answer = None
      /\ Answered(a, "rejected", None) /\ ~Ended(a)
      /\ UNCHANGED <<keys, effects, charges>>
  BY SlotsOfCalls
  DEF TransactionFails, RequestInv, RequestTypes, SlotOf, Answers, Ended
<1>2. holder' = IF holder[s] = a THEN [holder EXCEPT ![s] = None] ELSE holder
  BY DEF TransactionFails, AfterRollback
<1>3. holder' \in [Slots -> Attempt \cup {None}]
  BY <1>1, <1>2 DEF RequestInv, RequestTypes
<1>4. \A r \in Slots, b \in Attempt : holder'[r] = b <=> holder[r] = b /\ b # a
  <2>1. \A r \in Slots : holder[r] = a => r = s
    BY DEF RequestInv, Holding
  <2>2. \A r \in Slots : holder'[r] = IF holder[r] = a THEN None ELSE holder[r]
    BY <1>1, <1>2, <2>1 DEF RequestInv, RequestTypes
  <2> QED
    BY <2>2, RequestsAssumption
<1>5. RequestInv'
  BY <1>1, <1>3, <1>4, AnswerSound
<1>6. PromiseStep
  BY <1>1, AnsweredMoves, RejectIsPromised DEF RequestInv
<1> QED
  BY <1>5, <1>6 DEF Sound

\* A completion leaves keys and answers alone, and rows where they are.
LEMMA CompletionSound ==
  ASSUME RequestInv, NEW a \in Attempt, Ended(a),
         attempt' \in [Attempt -> Request], Still(a),
         attempt'[a].pc \in {"validated", "done"},
         attempt'[a].call = attempt[a].call,
         attempt'[a].answer = attempt[a].answer,
         attempt'[a].pc = "validated" => IsAuthorization(Authorization(a)),
         effects' \in [Attempt -> RowStatus \cup {None}],
         \A b \in Attempt :
           /\ (effects'[b] = None) <=> (effects[b] = None)
           /\ effects'[b] = "scheduled" => effects[b] = "scheduled",
         charges' \in [Attempt -> Attempt \cup {None}],
         UNCHANGED <<keys, holder>>, CompletionsAgree'
  PROVE  Sound
<1>1. \A b \in Attempt :
         /\ SlotOf(b)' = SlotOf(b) /\ Authorization(b)' = Authorization(b)
         /\ attempt'[b].answer = attempt[b].answer
         /\ attempt'[b].call = attempt[b].call
         /\ Ended(b)' <=> Ended(b)
  BY DEF Still, SlotOf, Authorization, Ended
<1>2. attempt[a].pc # "new" /\ ~PastInsert(a) /\ attempt[a].pc # "lookup"
  BY DEF Ended, PastInsert
<1>3. RequestTypes'
  BY <1>2 DEF RequestInv, RequestTypes, Still
<1>4. \A b \in Attempt : PastInsert(b)' <=> PastInsert(b)
  BY <1>2 DEF PastInsert, Still
<1>5. Holding'
  BY <1>1, <1>4 DEF RequestInv, RequestTypes, Holding
<1>6. Stored'
  BY <1>1 DEF RequestInv, Stored
<1>7. Answers'
  BY <1>1 DEF RequestInv, Answers, Still
<1>8. Validated'
  <2>1. \A b \in Attempt : attempt'[b].pc = "validated" =>
           IsAuthorization(Authorization(b))
    BY DEF RequestInv, Validated, Still
  <2> QED
    BY <1>1, <2>1 DEF RequestInv, Validated, IsAuthorization, Answers
<1>9. PromiseStep
  BY <1>1, SilenceIsPromised
<1> QED
  BY <1>3, <1>5, <1>6, <1>7, <1>8, <1>9 DEF Sound, RequestInv

\* An authorization that exists is pending or has its charge.
LEMMA PendingOrCharged ==
  ASSUME RequestInv, NEW a \in Attempt, IsAuthorization(Authorization(a))
  PROVE  /\ Authorization(a) \in Attempt
         /\ effects[Authorization(a)] = "pending" <=> charges[Authorization(a)] = None
<1> DEFINE e == Authorization(a)
<1>1. e \in Attempt /\ effects[e] # None /\ attempt[e].call.op = "authorization"
  BY DEF IsAuthorization, RequestInv, Answers
<1>2. effects[e] # "scheduled"
  BY <1>1 DEF RequestInv, Validated
<1> QED
  BY <1>1, <1>2 DEF RequestInv, RequestTypes, RowStatus, CompletionsAgree

LEMMA ReadAuthorizationSound ==
  ASSUME RequestInv, NEW a \in Attempt, ReadAuthorization(a)
  PROVE  Sound
<1> DEFINE e == Authorization(a)
<1>1. /\ attempt[a].pc = "answered" /\ Ended(a) /\ IsAuthorization(e)
      /\ UNCHANGED <<keys, holder, effects, charges>>
  BY DEF ReadAuthorization, Ended
<1>2. e \in Attempt /\ (effects[e] = "pending" <=> charges[e] = None)
  BY <1>1, PendingOrCharged
<1>3. \/ attempt' = [attempt EXCEPT ![a].pc = "validated"]
      \/ \E result \in {"charge", "invalid"} : Completed(a, result)
  BY <1>2 DEF ReadAuthorization
<1>4. /\ attempt' \in [Attempt -> Request] /\ Still(a)
      /\ attempt'[a].pc \in {"validated", "done"}
      /\ attempt'[a].call = attempt[a].call
      /\ attempt'[a].answer = attempt[a].answer
      /\ attempt'[a].charge \in {attempt[a].charge, "charge", "invalid"}
  BY <1>3, GoesOn, CompletedMoves DEF RequestInv
<1>5. CompletionsAgree'
  BY <1>1, <1>4 DEF RequestInv, CompletionsAgree, Still
<1> QED
  BY <1>1, <1>4, <1>5, CompletionSound DEF RequestInv, RequestTypes

LEMMA CompleteAuthorizationSound ==
  ASSUME RequestInv, NEW a \in Attempt, CompleteAuthorization(a)
  PROVE  Sound
<1> DEFINE e == Authorization(a)
<1>1. /\ attempt[a].pc = "validated" /\ Ended(a) /\ IsAuthorization(e)
      /\ UNCHANGED <<keys, holder>>
  BY DEF CompleteAuthorization, Ended, RequestInv, Validated
<1>2. e \in Attempt /\ (effects[e] = "pending" <=> charges[e] = None)
  BY <1>1, PendingOrCharged
<1>3. /\ Completed(a, "charge")
      /\ \/ UNCHANGED <<effects, charges>>
         \/ /\ effects[e] = "pending"
            /\ effects' = [effects EXCEPT ![e] = "ready"]
            /\ charges' = [charges EXCEPT ![e] = a]
  BY <1>2 DEF CompleteAuthorization, StillPending
<1>4. /\ attempt' \in [Attempt -> Request] /\ Still(a)
      /\ attempt'[a].pc = "done" /\ attempt'[a].call = attempt[a].call
      /\ attempt'[a].answer = attempt[a].answer
      /\ attempt'[a].charge = "charge"
  BY <1>3, CompletedMoves DEF RequestInv
<1>5. /\ effects' \in [Attempt -> RowStatus \cup {None}]
      /\ charges' \in [Attempt -> Attempt \cup {None}]
      /\ \A b \in Attempt :
           /\ (effects'[b] = None) <=> (effects[b] = None)
           /\ effects'[b] = "scheduled" => effects[b] = "scheduled"
  BY <1>2, <1>3, RequestsAssumption DEF RequestInv, RequestTypes, RowStatus
<1>6. CompletionsAgree'
  BY <1>2, <1>3, <1>4, RequestsAssumption
  DEF RequestInv, RequestTypes, CompletionsAgree, Still
<1> QED
  BY <1>1, <1>4, <1>5, <1>6, CompletionSound

LEMMA RelayerSettlesSound ==
  ASSUME RequestInv, NEW e \in Attempt, RelayerSettles(e)
  PROVE  Sound
<1>1. PICK status \in {"consumed", "expired"} :
        /\ effects[e] = "ready" /\ effects' = [effects EXCEPT ![e] = status]
        /\ UNCHANGED <<keys, holder, charges, attempt>>
  BY DEF RelayerSettles
<1>2. /\ effects' \in [Attempt -> RowStatus \cup {None}]
      /\ \A b \in Attempt :
           /\ (effects'[b] = None) <=> (effects[b] = None)
           /\ effects'[b] = "scheduled" => effects[b] = "scheduled"
  BY <1>1, RequestsAssumption DEF RequestInv, RequestTypes, RowStatus
<1>3. RequestTypes' /\ Holding' /\ Stored' /\ Answers' /\ Validated'
  BY <1>1, <1>2
  DEF RequestInv, RequestTypes, Holding, PastInsert, SlotOf, Stored, Ended,
      Answers, Authorization, Validated, IsAuthorization
<1>4. CompletionsAgree'
  BY <1>1 DEF RequestInv, RequestTypes, CompletionsAgree
<1>5. PromiseStep
  BY <1>1, SilenceIsPromised
<1> QED
  BY <1>3, <1>4, <1>5 DEF Sound, RequestInv

LEMMA RequestInvStep ==
  ASSUME RequestInv, [Next]_vars
  PROVE  Sound
<1>1. CASE UNCHANGED requestVars
  <2>1. RequestInv'
    BY <1>1
    DEF requestVars, RequestInv, RequestTypes, Holding, PastInsert, SlotOf,
        Stored, Ended, Answers, Authorization, Validated, IsAuthorization,
        CompletionsAgree
  <2> QED
    BY <1>1, <2>1, SilenceIsPromised DEF Sound, requestVars
<1>2. ASSUME NEW a \in Attempt,
             \/ \E call \in Call : Arrive(a, call)
             \/ Step(a) \/ TransactionFails(a) \/ RelayerSettles(a)
      PROVE  Sound
  BY <1>2, ArriveSound, InsertKeySound, LookupSound, HandleSound, CommitSound,
     TransactionFailsSound, ReadAuthorizationSound, CompleteAuthorizationSound,
     RelayerSettlesSound DEF Step
<1> QED
  BY <1>1, <1>2 DEF Next, vars

-----------------------------------------------------------------------------
(* The theorems.                                                           *)

Inv == LoginInv /\ KeyInv /\ RequestInv

LEMMA InvStep ==
  ASSUME Inv, [Next]_vars
  PROVE  Inv'
<1>1. RequestInv'
  BY RequestInvStep DEF Inv, Sound
<1>2. CASE AccessNext
  <2>1. CASE LoginStep /\ UNCHANGED keyVars
    <3>1. UNCHANGED <<apiKeys, managers>>
      BY <2>1 DEF keyVars
    <3>2. KeyInv'
      BY <3>1, KeyInvStep DEF Inv, keyVars
    <3>3. LoginInv'
      BY <2>1, LoginInvStep DEF Inv
    <3> QED
      BY <1>1, <3>2, <3>3 DEF Inv
  <2>2. CASE KeyStep
    <3>1. UNCHANGED loginVars
      BY <2>2 DEF KeyStep, AuthenticateManager, RotateKey, CreateKey,
                  DeleteKey, ManagerDone
    <3>2. LoginInv'
      BY <3>1, LoginInvStep DEF Inv
    <3>3. KeyInv'
      BY <2>2, KeyInvStep DEF Inv
    <3> QED
      BY <1>1, <3>2, <3>3 DEF Inv
  <2> QED
    BY <1>2, <2>1, <2>2 DEF AccessNext
<1>3. CASE UNCHANGED accessVars
  <2>1. UNCHANGED loginVars /\ UNCHANGED keyVars
    BY <1>3 DEF accessVars
  <2> QED
    BY <1>1, <2>1, LoginInvStep, KeyInvStep DEF Inv
<1>4. AccessNext \/ UNCHANGED accessVars
  <2>1. ASSUME NEW a \in Attempt, NEW call \in Call, Arrive(a, call)
        PROVE  UNCHANGED accessVars
    BY <2>1 DEF Arrive
  <2>2. ASSUME NEW a \in Attempt, Step(a)
        PROVE  UNCHANGED accessVars
    <3>1. InsertKey(a) \/ Lookup(a) \/ Handle(a) => UNCHANGED accessVars
      BY DEF InsertKey, Lookup, Handle
    <3>2. Commit(a) \/ ReadAuthorization(a) => UNCHANGED accessVars
      BY DEF Commit, ReadAuthorization
    <3>3. CompleteAuthorization(a) => UNCHANGED accessVars
      BY DEF CompleteAuthorization
    <3> QED
      BY <2>2, <3>1, <3>2, <3>3 DEF Step
  <2>3. ASSUME NEW a \in Attempt, TransactionFails(a) \/ RelayerSettles(a)
        PROVE  UNCHANGED accessVars
    BY <2>3 DEF TransactionFails, RelayerSettles
  <2> QED
    BY <2>1, <2>2, <2>3 DEF Next, vars
<1> QED
  BY <1>2, <1>3, <1>4

LEMMA Invariance == Spec => []Inv
<1>1. Init => Inv
  BY LoginInit, KeyInit, RequestInit DEF Init, Inv
<1>2. Inv /\ [Next]_vars => Inv'
  BY InvStep
<1> QED
  BY <1>1, <1>2, PTL DEF Spec

\* Types: every committed row is complete, and no request is ever told that
\* another one is still processing its key.
THEOREM TypeCorrectness == Spec => []TypeOK
<1>1. Inv => TypeOK
  <2>1. Inv => AccessTypeOK
    BY DEF Inv, LoginInv, LoginTypes, KeyInv, KeyTypes, AccessTypeOK
  <2>2. Inv => \A a \in Attempt : attempt[a] \in Request
    BY DEF Inv, RequestInv, RequestTypes
  <2> QED
    BY <2>1, <2>2 DEF Inv, RequestInv, RequestTypes, Request, TypeOK
<1> QED
  BY <1>1, Invariance, PTL

\* runIdempotent: a merchant's key has one row and one stored answer, which
\* are written together or not at all.
THEOREM EffectsAreOnce == Spec => []OneEffectPerKey
<1>1. Inv => OneEffectPerKey
  BY StoredOnce DEF Inv
<1> QED
  BY <1>1, Invariance, PTL

\* completeChargeAuthorization: an authorization has a charge request exactly
\* when it is past pending, and every valid completion is answered with it.
THEOREM CompletionIsOne == Spec => []CompletionsAgree
<1>1. Inv => CompletionsAgree
  BY DEF Inv, RequestInv
<1> QED
  BY <1>1, Invariance, PTL

\* completeChallenge and registerMerchant: one session per challenge, and the
\* merchant of a linked session exists.
THEOREM SessionsAreOnce == Spec => []OneSessionPerChallenge
<1>1. Inv => OneSessionPerChallenge
  BY DEF Inv, LoginInv
<1> QED
  BY <1>1, Invariance, PTL

\* rotateApiKey: overlapping rotations leave every merchant that started with
\* a key one that works and manages keys, unless a key was deleted.
THEOREM RotationKeepsAKey == Spec => []NeverWithoutAKey
<1>1. Inv => NeverWithoutAKey
  BY KeptMeansAKey DEF Inv, KeyInv
<1> QED
  BY <1>1, Invariance, PTL

\* Every step of the transactions is a step of the documented promise, or
\* none: a key is executed once, replayed or refused by its body.
THEOREM PromiseKept == Spec => ImplementsPromise
<1>1. Init => Promise!Init
  BY RequestInit
<1>2. Inv /\ [Next]_vars => PromiseStep
  BY RequestInvStep DEF Inv, Sound
<1>3. PromiseStep => [Promise!Next]_<<outcomeBar, answerBar>>
  BY DEF PromiseStep
<1> QED
  BY <1>1, <1>2, <1>3, Invariance, PTL
  DEF Spec, ImplementsPromise, Promise!Spec, outcomeBar, answerBar

=============================================================================
