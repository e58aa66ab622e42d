------------------------ MODULE PayerDashboardProofs ------------------------
(***************************************************************************)
(* What holds of the payer's dashboard for any sets of wallets, mandates   *)
(* and loads, and any number of changes and failures.                      *)
(*                                                                         *)
(* The argument.  A mandate that was never read twice at once has at most  *)
(* one read in flight, and an action that succeeds begins one: whatever is *)
(* on the card or on its way there was served after the last success, and  *)
(* the chain's version only grows.  A wallet that connects while nothing   *)
(* is under way is the one every load works for until it disconnects.      *)
(***************************************************************************)
EXTENDS PayerDashboard, TLAPS

-----------------------------------------------------------------------------
(* The invariant.                                                          *)

Card ==
  [ status : {"absent", "loading", "success", "error"},
    seen : Mandates \cup {None} ]

Dialog ==
  [ mandate : Mandate,
    phase : {"confirming", "revoking", "revoke-error", "revoked"} ]

Call == [ pc : {"new", "mandates", "refresh", "history", "done"},
          payer : Payer \cup {None} ]

Read == [mandate : Mandate, by : Load \cup Action, answer : Card \cup {None}]

Run == [mandate : Mandate, action : Action, signer : Payer \cup {None}]

Status == {"idle", "loading", "success", "error"}

PageShape ==
  /\ address \in Payer \cup {None}
  /\ discovery \in [status : Status, ids : SUBSET Mandate]
  /\ history \in [status : Status, of : Payer \cup {None}]
  /\ acting \in [Mandate -> {"pause", "resume", "error", None}]
  /\ dialog \in Dialog \cup {None}

Shape ==
  /\ PageShape
  /\ chain \in [Mandate -> Mandates]
  /\ live \in [Mandate -> Card]
  /\ loads \in [Load -> Call]
  /\ reads \subseteq Read
  /\ runs \subseteq Run
  /\ confirmed \in [Mandate -> Nat]
  /\ overlap \subseteq Mandate

\* A card has an answer exactly when it says so.
Honest(card) == card.status = "success" <=> card.seen # None

LiveInv(m) ==
  /\ Honest(live[m])
  /\ live[m].status = "loading" => \E r \in reads : r.mandate = m

Answered(r) ==
  r.answer # None => r.answer.status \in {"success", "error"} /\ Honest(r.answer)

ForItsLoad(r) ==
  r.by \in Load => /\ loads[r.by].pc = "refresh"
                   /\ loads[r.by].payer = PayerOf[r.mandate]

ReadsInv == \A r \in reads : Answered(r) /\ ForItsLoad(r)

\* One read of m at most, and nothing it may show is older than v.
NoOlder(m, v) ==
  /\ \A r, q \in reads : r.mandate = m /\ q.mandate = m => r = q
  /\ \A r \in reads :
       r.mandate = m /\ r.answer # None /\ r.answer.status = "success" =>
         r.answer.seen.version >= v
  /\ live[m].status = "success" => live[m].seen.version >= v

CardInv(m) ==
  /\ chain[m].version >= confirmed[m]
  /\ m \notin overlap => NoOlder(m, confirmed[m])

UnderWay == {"mandates", "refresh", "history"}

LoadsInv ==
  /\ \A l \in Load : loads[l].pc \in UnderWay => loads[l].payer \in Payer
  /\ clean /\ address # None =>
       \A l \in Load : loads[l].pc \in UnderWay => loads[l].payer = address

CardsInv == \A m \in Mandate : LiveInv(m) /\ CardInv(m)

Inv == Shape /\ ReadsInv /\ CardsInv /\ LoadsInv /\ OneWalletAtATime

-----------------------------------------------------------------------------
(* What a step does to the reads and the cards.                            *)

LEMMA Typed ==
  ASSUME Shape
  PROVE  /\ \A m \in Mandate :
              /\ chain[m] \in Mandates /\ chain[m].version \in Nat
              /\ chain[m].status \in {"Active", "Paused", "Ended"}
              /\ live[m] \in Card /\ confirmed[m] \in Nat
         /\ \A l \in Load : loads[l] \in Call
         /\ \A r \in reads : r \in Read
         /\ \A r \in runs : r \in Run
BY DashboardAssumption DEF Shape, Mandates

LEMMA TypedAnswer ==
  ASSUME NEW a \in Card, Honest(a), a.status = "success"
  PROVE  a.seen \in Mandates /\ a.seen.version \in Nat
BY DashboardAssumption DEF Card, Honest, Mandates

\* No mandate is read otherwise, or seen otherwise, than before.
SameCard(m) ==
  /\ live'[m] = live[m] /\ confirmed'[m] = confirmed[m]
  /\ \A r \in Read : r.mandate = m => (r \in reads' <=> r \in reads)

LEMMA CardStays ==
  ASSUME Shape, Shape', NEW m \in Mandate, LiveInv(m), CardInv(m), SameCard(m),
         chain'[m].version >= chain[m].version, overlap \subseteq overlap'
  PROVE  LiveInv(m)' /\ CardInv(m)'
<1>1. /\ \A r \in reads : r.mandate = m => r \in reads'
      /\ \A r \in reads' : r.mandate = m => r \in reads
  BY DEF SameCard, Shape
<1>2. LiveInv(m)'
  BY <1>1 DEF LiveInv, SameCard, Honest
<1>3. chain'[m].version >= confirmed'[m]
  <2>1. /\ chain[m].version \in Int /\ chain'[m].version \in Int
        /\ confirmed[m] \in Int
    BY DashboardAssumption DEF Shape, Mandates
  <2> QED
    BY <2>1 DEF CardInv, SameCard
<1>4. ASSUME m \notin overlap' PROVE NoOlder(m, confirmed[m])'
  <2>1. NoOlder(m, confirmed[m])
    BY <1>4 DEF CardInv
  <2> QED
    BY <1>1, <2>1 DEF NoOlder, SameCard
<1> QED
  BY <1>2, <1>3, <1>4 DEF CardInv

Reading == [status |-> "loading", seen |-> None]

LEMMA RefreshKeeps ==
  ASSUME Shape, Shape', ReadsInv, CardsInv,
         NEW ms \in SUBSET Mandate, NEW by \in Load \cup Action, Refresh(ms, by),
         \A m \in Mandate :
           /\ chain'[m].version >= chain[m].version
           /\ chain'[m].version >= confirmed'[m]
           /\ m \notin ms => confirmed'[m] = confirmed[m]
  PROVE  CardsInv' /\ \A r \in reads' : Answered(r)
<1>1. \A m \in ms : live'[m] = Reading
  BY DEF Refresh, Reading
<1>2. \A m \in ms : [mandate |-> m, by |-> by, answer |-> None] \in reads'
  BY DEF Refresh
<1>3. ASSUME NEW m \in Mandate PROVE LiveInv(m)' /\ CardInv(m)'
  <2>1. CASE m \notin ms
    <3>1. live'[m] = live[m] /\ confirmed'[m] = confirmed[m]
      BY <2>1 DEF Refresh
    <3>2. ASSUME NEW r \in Read, r.mandate = m
          PROVE  r \in reads' <=> r \in reads
      BY <2>1, <3>2 DEF Refresh
    <3> QED
      BY <3>1, <3>2, CardStays DEF CardsInv, SameCard, Refresh
  <2>2. CASE m \in ms
    <3>1. live'[m].status = "loading" /\ live'[m].seen = None
      BY <1>1, <2>2 DEF Reading
    <3>2. LiveInv(m)'
      <4>1. \E r \in reads' : r.mandate = m
        BY <1>2, <2>2
      <4> QED
        BY <3>1, <4>1 DEF LiveInv, Honest
    <3>3. ASSUME m \notin overlap' PROVE NoOlder(m, confirmed[m])'
      <4>1. \A r \in reads : r.mandate # m
        BY <2>2, <3>3 DEF Refresh
      <4>2. \A r \in reads' :
              r.mandate = m => r = [mandate |-> m, by |-> by, answer |-> None]
        BY <4>1 DEF Refresh
      <4> QED
        BY <3>1, <4>2 DEF NoOlder
    <3> QED
      BY <3>2, <3>3 DEF CardInv
  <2> QED
    BY <2>1, <2>2
<1>4. ASSUME NEW r \in reads' PROVE Answered(r)
  <2>1. CASE r \in reads
    BY <2>1 DEF ReadsInv
  <2>2. CASE r \notin reads
    BY <2>2 DEF Refresh, Answered
  <2> QED
    BY <2>1, <2>2
<1> QED
  BY <1>3, <1>4 DEF CardsInv

\* What refreshMandate changes stays of its type.
RefreshShape ==
  /\ live \in [Mandate -> Card] /\ reads \subseteq Read /\ overlap \subseteq Mandate

LEMMA RefreshTyped ==
  ASSUME RefreshShape, NEW ms \in SUBSET Mandate, NEW by \in Load \cup Action,
         Refresh(ms, by)
  PROVE  RefreshShape'
<1>1. live' \in [Mandate -> Card]
  BY DEF Refresh, RefreshShape, Card
<1>2. reads' \subseteq Read
  BY DEF Refresh, RefreshShape, Read
<1>3. overlap' \subseteq Mandate
  BY DEF Refresh, RefreshShape
<1> QED
  BY <1>1, <1>2, <1>3 DEF RefreshShape

\* A step that begins and ends no read and changes no card.
LEMMA CardsStay ==
  ASSUME Shape, Shape', CardsInv, UNCHANGED <<live, reads, confirmed>>,
         overlap \subseteq overlap',
         \A m \in Mandate : chain'[m].version >= chain[m].version
  PROVE  CardsInv'
<1>1. ASSUME NEW m \in Mandate PROVE LiveInv(m)' /\ CardInv(m)'
  BY <1>1, CardStays DEF SameCard, CardsInv
<1> QED
  BY <1>1 DEF CardsInv

\* A load that waits for its reads goes on waiting while there are any.
LEMMA ReadsStay ==
  ASSUME ReadsInv, UNCHANGED reads,
         \A l \in Load : loads[l].pc = "refresh" =>
           loads'[l] = loads[l] \/ \A r \in reads : r.by # l
  PROVE  ReadsInv'
<1>1. ASSUME NEW r \in reads PROVE ForItsLoad(r)'
  BY <1>1 DEF ReadsInv, ForItsLoad
<1> QED
  BY <1>1 DEF ReadsInv, Answered, Honest

LEMMA SameVersions ==
  ASSUME Shape, UNCHANGED chain
  PROVE  \A m \in Mandate : chain'[m].version >= chain[m].version
BY Typed

-----------------------------------------------------------------------------
(* Initially, and the chain.                                               *)

LEMMA InvInit == Init => Inv
<1> SUFFICES ASSUME Init PROVE Inv
  OBVIOUS
<1>1. chain \in [Mandate -> Mandates] /\ \A m \in Mandate : chain[m].version = 0
  BY DashboardAssumption DEF Init, Mandates
<1>2. PageShape
  BY DEF Init, PageShape, Idle, Status
<1>3. Shape
  BY <1>1, <1>2 DEF Init, Shape, Card, Absent, Call
<1>4. CardsInv
  <2>1. ASSUME NEW m \in Mandate
        PROVE  /\ live[m].status = "absent" /\ live[m].seen = None
               /\ confirmed[m] = 0 /\ chain[m].version = 0
    BY <1>1 DEF Init, Absent
  <2>2. reads = {}
    BY DEF Init
  <2> QED
    BY <2>1, <2>2 DEF CardsInv, LiveInv, Honest, CardInv, NoOlder
<1>5. ReadsInv /\ LoadsInv /\ OneWalletAtATime
  BY DEF Init, ReadsInv, LoadsInv, UnderWay, OneWalletAtATime
<1> QED
  BY <1>3, <1>4, <1>5 DEF Inv

LEMMA ChangeGrows ==
  ASSUME Shape, NEW c \in Mandate, NEW status \in {"Active", "Paused", "Ended"},
         Change(c, status)
  PROVE  /\ chain' \in [Mandate -> Mandates]
         /\ chain'[c].version = chain[c].version + 1
         /\ \A m \in Mandate :
              chain'[m].version \in Nat /\ chain'[m].version >= chain[m].version
<1>1. chain[c].version + 1 \in 0 .. MaxChanges
  BY DashboardAssumption DEF Shape, Mandates, Change
<1>2. [status |-> status, version |-> chain[c].version + 1] \in Mandates
  BY <1>1 DEF Mandates
<1>3. chain' \in [Mandate -> Mandates]
  BY <1>2 DEF Change, Shape
<1>4. chain'[c].version = chain[c].version + 1
  BY DEF Change, Shape
<1>5. \A m \in Mandate \ {c} : chain'[m] = chain[m]
  BY DEF Change, Shape
<1> QED
  BY <1>3, <1>4, <1>5, Typed

LEMMA AfterIsStatus ==
  ASSUME NEW m \in Mandate, NEW action \in Action, After(m, action) # None
  PROVE  After(m, action) \in {"Active", "Paused", "Ended"}
BY DEF After, Action

\* What neither loads nor discovers anything, nor connects a wallet.
LEMMA WalletStays ==
  ASSUME LoadsInv, OneWalletAtATime,
         UNCHANGED <<address, discovery, history, loads, clean>>
  PROVE  LoadsInv' /\ OneWalletAtATime'
BY DEF LoadsInv, OneWalletAtATime

LEMMA ElsewhereKeeps ==
  ASSUME Inv, NEW m \in Mandate, ChangesElsewhere(m)
  PROVE  Inv'
<1> USE DEF Inv
<1> PICK action \in Action :
      After(m, action) # None /\ Change(m, After(m, action))
  BY DEF ChangesElsewhere
<1>1. /\ chain' \in [Mandate -> Mandates]
      /\ \A n \in Mandate : chain'[n].version >= chain[n].version
  BY AfterIsStatus, ChangeGrows
<1>2. UNCHANGED <<pageVars, callVars, memory>>
  BY DEF ChangesElsewhere
<1>3. Shape'
  BY <1>1, <1>2 DEF Shape, PageShape, pageVars, callVars, memory
<1>4. CardsInv'
  BY <1>1, <1>2, <1>3, CardsStay DEF pageVars, callVars, memory
<1>5. ReadsInv'
  BY <1>2, ReadsStay DEF callVars
<1> QED
  BY <1>2, <1>3, <1>4, <1>5, WalletStays DEF pageVars, callVars, memory

-----------------------------------------------------------------------------
(* Reads.                                                                  *)

LEMMA ServeKeeps ==
  ASSUME Inv, NEW m \in Mandate, NEW by \in Load \cup Action, ServeRead(m, by)
  PROVE  Inv'
<1> USE DEF Inv
<1> PICK r \in reads :
      /\ r.mandate = m /\ r.by = by /\ r.answer = None
      /\ \E answer \in {[status |-> "success", seen |-> chain[m]], ReadFailed(m)} :
           reads' = (reads \ {r}) \cup {[r EXCEPT !.answer = answer]}
      /\ UNCHANGED <<chain, pageVars, loads, runs, memory>>
  BY DEF ServeRead
<1> PICK answer \in {[status |-> "success", seen |-> chain[m]], ReadFailed(m)} :
      reads' = (reads \ {r}) \cup {[r EXCEPT !.answer = answer]}
  OBVIOUS
<1> DEFINE q == [r EXCEPT !.answer = answer]
<1>1. /\ answer \in Card /\ Honest(answer)
      /\ answer.status \in {"success", "error"}
      /\ answer.status = "success" => answer.seen = chain[m]
  <2>1. chain[m] \in Mandates /\ chain[m] # None
    BY Typed, NamesAssumption
  <2>2. CASE answer = [status |-> "success", seen |-> chain[m]]
    BY <2>1, <2>2 DEF Card, Honest
  <2>3. CASE answer = ReadFailed(m)
    BY <2>3 DEF Card, Honest, ReadFailed
  <2> QED
    BY <2>2, <2>3
<1>2. r \in Read
  BY Typed
<1>3. q \in Read /\ q.mandate = m /\ q.by = by /\ q.answer = answer
  BY <1>1, <1>2 DEF Read
<1>4. reads' = (reads \ {r}) \cup {q}
  OBVIOUS
<1> HIDE DEF q
<1>5. UNCHANGED <<chain, live, loads, confirmed, overlap>>
  BY DEF pageVars, memory
<1>6. Shape'
  BY <1>3, <1>4 DEF Shape, PageShape, pageVars, memory
<1>7. ReadsInv'
  <2>1. Answered(q)
    BY <1>1, <1>3 DEF Answered
  <2>2. ForItsLoad(q)
    BY <1>3 DEF ReadsInv, ForItsLoad
  <2>3. ASSUME NEW s \in Read, s \in reads \/ s = q
        PROVE  Answered(s) /\ ForItsLoad(s)'
    <3>1. Answered(s) /\ ForItsLoad(s)
      BY <2>1, <2>2, <2>3 DEF ReadsInv
    <3> QED
      BY <1>5, <3>1 DEF ForItsLoad
  <2>4. \A s \in reads' : s \in Read /\ (s \in reads \/ s = q)
    BY <1>4, <1>3, Typed
  <2> QED
    BY <2>3, <2>4 DEF ReadsInv, Answered, Honest
<1>8. CardsInv'
  <2>1. ASSUME NEW n \in Mandate, n # m PROVE LiveInv(n)' /\ CardInv(n)'
    <3>1. SameCard(n)
      BY <2>1, <1>2, <1>3, <1>4, <1>5 DEF SameCard
    <3>2. chain'[n].version >= chain[n].version
      BY SameVersions, <1>5
    <3> QED
      BY <3>1, <3>2, <1>5, <1>6, CardStays DEF CardsInv
  <2>2. LiveInv(m)'
    <3>1. \E s \in reads' : s.mandate = m
      BY <1>3, <1>4
    <3> QED
      BY <3>1, <1>5 DEF CardsInv, LiveInv, Honest
  <2>3. CardInv(m)'
    <3>1. CardInv(m)
      BY DEF CardsInv
    <3>2. ASSUME m \notin overlap PROVE NoOlder(m, confirmed[m])'
      <4>1. NoOlder(m, confirmed[m])
        BY <3>1, <3>2 DEF CardInv
      <4>2. \A s \in reads' : s.mandate = m => s = q
        BY <1>4, <4>1 DEF NoOlder
      <4>3. q.answer.status = "success" => q.answer.seen.version >= confirmed[m]
        BY <1>1, <1>3, <3>1 DEF CardInv
      <4> QED
        BY <1>5, <4>1, <4>2, <4>3 DEF NoOlder
    <3> QED
      BY <3>1, <3>2, <1>5 DEF CardInv
  <2> QED
    BY <2>1, <2>2, <2>3 DEF CardsInv
<1> QED
  BY <1>6, <1>7, <1>8, WalletStays DEF pageVars, memory

LEMMA DeliverKeeps ==
  ASSUME Inv, NEW m \in Mandate, NEW by \in Load \cup Action, DeliverRead(m, by)
  PROVE  Inv'
<1> USE DEF Inv
<1> PICK r \in reads :
      /\ r.mandate = m /\ r.by = by /\ r.answer # None
      /\ reads' = reads \ {r}
      /\ live' = [live EXCEPT ![m] = r.answer]
      /\ UNCHANGED <<chain, address, discovery, history, acting, dialog, loads,
                     runs, failures, memory>>
  BY DEF DeliverRead
<1>1. /\ r.answer \in Card /\ Honest(r.answer)
      /\ r.answer.status \in {"success", "error"}
  BY Typed DEF ReadsInv, Answered, Read
<1>2. /\ live' \in [Mandate -> Card] /\ live'[m] = r.answer
      /\ \A n \in Mandate \ {m} : live'[n] = live[n]
  BY <1>1 DEF Shape
<1>3. UNCHANGED <<chain, loads, confirmed, overlap>>
  BY DEF memory
<1>4. Shape'
  BY <1>2 DEF Shape, PageShape, memory
<1>5. ReadsInv'
  <2>1. ASSUME NEW s \in reads PROVE ForItsLoad(s)'
    BY <1>3 DEF ReadsInv, ForItsLoad
  <2> QED
    BY <2>1 DEF ReadsInv, Answered, Honest
<1>6. CardsInv'
  <2>1. ASSUME NEW n \in Mandate, n # m PROVE LiveInv(n)' /\ CardInv(n)'
    <3>1. SameCard(n)
      BY <2>1, <1>2, <1>3 DEF SameCard
    <3>2. chain'[n].version >= chain[n].version
      BY SameVersions, <1>3
    <3> QED
      BY <3>1, <3>2, <1>3, <1>4, CardStays DEF CardsInv
  <2>2. LiveInv(m)'
    BY <1>1, <1>2 DEF LiveInv, Honest
  <2>3. CardInv(m)'
    <3>1. CardInv(m)
      BY DEF CardsInv
    <3>2. ASSUME m \notin overlap PROVE NoOlder(m, confirmed[m])'
      <4>1. NoOlder(m, confirmed[m])
        BY <3>1, <3>2 DEF CardInv
      <4>2. r.answer.status = "success" => r.answer.seen.version >= confirmed[m]
        BY <4>1 DEF NoOlder
      <4> QED
        BY <1>2, <1>3, <4>1, <4>2 DEF NoOlder
    <3> QED
      BY <3>1, <3>2, <1>3 DEF CardInv
  <2> QED
    BY <2>1, <2>2, <2>3 DEF CardsInv
<1> QED
  BY <1>4, <1>5, <1>6, WalletStays DEF memory

-----------------------------------------------------------------------------
(* Connecting and loading.                                                 *)

LEMMA RestartedDialog ==
  ASSUME dialog \in Dialog \cup {None}
  PROVE  Restarted \in Dialog \cup {None}
BY DEF Restarted, Dialog

LEMMA BeginKeeps ==
  ASSUME Inv, NEW p \in Payer, address' = p, BeginLoad(p),
         clean' => \A l \in Load : loads[l].pc \in UnderWay => loads[l].payer = p,
         UNCHANGED <<chain, live, acting, reads, runs, confirmed, overlap>>
  PROVE  Inv'
<1> USE DEF Inv
<1> PICK l \in Load :
      /\ loads[l].pc = "new"
      /\ loads' = [loads EXCEPT ![l] = [pc |-> "mandates", payer |-> p]]
  BY DEF BeginLoad
<1>1. /\ discovery' = [status |-> "loading", ids |-> {}]
      /\ history' = [status |-> "loading", of |-> None]
      /\ dialog' = Restarted
  BY DEF BeginLoad
<1>2. /\ loads' \in [Load -> Call]
      /\ loads'[l].pc = "mandates" /\ loads'[l].payer = p
      /\ \A k \in Load \ {l} : loads'[k] = loads[k]
  BY DEF Call, Shape
<1>3. Shape'
  BY <1>1, <1>2, RestartedDialog DEF Shape, PageShape, Status
<1>4. ReadsInv'
  <2>1. \A k \in Load : loads[k].pc = "refresh" => loads'[k] = loads[k]
    BY <1>2
  <2> QED
    BY <2>1, ReadsStay
<1>5. CardsInv'
  BY <1>3, CardsStay, SameVersions
<1>6. LoadsInv'
  BY <1>2 DEF LoadsInv
<1>7. OneWalletAtATime'
  BY <1>1 DEF OneWalletAtATime
<1> QED
  BY <1>3, <1>4, <1>5, <1>6, <1>7

LEMMA ConnectKeeps ==
  ASSUME Inv, NEW p \in Payer, Connect(p) PROVE Inv'
<1>1. clean' => \A l \in Load : loads[l].pc \notin UnderWay
  BY DEF Connect, UnderWay
<1> QED
  BY <1>1, BeginKeeps DEF Connect

LEMMA RetryKeeps ==
  ASSUME Inv, Retry PROVE Inv'
<1>1. address \in Payer /\ address # None
  BY DEF Retry, Usable, Inv, Shape, PageShape
<1>2. clean => \A l \in Load : loads[l].pc \in UnderWay => loads[l].payer = address
  BY <1>1 DEF Inv, LoadsInv
<1> QED
  BY <1>1, <1>2, BeginKeeps DEF Retry, memory

\* The step of a load that is not a read's.
MoveLoad(l, pc) == loads' = [loads EXCEPT ![l].pc = pc]

LEMMA MoveTyped ==
  ASSUME Shape, NEW l \in Load,
         NEW pc \in {"refresh", "history", "done"}, MoveLoad(l, pc)
  PROVE  /\ loads' \in [Load -> Call]
         /\ loads'[l].pc = pc /\ loads'[l].payer = loads[l].payer
         /\ \A k \in Load \ {l} : loads'[k] = loads[k]
<1> DEFINE c == [loads[l] EXCEPT !.pc = pc]
<1>1. loads[l] \in Call
  BY Typed
<1>2. c \in Call /\ c.pc = pc /\ c.payer = loads[l].payer
  BY <1>1 DEF Call
<1>3. loads' = [loads EXCEPT ![l] = c]
  BY DEF MoveLoad
<1> HIDE DEF c
<1> QED
  BY <1>2, <1>3 DEF Shape

LEMMA MoveLoads ==
  ASSUME Shape, LoadsInv, NEW l \in Load, loads[l].pc \in UnderWay,
         NEW pc \in {"refresh", "history", "done"}, MoveLoad(l, pc),
         UNCHANGED <<address, clean>>
  PROVE  LoadsInv'
<1>1. /\ loads'[l].payer = loads[l].payer
      /\ \A k \in Load \ {l} : loads'[k] = loads[k]
  BY MoveTyped
<1>2. \A k \in Load : loads'[k].pc \in UnderWay =>
        loads[k].pc \in UnderWay /\ loads'[k].payer = loads[k].payer
  BY <1>1
<1> QED
  BY <1>2 DEF LoadsInv

LEMMA DiscoverKeeps ==
  ASSUME Inv, NEW l \in Load, loads[l].pc = "mandates",
         discovery' = [status |-> "success", ids |-> Discovered(loads[l].payer)],
         Refresh(Discovered(loads[l].payer), l), MoveLoad(l, "refresh"),
         UNCHANGED <<chain, address, history, acting, dialog, runs, confirmed, clean>>
  PROVE  Inv'
<1> USE DEF Inv
<1> DEFINE ms == Discovered(loads[l].payer)
<1>1. /\ loads' \in [Load -> Call]
      /\ loads'[l].pc = "refresh" /\ loads'[l].payer = loads[l].payer
      /\ \A k \in Load \ {l} : loads'[k] = loads[k]
  BY MoveTyped
<1>2. ms \in SUBSET Mandate /\ \A m \in ms : PayerOf[m] = loads[l].payer
  BY DEF Discovered
<1> HIDE DEF ms
<1>3. Refresh(ms, l) /\ discovery' = [status |-> "success", ids |-> ms]
  BY DEF ms
<1>4. Shape'
  <2>1. RefreshShape'
    BY <1>2, <1>3, RefreshTyped DEF Shape, RefreshShape
  <2> QED
    BY <1>1, <1>2, <1>3, <2>1 DEF Shape, PageShape, RefreshShape, Status
<1>5. CardsInv' /\ \A r \in reads' : Answered(r)
  <2>1. \A m \in Mandate :
          /\ chain'[m].version >= chain[m].version
          /\ chain'[m].version >= confirmed'[m]
          /\ m \notin ms => confirmed'[m] = confirmed[m]
    BY SameVersions DEF CardsInv, CardInv
  <2> QED
    BY <1>2, <1>3, <1>4, <2>1, RefreshKeeps
<1>6. ReadsInv'
  <2>1. ASSUME NEW r \in reads' PROVE ForItsLoad(r)'
    <3>1. CASE r \in reads
      <4>1. ForItsLoad(r)
        BY <3>1 DEF ReadsInv
      <4>2. r.by \in Load => r.by # l
        BY <4>1 DEF ForItsLoad
      <4> QED
        BY <1>1, <4>1, <4>2 DEF ForItsLoad
    <3>2. CASE r \notin reads
      <4>1. r.by = l /\ r.mandate \in ms
        BY <1>3, <3>2 DEF Refresh
      <4> QED
        BY <1>1, <1>2, <4>1 DEF ForItsLoad
    <3> QED
      BY <3>1, <3>2
  <2>2. \A r \in reads' : Answered(r)'
    BY <1>5 DEF Answered, Honest
  <2> QED
    BY <2>1, <2>2 DEF ReadsInv
<1>7. LoadsInv'
  BY MoveLoads DEF UnderWay
<1>8. OneWalletAtATime'
  <2>1. clean /\ address # None => loads[l].payer = address
    BY DEF LoadsInv, UnderWay
  <2> QED
    BY <1>2, <1>3, <2>1 DEF OneWalletAtATime
<1> QED
  BY <1>4, <1>5, <1>6, <1>7, <1>8

\* A step of a load that reads no mandate.
LEMMA QuietLoadKeeps ==
  ASSUME Inv, NEW l \in Load, loads[l].pc \in UnderWay,
         NEW pc \in {"history", "done"}, MoveLoad(l, pc),
         \A r \in reads : r.by # l,
         PageShape',
         clean /\ address # None =>
           /\ discovery'.ids \subseteq discovery.ids
           /\ history'.of \in {history.of, loads[l].payer, None},
         UNCHANGED <<chain, address, live, reads, runs, memory>>
  PROVE  Inv'
<1> USE DEF Inv
<1>1. /\ loads' \in [Load -> Call] /\ loads'[l].pc = pc
      /\ \A k \in Load \ {l} : loads'[k] = loads[k]
  BY MoveTyped
<1>2. Shape'
  BY <1>1 DEF Shape, memory
<1>3. ReadsInv'
  <2>1. \A k \in Load : loads'[k] = loads[k] \/ \A r \in reads : r.by # k
    BY <1>1
  <2> QED
    BY <2>1, ReadsStay
<1>4. CardsInv'
  BY <1>2, CardsStay, SameVersions DEF memory
<1>5. LoadsInv'
  BY MoveLoads DEF memory
<1>6. OneWalletAtATime'
  <2>1. clean /\ address # None => loads[l].payer = address
    BY DEF LoadsInv
  <2>2. discovery.ids \subseteq Mandate
    BY DEF Shape, PageShape
  <2> QED
    BY <2>1, <2>2 DEF OneWalletAtATime, memory
<1> QED
  BY <1>2, <1>3, <1>4, <1>5, <1>6

\* A load reads mandates only while it waits for them.
LEMMA NoReads ==
  ASSUME ReadsInv, NEW l \in Load, loads[l].pc # "refresh"
  PROVE  \A r \in reads : r.by # l
BY DEF ReadsInv, ForItsLoad

LEMMA LoadStepKeeps ==
  ASSUME Inv, NEW l \in Load, LoadStep(l) PROVE Inv'
<1> USE DEF Inv
<1>1. CASE LoadMandates(l)
  <2>1. loads[l].pc = "mandates"
    BY <1>1 DEF LoadMandates
  <2>2. CASE /\ discovery' = [status |-> "success", ids |-> Discovered(loads[l].payer)]
             /\ Refresh(Discovered(loads[l].payer), l)
             /\ MoveLoad(l, "refresh") /\ UNCHANGED dialog
    BY <1>1, <2>1, <2>2, DiscoverKeeps DEF LoadMandates
  <2>3. CASE /\ discovery' = [status |-> "error", ids |-> {}]
             /\ MoveLoad(l, "history") /\ dialog' = Restarted
             /\ UNCHANGED <<live, reads, overlap>>
    <3>1. UNCHANGED <<chain, address, history, acting, runs, confirmed, clean>>
      BY <1>1 DEF LoadMandates
    <3>2. PageShape'
      BY <2>3, <3>1, RestartedDialog DEF Shape, PageShape, Status
    <3> QED
      BY <2>1, <2>3, <3>1, <3>2, NoReads, QuietLoadKeeps DEF UnderWay, memory
  <2> QED
    BY <1>1, <2>2, <2>3 DEF LoadMandates, MoveLoad
<1>2. CASE AllRefreshed(l)
  <2>1. /\ loads[l].pc = "refresh" /\ \A r \in reads : r.by # l
        /\ MoveLoad(l, "history")
        /\ UNCHANGED <<chain, pageVars, reads, runs, memory>>
    BY <1>2 DEF AllRefreshed, MoveLoad
  <2>2. PageShape'
    BY <2>1 DEF Shape, PageShape, pageVars
  <2> QED
    BY <2>1, <2>2, QuietLoadKeeps DEF UnderWay, pageVars
<1>3. CASE LoadHistory(l)
  <2>1. /\ loads[l].pc = "history" /\ MoveLoad(l, "done")
        /\ UNCHANGED <<chain, address, discovery, live, acting, dialog, reads,
                       runs, memory>>
    BY <1>3 DEF LoadHistory, MoveLoad
  <2>2. \/ history' = [status |-> "success", of |-> loads[l].payer]
        \/ history' = [status |-> "error", of |-> None]
    BY <1>3 DEF LoadHistory
  <2>3. loads[l].payer \in Payer
    BY <2>1 DEF LoadsInv, UnderWay
  <2>4. PageShape'
    BY <2>1, <2>2, <2>3 DEF Shape, PageShape, Status
  <2>5. history'.of \in {loads[l].payer, None}
    BY <2>2
  <2> QED
    BY <2>1, <2>4, <2>5, NoReads, QuietLoadKeeps DEF UnderWay
<1> QED
  BY <1>1, <1>2, <1>3 DEF LoadStep

-----------------------------------------------------------------------------
(* The page.                                                               *)

LEMMA DisconnectKeeps ==
  ASSUME Inv, Disconnect PROVE Inv'
<1> USE DEF Inv
<1>1. /\ address' = None /\ discovery' = Idle /\ dialog' = Restarted
      /\ history' = [status |-> "idle", of |-> None]
      /\ UNCHANGED <<chain, acting, callVars, memory>>
  BY DEF Disconnect
<1>2. /\ live' \in [Mandate -> Card]
      /\ \A m \in Mandate : live'[m].status = "absent" /\ live'[m].seen = None
  BY DEF Disconnect, Absent, Card
<1>3. Shape'
  BY <1>1, <1>2, RestartedDialog
     DEF Shape, PageShape, Status, Idle, callVars, memory
<1>4. ReadsInv'
  BY <1>1, ReadsStay DEF callVars
<1>5. CardsInv'
  <2>1. ASSUME NEW m \in Mandate PROVE LiveInv(m)' /\ CardInv(m)'
    <3>1. CardInv(m)
      BY DEF CardsInv
    <3>2. m \notin overlap => NoOlder(m, confirmed[m])'
      BY <1>1, <1>2, <3>1 DEF CardInv, NoOlder, callVars, memory
    <3> QED
      BY <1>1, <1>2, <3>1, <3>2 DEF CardInv, LiveInv, Honest, memory
  <2> QED
    BY <2>1 DEF CardsInv
<1>6. LoadsInv' /\ OneWalletAtATime'
  BY <1>1 DEF LoadsInv, OneWalletAtATime, callVars
<1> QED
  BY <1>3, <1>4, <1>5, <1>6

\* What the payer or an answer changes of buttons, dialog and actions alone.
LEMMA QuietStep ==
  ASSUME Inv, PageShape', runs' \subseteq Run,
         UNCHANGED <<chain, address, discovery, history, live, loads, reads, memory>>
  PROVE  Inv'
<1> USE DEF Inv
<1>1. Shape'
  BY DEF Shape, memory
<1>2. ReadsInv'
  BY ReadsStay
<1>3. CardsInv'
  BY <1>1, CardsStay, SameVersions DEF memory
<1> QED
  BY <1>1, <1>2, <1>3, WalletStays DEF memory

LEMMA ActKeeps ==
  ASSUME Inv, NEW m \in Mandate, NEW action \in Action, Act(m, action) PROVE Inv'
<1>1. /\ action \in {"pause", "resume"}
      /\ acting' = [acting EXCEPT ![m] = action]
      /\ runs' = runs \cup {[ mandate |-> m, action |-> action, signer |-> address ]}
      /\ UNCHANGED <<chain, address, discovery, history, live, dialog, loads,
                     reads, memory>>
  BY DEF Act, Action
<1>2. PageShape' /\ runs' \subseteq Run
  BY <1>1 DEF Inv, Shape, PageShape, Run
<1> QED
  BY <1>1, <1>2, QuietStep

LEMMA DialogSteps ==
  ASSUME Inv, ConfirmRevoke \/ CloseDialog \/ \E m \in Mandate : OpenDialog(m)
  PROVE  Inv'
<1>1. UNCHANGED <<chain, address, discovery, history, live, acting, loads, reads,
                  memory>>
  BY DEF ConfirmRevoke, CloseDialog, OpenDialog, callVars
<1>2. dialog' \in Dialog \cup {None} /\ runs' \subseteq Run
  <2>1. CASE ConfirmRevoke
    BY <2>1 DEF ConfirmRevoke, DialogShown, Inv, Shape, PageShape, Dialog, Run, Action
  <2>2. CASE CloseDialog
    BY <2>2 DEF CloseDialog, callVars, Inv, Shape
  <2>3. CASE \E m \in Mandate : OpenDialog(m)
    BY <2>3 DEF OpenDialog, callVars, Inv, Shape, Dialog
  <2> QED
    BY <2>1, <2>2, <2>3
<1>3. PageShape'
  BY <1>1, <1>2 DEF Inv, Shape, PageShape
<1> QED
  BY <1>1, <1>2, <1>3, QuietStep

-----------------------------------------------------------------------------
(* What a signed action comes back with.                                   *)

LEMMA ReportShape ==
  ASSUME PageShape, NEW r \in Run, NEW result \in {"revoked", "revoke-error"},
         Report(r, result), UNCHANGED <<address, discovery, history>>
  PROVE  PageShape'
<1>1. dialog' \in Dialog \cup {None}
  <2>1. dialog # None => [dialog EXCEPT !.phase = result] \in Dialog
    BY DEF PageShape, Dialog
  <2>2. dialog = [mandate |-> r.mandate, phase |-> "revoking"] =>
          [dialog EXCEPT !.phase = result] \in Dialog
    BY DEF Run, Dialog
  <2> QED
    BY <2>1, <2>2 DEF Report, PageShape
<1>2. acting' \in [Mandate -> {"pause", "resume", "error", None}]
  BY DEF Report, PageShape, Run
<1> QED
  BY <1>1, <1>2 DEF PageShape

\* An answer that reports a success begins a read of the mandate.
LEMMA ReturnKeeps ==
  ASSUME Inv, NEW r \in runs, NEW result \in {"revoked", "revoke-error"},
         Return(r, result), runs' = runs \ {r},
         chain' \in [Mandate -> Mandates], confirmed' \in [Mandate -> Nat],
         \A m \in Mandate :
           /\ chain'[m].version >= chain[m].version
           /\ chain'[m].version >= confirmed'[m]
           /\ m # r.mandate \/ result # "revoked" => confirmed'[m] = confirmed[m]
  PROVE  Inv'
<1> USE DEF Inv
<1>1. r \in Run /\ r.mandate \in Mandate /\ r.action \in Action
  BY DEF Shape, Run
<1>2. UNCHANGED <<address, discovery, history, loads, clean>> /\ Report(r, result)
  BY DEF Return
<1>3. PageShape'
  BY <1>1, <1>2, ReportShape DEF Shape
<1>4. CASE Refresh({r.mandate}, r.action)
  <2>1. RefreshShape'
    BY <1>1, <1>4, RefreshTyped DEF Shape, RefreshShape
  <2>2. Shape'
    BY <1>2, <1>3, <2>1 DEF Shape, RefreshShape
  <2>3. CardsInv' /\ \A q \in reads' : Answered(q)
    <3>1. \A m \in Mandate : m \notin {r.mandate} => confirmed'[m] = confirmed[m]
      OBVIOUS
    <3> QED
      BY <1>1, <1>4, <2>2, <3>1, RefreshKeeps
  <2>4. ReadsInv'
    <3>1. ASSUME NEW q \in reads' PROVE ForItsLoad(q)'
      <4>1. CASE q \in reads
        BY <1>2, <4>1 DEF ReadsInv, ForItsLoad
      <4>2. CASE q \notin reads
        <5>1. q.by = r.action
          BY <1>4, <4>2 DEF Refresh
        <5> QED
          BY <1>1, <5>1, NamesAssumption DEF ForItsLoad
      <4> QED
        BY <4>1, <4>2
    <3> QED
      BY <2>3, <3>1 DEF ReadsInv, Answered, Honest
  <2> QED
    BY <1>2, <2>2, <2>3, <2>4, WalletStays
<1>5. CASE UNCHANGED <<live, reads, overlap>> /\ ~RefreshAfter(r, result)
  <2>1. confirmed' = confirmed
    <3>1. result # "revoked"
      BY <1>5 DEF RefreshAfter
    <3> QED
      BY <3>1 DEF Shape
  <2>2. Shape'
    BY <1>2, <1>3, <1>5 DEF Shape
  <2>3. ReadsInv'
    BY <1>2, <1>5, ReadsStay
  <2>4. CardsInv'
    BY <1>5, <2>1, <2>2, CardsStay
  <2> QED
    BY <1>2, <2>2, <2>3, <2>4, WalletStays
<1> QED
  BY <1>4, <1>5 DEF Return

LEMMA AnswerKeeps ==
  ASSUME Inv, NEW m \in Mandate, NEW action \in Action, Answer(m, action)
  PROVE  Inv'
<1> USE DEF Inv
<1> PICK r \in runs :
       /\ runs' = runs \ {r}
       /\ Succeeds(r) \/ IncludedAsFailed(r) \/ Refused(r) \/ Fails(r)
  BY DEF Answer
<1> DEFINE c == r.mandate
<1>1. /\ r \in Run /\ c \in Mandate /\ r.action \in Action
      /\ Accepted(r) => After(c, r.action) \in {"Active", "Paused", "Ended"}
  BY AfterIsStatus DEF Shape, Run, Accepted
<1> HIDE DEF c
<1>2. \A n \in Mandate :
        /\ chain[n].version \in Nat /\ confirmed[n] \in Nat
        /\ chain[n].version >= confirmed[n]
  BY Typed DEF CardsInv, CardInv
<1>3. CASE Succeeds(r)
  <2>1. /\ Accepted(r) /\ Change(c, After(c, r.action))
        /\ confirmed' = [confirmed EXCEPT ![c] = chain[c].version + 1]
        /\ Return(r, "revoked")
    BY <1>3 DEF Succeeds, c
  <2>2. /\ chain' \in [Mandate -> Mandates]
        /\ chain'[c].version = chain[c].version + 1
        /\ \A n \in Mandate :
             chain'[n].version \in Nat /\ chain'[n].version >= chain[n].version
    BY <1>1, <2>1, ChangeGrows
  <2>3. /\ confirmed' \in [Mandate -> Nat]
        /\ confirmed'[c] = chain[c].version + 1
        /\ \A n \in Mandate \ {c} : confirmed'[n] = confirmed[n]
    BY <1>1, <1>2, <2>1 DEF Shape
  <2>4. ASSUME NEW n \in Mandate PROVE chain'[n].version >= confirmed'[n]
    BY <1>2, <2>2, <2>3
  <2> QED
    BY <2>1, <2>2, <2>3, <2>4, ReturnKeeps DEF c
<1>4. CASE Refused(r) \/ Fails(r)
  <2>1. Return(r, "revoke-error") /\ UNCHANGED confirmed
    BY <1>4 DEF Refused, Fails
  <2>2. /\ chain' \in [Mandate -> Mandates]
        /\ \A n \in Mandate :
             chain'[n].version \in Nat /\ chain'[n].version >= chain[n].version
    <3>1. CASE UNCHANGED chain
      BY <3>1, <1>2 DEF Shape
    <3>2. CASE Accepted(r) /\ Change(c, After(c, r.action))
      BY <1>1, <3>2, ChangeGrows
    <3> QED
      BY <1>4, <3>1, <3>2 DEF Refused, Fails, c
  <2>3. confirmed' \in [Mandate -> Nat]
    BY <2>1 DEF Shape
  <2>4. ASSUME NEW n \in Mandate PROVE chain'[n].version >= confirmed'[n]
    BY <1>2, <2>1, <2>2
  <2> QED
    BY <2>1, <2>2, <2>3, <2>4, ReturnKeeps
<1>5. CASE IncludedAsFailed(r)
  <2>1. /\ Return(r, "revoked") /\ UNCHANGED chain
        /\ confirmed' = [confirmed EXCEPT ![c] = chain[c].version]
    BY <1>5 DEF IncludedAsFailed, c
  <2>2. /\ confirmed' \in [Mandate -> Nat]
        /\ confirmed'[c] = chain[c].version
        /\ \A n \in Mandate \ {c} : confirmed'[n] = confirmed[n]
    BY <1>1, <1>2, <2>1 DEF Shape
  <2>3. /\ chain' \in [Mandate -> Mandates]
        /\ \A n \in Mandate :
             chain'[n].version \in Nat /\ chain'[n].version >= chain[n].version
    BY <1>2, <2>1 DEF Shape
  <2>4. ASSUME NEW n \in Mandate PROVE chain'[n].version >= confirmed'[n]
    BY <1>2, <2>1, <2>2
  <2> QED
    BY <2>1, <2>2, <2>3, <2>4, ReturnKeeps DEF c
<1> QED
  BY <1>3, <1>4, <1>5

-----------------------------------------------------------------------------
(* The theorems.                                                           *)

LEMMA InvStep == Inv /\ [Next]_vars => Inv'
<1> SUFFICES ASSUME Inv, [Next]_vars PROVE Inv'
  OBVIOUS
<1>1. CASE \E p \in Payer : Connect(p)
  BY <1>1, ConnectKeeps
<1>2. CASE Retry
  BY <1>2, RetryKeeps
<1>3. CASE Disconnect
  BY <1>3, DisconnectKeeps
<1>4. CASE ConfirmRevoke \/ CloseDialog \/ \E m \in Mandate : OpenDialog(m)
  BY <1>4, DialogSteps
<1>5. CASE \E l \in Load : LoadStep(l)
  BY <1>5, LoadStepKeeps
<1>6. CASE \E m \in Mandate : ChangesElsewhere(m)
  BY <1>6, ElsewhereKeeps
<1>7. CASE \E m \in Mandate, action \in Action : Act(m, action) \/ Answer(m, action)
  BY <1>7, ActKeeps, AnswerKeeps
<1>8. CASE \E m \in Mandate, by \in Load \cup Action : ReadStep(m, by)
  BY <1>8, ServeKeeps, DeliverKeeps DEF ReadStep
<1>9. CASE UNCHANGED vars
  <2>1. UNCHANGED <<chain, pageVars, loads, reads, runs, memory>>
    BY <1>9 DEF vars, callVars
  <2>2. PageShape' /\ runs' \subseteq Run
    BY <2>1 DEF Inv, Shape, PageShape, pageVars
  <2> QED
    BY <2>1, <2>2, QuietStep DEF pageVars
<1> QED
  BY <1>1, <1>2, <1>3, <1>4, <1>5, <1>6, <1>7, <1>8, <1>9 DEF Next

LEMMA Invariance == Spec => []Inv
BY InvInit, InvStep, PTL DEF Spec

(***************************************************************************)
(* A card of dashboard-shell.tsx carries an answer exactly when it says    *)
(* so, a skeleton is waiting for a read, and loadDiscoveryAndHistory waits *)
(* only for reads of its own payer's mandates.                             *)
(***************************************************************************)
THEOREM TypeCorrectness == Spec => []TypeOK
<1>1. Inv => TypeOK
  <2> SUFFICES ASSUME Inv PROVE TypeOK
    OBVIOUS
  <2> USE DEF Inv
  <2>1. ASSUME NEW m \in Mandate
        PROVE  /\ live[m].seen \in Mandates \cup {None}
               /\ live[m].status = "success" <=> live[m].seen # None
               /\ live[m].status = "loading" => \E r \in reads : r.mandate = m
               /\ acting[m] \in {"pause", "resume", "error", None}
    <3>1. live[m] \in Card /\ LiveInv(m)
      BY Typed DEF CardsInv
    <3>2. acting[m] \in {"pause", "resume", "error", None}
      BY DEF Shape, PageShape
    <3> QED
      BY <3>1, <3>2 DEF Card, LiveInv, Honest
  <2>2. dialog # None =>
          dialog.phase \in {"confirming", "revoking", "revoke-error", "revoked"}
    BY DEF Shape, PageShape, Dialog
  <2> QED
    BY <2>1, <2>2 DEF TypeOK, Shape, PageShape, Status, ReadsInv, ForItsLoad
<1> QED
  BY <1>1, Invariance, PTL

(***************************************************************************)
(* The card of a mandate that was never read twice at once is at least as  *)
(* new as the last pause, resume or revocation that runAction or onRevoked *)
(* reported done.                                                          *)
(***************************************************************************)
THEOREM CardsKeepUp == Spec => []CardKeepsUp
<1>1. Inv => CardKeepsUp
  BY DEF Inv, CardsInv, CardInv, NoOlder, CardKeepsUp
<1> QED
  BY <1>1, Invariance, PTL

(***************************************************************************)
(* A wallet that connected while no load and no read was under way sees    *)
(* its own mandates and payments only, whatever loadDiscoveryAndHistory    *)
(* and refreshMandate bring back, and in what order.                       *)
(***************************************************************************)
THEOREM WalletsStayApart == Spec => []OneWalletAtATime
<1>1. Inv => OneWalletAtATime
  BY DEF Inv
<1> QED
  BY <1>1, Invariance, PTL
=============================================================================
