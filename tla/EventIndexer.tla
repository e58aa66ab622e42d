---------------------------- MODULE EventIndexer ----------------------------
(***************************************************************************)
(* The relayer's event indexer (apps/relayer/src/indexer) and the table it *)
(* keeps, MandateIndex.  Ticks of a setInterval loop, of one relayer       *)
(* process or of several, and with nothing that stops two from overlapping *)
(* read the stored cursor, fetch a page of contract events from an RPC     *)
(* node that keeps a window of ledgers, apply the lifecycle events of the  *)
(* page one transaction at a time, and advance the cursor by a             *)
(* compare-and-swap.  The API writes the same table without any of this:   *)
(* GET /mandates/:id and the linking of a checkout session store the       *)
(* status they read from the chain some time before.                       *)
(*                                                                         *)
(* An event is named by its place in the chain's log, which is what the    *)
(* RPC event id and the RPC's continuation token stand for.                *)
(***************************************************************************)
EXTENDS Integers, Sequences, FiniteSetsExt

CONSTANTS
  Mandate,
  Tick,        \* runs of runIndexerTick that may overlap
  Reader,      \* API requests that may overlap
  PageLimit,   \* DEFAULT_PAGE_LIMIT, in raw events
  Lookback,    \* DEFAULT_INITIAL_LOOKBACK_LEDGERS
  Retention,   \* how many ledgers the RPC node keeps
  MaxEvents, MaxLedger,  \* bounds on the chain's history
  MaxFaults,   \* bound on ticks that die
  None

ASSUME IndexerAssumption ==
  /\ PageLimit \in Nat \ {0} /\ Retention \in Nat \ {0} /\ Lookback \in Nat
  /\ MaxEvents \in Nat /\ MaxLedger \in Nat \ {0} /\ MaxFaults \in Nat

Lifecycle == {"created", "paused", "resumed", "revoked", "completed"}
\* charge_succeeded and refund_succeeded, which decode to nothing.
Kind == Lifecycle \cup {"other"}

\* EVENT_TO_WEBHOOK: the charge pipeline announces a completion itself; the
\* mutant forgets that.
Notified_All == Lifecycle
Notified == Lifecycle \ {"completed"}

\* EVENT_TO_STATUS; the mutant stores the event's own word.
StatusAfter_Unmapped(kind) == kind
StatusAfter(kind) ==
  CASE kind \in {"created", "resumed"} -> "Active"
    [] kind = "paused"                 -> "Paused"
    [] kind = "revoked"                -> "Revoked"
    [] kind = "completed"              -> "Completed"

\* get_mandate, and with it the API, also knows Expired.
Status == {"Active", "Paused", "Revoked", "Completed", "Expired"}
IndexRow == [status : Status, ledger : Nat \cup {None}]

\* IndexerCursor: the last ledger an event was seen in, and the RPC's token,
\* which is a place in the log and the ledger it was issued at.
Cursor == [ledger : Nat, place : Nat, upto : Nat]

Reading == [mandate : Mandate, status : Status]

ASSUME NoneAssumption ==
  None \notin Nat /\ None \notin IndexRow /\ None \notin Cursor /\ None \notin Reading

VARIABLES
  tip,         \* the last closed ledger
  log,         \* the contract's events, those of the open ledger included
  registered,  \* mandates whose merchant has an account
  cursor,      \* the IndexerCursor row
  index,       \* MandateIndex rows
  announced,   \* per event: the webhook rows that carry its id
  tick, reader,
  unknown,     \* events logged as "indexer.unknown_merchant"
  lost,        \* events a response passed over although nobody had read them
  origin,      \* where the run that created the cursor row had started
  faults

tables == <<cursor, index, announced>>
chain  == <<tip, log, registered>>
history == <<unknown, lost, origin>>
vars == <<chain, tables, tick, reader, history, faults>>

-----------------------------------------------------------------------------
(* The chain and its RPC node                                              *)

Closed(n) == n \in DOMAIN log /\ log[n].ledger <= tip
ClosedCount == Cardinality({n \in DOMAIN log : Closed(n)})
Oldest == IF tip > Retention THEN tip - Retention + 1 ELSE 1

\* The place just before the first event of ledger l or later.
PlaceBefore(l) == Cardinality({n \in DOMAIN log : log[n].ledger < l})

StatusAt(m, n) ==
  LET past == {i \in 1 .. n : log[i].mandate = m /\ log[i].kind \in Lifecycle}
  IN  IF past = {} THEN None ELSE StatusAfter(log[Max(past)].kind)

\* What the contract emits next about m: events.rs in the order of the
\* mandate's life.
Possible(m) ==
  LET status == StatusAt(m, Len(log))
  IN  CASE status = None     -> {"created"}
        [] status = "Active" -> {"paused", "revoked", "completed", "other"}
        [] status = "Paused" -> {"resumed", "revoked"}
        [] OTHER             -> {}

Emit(m, kind) ==
  /\ Len(log) < MaxEvents /\ tip < MaxLedger
  /\ kind \in Possible(m)
  /\ log' = Append(log, [mandate |-> m, kind |-> kind, ledger |-> tip + 1])
  /\ UNCHANGED <<tip, registered, tables, tick, reader, history, faults>>

CloseLedger ==
  /\ tip < MaxLedger
  /\ tip' = tip + 1
  /\ UNCHANGED <<log, registered, tables, tick, reader, history, faults>>

\* The merchant of m signs up.
Register(m) ==
  /\ registered' = registered \cup {m}
  /\ UNCHANGED <<tip, log, tables, tick, reader, history, faults>>

-----------------------------------------------------------------------------
Idle == [pc |-> "idle", stored |-> None, start |-> 0, place |-> 0, next |-> None]

Init ==
  /\ tip = 1
  /\ log = <<>>
  /\ registered \in SUBSET Mandate
  /\ cursor = None
  /\ index = [m \in Mandate |-> None]
  /\ announced = [n \in 1 .. MaxEvents |-> 0]
  /\ tick = [t \in Tick |-> Idle]
  /\ reader = [r \in Reader |-> None]
  /\ unknown = {} /\ lost = {} /\ origin = None
  /\ faults = 0

\* The cursor, or on the very first run the chain's tip.
StartTick(t) ==
  /\ tick[t].pc = "idle"
  /\ tick' = [tick EXCEPT ![t] =
       [ Idle EXCEPT !.pc = "fetch", !.stored = cursor,
                     !.start = IF cursor # None THEN 0
                               ELSE Max({1, tip - Lookback}) ]]
  /\ UNCHANGED <<chain, tables, reader, history, faults>>

\* The page after `from`, and the cursor it will leave; a page that is not
\* full continues after the newest ledger.  The mutant asks for the next page
\* by the ledger it has reached.
PageEnd(from) == Min({from + PageLimit, ClosedCount})
LastLedger(t, from) ==
  IF PageEnd(from) > from THEN log[PageEnd(from)].ledger
  ELSE IF tick[t].stored # None THEN tick[t].stored.ledger
  ELSE tick[t].start
NextCursor_ByLedger(t, from) ==
  [ ledger |-> LastLedger(t, from),
    place  |-> Max({from, PlaceBefore(LastLedger(t, from))}), upto |-> tip ]
NextCursor(t, from) ==
  [ ledger |-> LastLedger(t, from),
    place  |-> PageEnd(from),
    upto   |-> IF PageEnd(from) = from + PageLimit
               THEN LastLedger(t, from) ELSE tip ]

\* The second retention check; the mutant tolerates one ledger too many.
GapSeen_OneMore(stored) == Oldest > stored.ledger + 2
GapSeen(stored) == Oldest > stored.ledger + 1

\* The RPC node refuses a start before its window; a token from before it,
\* it refuses as well or answers with what it still has.  The tick fails on
\* either sign of a gap.
Fetch(t) ==
  LET stored == tick[t].stored
      asked  == IF stored = None THEN PlaceBefore(tick[t].start)
                ELSE stored.place
      from   == Max({asked, PlaceBefore(Oldest)})
  IN  /\ tick[t].pc = "fetch"
      /\ \/ /\ IF stored = None THEN tick[t].start < Oldest
               ELSE stored.upto < Oldest \/ GapSeen(stored)
            /\ tick' = [tick EXCEPT ![t] = Idle]
            /\ UNCHANGED lost
         \/ /\ IF stored = None THEN tick[t].start >= Oldest
               ELSE ~GapSeen(stored)
            /\ tick' = [tick EXCEPT ![t].pc = "apply", ![t].place = from,
                                    ![t].next = NextCursor(t, from)]
            /\ lost' = lost \cup (asked + 1 .. from)
      /\ UNCHANGED <<chain, tables, reader, unknown, origin, faults>>

\* The lifecycle events of the page that are still to be applied.
Pending(t) ==
  {n \in tick[t].place + 1 .. tick[t].next.place : log[n].kind \in Lifecycle}

\* The WHERE clause of the upsert; the mutant writes always.
MayOverwrite_Always(row, ledger) == TRUE
MayOverwrite(row, ledger) == row.ledger = None \/ row.ledger <= ledger

\* createMany({ skipDuplicates: true }) on the event's own id; the mutant
\* draws a fresh id every time.
Enqueued_FreshId(n) == announced[n] + 1
Enqueued(n) == Max({announced[n], 1})

\* One event: nothing at all when its merchant is not known, else the row
\* and the webhook in one transaction.
ApplyEvent(t) ==
  LET n == Min(Pending(t))
      e == log[n]
      m == e.mandate
  IN  /\ tick[t].pc = "apply" /\ Pending(t) # {}
      /\ tick' = [tick EXCEPT ![t].place = n]
      /\ IF index[m] = None /\ m \notin registered
         THEN unknown' = unknown \cup {n} /\ UNCHANGED tables
         ELSE /\ index' = [index EXCEPT ![m] =
                   IF @ = None \/ MayOverwrite(@, e.ledger)
                   THEN [status |-> StatusAfter(e.kind), ledger |-> e.ledger]
                   ELSE @]
              /\ announced' = IF e.kind \in Notified
                              THEN [announced EXCEPT ![n] = Enqueued(n)]
                              ELSE announced
              /\ UNCHANGED <<cursor, unknown>>
      /\ UNCHANGED <<chain, reader, lost, origin, faults>>

\* advanceIndexerCursor compares with what the tick read.
CursorUnmoved(t) == cursor = tick[t].stored

Advance(t) ==
  /\ tick[t].pc = "apply" /\ Pending(t) = {}
  /\ IF CursorUnmoved(t)
     THEN /\ cursor' = tick[t].next
          /\ origin' = IF tick[t].stored = None
                       THEN PlaceBefore(tick[t].start) ELSE origin
     ELSE UNCHANGED <<cursor, origin>>
  /\ tick' = [tick EXCEPT ![t] = Idle]
  /\ UNCHANGED <<chain, index, announced, reader, unknown, lost, faults>>

\* The process dies, or the database or a chain read fails.
TickFails(t) ==
  /\ tick[t].pc # "idle"
  /\ faults < MaxFaults /\ faults' = faults + 1
  /\ tick' = [tick EXCEPT ![t] = Idle]
  /\ UNCHANGED <<chain, tables, reader, history>>

TickStep(t) == StartTick(t) \/ Fetch(t) \/ ApplyEvent(t) \/ Advance(t)

-----------------------------------------------------------------------------
(* The API: GET /mandates/:id and POST /checkout-sessions/:id/mandate      *)

ReadMandate(r, m) ==
  LET stored == StatusAt(m, ClosedCount)
  IN
  /\ reader[r] = None
  /\ m \in registered /\ stored # None
  /\ \E status \in IF stored \in {"Active", "Paused"}
                   THEN {stored, "Expired"} ELSE {stored} :
       reader' = [reader EXCEPT ![r] = [mandate |-> m, status |-> status]]
  /\ UNCHANGED <<chain, tables, tick, history, faults>>

\* Best effort: the request succeeds when the upsert does not.
RefreshIndex(r) ==
  /\ reader[r] # None
  /\ \/ index' = [index EXCEPT ![reader[r].mandate] =
          [ status |-> reader[r].status,
            ledger |-> IF @ = None THEN None ELSE @.ledger ]]
     \/ UNCHANGED index
  /\ reader' = [reader EXCEPT ![r] = None]
  /\ UNCHANGED <<chain, cursor, announced, tick, history, faults>>

Next ==
  \/ \E m \in Mandate : Register(m) \/ \E kind \in Kind : Emit(m, kind)
  \/ CloseLedger
  \/ \E t \in Tick : TickStep(t) \/ TickFails(t)
  \/ \E r \in Reader : RefreshIndex(r) \/ \E m \in Mandate : ReadMandate(r, m)

Spec == Init /\ [][Next]_vars

\* The timer fires and a tick goes on; the chain, merchants and payers owe
\* nothing.
FairSpec == Spec /\ \A t \in Tick : WF_vars(TickStep(t))

-----------------------------------------------------------------------------
(* Properties.                                                             *)

(***************************************************************************)
(* The rows of MandateIndex and IndexerCursor, and the local variables of  *)
(* runIndexerTick.                                                         *)
(***************************************************************************)
TypeOK ==
  /\ tip \in 1 .. MaxLedger
  /\ log \in Seq([mandate : Mandate, kind : Kind, ledger : Nat])
  /\ registered \subseteq Mandate
  /\ cursor \in Cursor \cup {None}
  /\ index \in [Mandate -> IndexRow \cup {None}]
  /\ announced \in [1 .. MaxEvents -> Nat]
  /\ tick \in [Tick -> [ pc : {"idle", "fetch", "apply"},
                         stored : Cursor \cup {None}, start : Nat,
                         place : Nat, next : Cursor \cup {None} ]]
  /\ reader \in [Reader -> Reading \cup {None}]
  /\ unknown \subseteq DOMAIN log /\ lost \subseteq DOMAIN log
  /\ origin \in Nat \cup {None}
  /\ faults \in 0 .. MaxFaults

(***************************************************************************)
(* However often an event is applied - by ticks that overlap, by a second  *)
(* relayer, after a tick that died in the middle of its page - the         *)
(* merchant is told of it at most once, and never of a completion, which   *)
(* the charge pipeline announces.                                          *)
(***************************************************************************)
AnnouncedOnce ==
  \A n \in DOMAIN log :
    announced[n] <= IF log[n].kind \in Lifecycle \ {"completed"} THEN 1 ELSE 0

(***************************************************************************)
(* "Fail loudly, never silently skip": behind the cursor every lifecycle   *)
(* event was applied, or logged as one of a merchant nobody knows,         *)
(* whichever tick won the compare-and-swap.  The two retention checks keep *)
(* a lenient RPC node from breaking this, but for the rest of the one      *)
(* ledger in which the stored page ended (lastLedger + 1 is one too late   *)
(* when a full page splits a ledger).                                      *)
(***************************************************************************)
Applied(n) ==
  LET row == index[log[n].mandate]
  IN  /\ row # None /\ row.ledger # None /\ row.ledger >= log[n].ledger
      /\ log[n].kind # "completed" => announced[n] >= 1

SplitByAPage(n) ==
  n \in lost /\ n > 1 /\ log[n - 1].ledger = log[n].ledger

NothingSkipped ==
  cursor # None =>
    \A n \in origin + 1 .. cursor.place :
      log[n].kind \in Lifecycle =>
        Applied(n) \/ n \in unknown \/ SplitByAPage(n)

(***************************************************************************)
(* What was announced is in the index: once the merchant has been told of  *)
(* an event, the mandate's row never again stands for an earlier ledger,   *)
(* whoever writes it and in whatever order events are applied again.       *)
(***************************************************************************)
IndexNotBehind ==
  \A n \in DOMAIN log : announced[n] > 0 =>
    /\ index[log[n].mandate] # None
    /\ index[log[n].mandate].ledger # None
    /\ index[log[n].mandate].ledger >= log[n].ledger

(***************************************************************************)
(* Every lifecycle event of a closed ledger is taken care of in the end,   *)
(* however ticks overlap, lose races or die, unless the indexer has come   *)
(* to stand before a retention gap and waits for an operator.              *)
(***************************************************************************)
WaitsForOperator ==
  cursor # None /\ (cursor.upto < Oldest \/ cursor.ledger + 1 < Oldest)

EveryEventHandled ==
  \A n \in 1 .. MaxEvents :
    (Closed(n) /\ log[n].kind \in Lifecycle /\ origin # None /\ n > origin)
      ~> (WaitsForOperator \/ n \in unknown \/ n \in lost
            \/ (n \in DOMAIN log /\ Applied(n)))
=============================================================================
