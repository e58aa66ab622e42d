-------------------------- MODULE EventIndexerProofs --------------------------
(***************************************************************************)
(* What holds of the event indexer for any number of ticks and readers,    *)
(* any page size, lookback and retention.                                  *)
(*                                                                         *)
(* The argument.  The log is in ledger order, so the events of ledgers     *)
(* that closed, and those before a given ledger, are the first so many of  *)
(* it.  A cursor is well placed: an event behind its place that is of its  *)
(* ledger, or of an earlier one, is of the ledger of the event at its      *)
(* place.  So what a lenient response passes over, which the retention     *)
(* check allows for no later ledger than that, is the rest of a ledger     *)
(* that a page had split.  Every event between the place a tick asked for  *)
(* and the one it has reached was taken care of, and stays so: no row of   *)
(* the index goes back to an earlier ledger, no announcement is withdrawn. *)
(***************************************************************************)
EXTENDS EventIndexer, FiniteSetTheorems, WellFoundedInduction, TLAPS

-----------------------------------------------------------------------------
(* Minima, maxima and initial segments.                                    *)

LEMMA LeastOf ==
  ASSUME NEW S \in SUBSET Nat, S # {}
  PROVE  \E x \in S : \A y \in S : x <= y
<1>1. PICK x \in S : \A y \in S : ~ (<<y, x>> \in OpToRel(<, Nat))
  BY NatLessThanWellFounded, WFMin
<1>2. \A y \in S : ~ (y < x)
  BY <1>1 DEF OpToRel
<1> QED
  BY <1>2

LEMMA MinIsLeast ==
  ASSUME NEW S \in SUBSET Nat, S # {}
  PROVE  Min(S) \in S /\ \A y \in S : Min(S) <= y
BY LeastOf DEF Min

LEMMA MaxIsGreatest ==
  ASSUME NEW N \in Nat, NEW S \in SUBSET (0 .. N), S # {}
  PROVE  Max(S) \in S /\ \A y \in S : Max(S) >= y
<1> DEFINE T == {N - x : x \in S}
<1>1. T \in SUBSET Nat /\ T # {}
  <2>1. \A x \in S : N - x \in Nat
    OBVIOUS
  <2> QED
    BY <2>1
<1>2. PICK t \in T : \A y \in T : t <= y
  BY <1>1, LeastOf
<1>3. PICK x \in S : t = N - x
  OBVIOUS
<1>4. \A y \in S : N - y \in T
  OBVIOUS
<1>5. \A y \in S : x >= y
  <2> SUFFICES ASSUME NEW y \in S PROVE x >= y
    OBVIOUS
  <2>1. N - x <= N - y
    BY <1>2, <1>3, <1>4
  <2>2. x \in Int /\ y \in Int
    <3>1. x \in 0 .. N /\ y \in 0 .. N
      <4> HIDE DEF T
      <4> QED
        BY <1>3
    <3> QED
      BY <3>1
  <2> QED
    BY <2>1, <2>2
<1> QED
  BY <1>5 DEF Max

LEMMA MaxOfTwo ==
  ASSUME NEW a \in Int, NEW b \in Int
  PROVE  Max({a, b}) = IF a >= b THEN a ELSE b
<1>1. \E x \in {a, b} : \A y \in {a, b} : x >= y
  OBVIOUS
<1>2. Max({a, b}) \in {a, b} /\ \A y \in {a, b} : Max({a, b}) >= y
  BY <1>1 DEF Max
<1> QED
  BY <1>2

LEMMA MinOfTwo ==
  ASSUME NEW a \in Int, NEW b \in Int
  PROVE  Min({a, b}) = IF a <= b THEN a ELSE b
<1>1. \E x \in {a, b} : \A y \in {a, b} : x <= y
  OBVIOUS
<1>2. Min({a, b}) \in {a, b} /\ \A y \in {a, b} : Min({a, b}) <= y
  BY <1>1 DEF Min
<1> QED
  BY <1>2

\* A set of places with every place before one of its own is the first so
\* many places.
LEMMA InitialSegment ==
  ASSUME NEW N \in Nat, NEW S \in SUBSET (1 .. N),
         \A i \in S, j \in 1 .. N : j <= i => j \in S
  PROVE  Cardinality(S) \in 0 .. N /\ S = 1 .. Cardinality(S)
<1> DEFINE T == {k \in 0 .. N : k + 1 \notin S}
<1>1. T \in SUBSET Nat /\ N \in T
  OBVIOUS
<1>2. PICK k \in T : \A y \in T : k <= y
  BY <1>1, LeastOf
<1>3. S = 1 .. k
  <2>1. \A j \in 1 .. k : j \in S
    <3> SUFFICES ASSUME NEW j \in 1 .. k PROVE j \in S
      OBVIOUS
    <3>1. j - 1 \in 0 .. N /\ j - 1 < k /\ j - 1 \notin T
      BY <1>2
    <3> QED
      BY <3>1
  <2>2. \A i \in S : i <= k
    BY <1>2
  <2>3. k \in Int /\ \A i \in S : i \in Int /\ 1 <= i
    OBVIOUS
  <2>4. \A i \in S : i \in 1 .. k
    BY <2>2, <2>3
  <2> HIDE DEF T
  <2> QED
    BY <2>1, <2>4
<1>4. Cardinality(1 .. k) = k
  BY FS_Interval
<1> QED
  BY <1>3, <1>4

-----------------------------------------------------------------------------
(* The invariant.                                                          *)

Entry == [mandate : Mandate, kind : Kind, ledger : Nat]

Run == [ pc : {"idle", "fetch", "apply"}, stored : Cursor \cup {None},
         start : Nat, place : Nat, next : Cursor \cup {None} ]

LogInv ==
  /\ Len(log) <= MaxEvents
  /\ \A i, j \in DOMAIN log : i <= j => log[i].ledger <= log[j].ledger
  /\ \A i \in DOMAIN log : log[i].ledger <= tip + 1

\* The row of the event's mandate stands for its ledger or a later one.
Indexed(n) ==
  LET row == index[log[n].mandate]
  IN  row # None /\ row.ledger # None /\ row.ledger >= log[n].ledger

AnnouncedInv ==
  \A n \in 1 .. MaxEvents : announced[n] > 0 =>
    /\ n \in DOMAIN log /\ announced[n] = 1 /\ Indexed(n)
    /\ log[n].kind \in Lifecycle \ {"completed"}

Taken(n) ==
  log[n].kind \in Lifecycle => Applied(n) \/ n \in unknown \/ SplitByAPage(n)

WellPlaced(c) ==
  /\ c.place = 0 \/ Closed(c.place)
  /\ c.ledger <= tip
  /\ \A n \in DOMAIN log : n > c.place /\ log[n].ledger <= c.ledger =>
       c.place > 0 /\ log[c.place].ledger = log[n].ledger

TakenUpTo(c) == origin \in Nat /\ \A n \in origin + 1 .. c.place : Taken(n)

\* A cursor that is stored, or that a tick has read.
CursorInv ==
  \A c \in Cursor : (cursor = c \/ \E t \in Tick : tick[t].stored = c) =>
    cursor # None /\ WellPlaced(c) /\ TakenUpTo(c)

AskedFor(t, n) ==
  IF tick[t].stored = None THEN log[n].ledger >= tick[t].start
                           ELSE n > tick[t].stored.place

RunInv(t) ==
  /\ tick[t].pc # "idle" /\ tick[t].stored = None => tick[t].start <= tip
  /\ tick[t].pc = "apply" =>
       /\ tick[t].next # None /\ tick[t].place <= tick[t].next.place
       /\ \A c \in Cursor : tick[t].next = c => WellPlaced(c)
       /\ \A n \in 1 .. tick[t].place : AskedFor(t, n) => Taken(n)

TickInv == \A t \in Tick : RunInv(t)

Inv == TypeOK /\ LogInv /\ AnnouncedInv /\ CursorInv /\ TickInv

-----------------------------------------------------------------------------
(* The log, and what is counted of it.                                     *)

LEMMA LogFacts ==
  ASSUME TypeOK
  PROVE  /\ Len(log) \in Nat /\ DOMAIN log = 1 .. Len(log)
         /\ \A n \in DOMAIN log : log[n] \in Entry
         /\ tip \in Nat /\ tip >= 1
<1>1. log \in Seq(Entry) /\ tip \in 1 .. MaxLedger
  BY DEF TypeOK, Entry
<1>2. \A n \in 1 .. Len(log) : log[n] \in Entry
  BY <1>1
<1>3. tip \in Nat /\ tip >= 1
  BY <1>1, IndexerAssumption
<1> QED
  BY <1>1, <1>2, <1>3

LEMMA ClosedIsFirst ==
  ASSUME TypeOK, LogInv
  PROVE  /\ ClosedCount \in 0 .. Len(log)
         /\ \A n \in DOMAIN log : log[n].ledger <= tip <=> n <= ClosedCount
<1> DEFINE S == {n \in DOMAIN log : Closed(n)}
<1>1. S \in SUBSET (1 .. Len(log))
  BY LogFacts
<1>2. \A i \in S, j \in 1 .. Len(log) : j <= i => j \in S
  BY LogFacts DEF LogInv, Closed, Entry
<1>3. ClosedCount \in 0 .. Len(log) /\ S = 1 .. ClosedCount
  BY <1>1, <1>2, LogFacts, InitialSegment DEF ClosedCount
<1> QED
  BY <1>3, LogFacts DEF Closed

LEMMA BeforeIsFirst ==
  ASSUME TypeOK, LogInv, NEW l \in Int
  PROVE  /\ PlaceBefore(l) \in 0 .. Len(log)
         /\ \A n \in DOMAIN log : log[n].ledger < l <=> n <= PlaceBefore(l)
<1> DEFINE S == {n \in DOMAIN log : log[n].ledger < l}
<1>1. S \in SUBSET (1 .. Len(log))
  BY LogFacts
<1>2. \A i \in S, j \in 1 .. Len(log) : j <= i => j \in S
  BY LogFacts DEF LogInv, Entry
<1>3. PlaceBefore(l) \in 0 .. Len(log) /\ S = 1 .. PlaceBefore(l)
  BY <1>1, <1>2, LogFacts, InitialSegment DEF PlaceBefore
<1> QED
  BY <1>3, LogFacts

LEMMA OldestIsKept == TypeOK => Oldest \in 1 .. tip
BY LogFacts, IndexerAssumption DEF Oldest

-----------------------------------------------------------------------------
(* What was taken care of stays so.                                        *)

LogKept ==
  \A n \in DOMAIN log : n \in DOMAIN log' /\ log'[n] = log[n]

RowsKept ==
  \A m \in Mandate : index[m] # None =>
    /\ index'[m] # None
    /\ index[m].ledger # None =>
         index'[m].ledger # None /\ index'[m].ledger >= index[m].ledger

Grown ==
  /\ LogKept /\ RowsKept
  /\ \A n \in 1 .. MaxEvents : announced'[n] >= announced[n]
  /\ unknown \subseteq unknown' /\ lost \subseteq lost'

LEMMA RowFacts ==
  ASSUME TypeOK, NEW m \in Mandate, index[m] # None, index[m].ledger # None
  PROVE  index[m].ledger \in Nat /\ index[m].status \in Status
BY DEF TypeOK, IndexRow

LEMMA IndexedStays ==
  ASSUME TypeOK, TypeOK', LogKept, RowsKept, NEW n \in DOMAIN log, Indexed(n)
  PROVE  Indexed(n)'
<1> DEFINE m == log[n].mandate
<1>1. m \in Mandate /\ log'[n] = log[n] /\ log[n].ledger \in Nat
  BY LogFacts DEF LogKept, Entry
<1>2. index[m].ledger \in Nat
  BY <1>1, RowFacts DEF Indexed
<1>3. /\ index'[m] # None /\ index'[m].ledger # None
      /\ index'[m].ledger >= index[m].ledger
  BY <1>1 DEF Indexed, RowsKept
<1>4. index'[m].ledger \in Nat
  BY <1>1, <1>3 DEF TypeOK, IndexRow
<1> QED
  BY <1>1, <1>2, <1>3, <1>4 DEF Indexed

LEMMA TakenStays ==
  ASSUME TypeOK, TypeOK', LogInv, Grown, NEW n \in DOMAIN log, Taken(n)
  PROVE  Taken(n)'
<1>1. log'[n] = log[n] /\ n \in 1 .. MaxEvents
  BY LogFacts, IndexerAssumption DEF Grown, LogKept, LogInv
<1>2. Indexed(n) => Indexed(n)'
  BY IndexedStays DEF Grown
<1>3. announced[n] >= 1 => announced'[n] >= 1
  BY <1>1 DEF Grown, TypeOK
<1>4. Applied(n) => Applied(n)'
  BY <1>1, <1>2, <1>3 DEF Applied, Indexed
<1>5. SplitByAPage(n) => SplitByAPage(n)'
  <2> SUFFICES ASSUME SplitByAPage(n) PROVE SplitByAPage(n)'
    OBVIOUS
  <2>1. n - 1 \in DOMAIN log
    BY LogFacts DEF SplitByAPage
  <2> QED
    BY <1>1, <2>1 DEF SplitByAPage, Grown, LogKept
<1> QED
  BY <1>1, <1>4, <1>5 DEF Taken, Grown

\* A cursor stays well placed when only the open ledger grows.
LEMMA PlacedStays ==
  ASSUME TypeOK, TypeOK', LogKept, tip' >= tip,
         \A n \in DOMAIN log' : n \notin DOMAIN log => log'[n].ledger > tip,
         NEW c \in Cursor, WellPlaced(c)
  PROVE  WellPlaced(c)'
<1>1. /\ c.place \in Nat /\ c.ledger \in Nat /\ tip \in Nat /\ tip' \in Nat
      /\ \A n \in DOMAIN log' : log'[n].ledger \in Nat
  <2>1. log' \in Seq(Entry) /\ tip \in 1 .. MaxLedger /\ tip' \in 1 .. MaxLedger
    BY DEF TypeOK, Entry
  <2>2. \A n \in DOMAIN log' : log'[n] \in Entry
    BY <2>1
  <2> QED
    BY <2>1, <2>2, IndexerAssumption DEF Cursor, Entry
<1>2. c.place = 0 \/ Closed(c.place)'
  BY <1>1 DEF WellPlaced, Closed, LogKept
<1>3. ASSUME NEW n \in DOMAIN log', n > c.place, log'[n].ledger <= c.ledger
      PROVE  c.place > 0 /\ log'[c.place].ledger = log'[n].ledger
  <2>1. n \in DOMAIN log /\ log'[n] = log[n]
    BY <1>1, <1>3 DEF WellPlaced, LogKept
  <2>2. c.place > 0 /\ log[c.place].ledger = log[n].ledger
    BY <1>3, <2>1 DEF WellPlaced
  <2>3. c.place \in DOMAIN log
    BY <2>2, <1>1 DEF WellPlaced, Closed
  <2> QED
    BY <2>1, <2>2, <2>3 DEF LogKept
<1>4. c.ledger <= tip'
  BY <1>1 DEF WellPlaced
<1> QED
  BY <1>2, <1>3, <1>4 DEF WellPlaced

\* Nothing of what is known is taken back; new events are of the open ledger.
Onward ==
  /\ TypeOK' /\ Grown /\ tip' >= tip
  /\ \A n \in DOMAIN log' : n \notin DOMAIN log => log'[n].ledger > tip

LEMMA UpToStays ==
  ASSUME Inv, Onward, origin' = origin, NEW c \in Cursor,
         WellPlaced(c), TakenUpTo(c)
  PROVE  WellPlaced(c)' /\ TakenUpTo(c)'
<1>1. WellPlaced(c)'
  BY PlacedStays DEF Inv, Onward, Grown
<1>2. origin \in Nat /\ c.place \in Nat
  BY DEF TakenUpTo, Cursor
<1>3. \A n \in 1 .. c.place : n \in DOMAIN log
  BY <1>2, LogFacts DEF WellPlaced, Closed, Inv
<1>4. \A n \in origin + 1 .. c.place : Taken(n)'
  BY <1>2, <1>3, TakenStays DEF TakenUpTo, Inv, Onward
<1> QED
  BY <1>1, <1>2, <1>4 DEF TakenUpTo

LEMMA AnnouncedStays ==
  ASSUME Inv, Onward, announced' = announced
  PROVE  AnnouncedInv'
<1> SUFFICES ASSUME NEW n \in 1 .. MaxEvents, announced[n] > 0
             PROVE  /\ n \in DOMAIN log' /\ announced[n] = 1 /\ Indexed(n)'
                    /\ log'[n].kind \in Lifecycle \ {"completed"}
  BY DEF AnnouncedInv
<1>1. /\ n \in DOMAIN log /\ announced[n] = 1 /\ Indexed(n)
      /\ log[n].kind \in Lifecycle \ {"completed"}
  BY DEF Inv, AnnouncedInv
<1> QED
  BY <1>1, IndexedStays DEF Inv, Onward, Grown, LogKept

LEMMA RunStays ==
  ASSUME Inv, Onward, NEW t \in Tick, tick'[t] = tick[t]
  PROVE  RunInv(t)'
<1>1. /\ tick[t] \in Run /\ RunInv(t) /\ tip \in Nat /\ tip' \in Nat
      /\ tip' >= tip
  BY IndexerAssumption DEF Inv, TickInv, TypeOK, Run, Onward
<1>2. tick[t].pc # "idle" /\ tick[t].stored = None => tick[t].start <= tip'
  BY <1>1 DEF RunInv, Run
<1>3. ASSUME tick[t].pc = "apply"
      PROVE  /\ tick[t].next # None /\ tick[t].place <= tick[t].next.place
             /\ \A c \in Cursor : tick[t].next = c => WellPlaced(c)'
  BY <1>1, <1>3, PlacedStays DEF RunInv, Inv, Onward, Grown
<1>4. ASSUME tick[t].pc = "apply", NEW n \in 1 .. tick[t].place,
             AskedFor(t, n)'
      PROVE  Taken(n)'
  <2>1. PICK c \in Cursor : tick[t].next = c
    BY <1>1, <1>4 DEF RunInv, Run
  <2>2. WellPlaced(c) /\ tick[t].place <= c.place
    BY <1>1, <1>4, <2>1 DEF RunInv
  <2>3. n \in DOMAIN log
    BY <1>1, <2>2, LogFacts DEF WellPlaced, Closed, Inv, Run, Cursor
  <2>4. log'[n] = log[n]
    BY <2>3 DEF Onward, Grown, LogKept
  <2>5. AskedFor(t, n)
    BY <1>4, <2>4 DEF AskedFor
  <2>6. Taken(n)
    BY <1>1, <1>4, <2>5 DEF RunInv
  <2> QED
    BY <2>3, <2>6, TakenStays DEF Inv, Onward
<1> QED
  BY <1>2, <1>3, <1>4 DEF RunInv

\* A step of the chain, or of the API: no tick acts.
LEMMA OutsideKeeps ==
  ASSUME Inv, Onward, LogInv', UNCHANGED <<cursor, origin, announced, tick>>
  PROVE  Inv'
<1>1. AnnouncedInv'
  BY AnnouncedStays
<1>2. CursorInv'
  BY UpToStays DEF Inv, CursorInv
<1>3. TickInv'
  BY RunStays DEF TickInv
<1> QED
  BY <1>1, <1>2, <1>3 DEF Inv, Onward

LEMMA UnchangedGrows ==
  ASSUME TypeOK, TypeOK', UNCHANGED <<tip, log>>, RowsKept,
         \A n \in 1 .. MaxEvents : announced'[n] >= announced[n],
         unknown \subseteq unknown', lost \subseteq lost'
  PROVE  Onward
BY LogFacts DEF Onward, Grown, LogKept

LEMMA RowsUntouched == TypeOK /\ UNCHANGED index => RowsKept
<1> SUFFICES ASSUME TypeOK, UNCHANGED index, NEW m \in Mandate,
                    index[m] # None, index[m].ledger # None
             PROVE  index[m].ledger >= index[m].ledger
  BY DEF RowsKept
<1> QED
  BY RowFacts

LEMMA AnnouncedUntouched ==
  ASSUME TypeOK, UNCHANGED announced
  PROVE  \A n \in 1 .. MaxEvents : announced'[n] >= announced[n]
BY DEF TypeOK

-----------------------------------------------------------------------------
(* The steps of the chain and of the API.                                  *)

LEMMA EmitKeeps ==
  ASSUME Inv, NEW m \in Mandate, NEW kind \in Kind, Emit(m, kind)
  PROVE  Inv'
<1> DEFINE e == [mandate |-> m, kind |-> kind, ledger |-> tip + 1]
<1>1. /\ log' = Append(log, e) /\ Len(log) < MaxEvents
      /\ UNCHANGED <<tip, registered, cursor, index, announced, tick, reader,
                     unknown, lost, origin, faults>>
  BY DEF Emit, tables, history
<1>2. TypeOK /\ tip \in Nat /\ log \in Seq(Entry) /\ e \in Entry
  BY LogFacts DEF Inv, TypeOK, Entry
<1>3. /\ Len(log') = Len(log) + 1
      /\ DOMAIN log' = 1 .. Len(log) + 1 /\ DOMAIN log = 1 .. Len(log)
      /\ log'[Len(log) + 1] = e
      /\ \A n \in DOMAIN log : log'[n] = log[n]
      /\ log' \in Seq(Entry) /\ Len(log) \in Nat
  <2> HIDE DEF e
  <2> QED
    BY <1>1, <1>2
<1>4. LogKept /\ DOMAIN log \subseteq DOMAIN log'
  BY <1>3 DEF LogKept
<1>5. TypeOK'
  <2>1. unknown \subseteq DOMAIN log' /\ lost \subseteq DOMAIN log'
    BY <1>2, <1>4 DEF TypeOK
  <2> QED
    BY <1>1, <1>2, <1>3, <2>1 DEF TypeOK, Entry
<1>6. Onward
  <2>1. \A n \in DOMAIN log' : n \notin DOMAIN log => log'[n].ledger > tip
    BY <1>2, <1>3
  <2> QED
    BY <1>1, <1>2, <1>4, <1>5, <2>1, RowsUntouched, AnnouncedUntouched
    DEF Onward, Grown
<1>7. LogInv'
  <2>1. Len(log') <= MaxEvents
    BY <1>1, <1>3, IndexerAssumption
  <2>2. \A n \in DOMAIN log' : log'[n].ledger <= tip + 1
    BY <1>2, <1>3 DEF Inv, LogInv
  <2>3. \A i, j \in DOMAIN log' : i <= j => log'[i].ledger <= log'[j].ledger
    <3> SUFFICES ASSUME NEW i \in DOMAIN log', NEW j \in DOMAIN log', i <= j
                 PROVE  log'[i].ledger <= log'[j].ledger
      OBVIOUS
    <3>1. CASE j = Len(log) + 1
      BY <1>2, <1>3, <2>2, <3>1
    <3>2. CASE j # Len(log) + 1
      BY <1>3, <3>2 DEF Inv, LogInv
    <3> QED
      BY <3>1, <3>2
  <2> QED
    BY <1>1, <2>1, <2>2, <2>3 DEF LogInv
<1> QED
  BY <1>1, <1>6, <1>7, OutsideKeeps

LEMMA CloseLedgerKeeps ==
  ASSUME Inv, CloseLedger
  PROVE  Inv'
<1>1. /\ tip < MaxLedger /\ tip' = tip + 1
      /\ UNCHANGED <<log, registered, cursor, index, announced, tick, reader,
                     unknown, lost, origin, faults>>
  BY DEF CloseLedger, tables, history
<1>2. TypeOK /\ tip \in Nat /\ \A n \in DOMAIN log : log[n].ledger \in Nat
  BY LogFacts DEF Inv, Entry
<1>3. TypeOK'
  BY <1>1, <1>2, IndexerAssumption DEF TypeOK
<1>4. Onward
  BY <1>1, <1>2, <1>3, RowsUntouched, AnnouncedUntouched
  DEF Onward, Grown, LogKept
<1>5. LogInv'
  BY <1>1, <1>2 DEF Inv, LogInv
<1> QED
  BY <1>1, <1>4, <1>5, OutsideKeeps

LEMMA StatusRead ==
  ASSUME TypeOK, NEW m \in Mandate, NEW n \in 0 .. Len(log), StatusAt(m, n) # None
  PROVE  StatusAt(m, n) \in Status
<1> DEFINE past == {i \in 1 .. n : log[i].mandate = m /\ log[i].kind \in Lifecycle}
<1>1. past # {} /\ StatusAt(m, n) = StatusAfter(log[Max(past)].kind)
  BY DEF StatusAt
<1>2. past \in SUBSET (0 .. n) /\ n \in Nat
  BY LogFacts
<1>3. Max(past) \in past
  <2> HIDE DEF past
  <2> QED
    BY <1>1, <1>2, MaxIsGreatest
<1>4. \A kind \in Lifecycle : StatusAfter(kind) \in Status
  BY DEF Lifecycle, StatusAfter, Status
<1> QED
  BY <1>1, <1>3, <1>4

LEMMA ReaderKeeps ==
  ASSUME Inv, NEW r \in Reader,
         RefreshIndex(r) \/ \E m \in Mandate : ReadMandate(r, m)
  PROVE  Inv'
<1>1. CASE \E m \in Mandate : ReadMandate(r, m)
  <2>1. PICK m \in Mandate : ReadMandate(r, m)
    BY <1>1
  <2>2. PICK status \in Status :
          reader' = [reader EXCEPT ![r] = [mandate |-> m, status |-> status]]
    BY <2>1, StatusRead, ClosedIsFirst DEF ReadMandate, Inv, Status
  <2>3. UNCHANGED <<tip, log, registered, cursor, index, announced, tick,
                    unknown, lost, origin, faults>>
    BY <2>1 DEF ReadMandate, chain, tables, history
  <2>4. TypeOK'
    BY <2>2, <2>3 DEF Inv, TypeOK, Reading
  <2>5. Onward /\ LogInv'
    BY <2>3, <2>4, UnchangedGrows, RowsUntouched, AnnouncedUntouched
    DEF Inv, LogInv
  <2> QED
    BY <2>3, <2>5, OutsideKeeps
<1>2. CASE RefreshIndex(r)
  <2> DEFINE m == reader[r].mandate
             row == [ status |-> reader[r].status,
                      ledger |-> IF index[m] = None THEN None
                                 ELSE index[m].ledger ]
  <2>1. /\ UNCHANGED <<tip, log, registered, cursor, announced, tick,
                       unknown, lost, origin, faults>>
        /\ reader' = [reader EXCEPT ![r] = None]
        /\ index' = [index EXCEPT ![m] = row] \/ UNCHANGED index
    BY <1>2 DEF RefreshIndex, chain, history
  <2>2. reader[r] \in Reading /\ m \in Mandate
    BY <1>2 DEF RefreshIndex, Inv, TypeOK, Reading
  <2>3. row \in IndexRow
    BY <2>2 DEF Inv, TypeOK, IndexRow, Reading
  <2>4. TypeOK'
    <3> HIDE DEF row
    <3> QED
      BY <2>1, <2>2, <2>3 DEF Inv, TypeOK
  <2>5. RowsKept
    <3>1. CASE UNCHANGED index
      BY <3>1, RowsUntouched DEF Inv
    <3>2. CASE index' = [index EXCEPT ![m] = row]
      <4> SUFFICES ASSUME NEW k \in Mandate, index[k] # None
                   PROVE  /\ index'[k] # None
                          /\ index[k].ledger # None =>
                               /\ index'[k].ledger # None
                               /\ index'[k].ledger >= index[k].ledger
        BY DEF RowsKept
      <4>1. index'[k] = IF k = m THEN row ELSE index[k]
        BY <2>2, <3>2 DEF Inv, TypeOK
      <4>2. row # None
        BY <2>3, NoneAssumption
      <4>3. index'[k].ledger = index[k].ledger
        BY <4>1
      <4> QED
        BY <4>1, <4>2, <4>3, RowFacts DEF Inv
    <3> QED
      BY <2>1, <3>1, <3>2
  <2>6. Onward /\ LogInv'
    BY <2>1, <2>4, <2>5, UnchangedGrows, AnnouncedUntouched DEF Inv, LogInv
  <2> QED
    BY <2>1, <2>6, OutsideKeeps
<1> QED
  BY <1>1, <1>2

LEMMA RegisterKeeps ==
  ASSUME Inv, NEW m \in Mandate, Register(m)
  PROVE  Inv'
<1>1. /\ registered' = registered \cup {m}
      /\ UNCHANGED <<tip, log, cursor, index, announced, tick, reader,
                     unknown, lost, origin, faults>>
  BY DEF Register, tables, history
<1>2. TypeOK'
  BY <1>1 DEF Inv, TypeOK
<1>3. Onward /\ LogInv'
  BY <1>1, <1>2, UnchangedGrows, RowsUntouched, AnnouncedUntouched
  DEF Inv, LogInv
<1> QED
  BY <1>1, <1>3, OutsideKeeps

-----------------------------------------------------------------------------
(* A tick starts, fails and ends.                                          *)

LEMMA OtherRuns ==
  ASSUME Inv, Onward, NEW t \in Tick, NEW r \in Run,
         tick' = [tick EXCEPT ![t] = r], RunInv(t)'
  PROVE  TickInv'
<1> SUFFICES ASSUME NEW k \in Tick PROVE RunInv(k)'
  BY DEF TickInv
<1>1. k # t => tick'[k] = tick[k]
  BY DEF Inv, TypeOK
<1> QED
  BY <1>1, RunStays

LEMMA NoneIsNoCursor == \A c \in Cursor : c # None
BY NoneAssumption

LEMMA IdleIsRun == Idle \in Run
BY DEF Idle, Run

LEMMA GoesIdle ==
  ASSUME Inv, NEW t \in Tick, tick' = [tick EXCEPT ![t] = Idle],
         UNCHANGED <<chain, tables, reader, history>>, faults' \in 0 .. MaxFaults
  PROVE  Inv'
<1>1. UNCHANGED <<tip, log, registered, cursor, index, announced, reader,
                  unknown, lost, origin>>
  BY DEF chain, tables, history
<1>2. /\ tick' \in [Tick -> Run] /\ tick'[t] = Idle
      /\ \A k \in Tick : k # t => tick'[k] = tick[k]
  BY IdleIsRun DEF Inv, TypeOK, Run
<1>3. TypeOK'
  BY <1>1, <1>2 DEF Inv, TypeOK, Run
<1>4. Onward /\ LogInv'
  BY <1>1, <1>3, UnchangedGrows, RowsUntouched, AnnouncedUntouched
  DEF Inv, LogInv
<1>5. AnnouncedInv'
  BY <1>1, <1>4, AnnouncedStays
<1>6. CursorInv'
  <2>1. \A k \in Tick, c \in Cursor : tick'[k].stored = c => tick[k].stored = c
    BY <1>2, NoneIsNoCursor DEF Idle
  <2> QED
    BY <1>1, <1>4, <2>1, UpToStays DEF Inv, CursorInv
<1>7. RunInv(t)'
  BY <1>2 DEF RunInv, Idle
<1>8. TickInv'
  BY <1>4, <1>7, IdleIsRun, OtherRuns
<1> QED
  BY <1>3, <1>4, <1>5, <1>6, <1>8 DEF Inv

LEMMA TickFailsKeeps ==
  ASSUME Inv, NEW t \in Tick, TickFails(t)
  PROVE  Inv'
<1>1. faults' \in 0 .. MaxFaults
  BY IndexerAssumption DEF TickFails, Inv, TypeOK
<1> QED
  BY <1>1, GoesIdle DEF TickFails

LEMMA StartTickKeeps ==
  ASSUME Inv, NEW t \in Tick, StartTick(t)
  PROVE  Inv'
<1> DEFINE start == IF cursor # None THEN 0 ELSE Max({1, tip - Lookback})
           r == [Idle EXCEPT !.pc = "fetch", !.stored = cursor, !.start = start]
<1>1. /\ tick' = [tick EXCEPT ![t] = r]
      /\ UNCHANGED <<tip, log, registered, cursor, index, announced, reader,
                     unknown, lost, origin, faults>>
  BY DEF StartTick, chain, tables, history
<1>2. start \in Nat /\ start <= tip
  BY LogFacts, MaxOfTwo, IndexerAssumption DEF Inv
<1>3. r \in Run /\ r.pc = "fetch" /\ r.stored = cursor /\ r.start = start
  <2> HIDE DEF start
  <2> QED
    BY <1>2, IdleIsRun DEF Run, Inv, TypeOK
<1> HIDE DEF r
<1>4. /\ tick' \in [Tick -> Run] /\ tick'[t] = r
      /\ \A k \in Tick : k # t => tick'[k] = tick[k]
  BY <1>1, <1>3 DEF Inv, TypeOK, Run
<1>5. TypeOK'
  BY <1>1, <1>4 DEF Inv, TypeOK, Run
<1>6. Onward /\ LogInv'
  BY <1>1, <1>5, UnchangedGrows, RowsUntouched, AnnouncedUntouched
  DEF Inv, LogInv
<1>7. AnnouncedInv'
  BY <1>1, <1>6, AnnouncedStays
<1>8. CursorInv'
  <2>1. \A k \in Tick, c \in Cursor :
          tick'[k].stored = c => tick[k].stored = c \/ cursor = c
    BY <1>3, <1>4
  <2> QED
    BY <1>1, <1>6, <2>1, UpToStays DEF Inv, CursorInv
<1>9. RunInv(t)'
  BY <1>1, <1>2, <1>3, <1>4 DEF RunInv
<1>10. TickInv'
  BY <1>1, <1>3, <1>6, <1>9, OtherRuns
<1> QED
  BY <1>5, <1>6, <1>7, <1>8, <1>10 DEF Inv

-----------------------------------------------------------------------------
(* The page.                                                               *)

LEMMA PageFacts ==
  ASSUME TypeOK, LogInv, NEW from \in 0 .. ClosedCount
  PROVE  /\ PageEnd(from) \in from .. ClosedCount
         /\ PageEnd(from) = from => from = ClosedCount
         /\ PageEnd(from) > from => PageEnd(from) \in DOMAIN log
<1>1. ClosedCount \in 0 .. Len(log) /\ Len(log) \in Nat
  BY ClosedIsFirst, LogFacts
<1>2. from + PageLimit \in Int /\ from + PageLimit > from /\ from \in Nat
  BY <1>1, IndexerAssumption
<1>3. PageEnd(from) = IF from + PageLimit <= ClosedCount
                      THEN from + PageLimit ELSE ClosedCount
  BY <1>1, <1>2, MinOfTwo DEF PageEnd
<1> QED
  BY <1>1, <1>2, <1>3, LogFacts

LEMMA NextPlaced ==
  ASSUME Inv, NEW t \in Tick, tick[t].pc = "fetch", NEW from \in 0 .. ClosedCount
  PROVE  /\ NextCursor(t, from) \in Cursor
         /\ NextCursor(t, from).place = PageEnd(from)
         /\ WellPlaced(NextCursor(t, from))
<1> DEFINE end == PageEnd(from)
           last == LastLedger(t, from)
<1>1. TypeOK /\ LogInv /\ tick[t] \in Run /\ tip \in Nat
  BY LogFacts DEF Inv, TypeOK, Run
<1>2. /\ end \in Nat /\ end <= ClosedCount /\ end <= Len(log)
      /\ end = from => end = ClosedCount
      /\ end > from => end \in DOMAIN log
      /\ end >= from
  BY <1>1, PageFacts, ClosedIsFirst, LogFacts
<1>3. /\ end > from => last = log[end].ledger
      /\ end = from => \/ /\ tick[t].stored \in Cursor
                          /\ last = tick[t].stored.ledger
                       \/ tick[t].stored = None /\ last = tick[t].start
  BY <1>1, <1>2 DEF LastLedger, Run
<1>4. last \in Nat /\ last <= tip
  <2>1. CASE end > from
    BY <1>1, <1>2, <1>3, <2>1, ClosedIsFirst, LogFacts DEF Entry
  <2>2. CASE end = from
    BY <1>1, <1>3, <2>2
    DEF Inv, CursorInv, WellPlaced, TickInv, RunInv, Cursor, Run
  <2> QED
    BY <1>2, <2>1, <2>2
<1>5. /\ NextCursor(t, from).place = end /\ NextCursor(t, from).ledger = last
      /\ NextCursor(t, from) \in Cursor
  BY <1>1, <1>2, <1>4 DEF NextCursor, Cursor
<1>6. end = 0 \/ Closed(end)
  BY <1>1, <1>2, ClosedIsFirst, LogFacts DEF Closed
<1>7. ASSUME NEW n \in DOMAIN log, n > end, log[n].ledger <= last
      PROVE  end > 0 /\ log[end].ledger = log[n].ledger
  <2>1. CASE end > from
    <3>1. log[end].ledger <= log[n].ledger /\ end > 0
      BY <1>1, <1>2, <1>7, <2>1, LogFacts DEF LogInv
    <3>2. last = log[end].ledger /\ log[end].ledger \in Nat /\ log[n].ledger \in Nat
      BY <1>1, <1>2, <1>3, <2>1, LogFacts DEF Entry
    <3> QED
      BY <1>7, <3>1, <3>2
  <2>2. CASE end = from
    <3>1. log[n].ledger > tip
      BY <1>1, <1>2, <1>7, <2>2, ClosedIsFirst, LogFacts DEF Entry
    <3> QED
      BY <1>1, <1>4, <1>7, <3>1, LogFacts DEF Entry
  <2> QED
    BY <1>2, <2>1, <2>2
<1> QED
  BY <1>4, <1>5, <1>6, <1>7 DEF WellPlaced

\* A response that passes over events passes over the rest of a split ledger.
LEMMA FetchKeeps ==
  ASSUME Inv, NEW t \in Tick, Fetch(t)
  PROVE  Inv'
<1> DEFINE stored == tick[t].stored
           asked == IF stored = None THEN PlaceBefore(tick[t].start)
                    ELSE stored.place
           from == Max({asked, PlaceBefore(Oldest)})
           c == NextCursor(t, from)
<1>1. CASE tick' = [tick EXCEPT ![t] = Idle] /\ UNCHANGED lost
  <2>1. UNCHANGED <<chain, tables, reader, history, faults>>
    BY <1>1 DEF Fetch, history
  <2> QED
    BY <1>1, <2>1, GoesIdle DEF Inv, TypeOK
<1>2. CASE /\ IF stored = None THEN tick[t].start >= Oldest ELSE ~GapSeen(stored)
           /\ tick' = [tick EXCEPT ![t].pc = "apply", ![t].place = from,
                                   ![t].next = c]
           /\ lost' = lost \cup (asked + 1 .. from)
  <2>1. /\ TypeOK /\ LogInv /\ tick[t] \in Run /\ tick[t].pc = "fetch"
        /\ tip \in Nat /\ Oldest \in 1 .. tip
        /\ Len(log) \in Nat /\ DOMAIN log = 1 .. Len(log)
        /\ \A n \in DOMAIN log : log[n].ledger \in Nat
        /\ UNCHANGED <<tip, log, registered, cursor, index, announced, reader,
                       unknown, origin, faults>>
    BY LogFacts, OldestIsKept
    DEF Fetch, Inv, TypeOK, Run, chain, tables, Entry
  <2>2. /\ ClosedCount \in 0 .. Len(log)
        /\ \A n \in DOMAIN log : log[n].ledger <= tip <=> n <= ClosedCount
    BY <2>1, ClosedIsFirst
  <2>3. \A l \in 0 .. tip :
          /\ PlaceBefore(l) \in 0 .. ClosedCount
          /\ \A n \in DOMAIN log : log[n].ledger < l <=> n <= PlaceBefore(l)
    <3> SUFFICES ASSUME NEW l \in 0 .. tip
                 PROVE  /\ PlaceBefore(l) \in 0 .. ClosedCount
                        /\ \A n \in DOMAIN log :
                             log[n].ledger < l <=> n <= PlaceBefore(l)
      OBVIOUS
    <3>1. /\ PlaceBefore(l) \in 0 .. Len(log)
          /\ \A n \in DOMAIN log : log[n].ledger < l <=> n <= PlaceBefore(l)
      BY <2>1, BeforeIsFirst
    <3> QED
      BY <2>1, <2>2, <3>1
  <2>4. PlaceBefore(Oldest) \in 0 .. ClosedCount
    BY <2>1, <2>3
  <2>5. /\ asked \in 0 .. ClosedCount
        /\ stored = None => PlaceBefore(Oldest) <= asked
    <3>1. CASE stored = None
      <4>1. tick[t].start \in 0 .. tip /\ tick[t].start >= Oldest
        BY <1>2, <2>1, <3>1 DEF Inv, TickInv, RunInv, Run
      <4>2. asked \in 0 .. ClosedCount /\ asked = PlaceBefore(tick[t].start)
        BY <2>3, <3>1, <4>1
      <4>3. ASSUME PlaceBefore(Oldest) > asked
            PROVE  FALSE
        <5> DEFINE n == PlaceBefore(Oldest)
        <5>1. n \in DOMAIN log /\ n <= PlaceBefore(Oldest)
          BY <2>1, <2>2, <2>4, <4>2, <4>3
        <5>2. log[n].ledger < Oldest
          BY <2>1, <2>3, <5>1
        <5>3. log[n].ledger < tick[t].start
          BY <2>1, <4>1, <5>1, <5>2
        <5> QED
          BY <2>1, <2>3, <4>1, <4>2, <4>3, <5>1, <5>3
      <4> QED
        BY <2>4, <4>2, <4>3
    <3>2. CASE stored # None
      BY <2>1, <2>2, <3>2
      DEF Inv, CursorInv, WellPlaced, Closed, Run, Cursor
    <3> QED
      BY <3>1, <3>2
  <2>6. /\ from \in 0 .. ClosedCount /\ asked <= from
        /\ from > asked => from = PlaceBefore(Oldest) /\ stored # None
    BY <2>2, <2>4, <2>5, MaxOfTwo
  <2>7. /\ c \in Cursor /\ WellPlaced(c) /\ from <= c.place
        /\ c.place \in Nat /\ c.place <= ClosedCount
    BY <2>1, <2>2, <2>6, NextPlaced, PageFacts
  <2> DEFINE r == [tick[t] EXCEPT !.pc = "apply", !.place = from, !.next = c]
  <2>8. /\ r \in Run /\ r.pc = "apply" /\ r.place = from /\ r.next = c
        /\ r.stored = stored /\ r.start = tick[t].start
    <3>1. from \in Nat
      BY <2>2, <2>6
    <3> HIDE DEF c, from
    <3> QED
      BY <2>1, <2>7, <3>1 DEF Run
  <2>9. /\ tick' = [tick EXCEPT ![t] = r] /\ tick'[t] = r
        /\ tick' \in [Tick -> Run]
        /\ \A k \in Tick : k # t => tick'[k] = tick[k]
    <3>1. tick' = [tick EXCEPT ![t] = r]
      BY <1>2, <2>1 DEF TypeOK
    <3> HIDE DEF r
    <3> QED
      BY <2>1, <2>8, <3>1 DEF TypeOK, Run
  <2> HIDE DEF r, c, from, asked
  <2>10. lost' = lost \cup (asked + 1 .. from) /\ lost' \subseteq DOMAIN log
    BY <1>2, <2>1, <2>2, <2>5, <2>6 DEF TypeOK, asked, from
  <2>11. TypeOK'
    BY <2>1, <2>9, <2>10 DEF TypeOK, Run
  <2>12. Onward /\ LogInv'
    BY <2>1, <2>10, <2>11, UnchangedGrows, RowsUntouched, AnnouncedUntouched
    DEF LogInv
  <2>13. AnnouncedInv'
    BY <2>1, <2>12, AnnouncedStays
  <2>14. CursorInv'
    <3>1. \A k \in Tick, d \in Cursor :
            tick'[k].stored = d => tick[k].stored = d
      BY <2>8, <2>9
    <3> QED
      BY <2>1, <2>12, <3>1, UpToStays DEF Inv, CursorInv
  <2>15. ASSUME NEW n \in asked + 1 .. from
         PROVE  stored # None /\ SplitByAPage(n)'
    <3>1. /\ stored # None /\ from = PlaceBefore(Oldest)
          /\ asked = stored.place /\ stored \in Cursor /\ WellPlaced(stored)
          /\ n \in DOMAIN log /\ n > stored.place /\ n \in lost'
      BY <2>1, <2>2, <2>5, <2>6, <2>10, <2>15
      DEF asked, Inv, CursorInv, Run
    <3>2. log[n].ledger < Oldest
      BY <2>1, <2>3, <2>6, <2>15, <2>2, <2>5, <3>1
    <3>3. Oldest <= stored.ledger + 1
      BY <1>2, <2>1, <3>1 DEF GapSeen, Cursor
    <3>4. log[n].ledger <= stored.ledger
      BY <2>1, <3>1, <3>2, <3>3 DEF Cursor
    <3>5. /\ stored.place > 0 /\ log[stored.place].ledger = log[n].ledger
          /\ stored.place \in DOMAIN log
      BY <3>1, <3>4 DEF WellPlaced, Closed
    <3>6. n - 1 \in DOMAIN log /\ stored.place <= n - 1 /\ n > 1
      BY <2>1, <3>1, <3>5
    <3>7. log[n - 1].ledger = log[n].ledger
      <4>1. /\ log[stored.place].ledger <= log[n - 1].ledger
            /\ log[n - 1].ledger <= log[n].ledger
        BY <2>1, <3>1, <3>5, <3>6 DEF LogInv
      <4>2. /\ log[n].ledger \in Nat /\ log[n - 1].ledger \in Nat
            /\ log[stored.place].ledger \in Nat
        BY <2>1, <3>1, <3>5, <3>6
      <4> QED
        BY <3>5, <4>1, <4>2
    <3> QED
      BY <2>1, <3>1, <3>6, <3>7 DEF SplitByAPage
  <2>16. ASSUME NEW n \in 1 .. from, AskedFor(t, n)'
         PROVE  Taken(n)'
    <3>1. n \in DOMAIN log
      BY <2>1, <2>2, <2>6, <2>16
    <3>2. CASE stored = None
      <4>1. log[n].ledger >= tick[t].start /\ tick[t].start >= Oldest
        BY <1>2, <2>1, <2>8, <2>9, <2>16, <3>2 DEF AskedFor
      <4>2. n <= PlaceBefore(tick[t].start)
        BY <2>6, <2>16, <2>2, <2>5, <3>2 DEF asked
      <4>3. tick[t].start \in 0 .. tip
        BY <2>1, <3>2 DEF Inv, TickInv, RunInv, Run
      <4> QED
        BY <2>1, <2>3, <3>1, <4>1, <4>2, <4>3
    <3>3. CASE stored # None
      <4>1. n > stored.place
        BY <2>8, <2>9, <2>16, <3>3 DEF AskedFor
      <4>2. n \in asked + 1 .. from
        BY <2>2, <2>5, <2>6, <2>16, <3>3, <4>1 DEF asked
      <4> QED
        BY <2>15, <4>2 DEF Taken
    <3> QED
      BY <3>2, <3>3
  <2>17. RunInv(t)'
    <3>1. \A d \in Cursor : r.next = d => WellPlaced(d)'
      BY <2>7, <2>8, <2>12, PlacedStays DEF Onward, Grown, Inv
    <3>2. r.next # None
      BY <2>7, <2>8, NoneIsNoCursor
    <3>3. r.stored = None => r.start <= tip'
      BY <2>1, <2>8 DEF Inv, TickInv, RunInv
    <3> QED
      BY <2>7, <2>8, <2>9, <2>16, <3>1, <3>2, <3>3 DEF RunInv
  <2>18. TickInv'
    BY <2>8, <2>9, <2>12, <2>17, OtherRuns
  <2> QED
    BY <2>11, <2>12, <2>13, <2>14, <2>18 DEF Inv
<1> QED
  BY <1>1, <1>2 DEF Fetch

-----------------------------------------------------------------------------
(* Events are applied, and the cursor advances.                            *)

\* The events of a page that is being applied are in the log.
LEMMA PageInLog ==
  ASSUME Inv, NEW t \in Tick, tick[t].pc = "apply"
  PROVE  /\ tick[t] \in Run /\ tick[t].place \in Nat
         /\ tick[t].next \in Cursor /\ WellPlaced(tick[t].next)
         /\ tick[t].place <= tick[t].next.place
         /\ \A n \in 1 .. tick[t].next.place : n \in DOMAIN log
         /\ tick[t].next.place \in Nat
<1>1. /\ tick[t] \in Run /\ tick[t].next # None
      /\ tick[t].place <= tick[t].next.place
      /\ \A c \in Cursor : tick[t].next = c => WellPlaced(c)
  BY DEF Inv, TickInv, RunInv, TypeOK, Run
<1>2. tick[t].next \in Cursor
  BY <1>1 DEF Run
<1>3. WellPlaced(tick[t].next) /\ tick[t].next.place \in Nat
  BY <1>1, <1>2 DEF Cursor
<1>4. \A n \in 1 .. tick[t].next.place : n \in DOMAIN log
  BY <1>3, LogFacts DEF WellPlaced, Closed, Inv
<1> QED
  BY <1>1, <1>2, <1>3, <1>4 DEF Run

\* Between what was applied and the first event that is pending, or the end
\* of the page, nothing is of a mandate's life.
LEMMA NextPending ==
  ASSUME Inv, NEW t \in Tick, tick[t].pc = "apply"
  PROVE  /\ Pending(t) # {} =>
              /\ Min(Pending(t)) \in Pending(t)
              /\ \A n \in tick[t].place + 1 .. Min(Pending(t)) - 1 :
                   log[n].kind \notin Lifecycle
         /\ Pending(t) = {} =>
              \A n \in tick[t].place + 1 .. tick[t].next.place :
                log[n].kind \notin Lifecycle
<1>1. /\ tick[t].place \in Nat /\ tick[t].next.place \in Nat
      /\ Pending(t) \in SUBSET Nat
  BY PageInLog DEF Pending
<1>2. ASSUME Pending(t) # {}
      PROVE  /\ Min(Pending(t)) \in Pending(t)
             /\ \A n \in tick[t].place + 1 .. Min(Pending(t)) - 1 :
                  log[n].kind \notin Lifecycle
  <2>1. /\ Min(Pending(t)) \in Pending(t)
        /\ \A n \in Pending(t) : Min(Pending(t)) <= n
    BY <1>1, <1>2, MinIsLeast
  <2>2. /\ Min(Pending(t)) \in Nat
        /\ Min(Pending(t)) <= tick[t].next.place
    BY <1>1, <2>1 DEF Pending
  <2>3. ASSUME NEW n \in tick[t].place + 1 .. Min(Pending(t)) - 1,
               log[n].kind \in Lifecycle
        PROVE  FALSE
    <3>1. n \in Pending(t) /\ n \in Nat /\ n < Min(Pending(t))
      BY <1>1, <2>2, <2>3 DEF Pending
    <3> QED
      BY <2>1, <2>2, <3>1
  <2> QED
    BY <2>1, <2>3
<1> QED
  BY <1>2 DEF Pending

LEMMA ApplyEventKeeps ==
  ASSUME Inv, NEW t \in Tick, ApplyEvent(t)
  PROVE  Inv'
<1>0. PICK n \in Nat : n = Min(Pending(t))
  <2>1. tick[t].pc = "apply" /\ Pending(t) # {}
    BY DEF ApplyEvent
  <2>2. Min(Pending(t)) \in Pending(t)
    BY <2>1, NextPending
  <2>3. Pending(t) \subseteq Nat
    BY <2>1, PageInLog DEF Pending
  <2> QED
    BY <2>2, <2>3
<1> DEFINE m == log[n].mandate
           row == [status |-> StatusAfter(log[n].kind), ledger |-> log[n].ledger]
           known == ~(index[m] = None /\ m \notin registered)
           r == [tick[t] EXCEPT !.place = n]
<1>1. /\ tick[t].pc = "apply" /\ Pending(t) # {}
      /\ tick' = [tick EXCEPT ![t] = r]
      /\ UNCHANGED <<tip, log, registered, reader, lost, origin, faults, cursor>>
  BY <1>0 DEF ApplyEvent, chain, tables, Inv, TypeOK
<1>2. IF ~known
      THEN unknown' = unknown \cup {n} /\ UNCHANGED <<index, announced>>
      ELSE /\ index' = [index EXCEPT ![m] =
                IF index[m] = None \/ MayOverwrite(index[m], log[n].ledger)
                THEN row ELSE index[m]]
           /\ announced' = IF log[n].kind \in Notified
                           THEN [announced EXCEPT ![n] = Enqueued(n)]
                           ELSE announced
           /\ UNCHANGED unknown
  BY <1>0 DEF ApplyEvent, tables
<1>3. /\ n \in Pending(t) /\ n \in DOMAIN log /\ n \in Nat /\ n >= 1
      /\ n \in 1 .. MaxEvents
      /\ tick[t].place < n /\ n <= tick[t].next.place
      /\ log[n] \in Entry /\ log[n].kind \in Lifecycle
      /\ log[n].ledger \in Nat /\ m \in Mandate
      /\ \A k \in tick[t].place + 1 .. n - 1 : log[k].kind \notin Lifecycle
  <2>1. /\ n \in Pending(t)
        /\ \A k \in tick[t].place + 1 .. n - 1 : log[k].kind \notin Lifecycle
    BY <1>0, <1>1, NextPending
  <2>2. n \in Nat /\ n >= 1 /\ tick[t].place < n /\ n <= tick[t].next.place
    BY <1>1, <2>1, PageInLog DEF Pending
  <2>3. n \in DOMAIN log
    BY <1>1, <2>2, PageInLog
  <2>4. log[n] \in Entry /\ n <= MaxEvents
    BY <2>3, LogFacts, IndexerAssumption DEF Inv, LogInv
  <2> QED
    BY <2>1, <2>2, <2>3, <2>4 DEF Pending, Entry
<1>4. row \in IndexRow /\ row # None /\ row.ledger # None
  <2>1. StatusAfter(log[n].kind) \in Status
    BY <1>3 DEF Lifecycle, StatusAfter, Status
  <2> QED
    BY <1>3, <2>1, NoneAssumption DEF IndexRow
<1>5. /\ tick' \in [Tick -> Run] /\ tick'[t] = r /\ r \in Run
      /\ r.pc = "apply" /\ r.place = n /\ r.next = tick[t].next
      /\ r.stored = tick[t].stored /\ r.start = tick[t].start
      /\ \A k \in Tick : k # t => tick'[k] = tick[k]
  <2>1. tick[t] \in Run
    BY <1>1, PageInLog
  <2>2. /\ r \in Run /\ r.pc = "apply" /\ r.place = n /\ r.next = tick[t].next
        /\ r.stored = tick[t].stored /\ r.start = tick[t].start
    BY <1>1, <1>3, <2>1 DEF Run
  <2> HIDE DEF r
  <2> QED
    BY <1>1, <2>2 DEF Inv, TypeOK, Run
<1> HIDE DEF r, row
\* The row, written or not, stands for the event's ledger or a later one.
<1>6. /\ RowsKept /\ index' \in [Mandate -> IndexRow \cup {None}]
      /\ known => Indexed(n)'
  <2>1. CASE ~known
    BY <1>2, <2>1, RowsUntouched DEF Inv, TypeOK
  <2>2. CASE known /\ (index[m] = None \/ MayOverwrite(index[m], log[n].ledger))
    <3>1. index' = [index EXCEPT ![m] = row]
      BY <1>2, <2>2
    <3>2. /\ index' \in [Mandate -> IndexRow \cup {None}] /\ index'[m] = row
          /\ \A k \in Mandate : k # m => index'[k] = index[k]
      BY <1>3, <1>4, <3>1 DEF Inv, TypeOK
    <3>3. Indexed(n)'
      BY <1>1, <1>3, <1>4, <3>2 DEF Indexed, row
    <3>4. RowsKept
      <4> SUFFICES ASSUME NEW k \in Mandate, index[k] # None
                   PROVE  /\ index'[k] # None
                          /\ index[k].ledger # None =>
                               /\ index'[k].ledger # None
                               /\ index'[k].ledger >= index[k].ledger
        BY DEF RowsKept
      <4>1. CASE k = m
        BY <1>4, <2>2, <3>2, <4>1 DEF MayOverwrite, row
      <4>2. CASE k # m
        BY <3>2, <4>2, RowFacts DEF Inv
      <4> QED
        BY <4>1, <4>2
    <3> QED
      BY <3>2, <3>3, <3>4
  <2>3. CASE /\ known
             /\ ~(index[m] = None \/ MayOverwrite(index[m], log[n].ledger))
    <3>1. index' = index
      <4>1. index' = [index EXCEPT ![m] = index[m]]
        BY <1>2, <2>3
      <4> QED
        BY <1>3, <4>1 DEF Inv, TypeOK
    <3>2. index[m].ledger # None /\ ~(index[m].ledger <= log[n].ledger)
      BY <2>3 DEF MayOverwrite
    <3>3. index[m].ledger \in Nat
      BY <1>3, <2>3, <3>2, RowFacts DEF Inv
    <3>4. Indexed(n)'
      BY <1>1, <1>3, <2>3, <3>1, <3>2, <3>3 DEF Indexed
    <3> QED
      BY <3>1, <3>4, RowsUntouched DEF Inv, TypeOK
  <2> QED
    BY <2>1, <2>2, <2>3
<1>7. /\ announced' \in [1 .. MaxEvents -> Nat]
      /\ \A k \in 1 .. MaxEvents : announced'[k] >= announced[k]
      /\ \A k \in 1 .. MaxEvents :
           \/ announced'[k] = announced[k]
           \/ /\ k = n /\ announced'[k] = 1 /\ known
              /\ log[n].kind \in Lifecycle \ {"completed"}
      /\ known /\ log[n].kind # "completed" => announced'[n] >= 1
  <2>1. announced \in [1 .. MaxEvents -> Nat]
    BY DEF Inv, TypeOK
  <2>2. announced[n] > 0 => announced[n] = 1
    BY <1>3 DEF Inv, AnnouncedInv
  <2>3. Enqueued(n) = 1 /\ announced[n] <= 1
    BY <1>3, <2>1, <2>2, MaxOfTwo DEF Enqueued
  <2>4. CASE known /\ log[n].kind \in Notified
    <3>1. announced' = [announced EXCEPT ![n] = 1]
      BY <1>2, <2>3, <2>4
    <3> QED
      BY <1>3, <2>1, <2>3, <2>4, <3>1 DEF Notified
  <2>5. CASE ~(known /\ log[n].kind \in Notified)
    <3>1. announced' = announced
      BY <1>2, <2>5
    <3> QED
      BY <1>3, <2>1, <2>5, <3>1 DEF Notified
  <2> QED
    BY <2>4, <2>5
<1>8. unknown \subseteq unknown' /\ unknown' \subseteq DOMAIN log
      /\ (~known => n \in unknown')
  BY <1>2, <1>3 DEF Inv, TypeOK
<1> HIDE DEF known
<1>9. TypeOK'
  BY <1>1, <1>5, <1>6, <1>7, <1>8 DEF Inv, TypeOK, Run
<1>10. Onward /\ LogInv'
  BY <1>1, <1>6, <1>7, <1>8, <1>9, UnchangedGrows DEF Inv, LogInv
<1>11. AnnouncedInv'
  <2> SUFFICES ASSUME NEW k \in 1 .. MaxEvents, announced'[k] > 0
               PROVE  /\ k \in DOMAIN log' /\ announced'[k] = 1 /\ Indexed(k)'
                      /\ log'[k].kind \in Lifecycle \ {"completed"}
    BY DEF AnnouncedInv
  <2>1. CASE announced'[k] = announced[k]
    <3>1. /\ k \in DOMAIN log /\ announced[k] = 1 /\ Indexed(k)
          /\ log[k].kind \in Lifecycle \ {"completed"}
      BY <2>1 DEF Inv, AnnouncedInv
    <3> QED
      BY <1>1, <1>9, <1>10, <2>1, <3>1, IndexedStays
      DEF Inv, Onward, Grown
  <2>2. CASE announced'[k] # announced[k]
    BY <1>1, <1>3, <1>6, <1>7, <2>2
  <2> QED
    BY <2>1, <2>2
<1>12. CursorInv'
  <2>1. \A k \in Tick, c \in Cursor : tick'[k].stored = c => tick[k].stored = c
    BY <1>5
  <2> QED
    BY <1>1, <1>10, <2>1, UpToStays DEF Inv, CursorInv
<1>13. ASSUME NEW k \in 1 .. n, AskedFor(t, k)'
       PROVE  Taken(k)'
  <2>1. k \in DOMAIN log /\ tick[t].place \in Nat /\ k \in Nat
    BY <1>1, <1>3, <1>13, PageInLog
  <2>2. CASE k <= tick[t].place
    <3>1. AskedFor(t, k)
      BY <1>1, <1>5, <1>13 DEF AskedFor
    <3>2. Taken(k)
      BY <1>1, <1>13, <2>1, <2>2, <3>1 DEF Inv, TickInv, RunInv
    <3> QED
      BY <1>9, <1>10, <2>1, <3>2, TakenStays DEF Inv, Onward
  <2>3. CASE k > tick[t].place /\ k < n
    BY <1>1, <1>3, <2>1, <2>3 DEF Taken
  <2>4. CASE k = n
    <3>1. CASE known
      <4>1. Applied(n)'
        BY <1>1, <1>6, <1>7, <3>1 DEF Applied, Indexed
      <4> QED
        BY <2>4, <4>1 DEF Taken
    <3>2. CASE ~known
      BY <1>8, <2>4, <3>2 DEF Taken
    <3> QED
      BY <3>1, <3>2
  <2> QED
    BY <1>3, <1>13, <2>1, <2>2, <2>3, <2>4
<1>14. RunInv(t)'
  <2>1. \A c \in Cursor : r.next = c => WellPlaced(c)'
    BY <1>1, <1>5, <1>9, <1>10, PageInLog, PlacedStays DEF Onward, Grown, Inv
  <2>2. r.stored = None => r.start <= tip'
    BY <1>1, <1>5 DEF Inv, TickInv, RunInv
  <2>3. r.next # None /\ n <= r.next.place
    BY <1>1, <1>3, <1>5, PageInLog, NoneIsNoCursor
  <2> QED
    BY <1>5, <1>13, <2>1, <2>2, <2>3 DEF RunInv
<1>15. TickInv'
  BY <1>1, <1>5, <1>10, <1>14, OtherRuns
<1> QED
  BY <1>9, <1>10, <1>11, <1>12, <1>15 DEF Inv

LEMMA AdvanceKeeps ==
  ASSUME Inv, NEW t \in Tick, Advance(t)
  PROVE  Inv'
<1> DEFINE stored == tick[t].stored
<1>0. PICK next \in Cursor :
        /\ next = tick[t].next /\ WellPlaced(next) /\ next.place \in Nat
        /\ tick[t].pc = "apply" /\ tick[t].place <= next.place
        /\ tick[t].place \in Nat /\ tick[t] \in Run
        /\ \A n \in 1 .. next.place : n \in DOMAIN log
  BY PageInLog DEF Advance
<1>1. /\ tick' = [tick EXCEPT ![t] = Idle] /\ Pending(t) = {}
      /\ UNCHANGED <<tip, log, registered, index, announced, reader, unknown,
                     lost, faults>>
  BY DEF Advance, chain
<1>2. CASE cursor # stored
  <2>1. UNCHANGED <<chain, tables, reader, history, faults>>
    BY <1>1, <1>2 DEF Advance, CursorUnmoved, tables, chain, history
  <2> QED
    BY <1>1, <2>1, GoesIdle DEF Inv, TypeOK
<1>3. CASE cursor = stored
  <2>1. /\ cursor' = next
        /\ origin' = IF stored = None THEN PlaceBefore(tick[t].start) ELSE origin
    BY <1>0, <1>3 DEF Advance, CursorUnmoved
  <2>2. /\ tick' \in [Tick -> Run] /\ tick'[t] = Idle
        /\ \A k \in Tick : k # t => tick'[k] = tick[k]
    BY <1>1, IdleIsRun DEF Inv, TypeOK, Run
  <2>3. /\ origin' \in Nat
        /\ stored = None =>
             \A n \in DOMAIN log : n > origin' => log[n].ledger >= tick[t].start
        /\ stored # None => origin' = origin /\ TakenUpTo(stored)
                              /\ stored \in Cursor
    <3>1. CASE stored = None
      <4>1. tick[t].start \in Int /\ Len(log) \in Nat
            /\ DOMAIN log = 1 .. Len(log)
            /\ \A n \in DOMAIN log : log[n].ledger \in Nat
        BY <1>0, LogFacts DEF Run, Inv, Entry
      <4>2. /\ PlaceBefore(tick[t].start) \in 0 .. Len(log)
            /\ \A n \in DOMAIN log : log[n].ledger < tick[t].start
                 <=> n <= PlaceBefore(tick[t].start)
        BY <4>1, BeforeIsFirst DEF Inv
      <4> QED
        BY <2>1, <3>1, <4>1, <4>2
    <3>2. CASE stored # None
      <4>1. stored \in Cursor
        BY <1>0, <3>2 DEF Run
      <4> QED
        BY <2>1, <3>2, <4>1 DEF Inv, CursorInv, TakenUpTo
    <3> QED
      BY <3>1, <3>2
  <2>4. TypeOK'
    BY <1>1, <2>1, <2>2, <2>3 DEF Inv, TypeOK, Run
  <2>5. Onward /\ LogInv'
    BY <1>1, <2>4, UnchangedGrows, RowsUntouched, AnnouncedUntouched
    DEF Inv, LogInv
  <2>6. AnnouncedInv'
    BY <1>1, <2>5, AnnouncedStays
\* From where the first run started, or the stored cursor, to where it is now.
  <2>7. ASSUME NEW n \in origin' + 1 .. next.place
        PROVE  n \in DOMAIN log /\ Taken(n)
    <3>1. n \in 1 .. next.place /\ n \in DOMAIN log /\ n > origin'
      BY <1>0, <2>3, <2>7
    <3>2. CASE n > tick[t].place
      BY <1>0, <1>1, <3>1, <3>2, NextPending DEF Taken
    <3>3. CASE n <= tick[t].place
      <4>1. CASE AskedFor(t, n)
        BY <1>0, <3>1, <3>3, <4>1 DEF Inv, TickInv, RunInv
      <4>2. CASE ~AskedFor(t, n)
        <5>1. stored # None
          BY <2>3, <3>1, <4>2 DEF AskedFor
        <5>2. n <= stored.place /\ n \in origin + 1 .. stored.place
          BY <2>3, <3>1, <4>2, <5>1 DEF AskedFor, Cursor
        <5> QED
          BY <2>3, <3>1, <5>1, <5>2 DEF TakenUpTo
      <4> QED
        BY <4>1, <4>2
    <3>4. n \in Int /\ tick[t].place \in Int
      BY <1>0, <3>1
    <3> QED
      BY <3>1, <3>2, <3>3, <3>4
  <2>8. WellPlaced(next)' /\ TakenUpTo(next)'
    <3>1. WellPlaced(next)'
      BY <1>0, <2>4, <2>5, PlacedStays DEF Inv, Onward, Grown
    <3>2. \A n \in origin' + 1 .. next.place : Taken(n)'
      BY <2>4, <2>5, <2>7, TakenStays DEF Inv, Onward
    <3> QED
      BY <2>3, <3>1, <3>2 DEF TakenUpTo
  <2>9. CursorInv'
    <3> SUFFICES ASSUME NEW c \in Cursor,
                        cursor' = c \/ \E k \in Tick : tick'[k].stored = c
                 PROVE  WellPlaced(c)' /\ TakenUpTo(c)'
      BY <2>1, NoneIsNoCursor DEF CursorInv
    <3>1. CASE c = next
      BY <2>8, <3>1
    <3>2. CASE c # next
      <4>1. \E k \in Tick : tick[k].stored = c
        BY <2>1, <2>2, <3>2, NoneIsNoCursor DEF Idle
      <4>2. cursor # None /\ WellPlaced(c) /\ TakenUpTo(c)
        BY <4>1 DEF Inv, CursorInv
      <4>3. origin' = origin
        BY <1>3, <2>3, <4>2
      <4> QED
        BY <2>5, <4>2, <4>3, UpToStays
    <3> QED
      BY <3>1, <3>2
  <2>10. RunInv(t)'
    BY <2>2 DEF RunInv, Idle
  <2>11. TickInv'
    BY <1>1, <2>5, <2>10, IdleIsRun, OtherRuns
  <2> QED
    BY <2>4, <2>5, <2>6, <2>9, <2>11 DEF Inv
<1> QED
  BY <1>2, <1>3

-----------------------------------------------------------------------------
(* The theorems.                                                           *)

LEMMA InvInit == Init => Inv
<1> SUFFICES ASSUME Init PROVE Inv
  OBVIOUS
<1>1. TypeOK
  <2>1. log \in Seq(Entry) /\ tick \in [Tick -> Run]
    BY IdleIsRun DEF Init
  <2> QED
    BY <2>1, IndexerAssumption DEF Init, TypeOK, Entry, Run
<1>2. LogInv
  BY IndexerAssumption DEF Init, LogInv
<1>3. AnnouncedInv /\ TickInv
  BY DEF Init, AnnouncedInv, TickInv, RunInv, Idle
<1>4. CursorInv
  BY NoneIsNoCursor DEF Init, CursorInv, Idle
<1> QED
  BY <1>1, <1>2, <1>3, <1>4 DEF Inv

LEMMA InvStep ==
  ASSUME Inv, [Next]_vars
  PROVE  Inv'
<1>1. CASE UNCHANGED vars
  <2>1. UNCHANGED <<tip, log, registered, cursor, index, announced, tick,
                    reader, unknown, lost, origin, faults>>
    BY <1>1 DEF vars, chain, tables, history
  <2>2. TypeOK'
    BY <2>1 DEF Inv, TypeOK
  <2>3. Onward /\ LogInv'
    BY <2>1, <2>2, UnchangedGrows, RowsUntouched, AnnouncedUntouched
    DEF Inv, LogInv
  <2> QED
    BY <2>1, <2>3, OutsideKeeps
<1>2. CASE Next
  BY <1>2, RegisterKeeps, EmitKeeps, CloseLedgerKeeps, StartTickKeeps,
     FetchKeeps, ApplyEventKeeps, AdvanceKeeps, TickFailsKeeps, ReaderKeeps
  DEF Next, TickStep
<1> QED
  BY <1>1, <1>2

LEMMA Invariance == Spec => []Inv
<1>1. Inv /\ [Next]_vars => Inv'
  BY InvStep
<1> QED
  BY <1>1, InvInit, PTL DEF Spec

\* Types: the rows of MandateIndex and IndexerCursor, and a tick's variables.
THEOREM TypeCorrectness == Spec => []TypeOK
<1>1. Inv => TypeOK
  BY DEF Inv
<1> QED
  BY <1>1, Invariance, PTL

\* upsertMandateIndexFromEvent and the webhook in one transaction: however
\* often an event is applied, it is announced at most once.
THEOREM AnnouncementsAreOnce == Spec => []AnnouncedOnce
<1>1. Inv => AnnouncedOnce
  <2> SUFFICES ASSUME Inv, NEW n \in DOMAIN log
               PROVE  announced[n] <= IF log[n].kind \in Lifecycle \ {"completed"}
                                      THEN 1 ELSE 0
    BY DEF AnnouncedOnce
  <2>1. n \in 1 .. MaxEvents
    BY LogFacts, IndexerAssumption DEF Inv, LogInv
  <2>2. announced[n] \in Nat
    BY <2>1 DEF Inv, TypeOK
  <2> QED
    BY <2>1, <2>2 DEF Inv, AnnouncedInv
<1> QED
  BY <1>1, Invariance, PTL

\* The upsert's WHERE clause: the index never falls behind what a merchant
\* has been told, whoever writes it.
THEOREM IndexKeepsUp == Spec => []IndexNotBehind
<1>1. Inv => IndexNotBehind
  <2> SUFFICES ASSUME Inv, NEW n \in DOMAIN log, announced[n] > 0
               PROVE  Indexed(n)
    BY DEF IndexNotBehind, Indexed
  <2>1. n \in 1 .. MaxEvents
    BY LogFacts, IndexerAssumption DEF Inv, LogInv
  <2> QED
    BY <2>1 DEF Inv, AnnouncedInv
<1> QED
  BY <1>1, Invariance, PTL

\* runIndexerTick and advanceIndexerCursor: between the first run's start and
\* the cursor every event was applied, logged as of an unknown merchant, or
\* is the rest of a ledger that a page split and the RPC node dropped.
THEOREM NothingIsSkipped == Spec => []NothingSkipped
<1>1. Inv => NothingSkipped
  <2> SUFFICES ASSUME Inv, cursor # None
               PROVE  \A n \in origin + 1 .. cursor.place : Taken(n)
    BY DEF NothingSkipped, Taken
  <2>1. cursor \in Cursor
    BY DEF Inv, TypeOK
  <2> QED
    BY <2>1 DEF Inv, CursorInv, TakenUpTo
<1> QED
  BY <1>1, Invariance, PTL

=============================================================================
