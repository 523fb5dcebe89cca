------------------------ MODULE SourcedStockProofs ------------------------
(***************************************************************************)
(* What SourcedStock keeps for every number of requests, tickets, bookings, *)
(* items and entries: stamps and realized accruals name issues that were    *)
(* made for them and moved stock.  The argument is about the row id that a  *)
(* request reserves: from then on no one else inserts under it, so what an  *)
(* entry was made for never changes.                                       *)
(***************************************************************************)
EXTENDS SourcedStock, FiniteSetTheorems, TLAPS
----------------------------------------------------------------------------
(* Entries *)

Own(e, s) == e \in Entry /\ source[e] = s

Issued(e, s) == Own(e, s) /\ state[e] # "open"

(* Reserved, but not inserted. *)
Fresh(e) == e \in Entry /\ e < next /\ source[e] = None

Unmade == \A e \in Entry : e >= next => source[e] = None

(* What every step does to the stock. *)
Forward ==
  /\ StockTypes'
  /\ next <= next'
  /\ \A e \in Entry : state[e] # "open" => state'[e] # "open"
  /\ \A e \in Entry : source[e] # None =>
       source'[e] = source[e] /\ (state[e] # "open" => lines'[e] = lines[e])

(* Nothing is inserted but under an id of X. *)
InsertsOnly(X) == \A e \in Entry \ X : source'[e] = source[e]

LEMMA NextShape == StockTypes => next \in Nat /\ Entry \subseteq Nat
BY StockBounds DEF StockTypes, Entry

LEMMA OwnKept ==
  ASSUME Forward, NEW s \in Source, NEW e, Own(e, s)
  PROVE  Own(e, s)'
BY SourcesDiffer DEF Forward, Own

LEMMA IssuedKept ==
  ASSUME Forward, NEW s \in Source, NEW e, Issued(e, s)
  PROVE  Issued(e, s)' /\ lines'[e] = lines[e]
BY SourcesDiffer, OwnKept DEF Forward, Issued, Own

LEMMA FreshKept ==
  ASSUME StockTypes, Forward, NEW X, InsertsOnly(X), NEW e, Fresh(e), e \notin X
  PROVE  Fresh(e)'
<1>1. next \in Nat /\ next' \in Nat /\ Entry \subseteq Nat
  BY NextShape, StockBounds DEF Forward, StockTypes
<1> QED  BY <1>1 DEF Forward, InsertsOnly, Fresh

LEMMA ForwardStays ==
  ASSUME StockTypes, PosOnly
  PROVE  Forward /\ InsertsOnly({})
BY DEF PosOnly, book, entries, Forward, InsertsOnly, StockTypes

(* What moves an entry's quantities. *)
LEMMA MovementShape ==
  ASSUME StockTypes, NEW e \in Entry
  PROVE  Movement(e) \in [Bin -> -1 .. 1] /\ Book!Nothing \in [Bin -> -1 .. 1]
BY DEF Movement, Book!Nothing

LEMMA MovesShape ==
  ASSUME StockTypes, NEW e \in Entry, NEW old, NEW new \in {"posted", "reversed"},
         NEW m \in [Bin -> -1 .. 1],
         moved' = [moved EXCEPT ![e] = m], Book!Moves(e, old, new), UNCHANGED entries
  PROVE  Forward /\ InsertsOnly({}) /\ state'[e] = new
<1>1. moved' \in [Entry -> [Bin -> -1 .. 1]]
  BY DEF StockTypes
<1>2. \A b \in Bin : moved[e][b] \in Int /\ moved'[e][b] \in Int
  BY <1>1 DEF StockTypes
<1>3. onHand' \in [Bin -> Int]
  BY <1>2 DEF Book!Moves, StockTypes
<1>4. state' = [state EXCEPT ![e] = new] /\ state \in [Entry -> {"open", "posted", "reversed"}]
  BY DEF Book!Moves, StockTypes
<1>5. UNCHANGED <<rows, source, lines, next>>
  BY DEF entries
<1>6. next <= next'
  BY <1>5, NextShape
<1>7. StockTypes'
  BY <1>1, <1>3, <1>4, <1>5 DEF StockTypes
<1> QED  BY <1>4, <1>5, <1>6, <1>7 DEF Forward, InsertsOnly

LEMMA SubmitShape ==
  ASSUME StockTypes, NEW e \in Entry, SubmitEntry(e)
  PROVE  Forward /\ InsertsOnly({}) /\ state'[e] = "posted"
BY MovementShape, MovesShape DEF SubmitEntry, Book!Submit

LEMMA CancelShape ==
  ASSUME StockTypes, NEW e \in Entry, CancelEntry(e)
  PROVE  Forward /\ InsertsOnly({})
BY MovementShape, MovesShape DEF CancelEntry, Book!Cancel

LEMMA DeleteShape ==
  ASSUME StockTypes, NEW e \in Entry, DeleteEntry(e)
  PROVE  Forward /\ InsertsOnly({})
<1>1. UNCHANGED <<onHand, state, moved, source, lines, next>> /\ rows' \subseteq rows
  BY DEF DeleteEntry, book
<1> QED  BY <1>1, NextShape DEF Forward, InsertsOnly, StockTypes

LEMMA UpdateShape ==
  ASSUME StockTypes, NEW e \in Entry, UpdateEntry(e)
  PROVE  Forward /\ InsertsOnly({})
<1>1. UNCHANGED <<onHand, state, moved, rows, source, next>> /\ state[e] = "open"
  BY DEF UpdateEntry, Draft, book
<1>2. PICK items \in SUBSET Bin : lines' = [lines EXCEPT ![e] = items]
  BY DEF UpdateEntry
<1>3. StockTypes'
  BY <1>1, <1>2 DEF StockTypes
<1>4. \A f \in Entry : state[f] # "open" => lines'[f] = lines[f]
  BY <1>1, <1>2 DEF StockTypes
<1> QED  BY <1>1, <1>3, <1>4, NextShape DEF Forward, InsertsOnly

LEMMA InsertShape ==
  ASSUME StockTypes, NEW e, Fresh(e), NEW s \in Source, NEW items \in SUBSET Bin,
         InsertDraft(e, s, items)
  PROVE  Forward /\ InsertsOnly({e}) /\ Own(e, s)'
<1>1. UNCHANGED <<onHand, state, moved, next>> /\ e \in Entry
  BY DEF InsertDraft, book, Fresh
<1>2. StockTypes'
  <2>1. rows' \subseteq Entry /\ source' \in [Entry -> Source \cup {None}]
    BY <1>1 DEF InsertDraft, StockTypes
  <2>2. lines' \in [Entry -> SUBSET Bin]
    BY <1>1 DEF InsertDraft, StockTypes
  <2> QED  BY <1>1, <2>1, <2>2 DEF StockTypes
<1>3. source'[e] = s /\ \A f \in Entry \ {e} : source'[f] = source[f] /\ lines'[f] = lines[f]
  BY <1>1 DEF InsertDraft, StockTypes
<1> QED  BY <1>1, <1>2, <1>3, NextShape DEF Forward, InsertsOnly, Own, Fresh

LEMMA ReserveShape ==
  ASSUME StockTypes, Unmade, Reserve, UNCHANGED <<book, rows, source, lines>>
  PROVE  Forward /\ InsertsOnly({}) /\ \A e : e = next => Fresh(e)'
<1>1. next \in Entry /\ next' = next + 1 /\ UNCHANGED <<onHand, state, moved, rows, source, lines>>
  BY DEF Reserve, book
<1>2. next \in Nat /\ MaxEntry \in Nat /\ next <= MaxEntry
  BY <1>1, StockBounds DEF Entry
<1>3. StockTypes'
  BY <1>1, <1>2 DEF StockTypes
<1>4. source[next] = None
  BY <1>1, <1>2 DEF Unmade
<1>5. \A e : e = next => Fresh(e)'
  BY <1>1, <1>2, <1>4 DEF Fresh
<1> QED  BY <1>1, <1>2, <1>3, <1>5 DEF Forward, InsertsOnly

(* A set of entries that is not empty has a latest. *)
LEMMA LatestExists ==
  ASSUME NEW I \in SUBSET Entry, I # {}
  PROVE  \E e \in I : \A f \in I : f <= e
<1> DEFINE After(e) == e + 1 .. MaxEntry
           T == {After(e) : e \in I}
<1>1. I \subseteq Nat /\ \A e \in I : e <= MaxEntry
  BY StockBounds DEF Entry
<1>2. T \subseteq FiniteSubsetsOf(Nat) /\ T # {}
  <2>1. ASSUME NEW e \in I
        PROVE  IsFiniteSet(After(e)) /\ After(e) \subseteq Nat
    BY <1>1, StockBounds, FS_Interval
  <2> QED  BY <2>1 DEF FiniteSubsetsOf
<1>3. \E x \in T : \A y \in T : ~(<<y, x>> \in StrictSubsetOrdering(Nat))
  <2> HIDE DEF T
  <2> QED  BY <1>2, FS_StrictSubsetOrderingWellFounded, WFMin
<1>4. PICK e \in I : \A f \in I : ~(<<After(f), After(e)>> \in StrictSubsetOrdering(Nat))
  BY <1>3
<1>5. ASSUME NEW f \in I, ~(f <= e)
      PROVE  FALSE
  <2>1. /\ After(f) \subseteq After(e) /\ After(e) \subseteq Nat
        /\ f \in After(e) /\ f \notin After(f)
    BY <1>1, <1>5, StockBounds
  <2> HIDE DEF After
  <2> QED  BY <1>4, <2>1 DEF StrictSubsetOrdering
<1> QED  BY <1>5

(* And a set of times an earliest. *)
LEMMA EarliestExists ==
  ASSUME NEW I, NEW n, I \subseteq 1 .. n, I # {}
  PROVE  (CHOOSE x \in I : \A y \in I : x <= y) \in I
<1> DEFINE Before(e) == 0 .. e
           T == {Before(e) : e \in I}
<1>1. I \subseteq Nat
  OBVIOUS
<1>2. T \subseteq FiniteSubsetsOf(Nat) /\ T # {}
  <2>1. ASSUME NEW e \in I
        PROVE  IsFiniteSet(Before(e)) /\ Before(e) \subseteq Nat
    BY <1>1, FS_Interval
  <2> QED  BY <2>1 DEF FiniteSubsetsOf
<1>3. \E x \in T : \A y \in T : ~(<<y, x>> \in StrictSubsetOrdering(Nat))
  <2> HIDE DEF T
  <2> QED  BY <1>2, FS_StrictSubsetOrderingWellFounded, WFMin
<1>4. PICK e \in I : \A f \in I : ~(<<Before(f), Before(e)>> \in StrictSubsetOrdering(Nat))
  BY <1>3
<1>5. ASSUME NEW f \in I, ~(e <= f)
      PROVE  FALSE
  <2>1. /\ Before(f) \subseteq Before(e) /\ Before(e) \subseteq Nat
        /\ e \in Before(e) /\ e \notin Before(f)
    BY <1>1, <1>5
  <2> HIDE DEF Before
  <2> QED  BY <1>4, <2>1 DEF StrictSubsetOrdering
<1> QED  BY <1>5

(* The issue that is found is one of the source's. *)
LEMMA FindShape ==
  ASSUME StockTypes, NEW s, FindEntryBySource(s) # None
  PROVE  /\ FindEntryBySource(s) \in Entry
         /\ Own(FindEntryBySource(s), s)
         /\ state[FindEntryBySource(s)] \in {"open", "posted"}
<1>1. IssuesOf(s) \in SUBSET Entry /\ IssuesOf(s) # {}
  BY DEF FindEntryBySource, IssuesOf, StockTypes
<1>2. FindEntryBySource(s) \in IssuesOf(s)
  <2>1. \E e \in IssuesOf(s) : \A f \in IssuesOf(s) : f <= e
    BY <1>1, LatestExists
  <2> QED  BY <1>1, <2>1 DEF FindEntryBySource
<1> QED  BY <1>1, <1>2 DEF IssuesOf, Own, StockTypes

----------------------------------------------------------------------------
(* What a request knows *)

(* Of its ticket, and of the entry in hand. *)
TillSure(k) ==
  /\ k.pc \notin {"idle", "close"} => k.t \in Ticket
  /\ k.pc = "insert" => Fresh(k.entry)
  /\ k.pc = "submit" => Own(k.entry, k.t)
  /\ k.pc \in {"stamp", "shift", "cancel"} /\ k.entry # None => Issued(k.entry, k.t)
  /\ k.pc = "cancel" => k.entry # None

DeskSure(k) ==
  /\ k.pc # "idle" => k.b \in Booking
  /\ k.pc = "set" => k.to \in Statuses \ {"absent"}
  /\ k.pc = "insert" => Fresh(k.entry)
  /\ k.pc = "submit" => Own(k.entry, k.b)
  /\ k.pc = "realize" => Issued(k.entry, k.b)

(* The id a request has reserved. *)
Held(k) == IF k.pc = "insert" THEN {k.entry} ELSE {}

Apart ==
  /\ \A c, d \in Till : c # d => Held(till[c]) \cap Held(till[d]) = {}
  /\ \A c, d \in Desk : c # d => Held(desk[c]) \cap Held(desk[d]) = {}
  /\ \A c \in Till, d \in Desk : Held(till[c]) \cap Held(desk[d]) = {}

Stamped ==
  \A t \in Ticket : ticket[t].stamp # None => Issued(ticket[t].stamp, t)

Realized ==
  \A b \in Booking, a \in Accrual : accrual[b][a].status = "realized" =>
    Issued(accrual[b][a].entry, b) /\ a[2] \in lines[accrual[b][a].entry]

Inv ==
  /\ TypeOK
  /\ Unmade
  /\ \A c \in Till : TillSure(till[c])
  /\ \A c \in Desk : DeskSure(desk[c])
  /\ Apart
  /\ Stamped
  /\ Realized

LEMMA TillSureKept ==
  ASSUME StockTypes, Forward, NEW X, InsertsOnly(X),
         NEW k, TillSure(k), Held(k) \cap X = {}
  PROVE  TillSure(k)'
<1>1. k.pc = "insert" => Fresh(k.entry)'
  BY FreshKept DEF TillSure, Held
<1>2. k.pc = "submit" => Own(k.entry, k.t)'
  BY OwnKept DEF TillSure, Source
<1>3. k.pc \in {"stamp", "shift", "cancel"} /\ k.entry # None => Issued(k.entry, k.t)'
  BY IssuedKept DEF TillSure, Source
<1> QED  BY <1>1, <1>2, <1>3 DEF TillSure

LEMMA DeskSureKept ==
  ASSUME StockTypes, Forward, NEW X, InsertsOnly(X),
         NEW k, DeskSure(k), Held(k) \cap X = {}
  PROVE  DeskSure(k)'
<1>1. k.pc = "insert" => Fresh(k.entry)'
  BY FreshKept DEF DeskSure, Held
<1>2. k.pc = "submit" => Own(k.entry, k.b)'
  BY OwnKept DEF DeskSure, Source
<1>3. k.pc = "realize" => Issued(k.entry, k.b)'
  BY IssuedKept DEF DeskSure, Source
<1> QED  BY <1>1, <1>2, <1>3 DEF DeskSure

LEMMA StampedKept ==
  ASSUME Forward, Stamped, UNCHANGED ticket
  PROVE  Stamped'
BY IssuedKept DEF Stamped, Source

LEMMA RealizedKept ==
  ASSUME Forward, Realized, UNCHANGED accrual
  PROVE  Realized'
BY IssuedKept DEF Realized, Source

(* Entries that are not reserved yet carry no source. *)
LEMMA UnmadeKept ==
  ASSUME StockTypes, Unmade, Forward, NEW X, InsertsOnly(X), \A e \in X : e < next'
  PROVE  Unmade'
<1>1. next \in Nat /\ next' \in Nat /\ Entry \subseteq Nat
  BY NextShape, StockBounds DEF Forward, StockTypes
<1>2. ASSUME NEW e \in Entry, e >= next'
      PROVE  source'[e] = None
  <2>1. e \in Nat /\ e \notin X
    BY <1>1, <1>2
  <2>2. e >= next
    BY <1>1, <1>2, <2>1 DEF Forward
  <2> QED  BY <2>1, <2>2 DEF Unmade, InsertsOnly
<1> QED  BY <1>2 DEF Unmade

(* What a request of the point of sale leaves: its own call k, and an id   *)
(* that is new if it reserved one.                                         *)
TillTo(c, k) ==
  /\ k \in TillCall
  /\ till' = [till EXCEPT ![c] = k]
  /\ TillSure(k)'
  /\ k.pc = "insert" => k.entry = next

DeskTo(c, k) ==
  /\ k \in DeskCall
  /\ desk' = [desk EXCEPT ![c] = k]
  /\ DeskSure(k)'
  /\ k.pc = "insert" => k.entry = next

(* No one holds an id that is not reserved yet. *)
LEMMA HeldShape ==
  ASSUME Inv
  PROVE  /\ \A c \in Till : \A e \in Held(till[c]) : Fresh(e)
         /\ \A c \in Desk : \A e \in Held(desk[c]) : Fresh(e)
         /\ ~Fresh(next)
<1>1. next \in Nat
  BY NextShape DEF Inv, TypeOK
<1> QED  BY <1>1 DEF Inv, TillSure, DeskSure, Held, Fresh

LEMMA ApartTill ==
  ASSUME Inv, NEW c \in Till, NEW k, TillTo(c, k), UNCHANGED desk
  PROVE  Apart'
<1>1. till \in [Till -> TillCall]
  BY DEF Inv, TypeOK, PosTypes
<1>2. till'[c] = k /\ \A d \in Till : d # c => till'[d] = till[d]
  BY <1>1 DEF TillTo
<1>3. Held(k) \subseteq {next}
  BY DEF TillTo, Held
<1>4. /\ \A d \in Till : next \notin Held(till[d])
      /\ \A d \in Desk : next \notin Held(desk[d])
  BY HeldShape
<1>5. \A d \in Till : Held(till[d])' = IF d = c THEN Held(k) ELSE Held(till[d])
  BY <1>2 DEF Held
<1>6. \A d \in Desk : Held(desk[d])' = Held(desk[d])
  BY DEF Held
<1>7. Apart
  BY DEF Inv
<1>8. \A d, f \in Till : d # f => Held(till[d])' \cap Held(till[f])' = {}
  BY <1>3, <1>4, <1>5, <1>7 DEF Apart
<1>9. \A d, f \in Desk : d # f => Held(desk[d])' \cap Held(desk[f])' = {}
  BY <1>6, <1>7 DEF Apart
<1>10. \A d \in Till, f \in Desk : Held(till[d])' \cap Held(desk[f])' = {}
  BY <1>3, <1>4, <1>5, <1>6, <1>7 DEF Apart
<1> QED  BY <1>8, <1>9, <1>10 DEF Apart

LEMMA ApartDesk ==
  ASSUME Inv, NEW c \in Desk, NEW k, DeskTo(c, k), UNCHANGED till
  PROVE  Apart'
<1>1. desk \in [Desk -> DeskCall]
  BY DEF Inv, TypeOK, BookingTypes
<1>2. desk'[c] = k /\ \A d \in Desk : d # c => desk'[d] = desk[d]
  BY <1>1 DEF DeskTo
<1>3. Held(k) \subseteq {next}
  BY DEF DeskTo, Held
<1>4. /\ \A d \in Till : next \notin Held(till[d])
      /\ \A d \in Desk : next \notin Held(desk[d])
  BY HeldShape
<1>5. \A d \in Desk : Held(desk[d])' = IF d = c THEN Held(k) ELSE Held(desk[d])
  BY <1>2 DEF Held
<1>6. \A d \in Till : Held(till[d])' = Held(till[d])
  BY DEF Held
<1>7. Apart
  BY DEF Inv
<1>8. \A d, f \in Desk : d # f => Held(desk[d])' \cap Held(desk[f])' = {}
  BY <1>3, <1>4, <1>5, <1>7 DEF Apart
<1>9. \A d, f \in Till : d # f => Held(till[d])' \cap Held(till[f])' = {}
  BY <1>6, <1>7 DEF Apart
<1>10. \A d \in Till, f \in Desk : Held(till[d])' \cap Held(desk[f])' = {}
  BY <1>3, <1>4, <1>5, <1>6, <1>7 DEF Apart
<1> QED  BY <1>8, <1>9, <1>10 DEF Apart

----------------------------------------------------------------------------
(* The steps of the point of sale *)

TillPcs == {"post", "find", "resolve", "guard", "insert", "submit", "stamp",
            "shift", "cancel", "void"}

Warnings == {"none", "stock", "void_stock_failed"}

TillWith(c, pc, e, wn) == [till[c] EXCEPT !.pc = pc, !.entry = e, !.warning = wn]

LEMMA TillShape ==
  ASSUME Inv, NEW c \in Till
  PROVE  /\ till[c] \in TillCall
         /\ till[c].pc \notin {"idle", "close"} => till[c].t \in Ticket
BY DEF Inv, TypeOK, PosTypes, TillSure

LEMMA TillGoes ==
  ASSUME Inv, NEW c \in Till, NEW pc, TillGo(c, pc)
  PROVE  till' = [till EXCEPT ![c] = TillWith(c, pc, till[c].entry, till[c].warning)]
<1>1. PICK b : b = till[c]
  OBVIOUS
<1>2. b \in TillCall
  BY <1>1, TillShape
<1>3. [b EXCEPT !.pc = pc]
      = [b EXCEPT !.pc = pc, !.entry = b.entry, !.warning = b.warning]
  BY <1>2 DEF TillCall
<1> QED  BY <1>1, <1>3 DEF TillGo, TillWith

LEMMA TillEntry ==
  ASSUME Inv, NEW c \in Till, NEW pc, NEW e,
         till' = [till EXCEPT ![c].entry = e, ![c].pc = pc]
  PROVE  till' = [till EXCEPT ![c] = TillWith(c, pc, e, till[c].warning)]
<1>1. PICK b : b = till[c]
  OBVIOUS
<1>2. b \in TillCall
  BY <1>1, TillShape
<1>3. [b EXCEPT !.entry = e, !.pc = pc]
      = [b EXCEPT !.pc = pc, !.entry = e, !.warning = b.warning]
  BY <1>2 DEF TillCall
<1>4. till' = [till EXCEPT ![c] = [b EXCEPT !.entry = e, !.pc = pc]]
  BY <1>1
<1> QED  BY <1>1, <1>3, <1>4 DEF TillWith

LEMMA TillWithShape ==
  ASSUME Inv, NEW c \in Till, NEW pc \in TillPcs, NEW e \in Entry \cup {None},
         NEW wn \in Warnings, NEW k, k = TillWith(c, pc, e, wn)
  PROVE  k \in TillCall /\ k.pc = pc /\ k.entry = e /\ k.t = till[c].t
<1>1. PICK b : b = till[c]
  OBVIOUS
<1>2. b \in TillCall
  BY <1>1, TillShape
<1>3. k = [b EXCEPT !.pc = pc, !.entry = e, !.warning = wn]
  BY <1>1 DEF TillWith
<1>4. k \in TillCall /\ k.pc = pc /\ k.entry = e /\ k.t = b.t
  BY <1>2, <1>3 DEF TillCall, TillPcs, Warnings
<1> QED  BY <1>1, <1>4

(* A request goes on with its ticket. *)
LEMMA TillOn ==
  ASSUME Inv, NEW c \in Till, till[c].pc \notin {"idle", "close"},
         NEW pc \in TillPcs, NEW e \in Entry \cup {None}, NEW wn \in Warnings,
         till' = [till EXCEPT ![c] = TillWith(c, pc, e, wn)],
         pc = "insert" => Fresh(e)' /\ e = next,
         \A t : t = till[c].t =>
           /\ pc = "submit" => Own(e, t)'
           /\ pc \in {"stamp", "shift", "cancel"} /\ e # None => Issued(e, t)',
         pc = "cancel" => e # None
  PROVE  \E k : TillTo(c, k)
<1>1. PICK k : k = TillWith(c, pc, e, wn)
  OBVIOUS
<1>2. k \in TillCall /\ k.pc = pc /\ k.entry = e /\ k.t = till[c].t
  BY <1>1, TillWithShape
<1>3. k.t \in Ticket
  BY <1>2, TillShape
<1>4. TillSure(k)'
  BY <1>2, <1>3 DEF TillSure
<1> QED  BY <1>1, <1>2, <1>4 DEF TillTo

(* ... while the stock stays as it is. *)
LEMMA TillOnQuiet ==
  ASSUME Inv, PosOnly, NEW c \in Till, till[c].pc \notin {"idle", "close"},
         NEW pc \in TillPcs \ {"insert"}, NEW e \in Entry \cup {None}, NEW wn \in Warnings,
         till' = [till EXCEPT ![c] = TillWith(c, pc, e, wn)],
         pc = "submit" => Own(e, till[c].t),
         pc \in {"stamp", "shift", "cancel"} /\ e # None => Issued(e, till[c].t),
         pc = "cancel" => e # None
  PROVE  \E k : TillTo(c, k)
<1>1. \A t : /\ Own(e, t) => Own(e, t)'
             /\ Issued(e, t) => Issued(e, t)'
  BY DEF PosOnly, book, entries, Own, Issued
<1> QED  BY <1>1, TillOn

LEMMA TillEnds ==
  ASSUME NEW c \in Till, TillDone(c)
  PROVE  \E k : TillTo(c, k)
<1>1. PICK k : k = TillIdle
  OBVIOUS
<1>2. k \in TillCall /\ k.pc = "idle"
  BY <1>1 DEF TillIdle, TillCall
<1>3. TillSure(k)'
  BY <1>2 DEF TillSure
<1> QED  BY <1>1, <1>2, <1>3 DEF TillTo, TillDone

(* A request takes up a ticket. *)
LEMMA TillBegins ==
  ASSUME Inv, PosOnly, NEW c \in Till, NEW t \in Ticket, NEW pc \in {"sell", "post", "shift"},
         NEW e \in Entry \cup {None}, e # None => Issued(e, t),
         TakeUp(c, t, [TillIdle EXCEPT !.pc = pc, !.t = t, !.entry = e])
  PROVE  /\ \E k : TillTo(c, k)
         /\ posCrossed' \subseteq Ticket
<1>1. PICK k : k = [TillIdle EXCEPT !.pc = pc, !.t = t, !.entry = e]
  OBVIOUS
<1>2. k \in TillCall /\ k.pc = pc /\ k.t = t /\ k.entry = e
  BY <1>1 DEF TillIdle, TillCall
<1>3. Issued(e, t) => Issued(e, t)'
  BY DEF PosOnly, book, entries, Own, Issued
<1>4. TillSure(k)'
  BY <1>2, <1>3 DEF TillSure
<1>5. till' = [till EXCEPT ![c] = k] /\ posCrossed' \subseteq Ticket
  BY <1>1 DEF TakeUp, Inv, TypeOK, PosTypes
<1> QED  BY <1>2, <1>4, <1>5 DEF TillTo

(* What a step of the point of sale keeps. *)
TillKeeps(c) ==
  /\ \E k : TillTo(c, k)
  /\ Forward
  /\ InsertsOnly(Held(till[c]))
  /\ shift' \in [status : {"open", "closed"}, expected : SUBSET Ticket]
  /\ ticket' \in [Ticket -> TicketRow]
  /\ posCrossed' \subseteq Ticket
  /\ straddled' \in BOOLEAN
  /\ Stamped'

LEMMA TillQuiet ==
  ASSUME Inv, PosOnly, NEW c \in Till, UNCHANGED ticket,
         \E k : TillTo(c, k), 
         shift' \in [status : {"open", "closed"}, expected : SUBSET Ticket],
         posCrossed' \subseteq Ticket, straddled' \in BOOLEAN
  PROVE  TillKeeps(c)
<1>1. Forward /\ InsertsOnly({})
  BY ForwardStays DEF Inv, TypeOK
<1>2. Stamped'
  BY <1>1, StampedKept DEF Inv
<1>3. ticket' \in [Ticket -> TicketRow]
  BY DEF Inv, TypeOK, PosTypes
<1> QED  BY <1>1, <1>2, <1>3 DEF TillKeeps, InsertsOnly

(* Steps that change only what the request knows. *)
LEMMA TillThinks ==
  ASSUME Inv, PosOnly, NEW c \in Till, UNCHANGED <<shift, ticket, posCrossed>>,
         straddled' \in BOOLEAN, \E k : TillTo(c, k)
  PROVE  TillKeeps(c)
BY TillQuiet DEF Inv, TypeOK, PosTypes

LEMMA TakesUp ==
  ASSUME Inv, NEW c \in Till, NEW t \in Ticket,
         ReadOpenShift(c, t) \/ PostAgain(c, t) \/ LoadForVoid(c, t)
  PROVE  TillKeeps(c)
<1>1. PosOnly /\ UNCHANGED <<shift, ticket>>
  BY DEF ReadOpenShift, PostAgain, LoadForVoid
<1>2. straddled' \in BOOLEAN
  BY DEF ReadOpenShift, PostAgain, LoadForVoid, Inv, TypeOK, PosTypes
<1>3. ticket[t].stamp \in Entry \cup {None} /\ (ticket[t].stamp # None => Issued(ticket[t].stamp, t))
  BY DEF Inv, TypeOK, PosTypes, TicketRow, Stamped
<1>4. \A pc \in {"sell", "post"} :
        [TillIdle EXCEPT !.pc = pc, !.t = t]
        = [TillIdle EXCEPT !.pc = pc, !.t = t, !.entry = None]
  <2>1. PICK i : i = TillIdle
    OBVIOUS
  <2>2. i \in TillCall /\ i.entry = None
    BY <2>1 DEF TillIdle, TillCall
  <2>3. \A pc \in {"sell", "post"} :
          [i EXCEPT !.pc = pc, !.t = t] = [i EXCEPT !.pc = pc, !.t = t, !.entry = None]
    BY <2>2 DEF TillCall
  <2> QED  BY <2>1, <2>3
<1>5. (\E k : TillTo(c, k)) /\ posCrossed' \subseteq Ticket
  <2>1. CASE ReadOpenShift(c, t)
    <3>1. TakeUp(c, t, [TillIdle EXCEPT !.pc = "sell", !.t = t, !.entry = None])
      BY <1>4, <2>1 DEF ReadOpenShift
    <3> QED  BY <1>1, <3>1, TillBegins
  <2>2. CASE PostAgain(c, t)
    <3>1. TakeUp(c, t, [TillIdle EXCEPT !.pc = "post", !.t = t, !.entry = None])
      BY <1>4, <2>2 DEF PostAgain
    <3> QED  BY <1>1, <3>1, TillBegins
  <2>3. CASE LoadForVoid(c, t)
    BY <1>1, <1>3, <2>3, TillBegins DEF LoadForVoid
  <2> QED  BY <2>1, <2>2, <2>3
<1>6. shift' \in [status : {"open", "closed"}, expected : SUBSET Ticket]
  BY <1>1 DEF Inv, TypeOK, PosTypes
<1> QED  BY <1>1, <1>2, <1>5, <1>6, TillQuiet

(* A ticket's row that changes and keeps its stamp, or is given one. *)
LEMMA RowChanges ==
  ASSUME Inv, PosOnly, NEW c \in Till, NEW t \in Ticket, NEW r \in TicketRow,
         ticket' = [ticket EXCEPT ![t] = r], r.stamp # None => Issued(r.stamp, t),
         \E k : TillTo(c, k), UNCHANGED <<shift, posCrossed, straddled>>
  PROVE  TillKeeps(c)
<1>1. Forward /\ InsertsOnly({})
  BY ForwardStays DEF Inv, TypeOK
<1>2. ticket \in [Ticket -> TicketRow]
  BY DEF Inv, TypeOK, PosTypes
<1>3. Stamped'
  <2>1. \A e, s : Issued(e, s) => Issued(e, s)'
    BY DEF PosOnly, book, entries, Own, Issued
  <2>2. Stamped
    BY DEF Inv
  <2>3. ASSUME NEW u \in Ticket, ticket'[u].stamp # None
        PROVE  Issued(ticket[u].stamp, u)'
    <3>1. PICK e : e = ticket'[u].stamp
      OBVIOUS
    <3>2. Issued(e, u)
      BY <1>2, <2>2, <2>3, <3>1 DEF Stamped
    <3>3. Issued(e, u)'
      BY <2>1, <3>2
    <3> QED  BY <3>1, <3>3 DEF Issued, Own
  <2> QED  BY <2>3 DEF Stamped
<1>4. ticket' \in [Ticket -> TicketRow]
  BY <1>2
<1> QED  BY <1>1, <1>3, <1>4 DEF TillKeeps, InsertsOnly, Inv, TypeOK, PosTypes

LEMMA RowShape ==
  ASSUME Inv, NEW t \in Ticket
  PROVE  /\ ticket[t] \in TicketRow
         /\ ticket[t].stamp # None => Issued(ticket[t].stamp, t)
BY DEF Inv, TypeOK, PosTypes, Stamped

LEMMA CommitSaleKeeps ==
  ASSUME Inv, NEW c \in Till, CommitSale(c)
  PROVE  TillKeeps(c)
<1>1. till[c].pc = "sell" /\ till[c].t \in Ticket
  BY TillShape DEF CommitSale, TillAt
<1>2. PICK t \in Ticket : t = till[c].t
  BY <1>1
<1>3. PICK old : old = ticket[t]
  OBVIOUS
<1>4. PICK r : r = [old EXCEPT !.status = "submitted"]
  OBVIOUS
<1>5. old \in TicketRow /\ (old.stamp # None => Issued(old.stamp, t))
  BY <1>3, RowShape
<1>6. r \in TicketRow /\ r.stamp = old.stamp
  BY <1>4, <1>5 DEF TicketRow
<1>7. ticket' = [ticket EXCEPT ![t] = r]
  BY <1>2, <1>3, <1>4 DEF CommitSale
<1>8. \E k : TillTo(c, k)
  <2>1. till' = [till EXCEPT ![c] = TillWith(c, "post", till[c].entry, till[c].warning)]
    BY TillGoes DEF CommitSale
  <2>2. till[c].entry \in Entry \cup {None} /\ till[c].warning \in Warnings
    BY TillShape DEF TillCall, Warnings
  <2>3. "post" \in TillPcs \ {"insert"}
    BY DEF TillPcs
  <2> QED  BY <1>1, <2>1, <2>2, <2>3, TillOnQuiet DEF CommitSale
<1> QED  BY <1>5, <1>6, <1>7, <1>8, RowChanges DEF CommitSale

LEMMA LoadTicketKeeps ==
  ASSUME Inv, NEW c \in Till, LoadTicket(c)
  PROVE  TillKeeps(c)
<1>1. till[c].pc = "post" /\ till[c].t \in Ticket /\ till[c].warning \in Warnings
  BY TillShape DEF LoadTicket, TillAt, TillCall, Warnings
<1>2. PICK e : e = ticket[till[c].t].stamp
  OBVIOUS
<1>3. e \in Entry \cup {None} /\ (e # None => Issued(e, till[c].t))
  BY <1>1, <1>2, RowShape DEF TicketRow
<1>4. \E k : TillTo(c, k)
  <2>1. CASE TillDone(c)
    BY <2>1, TillEnds
  <2>2. CASE ~TillDone(c)
    <3>1. PICK pc \in {"find", "stamp"} : till' = [till EXCEPT ![c].entry = e, ![c].pc = pc]
      BY <1>2, <2>2 DEF LoadTicket
    <3>2. till' = [till EXCEPT ![c] = TillWith(c, pc, e, till[c].warning)]
      BY <3>1, TillEntry
    <3>3. pc \in TillPcs \ {"insert", "submit", "cancel"}
      BY <3>1 DEF TillPcs
    <3> QED  BY <1>1, <1>3, <3>2, <3>3, TillOnQuiet DEF LoadTicket
  <2> QED  BY <2>1, <2>2
<1> QED  BY <1>4, TillThinks DEF LoadTicket, Inv, TypeOK, PosTypes

LEMMA FindEntryKeeps ==
  ASSUME Inv, NEW c \in Till, FindEntry(c)
  PROVE  TillKeeps(c)
<1>1. till[c].pc = "find" /\ till[c].t \in Ticket /\ till[c].warning \in Warnings
  BY TillShape DEF FindEntry, TillAt, TillCall, Warnings
<1>2. PICK e : e = FindEntryBySource(till[c].t)
  OBVIOUS
<1>3. e # None => /\ e \in Entry /\ Own(e, till[c].t)
                  /\ state[e] \in {"open", "posted"}
  BY <1>2, FindShape DEF Inv, TypeOK
<1>4. PICK pc : pc = IF e = None THEN "resolve"
                     ELSE IF state[e] = "posted" THEN "stamp" ELSE "submit"
  OBVIOUS
<1>5. till' = [till EXCEPT ![c] = TillWith(c, pc, e, till[c].warning)]
  BY <1>2, <1>4, TillEntry DEF FindEntry
<1>6. /\ pc \in TillPcs \ {"insert", "cancel"} /\ e \in Entry \cup {None}
      /\ pc = "submit" => Own(e, till[c].t)
      /\ pc \in {"stamp", "shift", "cancel"} /\ e # None => Issued(e, till[c].t)
  BY <1>3, <1>4 DEF TillPcs, Issued
<1>7. \E k : TillTo(c, k)
  BY <1>1, <1>5, <1>6, TillOnQuiet DEF FindEntry
<1> QED  BY <1>7, TillThinks DEF FindEntry, Inv, TypeOK, PosTypes

LEMMA StampsNothing ==
  ASSUME Inv, PosOnly, NEW c \in Till, till[c].pc \notin {"idle", "close"},
         NEW wn \in Warnings, StampNothing(c, wn)
  PROVE  \E k : TillTo(c, k)
<1>1. till' = [till EXCEPT ![c] = TillWith(c, "stamp", None, wn)]
  BY DEF StampNothing, TillWith
<1>2. "stamp" \in TillPcs \ {"insert"}
  BY DEF TillPcs
<1> QED  BY <1>1, <1>2, TillOnQuiet

LEMMA TillGoesOn ==
  ASSUME Inv, PosOnly, NEW c \in Till, till[c].pc \notin {"idle", "close"},
         NEW pc \in {"guard", "void", "cancel"}, TillGo(c, pc),
         pc = "cancel" => till[c].entry # None /\ Issued(till[c].entry, till[c].t)
  PROVE  \E k : TillTo(c, k)
<1>1. till' = [till EXCEPT ![c] = TillWith(c, pc, till[c].entry, till[c].warning)]
  BY TillGoes
<1>2. till[c].entry \in Entry \cup {None} /\ till[c].warning \in Warnings
  BY TillShape DEF TillCall, Warnings
<1>3. pc \in TillPcs \ {"insert", "submit", "stamp", "shift"}
  BY DEF TillPcs
<1> QED  BY <1>1, <1>2, <1>3, TillOnQuiet

LEMMA ResolveKeeps ==
  ASSUME Inv, NEW c \in Till, Resolve(c) \/ SubmitRefused(c)
  PROVE  TillKeeps(c)
<1>1. till[c].pc \notin {"idle", "close"}
  BY DEF Resolve, SubmitRefused, TillAt
<1>2. \E k : TillTo(c, k)
  BY <1>1, StampsNothing, TillGoesOn DEF Resolve, SubmitRefused, Warnings
<1> QED  BY <1>2, TillThinks DEF Resolve, SubmitRefused, Inv, TypeOK, PosTypes

LEMMA GuardKeeps ==
  ASSUME Inv, NEW c \in Till, GuardDuplicate(c)
  PROVE  TillKeeps(c)
<1>1. till[c].pc = "guard"
  BY DEF GuardDuplicate, TillAt
<1>2. UNCHANGED <<shift, ticket, posCrossed, straddled>>
  BY DEF GuardDuplicate
<1>3. Held(till[c]) = {}
  BY <1>1 DEF Held
<1>4. CASE IssuesOf(till[c].t) # {}
  <2>1. PosOnly /\ StampNothing(c, "stock")
    BY <1>4 DEF GuardDuplicate, PosOnly, entries
  <2>2. \E k : TillTo(c, k)
    BY <1>1, <2>1, StampsNothing DEF Warnings
  <2> QED  BY <1>2, <2>1, <2>2, TillThinks DEF Inv, TypeOK, PosTypes
<1>5. CASE IssuesOf(till[c].t) = {}
  <2>1. Reserve /\ UNCHANGED <<book, rows, source, lines>>
    BY <1>5 DEF GuardDuplicate
  <2>2. Forward /\ InsertsOnly({}) /\ \A e : e = next => Fresh(e)'
    BY <2>1, ReserveShape DEF Inv, TypeOK
  <2>3. PICK e : e = next
    OBVIOUS
  <2>4. Fresh(e)' /\ e \in Entry
    BY <2>1, <2>2, <2>3 DEF Reserve
  <2>5. till' = [till EXCEPT ![c] = TillWith(c, "insert", e, till[c].warning)]
    <3>1. PICK b : b = till[c]
      OBVIOUS
    <3>2. [b EXCEPT !.pc = "insert", !.entry = e]
          = [b EXCEPT !.pc = "insert", !.entry = e, !.warning = b.warning]
      BY <3>1, TillShape DEF TillCall
    <3> QED  BY <1>5, <2>3, <3>1, <3>2 DEF GuardDuplicate, TillWith
  <2>6. "insert" \in TillPcs /\ till[c].warning \in Warnings
    BY TillShape DEF TillPcs, TillCall, Warnings
  <2>7. \E k : TillTo(c, k)
    BY <1>1, <2>3, <2>4, <2>5, <2>6, TillOn
  <2>8. Stamped'
    BY <1>2, <2>2, StampedKept DEF Inv
  <2> QED  BY <1>2, <1>3, <2>2, <2>7, <2>8 DEF TillKeeps, Inv, TypeOK, PosTypes
<1> QED  BY <1>4, <1>5

(* The entry is inserted, submitted or cancelled. *)
LEMMA StockKeeps ==
  ASSUME Inv, NEW c \in Till, UNCHANGED <<shift, ticket, posCrossed, straddled>>,
         Forward, InsertsOnly(Held(till[c])), till[c].pc \notin {"idle", "close"},
         NEW pc \in TillPcs \ {"insert", "cancel", "shift"}, TillGo(c, pc),
         \A e, t : e = till[c].entry /\ t = till[c].t =>
                     /\ pc = "submit" => Own(e, t)'
                     /\ pc = "stamp" => Issued(e, t)'
  PROVE  TillKeeps(c)
<1>1. till' = [till EXCEPT ![c] = TillWith(c, pc, till[c].entry, till[c].warning)]
  BY TillGoes
<1>2. till[c].entry \in Entry \cup {None} /\ till[c].warning \in Warnings
  BY TillShape DEF TillCall, Warnings
<1>3. PICK e, wn : e = till[c].entry /\ wn = till[c].warning
  OBVIOUS
<1>4. \E k : TillTo(c, k)
  BY <1>1, <1>2, <1>3, TillOn
<1>5. Stamped'
  BY StampedKept DEF Inv
<1> QED  BY <1>4, <1>5 DEF TillKeeps, Inv, TypeOK, PosTypes

LEMMA InsertIssueKeeps ==
  ASSUME Inv, NEW c \in Till, InsertIssue(c)
  PROVE  TillKeeps(c)
<1>1. till[c].pc = "insert" /\ till[c].t \in Ticket
  BY TillShape DEF InsertIssue, TillAt
<1>2. PICK e, t : e = till[c].entry /\ t = till[c].t
  OBVIOUS
<1>3. Fresh(e) /\ t \in Source /\ InsertDraft(e, t, Bin)
  BY <1>1, <1>2 DEF InsertIssue, Inv, TillSure, Source
<1>4. Forward /\ InsertsOnly({e}) /\ Own(e, t)'
  BY <1>3, InsertShape DEF Inv, TypeOK
<1>5. Held(till[c]) = {e}
  BY <1>1, <1>2 DEF Held
<1>6. "submit" \in TillPcs
  BY DEF TillPcs
<1> QED  BY <1>1, <1>2, <1>4, <1>5, <1>6, StockKeeps DEF InsertIssue

LEMMA SubmitIssueKeeps ==
  ASSUME Inv, NEW c \in Till, SubmitIssue(c)
  PROVE  TillKeeps(c)
<1>1. till[c].pc = "submit" /\ till[c].t \in Ticket
  BY TillShape DEF SubmitIssue, TillAt
<1>2. PICK e, t : e = till[c].entry /\ t = till[c].t
  OBVIOUS
<1>3. Own(e, t) /\ e \in Entry /\ t \in Source /\ SubmitEntry(e)
  BY <1>1, <1>2 DEF SubmitIssue, Inv, TillSure, Source, Own
<1>4. Forward /\ InsertsOnly({}) /\ state'[e] = "posted"
  BY <1>3, SubmitShape DEF Inv, TypeOK
<1>5. Issued(e, t)'
  BY <1>3, <1>4, OwnKept DEF Issued
<1>6. Held(till[c]) = {} /\ "stamp" \in TillPcs
  BY <1>1 DEF Held, TillPcs
<1> QED  BY <1>1, <1>2, <1>4, <1>5, <1>6, StockKeeps DEF SubmitIssue

LEMMA CancelIssueKeeps ==
  ASSUME Inv, NEW c \in Till, CancelIssue(c)
  PROVE  TillKeeps(c)
<1>1. till[c].pc = "cancel" /\ till[c].entry \in Entry
  BY DEF CancelIssue, TillAt, Inv, TillSure, Issued, Own
<1>2. Forward /\ InsertsOnly({})
  BY <1>1, CancelShape DEF Inv, TypeOK, CancelIssue
<1>3. Held(till[c]) = {} /\ "void" \in TillPcs
  BY <1>1 DEF Held, TillPcs
<1> QED  BY <1>1, <1>2, <1>3, StockKeeps DEF CancelIssue

LEMMA StampTicketKeeps ==
  ASSUME Inv, NEW c \in Till, StampTicket(c)
  PROVE  TillKeeps(c)
<1>1. till[c].pc = "stamp" /\ till[c] \in TillCall /\ till[c].t \in Ticket
  BY TillShape DEF StampTicket, TillAt
<1>2. PICK t, old, e, wn : /\ t = till[c].t /\ old = ticket[t]
                           /\ e = till[c].entry /\ wn = till[c].warning
  OBVIOUS
<1>3. PICK r : r = [old EXCEPT !.stamp = e, !.warning = wn]
  OBVIOUS
<1>4. old \in TicketRow
  BY <1>1, <1>2, RowShape
<1>5. e \in Entry \cup {None} /\ wn \in Warnings /\ (e # None => Issued(e, t))
  BY <1>1, <1>2 DEF TillCall, Warnings, Inv, TillSure
<1>6. r \in TicketRow /\ r.stamp = e
  BY <1>3, <1>4, <1>5 DEF TicketRow, Warnings
<1>7. ticket' = [ticket EXCEPT ![t] = r]
  BY <1>2, <1>3 DEF StampTicket
<1>8. \E k : TillTo(c, k)
  BY TillEnds DEF StampTicket
<1> QED  BY <1>1, <1>2, <1>5, <1>6, <1>7, <1>8, RowChanges DEF StampTicket

LEMMA MarkVoidKeeps ==
  ASSUME Inv, NEW c \in Till, MarkVoid(c)
  PROVE  TillKeeps(c)
<1>1. till[c].pc = "void" /\ till[c] \in TillCall /\ till[c].t \in Ticket
  BY TillShape DEF MarkVoid, TillAt
<1>2. PICK t, old : t = till[c].t /\ old = ticket[t]
  OBVIOUS
<1>3. PICK wn : wn = IF till[c].warning = "none" THEN old.warning ELSE till[c].warning
  OBVIOUS
<1>4. PICK r : r = [old EXCEPT !.status = "void", !.warning = wn]
  OBVIOUS
<1>5. old \in TicketRow /\ (old.stamp # None => Issued(old.stamp, t))
  BY <1>1, <1>2, RowShape
<1>6. wn \in Warnings
  BY <1>1, <1>3, <1>5 DEF TillCall, TicketRow, Warnings
<1>7. r \in TicketRow /\ r.stamp = old.stamp
  BY <1>4, <1>5, <1>6 DEF TicketRow, Warnings
<1>8. ticket' = [ticket EXCEPT ![t] = r]
  BY <1>2, <1>3, <1>4 DEF MarkVoid
<1>9. \E k : TillTo(c, k)
  BY TillEnds DEF MarkVoid
<1> QED  BY <1>1, <1>2, <1>5, <1>7, <1>8, <1>9, RowChanges DEF MarkVoid

LEMMA ReadShiftKeeps ==
  ASSUME Inv, NEW c \in Till, ReadShift(c)
  PROVE  TillKeeps(c)
<1>1. till[c].pc = "shift"
  BY DEF ReadShift, TillAt
<1>2. till[c].entry # None => Issued(till[c].entry, till[c].t)
  BY <1>1 DEF Inv, TillSure
<1>3. \E k : TillTo(c, k)
  <2>1. CASE TillDone(c)
    BY <2>1, TillEnds
  <2>2. CASE ~TillDone(c) /\ till[c].entry = None
    BY <1>1, <2>2, TillGoesOn DEF ReadShift
  <2>3. CASE ~TillDone(c) /\ till[c].entry # None
    BY <1>1, <1>2, <2>3, TillGoesOn DEF ReadShift
  <2> QED  BY <2>1, <2>2, <2>3
<1> QED  BY <1>3, TillThinks DEF ReadShift, Inv, TypeOK, PosTypes

LEMMA CancelRefusedKeeps ==
  ASSUME Inv, NEW c \in Till, CancelRefused(c)
  PROVE  TillKeeps(c)
<1>1. till[c].pc = "cancel" /\ till[c].entry \in Entry \cup {None}
  BY TillShape DEF CancelRefused, TillAt, TillCall
<1>2. till' = [till EXCEPT ![c] = TillWith(c, "void", till[c].entry, "void_stock_failed")]
  <2>1. PICK b : b = till[c]
    OBVIOUS
  <2>2. [b EXCEPT !.pc = "void", !.warning = "void_stock_failed"]
        = [b EXCEPT !.pc = "void", !.entry = b.entry, !.warning = "void_stock_failed"]
    BY <2>1, TillShape DEF TillCall
  <2> QED  BY <2>1, <2>2 DEF CancelRefused, TillWith
<1>3. "void" \in TillPcs \ {"insert"} /\ "void_stock_failed" \in Warnings
  BY DEF TillPcs, Warnings
<1>4. \E k : TillTo(c, k)
  <2>1. PICK e, wn : e = till[c].entry /\ wn = "void_stock_failed"
    OBVIOUS
  <2>2. /\ PosOnly /\ till[c].pc \notin {"idle", "close"}
        /\ till' = [till EXCEPT ![c] = TillWith(c, "void", e, wn)]
    BY <1>1, <1>2, <2>1 DEF CancelRefused
  <2> QED  BY <1>1, <1>3, <2>1, <2>2, TillOnQuiet
<1> QED  BY <1>4, TillThinks DEF CancelRefused, Inv, TypeOK, PosTypes

LEMMA CountTakingsKeeps ==
  ASSUME Inv, NEW c \in Till, CountTakings(c)
  PROVE  TillKeeps(c)
<1>1. PICK k : k = [TillIdle EXCEPT !.pc = "close", !.taken = {t \in Ticket : Standing(t)}]
  OBVIOUS
<1>2. k \in TillCall /\ k.pc = "close"
  BY <1>1 DEF TillIdle, TillCall
<1>3. TillSure(k)'
  BY <1>2 DEF TillSure
<1>4. \E l : TillTo(c, l)
  BY <1>1, <1>2, <1>3 DEF CountTakings, TillTo
<1>5. straddled' \in BOOLEAN
  BY DEF CountTakings, Inv, TypeOK, PosTypes
<1> QED  BY <1>4, <1>5, TillThinks DEF CountTakings

LEMMA CloseShiftKeeps ==
  ASSUME Inv, NEW c \in Till, CloseShift(c)
  PROVE  TillKeeps(c)
<1>1. till[c].taken \in SUBSET Ticket
  BY TillShape DEF TillCall
<1>2. shift' \in [status : {"open", "closed"}, expected : SUBSET Ticket]
  BY <1>1 DEF CloseShift
<1>3. \E k : TillTo(c, k)
  BY TillEnds DEF CloseShift
<1> QED  BY <1>2, <1>3, TillQuiet DEF CloseShift, Inv, TypeOK, PosTypes

LEMMA RequestEndsKeeps ==
  ASSUME Inv, NEW c \in Till, RequestEnds(c)
  PROVE  TillKeeps(c)
BY TillEnds, TillThinks DEF RequestEnds, Inv, TypeOK, PosTypes

LEMMA PosStepKeeps ==
  ASSUME Inv, NEW c \in Till, PosStep(c), UNCHANGED deskVars
  PROVE  Inv'
<1>1. TillKeeps(c)
  BY TakesUp, CommitSaleKeeps, LoadTicketKeeps, FindEntryKeeps, ResolveKeeps, GuardKeeps,
     InsertIssueKeeps, SubmitIssueKeeps, StampTicketKeeps, ReadShiftKeeps, CancelIssueKeeps,
     CancelRefusedKeeps, MarkVoidKeeps, CountTakingsKeeps, CloseShiftKeeps, RequestEndsKeeps
     DEF PosStep
<1>2. PICK k : TillTo(c, k)
  BY <1>1 DEF TillKeeps
<1>3. Forward /\ InsertsOnly(Held(till[c])) /\ UNCHANGED <<booking, accrual, desk, deskCrossed>>
  BY <1>1 DEF TillKeeps, deskVars
<1>4. TypeOK'
  <2>1. till' \in [Till -> TillCall]
    BY <1>2 DEF TillTo, Inv, TypeOK, PosTypes
  <2>2. PosTypes'
    BY <1>1, <2>1 DEF TillKeeps, PosTypes
  <2>3. BookingTypes'
    BY <1>3 DEF Inv, TypeOK, BookingTypes
  <2> QED  BY <1>3, <2>2, <2>3 DEF Forward, TypeOK
<1>5. PICK X : X = Held(till[c])
  OBVIOUS
<1>6. Unmade'
  <2>1. \A e \in X : e < next /\ e \in Entry
    BY <1>5, HeldShape DEF Fresh
  <2>2. next \in Nat /\ next' \in Nat /\ next <= next' /\ Entry \subseteq Nat
    BY <1>3, <1>4, NextShape, StockBounds DEF Inv, TypeOK, StockTypes, Forward
  <2>3. ASSUME NEW e \in X
        PROVE  e < next'
    <3>1. e \in Nat /\ e < next
      BY <2>1, <2>2
    <3> QED  BY <2>2, <3>1
  <2> QED  BY <1>3, <1>5, <2>3, UnmadeKept DEF Inv, TypeOK
<1>7. \A d \in Till : TillSure(till[d])'
  <2> TAKE d \in Till
  <2>1. PICK l : l = till'[d]
    OBVIOUS
  <2>2. till \in [Till -> TillCall]
    BY DEF Inv, TypeOK, PosTypes
  <2>3. TillSure(l)'
    <3>1. CASE d = c
      BY <1>2, <2>1, <2>2, <3>1 DEF TillTo
    <3>2. CASE d # c
      <4>1. l = till[d]
        BY <1>2, <2>1, <2>2, <3>2 DEF TillTo
      <4>2. TillSure(l) /\ Held(l) \cap X = {}
        BY <1>5, <3>2, <4>1 DEF Inv, Apart
      <4> QED  BY <1>3, <1>5, <4>2, TillSureKept DEF Inv, TypeOK
    <3> QED  BY <3>1, <3>2
  <2> QED  BY <2>1, <2>3 DEF TillSure
<1>8. \A d \in Desk : DeskSure(desk[d])'
  <2> TAKE d \in Desk
  <2>1. PICK l : l = desk[d]
    OBVIOUS
  <2>2. DeskSure(l) /\ Held(l) \cap X = {}
    BY <1>5, <2>1 DEF Inv, Apart
  <2>3. DeskSure(l)'
    BY <1>3, <1>5, <2>2, DeskSureKept DEF Inv, TypeOK
  <2> QED  BY <1>3, <2>1, <2>3 DEF DeskSure
<1>9. Apart'
  BY <1>2, <1>3, ApartTill
<1>10. Stamped'
  BY <1>1 DEF TillKeeps
<1>11. Realized'
  BY <1>3, RealizedKept DEF Inv
<1> QED  BY <1>4, <1>6, <1>7, <1>8, <1>9, <1>10, <1>11 DEF Inv

----------------------------------------------------------------------------
(* The steps of the bookings *)

DeskPcs == {"accrue", "release", "open", "find", "guard", "insert", "submit", "realize"}

DeskWith(c, pc, e, open) == [desk[c] EXCEPT !.pc = pc, !.entry = e, !.open = open]

LEMMA DeskShape ==
  ASSUME Inv, NEW c \in Desk
  PROVE  /\ desk[c] \in DeskCall
         /\ desk[c].pc # "idle" => desk[c].b \in Booking
BY DEF Inv, TypeOK, BookingTypes, DeskSure

LEMMA DeskGoes ==
  ASSUME Inv, NEW c \in Desk, NEW pc, DeskGo(c, pc)
  PROVE  desk' = [desk EXCEPT ![c] = DeskWith(c, pc, desk[c].entry, desk[c].open)]
<1>1. PICK k : k = desk[c]
  OBVIOUS
<1>2. [k EXCEPT !.pc = pc] = [k EXCEPT !.pc = pc, !.entry = k.entry, !.open = k.open]
  BY <1>1, DeskShape DEF DeskCall
<1> QED  BY <1>1, <1>2 DEF DeskGo, DeskWith

LEMMA DeskWithShape ==
  ASSUME Inv, NEW c \in Desk, NEW pc \in DeskPcs, NEW e \in Entry \cup {None},
         NEW open \in SUBSET Accrual, NEW k, k = DeskWith(c, pc, e, open)
  PROVE  k \in DeskCall /\ k.pc = pc /\ k.entry = e /\ k.b = desk[c].b
<1>1. PICK d : d = desk[c]
  OBVIOUS
<1>2. d \in DeskCall
  BY <1>1, DeskShape
<1>3. k = [d EXCEPT !.pc = pc, !.entry = e, !.open = open]
  BY <1>1 DEF DeskWith
<1>4. k \in DeskCall /\ k.pc = pc /\ k.entry = e /\ k.b = d.b
  BY <1>2, <1>3 DEF DeskCall, DeskPcs
<1> QED  BY <1>1, <1>4

(* A request goes on with its booking. *)
LEMMA DeskOn ==
  ASSUME Inv, NEW c \in Desk, desk[c].pc # "idle",
         NEW pc \in DeskPcs, NEW e \in Entry \cup {None}, NEW open \in SUBSET Accrual,
         desk' = [desk EXCEPT ![c] = DeskWith(c, pc, e, open)],
         pc = "insert" => Fresh(e)' /\ e = next,
         \A b : b = desk[c].b =>
           /\ pc = "submit" => Own(e, b)'
           /\ pc = "realize" => Issued(e, b)'
  PROVE  \E k : DeskTo(c, k)
<1>1. PICK k : k = DeskWith(c, pc, e, open)
  OBVIOUS
<1>2. k \in DeskCall /\ k.pc = pc /\ k.entry = e /\ k.b = desk[c].b
  BY <1>1, DeskWithShape
<1>3. k.b \in Booking
  BY <1>2, DeskShape
<1>4. DeskSure(k)'
  BY <1>2, <1>3 DEF DeskSure, DeskPcs
<1> QED  BY <1>1, <1>2, <1>4 DEF DeskTo

LEMMA DeskOnQuiet ==
  ASSUME Inv, DeskOnly, NEW c \in Desk, desk[c].pc # "idle",
         NEW pc \in DeskPcs \ {"insert"}, NEW e \in Entry \cup {None},
         NEW open \in SUBSET Accrual,
         desk' = [desk EXCEPT ![c] = DeskWith(c, pc, e, open)],
         pc = "submit" => Own(e, desk[c].b),
         pc = "realize" => Issued(e, desk[c].b)
  PROVE  \E k : DeskTo(c, k)
<1>1. \A b : /\ Own(e, b) => Own(e, b)'
             /\ Issued(e, b) => Issued(e, b)'
  BY DEF DeskOnly, book, entries, Own, Issued
<1> QED  BY <1>1, DeskOn

LEMMA DeskGoesOn ==
  ASSUME Inv, DeskOnly, NEW c \in Desk, desk[c].pc # "idle",
         NEW pc \in {"accrue", "release", "open", "guard"}, DeskGo(c, pc)
  PROVE  \E k : DeskTo(c, k)
<1>1. desk' = [desk EXCEPT ![c] = DeskWith(c, pc, desk[c].entry, desk[c].open)]
  BY DeskGoes
<1>2. desk[c].entry \in Entry \cup {None} /\ desk[c].open \in SUBSET Accrual
  BY DeskShape DEF DeskCall
<1>3. pc \in DeskPcs \ {"insert", "submit", "realize"}
  BY DEF DeskPcs
<1> QED  BY <1>1, <1>2, <1>3, DeskOnQuiet

LEMMA DeskReturns ==
  ASSUME NEW c \in Desk, DeskDone(c)
  PROVE  \E k : DeskTo(c, k)
<1>1. PICK k : k = DeskIdle
  OBVIOUS
<1>2. k \in DeskCall /\ k.pc = "idle"
  BY <1>1 DEF DeskIdle, DeskCall
<1>3. DeskSure(k)'
  BY <1>2 DEF DeskSure
<1> QED  BY <1>1, <1>2, <1>3 DEF DeskTo, DeskDone

LEMMA DeskBegins ==
  ASSUME Inv, NEW c \in Desk, NEW b \in Booking, NEW k \in DeskCall, Begin(c, b, k),
         k.b = b, k.pc \in {"settled", "set", "open"}, k.pc = "set" => k.to \in Statuses \ {"absent"}
  PROVE  (\E l : DeskTo(c, l)) /\ deskCrossed' \subseteq Booking
<1>1. DeskSure(k)'
  BY DEF DeskSure
<1>2. desk' = [desk EXCEPT ![c] = k]
  BY DEF Begin
<1>3. deskCrossed' \subseteq Booking
  BY DEF Begin, Inv, TypeOK, BookingTypes
<1> QED  BY <1>1, <1>2, <1>3 DEF DeskTo

(* What an accrual's row may become: it stays when it is settled, and is    *)
(* realized by an issue of its booking.                                    *)
AccrualMoves(b, a) ==
  \/ accrual'[b][a] = accrual[b][a]
  \/ /\ accrual[b][a].status \notin {"realized", "released"}
     /\ accrual'[b][a] \in AccrualRow
     /\ accrual'[b][a].status = "realized" =>
          \E e \in Entry : /\ e = accrual'[b][a].entry
                           /\ Issued(e, b) /\ a[2] \in lines[e]

DeskKeeps(c) ==
  /\ \E k : DeskTo(c, k)
  /\ Forward
  /\ InsertsOnly(Held(desk[c]))
  /\ booking' \in [Booking -> Statuses]
  /\ accrual' \in [Booking -> [Accrual -> AccrualRow]]
  /\ \A b \in Booking, a \in Accrual : AccrualMoves(b, a)
  /\ deskCrossed' \subseteq Booking

LEMMA DeskQuiet ==
  ASSUME Inv, DeskOnly, NEW c \in Desk, UNCHANGED accrual, \E k : DeskTo(c, k),
         booking' \in [Booking -> Statuses], deskCrossed' \subseteq Booking
  PROVE  DeskKeeps(c)
<1>1. Forward /\ InsertsOnly({})
  BY ForwardStays DEF Inv, TypeOK, DeskOnly, PosOnly
<1> QED  BY <1>1 DEF DeskKeeps, InsertsOnly, Inv, TypeOK, BookingTypes, AccrualMoves

LEMMA DeskThinks ==
  ASSUME Inv, DeskOnly, NEW c \in Desk, UNCHANGED <<booking, accrual, deskCrossed>>,
         \E k : DeskTo(c, k)
  PROVE  DeskKeeps(c)
BY DeskQuiet DEF Inv, TypeOK, BookingTypes

(* A step that writes the rows of booking b. *)
LEMMA AccrualKeeps ==
  ASSUME Inv, DeskOnly, NEW c \in Desk, NEW b \in Booking, NEW f \in [Accrual -> AccrualRow],
         accrual' = [accrual EXCEPT ![b] = f], \A a \in Accrual : AccrualMoves(b, a),
         DeskDone(c), UNCHANGED <<booking, deskCrossed>>
  PROVE  DeskKeeps(c)
<1>1. Forward /\ InsertsOnly({})
  BY ForwardStays DEF Inv, TypeOK, DeskOnly, PosOnly
<1>2. accrual \in [Booking -> [Accrual -> AccrualRow]]
  BY DEF Inv, TypeOK, BookingTypes
<1>3. accrual' \in [Booking -> [Accrual -> AccrualRow]]
  BY <1>2
<1>4. \A d \in Booking, a \in Accrual : AccrualMoves(d, a)
  BY <1>2 DEF AccrualMoves
<1>5. \E k : DeskTo(c, k)
  BY DeskReturns
<1> QED  BY <1>1, <1>3, <1>4, <1>5 DEF DeskKeeps, InsertsOnly, Inv, TypeOK, BookingTypes

LEMMA BeginsKeep ==
  ASSUME Inv, NEW c \in Desk, NEW b \in Booking,
         CreateBooking(c, b) \/ AdjustAccrual(c, b) \/ Patch(c, b) \/ Complete(c, b)
  PROVE  DeskKeeps(c)
<1>1. DeskOnly /\ UNCHANGED accrual
  BY DEF CreateBooking, AdjustAccrual, Patch, Complete
<1>2. booking' \in [Booking -> Statuses]
  <2>1. booking \in [Booking -> Statuses] /\ "accepted" \in Statuses
    BY DEF Inv, TypeOK, BookingTypes, Statuses
  <2> QED  BY <2>1 DEF CreateBooking, AdjustAccrual, Patch, Complete
<1>3. \E k \in DeskCall : /\ Begin(c, b, k) /\ k.b = b
                          /\ k.pc \in {"settled", "set", "open"}
                          /\ k.pc = "set" => k.to \in Statuses \ {"absent"}
  <2>1. CASE CreateBooking(c, b) \/ AdjustAccrual(c, b)
    <3>1. PICK items \in SUBSET Bin :
            Begin(c, b, [DeskIdle EXCEPT !.pc = "settled", !.b = b, !.items = items])
      BY <2>1 DEF CreateBooking, AdjustAccrual
    <3>2. PICK k : k = [DeskIdle EXCEPT !.pc = "settled", !.b = b, !.items = items]
      OBVIOUS
    <3>3. k \in DeskCall /\ k.b = b /\ k.pc = "settled"
      BY <3>2 DEF DeskIdle, DeskCall
    <3> QED  BY <3>1, <3>2, <3>3
  <2>2. CASE Patch(c, b)
    <3>1. PICK to \in Statuses \ {"absent"} :
            Begin(c, b, [DeskIdle EXCEPT !.pc = "set", !.b = b, !.to = to])
      BY <2>2 DEF Patch
    <3>2. PICK k : k = [DeskIdle EXCEPT !.pc = "set", !.b = b, !.to = to]
      OBVIOUS
    <3>3. k \in DeskCall /\ k.b = b /\ k.pc = "set" /\ k.to = to
      BY <3>2 DEF DeskIdle, DeskCall
    <3> QED  BY <3>1, <3>2, <3>3
  <2>3. CASE Complete(c, b)
    <3>1. PICK items \in SUBSET Bin :
            Begin(c, b, [DeskIdle EXCEPT !.b = b, !.items = items, !.to = "completed",
                           !.pc = IF booking[b] = "completed" THEN "open" ELSE "set"])
      BY <2>3 DEF Complete
    <3>2. PICK pc : pc = IF booking[b] = "completed" THEN "open" ELSE "set"
      OBVIOUS
    <3>3. PICK k : k = [DeskIdle EXCEPT !.b = b, !.items = items, !.to = "completed", !.pc = pc]
      OBVIOUS
    <3>4. /\ k \in DeskCall /\ k.b = b /\ k.pc \in {"set", "open"}
          /\ k.to \in Statuses \ {"absent"}
      BY <3>2, <3>3 DEF DeskIdle, DeskCall, Statuses
    <3> QED  BY <3>1, <3>2, <3>3, <3>4
  <2> QED  BY <2>1, <2>2, <2>3
<1>4. (\E l : DeskTo(c, l)) /\ deskCrossed' \subseteq Booking
  BY <1>3, DeskBegins
<1> QED  BY <1>1, <1>2, <1>4, DeskQuiet

LEMMA ReadSettledKeeps ==
  ASSUME Inv, NEW c \in Desk, ReadSettled(c) \/ DeskRefused(c) \/ DeskEnds(c)
  PROVE  DeskKeeps(c)
<1>1. \E k : DeskTo(c, k)
  <2>1. CASE DeskDone(c)
    BY <2>1, DeskReturns
  <2>2. CASE ~DeskDone(c)
    BY <2>2, DeskGoesOn DEF ReadSettled, DeskRefused, DeskEnds, DeskAt
  <2> QED  BY <2>1, <2>2
<1> QED  BY <1>1, DeskThinks DEF ReadSettled, DeskRefused, DeskEnds

LEMMA AccrualShape ==
  ASSUME Inv, NEW b \in Booking, NEW a \in Accrual
  PROVE  /\ accrual[b][a] \in AccrualRow
         /\ a[1] \in Time /\ a[2] \in Bin /\ a = <<a[1], a[2]>>
BY DEF Inv, TypeOK, BookingTypes, Accrual

(* The rows of a time that was not used yet are absent. *)
LEMMA AccrueKeeps ==
  ASSUME Inv, NEW c \in Desk, Accrue(c)
  PROVE  DeskKeeps(c)
<1>1. PICK b \in Booking : b = desk[c].b
  BY DeskShape DEF Accrue, DeskAt
<1>2. PICK g : g = CHOOSE x \in Unused(b) : \A y \in Unused(b) : x <= y
  OBVIOUS
<1>3. PICK items : items = desk[c].items
  OBVIOUS
<1>4. PICK f : f = [a \in Accrual |->
                      IF a[1] = g /\ a[2] \in items
                        THEN [NoAccrual EXCEPT !.status = "open"]
                      ELSE IF accrual[b][a].status = "open" THEN NoAccrual
                      ELSE accrual[b][a]]
  OBVIOUS
<1>5. /\ accrual' = [accrual EXCEPT ![b] = f]
      /\ DeskDone(c) /\ DeskOnly /\ UNCHANGED <<booking, deskCrossed>>
  BY <1>1, <1>2, <1>3, <1>4 DEF Accrue
<1>6. g \in Unused(b)
  <2>1. Unused(b) # {} /\ Unused(b) \subseteq 1 .. MaxTimes
    BY <1>1 DEF Accrue, Unused, Time
  <2> QED  BY <1>2, <2>1, EarliestExists
<1>7. \A a \in Accrual : a[1] = g => accrual[b][a].status = "absent"
  <2> TAKE a \in Accrual
  <2>1. a[1] \in Time /\ a[2] \in Bin /\ a = <<a[1], a[2]>>
    BY AccrualShape
  <2>2. \A h \in Time, i \in Bin : h >= g => accrual[b][<<h, i>>].status = "absent"
    BY <1>6 DEF Unused
  <2>3. g >= g
    BY <1>6 DEF Unused, Time
  <2> QED  BY <2>1, <2>2, <2>3
<1>8. [NoAccrual EXCEPT !.status = "open"] \in AccrualRow /\ NoAccrual \in AccrualRow
      /\ [NoAccrual EXCEPT !.status = "open"].status = "open" /\ NoAccrual.status = "absent"
  BY DEF NoAccrual, AccrualRow
<1>9. f \in [Accrual -> AccrualRow]
  BY <1>4, <1>8, AccrualShape
<1>10. \A a \in Accrual : AccrualMoves(b, a)
  <2> TAKE a \in Accrual
  <2>1. accrual'[b][a] = f[a]
    BY <1>5 DEF Inv, TypeOK, BookingTypes
  <2>2. CASE a[1] = g /\ a[2] \in items
    <3>1. f[a].status = "open" /\ f[a] \in AccrualRow
      BY <1>4, <1>8, <2>2
    <3> QED  BY <1>7, <2>1, <2>2, <3>1 DEF AccrualMoves
  <2>3. CASE ~(a[1] = g /\ a[2] \in items) /\ accrual[b][a].status = "open"
    <3>1. f[a].status = "absent" /\ f[a] \in AccrualRow
      BY <1>4, <1>8, <2>3
    <3> QED  BY <2>1, <2>3, <3>1 DEF AccrualMoves
  <2>4. CASE ~(a[1] = g /\ a[2] \in items) /\ accrual[b][a].status # "open"
    BY <1>4, <2>1, <2>4 DEF AccrualMoves
  <2> QED  BY <2>2, <2>3, <2>4
<1> QED  BY <1>5, <1>9, <1>10, AccrualKeeps

LEMMA SetBookingStatusKeeps ==
  ASSUME Inv, NEW c \in Desk, SetBookingStatus(c)
  PROVE  DeskKeeps(c)
<1>1. desk[c].pc = "set" /\ desk[c].to \in Statuses
  BY DEF SetBookingStatus, DeskAt, Inv, DeskSure
<1>2. booking' \in [Booking -> Statuses]
  BY <1>1 DEF SetBookingStatus, Inv, TypeOK, BookingTypes
<1>3. DeskGo(c, "release") \/ DeskGo(c, "open") \/ DeskDone(c)
  BY DEF SetBookingStatus
<1>4. \E k : DeskTo(c, k)
  BY <1>1, <1>3, DeskGoesOn, DeskReturns DEF SetBookingStatus
<1> QED  BY <1>2, <1>4, DeskQuiet DEF SetBookingStatus, Inv, TypeOK, BookingTypes

LEMMA ReleaseKeeps ==
  ASSUME Inv, NEW c \in Desk, ReleaseAccruals(c)
  PROVE  DeskKeeps(c)
<1>1. PICK b \in Booking : b = desk[c].b
  BY DeskShape DEF ReleaseAccruals, DeskAt
<1>2. PICK f : f = [a \in Accrual |-> IF accrual[b][a].status = "open"
                                        THEN [accrual[b][a] EXCEPT !.status = "released"]
                                        ELSE accrual[b][a]]
  OBVIOUS
<1>3. /\ accrual' = [accrual EXCEPT ![b] = f]
      /\ DeskDone(c) /\ DeskOnly /\ UNCHANGED <<booking, deskCrossed>>
  BY <1>1, <1>2 DEF ReleaseAccruals
<1>4. \A a \in Accrual : /\ f[a] \in AccrualRow
                         /\ accrual[b][a].status = "open" => f[a].status = "released"
                         /\ accrual[b][a].status # "open" => f[a] = accrual[b][a]
  <2> TAKE a \in Accrual
  <2>1. PICK r : r = accrual[b][a]
    OBVIOUS
  <2>2. r \in AccrualRow
    BY <2>1, AccrualShape
  <2>3. [r EXCEPT !.status = "released"] \in AccrualRow
        /\ [r EXCEPT !.status = "released"].status = "released"
    BY <2>2 DEF AccrualRow
  <2> QED  BY <1>2, <2>1, <2>2, <2>3
<1>5. f \in [Accrual -> AccrualRow]
  BY <1>2, <1>4
<1>6. \A a \in Accrual : AccrualMoves(b, a)
  <2> TAKE a \in Accrual
  <2>1. accrual'[b][a] = f[a]
    BY <1>3 DEF Inv, TypeOK, BookingTypes
  <2> QED  BY <1>4, <2>1 DEF AccrualMoves
<1> QED  BY <1>3, <1>5, <1>6, AccrualKeeps

LEMMA ReadOpenKeeps ==
  ASSUME Inv, NEW c \in Desk, ReadOpen(c)
  PROVE  DeskKeeps(c)
<1>1. PICK open \in SUBSET Accrual : open = RowsOf(desk[c].b, "open")
  BY DEF RowsOf
<1>2. desk' = [desk EXCEPT ![c] = DeskWith(c, "find", desk[c].entry, open)]
  <2>1. PICK k : k = desk[c]
    OBVIOUS
  <2>2. [k EXCEPT !.pc = "find", !.open = open]
        = [k EXCEPT !.pc = "find", !.entry = k.entry, !.open = open]
    BY <2>1, DeskShape DEF DeskCall
  <2> QED  BY <1>1, <2>1, <2>2 DEF ReadOpen, DeskWith
<1>3. "find" \in DeskPcs \ {"insert"} /\ desk[c].entry \in Entry \cup {None}
  BY DeskShape DEF DeskPcs, DeskCall
<1>4. \E k : DeskTo(c, k)
  <2>1. PICK e : e = desk[c].entry
    OBVIOUS
  <2>2. desk[c].pc # "idle" /\ DeskOnly
    BY DEF ReadOpen, DeskAt
  <2> QED  BY <1>2, <1>3, <2>1, <2>2, DeskOnQuiet
<1> QED  BY <1>4, DeskThinks DEF ReadOpen

LEMMA FindIssueKeeps ==
  ASSUME Inv, NEW c \in Desk, FindIssue(c)
  PROVE  DeskKeeps(c)
<1>1. desk[c].pc = "find" /\ DeskOnly /\ UNCHANGED <<booking, accrual, deskCrossed>>
  BY DEF FindIssue, DeskAt
<1>2. PICK e : e = FindEntryBySource(desk[c].b)
  OBVIOUS
<1>3. \E k : DeskTo(c, k)
  <2>1. CASE e # None
    <3>1. e \in Entry /\ Own(e, desk[c].b) /\ state[e] \in {"open", "posted"}
      BY <1>2, <2>1, FindShape DEF Inv, TypeOK
    <3>2. PICK pc : pc = IF state[e] = "posted" THEN "realize" ELSE "submit"
      OBVIOUS
    <3>3. desk' = [desk EXCEPT ![c] = DeskWith(c, pc, e, desk[c].open)]
      <4>1. PICK k : k = desk[c]
        OBVIOUS
      <4>2. [k EXCEPT !.entry = e, !.pc = pc]
            = [k EXCEPT !.pc = pc, !.entry = e, !.open = k.open]
        BY <4>1, DeskShape DEF DeskCall
      <4>3. desk' = [desk EXCEPT ![c] = [k EXCEPT !.entry = e, !.pc = pc]]
        BY <1>2, <2>1, <3>2, <4>1 DEF FindIssue
      <4> QED  BY <4>1, <4>2, <4>3 DEF DeskWith
    <3>4. /\ pc \in DeskPcs \ {"insert"} /\ desk[c].open \in SUBSET Accrual
          /\ pc = "submit" => Own(e, desk[c].b)
          /\ pc = "realize" => Issued(e, desk[c].b)
      BY <3>1, <3>2, DeskShape DEF DeskPcs, DeskCall, Issued
    <3> QED  BY <1>1, <3>1, <3>3, <3>4, DeskOnQuiet
  <2>2. CASE e = None
    <3>1. DeskGo(c, "guard") \/ DeskDone(c)
      BY <1>2, <2>2 DEF FindIssue
    <3> QED  BY <1>1, <3>1, DeskGoesOn, DeskReturns
  <2> QED  BY <2>1, <2>2
<1> QED  BY <1>1, <1>3, DeskThinks

LEMMA DeskGuardKeeps ==
  ASSUME Inv, NEW c \in Desk, DeskGuard(c)
  PROVE  DeskKeeps(c)
<1>1. desk[c].pc = "guard" /\ UNCHANGED <<booking, accrual, deskCrossed>>
  BY DEF DeskGuard, DeskAt
<1>2. Held(desk[c]) = {}
  BY <1>1 DEF Held
<1>3. CASE IssuesOf(desk[c].b) # {}
  <2>1. DeskOnly /\ DeskDone(c)
    BY <1>3 DEF DeskGuard, DeskOnly, entries
  <2> QED  BY <1>1, <2>1, DeskReturns, DeskThinks
<1>4. CASE IssuesOf(desk[c].b) = {}
  <2>1. Reserve /\ UNCHANGED <<book, rows, source, lines>>
    BY <1>4 DEF DeskGuard
  <2>2. Forward /\ InsertsOnly({}) /\ \A e : e = next => Fresh(e)'
    BY <2>1, ReserveShape DEF Inv, TypeOK
  <2>3. PICK e : e = next
    OBVIOUS
  <2>4. Fresh(e)' /\ e \in Entry
    BY <2>1, <2>2, <2>3 DEF Reserve
  <2>5. desk' = [desk EXCEPT ![c] = DeskWith(c, "insert", e, desk[c].open)]
    <3>1. PICK k : k = desk[c]
      OBVIOUS
    <3>2. [k EXCEPT !.pc = "insert", !.entry = e]
          = [k EXCEPT !.pc = "insert", !.entry = e, !.open = k.open]
      BY <3>1, DeskShape DEF DeskCall
    <3> QED  BY <1>4, <2>3, <3>1, <3>2 DEF DeskGuard, DeskWith
  <2>6. "insert" \in DeskPcs /\ desk[c].open \in SUBSET Accrual
    BY DeskShape DEF DeskPcs, DeskCall
  <2>7. \E k : DeskTo(c, k)
    BY <1>1, <2>3, <2>4, <2>5, <2>6, DeskOn
  <2> QED  BY <1>1, <1>2, <2>2, <2>7 DEF DeskKeeps, Inv, TypeOK, BookingTypes, AccrualMoves
<1> QED  BY <1>3, <1>4

LEMMA DeskStockKeeps ==
  ASSUME Inv, NEW c \in Desk, UNCHANGED <<booking, accrual, deskCrossed>>,
         Forward, InsertsOnly(Held(desk[c])), desk[c].pc # "idle",
         NEW pc \in {"submit", "realize"}, DeskGo(c, pc),
         \A e, b : e = desk[c].entry /\ b = desk[c].b =>
                     /\ pc = "submit" => Own(e, b)'
                     /\ pc = "realize" => Issued(e, b)'
  PROVE  DeskKeeps(c)
<1>1. desk' = [desk EXCEPT ![c] = DeskWith(c, pc, desk[c].entry, desk[c].open)]
  BY DeskGoes
<1>2. desk[c].entry \in Entry \cup {None} /\ desk[c].open \in SUBSET Accrual
  BY DeskShape DEF DeskCall
<1>3. PICK e, open : e = desk[c].entry /\ open = desk[c].open
  OBVIOUS
<1>4. pc \in DeskPcs \ {"insert"}
  BY DEF DeskPcs
<1>5. \E k : DeskTo(c, k)
  BY <1>1, <1>2, <1>3, <1>4, DeskOn
<1> QED  BY <1>5 DEF DeskKeeps, Inv, TypeOK, BookingTypes, AccrualMoves

LEMMA DeskInsertKeeps ==
  ASSUME Inv, NEW c \in Desk, DeskInsert(c)
  PROVE  DeskKeeps(c)
<1>1. desk[c].pc = "insert" /\ desk[c].b \in Booking
  BY DeskShape DEF DeskInsert, DeskAt
<1>2. PICK e, b : e = desk[c].entry /\ b = desk[c].b
  OBVIOUS
<1>3. PICK items : items = ToIssue(c)
  OBVIOUS
<1>4. items \in SUBSET Bin
  <2>1. desk[c].items \subseteq Bin /\ desk[c].open \subseteq Accrual
    BY DeskShape DEF DeskCall
  <2>2. \A a \in Accrual : a[2] \in Bin
    BY DEF Accrual
  <2> QED  BY <1>3, <2>1, <2>2 DEF ToIssue
<1>5. Fresh(e) /\ b \in Source /\ InsertDraft(e, b, items)
  BY <1>1, <1>2, <1>3 DEF DeskInsert, Inv, DeskSure, Source
<1>6. Forward /\ InsertsOnly({e}) /\ Own(e, b)'
  BY <1>4, <1>5, InsertShape DEF Inv, TypeOK
<1>7. Held(desk[c]) = {e}
  BY <1>1, <1>2 DEF Held
<1> QED  BY <1>1, <1>2, <1>6, <1>7, DeskStockKeeps DEF DeskInsert

LEMMA DeskSubmitKeeps ==
  ASSUME Inv, NEW c \in Desk, DeskSubmit(c)
  PROVE  DeskKeeps(c)
<1>1. desk[c].pc = "submit" /\ desk[c].b \in Booking
  BY DeskShape DEF DeskSubmit, DeskAt
<1>2. PICK e, b : e = desk[c].entry /\ b = desk[c].b
  OBVIOUS
<1>3. Own(e, b) /\ e \in Entry /\ b \in Source /\ SubmitEntry(e)
  BY <1>1, <1>2 DEF DeskSubmit, Inv, DeskSure, Source, Own
<1>4. Forward /\ InsertsOnly({}) /\ state'[e] = "posted"
  BY <1>3, SubmitShape DEF Inv, TypeOK
<1>5. Issued(e, b)'
  BY <1>3, <1>4, OwnKept DEF Issued
<1>6. Held(desk[c]) = {}
  BY <1>1 DEF Held
<1> QED  BY <1>1, <1>2, <1>4, <1>5, <1>6, DeskStockKeeps DEF DeskSubmit

LEMMA RealizeKeeps ==
  ASSUME Inv, NEW c \in Desk, Realize(c)
  PROVE  DeskKeeps(c)
<1>1. PICK b \in Booking : b = desk[c].b
  BY DeskShape DEF Realize, DeskAt
<1>2. PICK e, open : e = desk[c].entry /\ open = desk[c].open
  OBVIOUS
<1>3. Issued(e, b) /\ e \in Entry
  BY <1>1, <1>2 DEF Realize, DeskAt, Inv, DeskSure, Issued, Own
<1>4. PICK f : f = [a \in Accrual |->
          CASE a \notin open \/ accrual[b][a].status # "open" -> accrual[b][a]
            [] a \in open /\ accrual[b][a].status = "open" /\ a[2] \in lines[e] ->
                 [status |-> "realized", entry |-> e]
            [] OTHER -> [accrual[b][a] EXCEPT !.status = "released"]]
  OBVIOUS
<1>5. /\ accrual' = [accrual EXCEPT ![b] = f]
      /\ DeskDone(c) /\ DeskOnly /\ UNCHANGED <<booking, deskCrossed>>
  BY <1>1, <1>2, <1>4 DEF Realize
<1>6. \A a \in Accrual :
        /\ f[a] \in AccrualRow
        /\ \/ f[a] = accrual[b][a]
           \/ /\ accrual[b][a].status = "open"
              /\ \/ f[a].status = "realized" /\ f[a].entry = e /\ a[2] \in lines[e]
                 \/ f[a].status = "released"
  <2> TAKE a \in Accrual
  <2>1. PICK r : r = accrual[b][a]
    OBVIOUS
  <2>2. r \in AccrualRow
    BY <2>1, AccrualShape
  <2>3. /\ [r EXCEPT !.status = "released"] \in AccrualRow
        /\ [r EXCEPT !.status = "released"].status = "released"
        /\ [status |-> "realized", entry |-> e] \in AccrualRow
    BY <1>3, <2>2 DEF AccrualRow
  <2>4. CASE a \notin open \/ r.status # "open"
    <3>1. f[a] = r
      BY <1>4, <2>1, <2>4
    <3> QED  BY <2>1, <2>2, <3>1
  <2>5. CASE a \in open /\ r.status = "open" /\ a[2] \in lines[e]
    <3>1. f[a] = [status |-> "realized", entry |-> e]
      BY <1>4, <2>1, <2>5
    <3> QED  BY <2>1, <2>3, <2>5, <3>1
  <2>6. CASE a \in open /\ r.status = "open" /\ a[2] \notin lines[e]
    <3>1. f[a] = [r EXCEPT !.status = "released"]
      BY <1>4, <2>1, <2>6
    <3> QED  BY <2>1, <2>3, <2>6, <3>1
  <2> QED  BY <2>4, <2>5, <2>6
<1>7. f \in [Accrual -> AccrualRow]
  BY <1>4, <1>6
<1>8. \A a \in Accrual : AccrualMoves(b, a)
  <2> TAKE a \in Accrual
  <2>1. accrual'[b][a] = f[a]
    BY <1>5 DEF Inv, TypeOK, BookingTypes
  <2> QED  BY <1>3, <1>6, <2>1 DEF AccrualMoves
<1> QED  BY <1>5, <1>7, <1>8, AccrualKeeps

LEMMA DeskStepKeeps ==
  ASSUME Inv, NEW c \in Desk, DeskStep(c)
  PROVE  DeskKeeps(c)
BY BeginsKeep, ReadSettledKeeps, AccrueKeeps, SetBookingStatusKeeps, ReleaseKeeps,
   ReadOpenKeeps, FindIssueKeeps, DeskGuardKeeps, DeskInsertKeeps, DeskSubmitKeeps,
   RealizeKeeps
   DEF DeskStep

LEMMA DeskStepInv ==
  ASSUME Inv, NEW c \in Desk, DeskStep(c), UNCHANGED posVars
  PROVE  Inv'
<1>1. DeskKeeps(c)
  BY DeskStepKeeps
<1>2. PICK k : DeskTo(c, k)
  BY <1>1 DEF DeskKeeps
<1>3. Forward /\ InsertsOnly(Held(desk[c])) /\ UNCHANGED <<shift, ticket, till, posCrossed, straddled>>
  BY <1>1 DEF DeskKeeps, posVars
<1>4. TypeOK'
  <2>1. desk' \in [Desk -> DeskCall]
    BY <1>2 DEF DeskTo, Inv, TypeOK, BookingTypes
  <2>2. BookingTypes'
    BY <1>1, <2>1 DEF DeskKeeps, BookingTypes
  <2>3. PosTypes'
    BY <1>3 DEF Inv, TypeOK, PosTypes
  <2> QED  BY <1>3, <2>2, <2>3 DEF Forward, TypeOK
<1>5. PICK X : X = Held(desk[c])
  OBVIOUS
<1>6. Unmade'
  <2>1. \A e \in X : e < next /\ e \in Entry
    BY <1>5, HeldShape DEF Fresh
  <2>2. next \in Nat /\ next' \in Nat /\ next <= next' /\ Entry \subseteq Nat
    BY <1>3, <1>4, NextShape, StockBounds DEF Inv, TypeOK, StockTypes, Forward
  <2>3. ASSUME NEW e \in X
        PROVE  e < next'
    <3>1. e \in Nat /\ e < next
      BY <2>1, <2>2
    <3> QED  BY <2>2, <3>1
  <2> QED  BY <1>3, <1>5, <2>3, UnmadeKept DEF Inv, TypeOK
<1>7. \A d \in Desk : DeskSure(desk[d])'
  <2> TAKE d \in Desk
  <2>1. PICK l : l = desk'[d]
    OBVIOUS
  <2>2. desk \in [Desk -> DeskCall]
    BY DEF Inv, TypeOK, BookingTypes
  <2>3. DeskSure(l)'
    <3>1. CASE d = c
      BY <1>2, <2>1, <2>2, <3>1 DEF DeskTo
    <3>2. CASE d # c
      <4>1. l = desk[d]
        BY <1>2, <2>1, <2>2, <3>2 DEF DeskTo
      <4>2. DeskSure(l) /\ Held(l) \cap X = {}
        BY <1>5, <3>2, <4>1 DEF Inv, Apart
      <4> QED  BY <1>3, <1>5, <4>2, DeskSureKept DEF Inv, TypeOK
    <3> QED  BY <3>1, <3>2
  <2> QED  BY <2>1, <2>3 DEF DeskSure
<1>8. \A d \in Till : TillSure(till[d])'
  <2> TAKE d \in Till
  <2>1. PICK l : l = till[d]
    OBVIOUS
  <2>2. TillSure(l) /\ Held(l) \cap X = {}
    BY <1>5, <2>1 DEF Inv, Apart
  <2>3. TillSure(l)'
    BY <1>3, <1>5, <2>2, TillSureKept DEF Inv, TypeOK
  <2> QED  BY <1>3, <2>1, <2>3 DEF TillSure
<1>9. Apart'
  BY <1>2, <1>3, ApartDesk
<1>10. Stamped'
  BY <1>3, StampedKept DEF Inv
<1>11. Realized'
  <2>1. ASSUME NEW b \in Booking, NEW a \in Accrual, accrual'[b][a].status = "realized"
        PROVE  \E e \in Entry : e = accrual'[b][a].entry /\ Issued(e, b) /\ a[2] \in lines[e]
    BY <1>1, <2>1 DEF DeskKeeps, AccrualMoves, Inv, Realized, Issued, Own
  <2>2. ASSUME NEW b \in Booking, NEW a \in Accrual, accrual'[b][a].status = "realized"
        PROVE  \E e \in Entry : e = accrual'[b][a].entry /\ Issued(e, b)' /\ a[2] \in lines'[e]
    BY <1>3, <2>1, <2>2, IssuedKept DEF Source
  <2> QED  BY <2>2 DEF Realized, Issued, Own
<1> QED  BY <1>4, <1>6, <1>7, <1>8, <1>9, <1>10, <1>11 DEF Inv

LEMMA StockPageInv ==
  ASSUME Inv, StockPageActs
  PROVE  Inv'
<1>1. Forward /\ InsertsOnly({})
  BY SubmitShape, CancelShape, UpdateShape, DeleteShape DEF StockPageActs, StockPage, Inv, TypeOK
<1>2. UNCHANGED <<shift, ticket, till, posCrossed, straddled, booking, accrual, desk, deskCrossed>>
  BY DEF StockPageActs, posVars, deskVars
<1>3. TypeOK'
  BY <1>1, <1>2 DEF Forward, Inv, TypeOK, PosTypes, BookingTypes
<1>4. Unmade'
  BY <1>1, UnmadeKept DEF Inv, TypeOK
<1>5. \A d \in Till : TillSure(till[d])'
  <2> TAKE d \in Till
  <2>1. PICK l : l = till[d]
    OBVIOUS
  <2>2. TillSure(l)'
    BY <1>1, <2>1, TillSureKept DEF Inv, TypeOK
  <2> QED  BY <1>2, <2>1, <2>2 DEF TillSure
<1>6. \A d \in Desk : DeskSure(desk[d])'
  <2> TAKE d \in Desk
  <2>1. PICK l : l = desk[d]
    OBVIOUS
  <2>2. DeskSure(l)'
    BY <1>1, <2>1, DeskSureKept DEF Inv, TypeOK
  <2> QED  BY <1>2, <2>1, <2>2 DEF DeskSure
<1>7. Apart'
  BY <1>2 DEF Inv, Apart, Held
<1>8. Stamped' /\ Realized'
  BY <1>1, <1>2, StampedKept, RealizedKept DEF Inv
<1> QED  BY <1>3, <1>4, <1>5, <1>6, <1>7, <1>8 DEF Inv

LEMMA InvInit ==
  ASSUME Init
  PROVE  Inv
<1>1. MaxEntry \in Nat \ {0} /\ Other \in Entry /\ InStock \in Nat
  BY StockBounds DEF Other, Entry
<1>2. StockTypes
  BY <1>1 DEF Init, SourcedInit, StockTypes, Book!Nothing, Other
<1>3. \A c \in Till : till[c] \in TillCall /\ till[c].pc = "idle"
  BY DEF Init, PosInit, TillIdle, TillCall
<1>4. \A c \in Desk : desk[c] \in DeskCall /\ desk[c].pc = "idle"
  BY DEF Init, BookingInit, DeskIdle, DeskCall
<1>5. \A t \in Ticket : ticket[t] \in TicketRow /\ ticket[t].stamp = None
  BY DEF Init, PosInit, TicketRow
<1>6. NoAccrual \in AccrualRow /\ NoAccrual.status = "absent"
  BY DEF NoAccrual, AccrualRow
<1>7. PosTypes
  <2>1. PICK open \in BOOLEAN : PosInit(open)
    BY DEF Init
  <2>2. shift \in [status : {"open", "closed"}, expected : SUBSET Ticket]
    BY <2>1 DEF PosInit
  <2>3. ticket \in [Ticket -> TicketRow] /\ till \in [Till -> TillCall]
    BY <1>3, <1>5, <2>1 DEF PosInit
  <2> QED  BY <2>1, <2>2, <2>3 DEF PosInit, PosTypes
<1>8. BookingTypes
  BY <1>4, <1>6 DEF Init, BookingInit, BookingTypes, Statuses
<1>9. Unmade
  BY DEF Init, SourcedInit, Unmade
<1>10. Apart
  BY <1>3, <1>4 DEF Apart, Held
<1>11. Realized
  BY <1>6 DEF Init, BookingInit, Realized
<1>12. (\A c \in Till : TillSure(till[c])) /\ (\A c \in Desk : DeskSure(desk[c]))
  BY <1>3, <1>4 DEF TillSure, DeskSure
<1>13. Stamped
  BY <1>5 DEF Stamped
<1> QED  BY <1>2, <1>7, <1>8, <1>9, <1>10, <1>11, <1>12, <1>13 DEF Inv, TypeOK

LEMMA InvStutters ==
  ASSUME Inv, UNCHANGED vars
  PROVE  Inv'
<1>1. UNCHANGED <<onHand, state, moved, rows, source, lines, next>>
  BY DEF vars, book, entries
<1>2. UNCHANGED <<shift, ticket, till, posCrossed, straddled, booking, accrual, desk, deskCrossed>>
  BY DEF vars, posVars, deskVars
<1> QED
  BY <1>1, <1>2 DEF Inv, TypeOK, StockTypes, PosTypes, BookingTypes, Unmade, TillSure,
     DeskSure, Apart, Held, Stamped, Realized, Issued, Own, Fresh

LEMMA InvKept == Spec => []Inv
<1>1. Init => Inv
  BY InvInit
<1>2. Inv /\ [Next]_vars => Inv'
  BY PosStepKeeps, DeskStepInv, StockPageInv, InvStutters DEF Next
<1> QED  BY <1>1, <1>2, PTL DEF Spec
----------------------------------------------------------------------------
(* Theorems *)

(* Types, through every interleaving of requests: a request that submits or *)
(* cancels an entry, stamps a ticket or realizes an accrual has one in hand.*)
THEOREM SourcedTypes == Spec => []TypeOK
<1>1. Inv => TypeOK
  BY DEF Inv
<1> QED  BY <1>1, InvKept, PTL

(* Whatever a ticket is stamped with was issued for it and moved its stock: *)
(* the id of an entry is reserved before it is inserted, and what was found *)
(* or made for a ticket stays what it was.                                 *)
THEOREM StampsAreOwn == Spec => []StampIsOwnIssue
<1>1. Inv => StampIsOwnIssue
  BY DEF Inv, Stamped, StampIsOwnIssue, Issued, Own
<1> QED  BY <1>1, InvKept, PTL

(* Whatever an accrual was realized by was issued for its booking and moved *)
(* its item, though the booking be cancelled, adjusted or completed twice   *)
(* at the same time.                                                       *)
THEOREM AccrualsAreIssued == Spec => []RealizedByIssue
<1>1. Inv => RealizedByIssue
  BY DEF Inv, Realized, RealizedByIssue, Issued, Own
<1> QED  BY <1>1, InvKept, PTL

(* A row once realized or released is never written again, by any number of *)
(* requests at once: each of the three writers looks at the rows it writes  *)
(* in the statement that writes them.                                      *)
THEOREM SettledForGood == Spec => SettledRowsStay
<1>1. ASSUME Inv, Next
      PROVE  \A b \in Booking : \A a \in Settled(b) : accrual'[b][a] = accrual[b][a]
  <2>1. CASE \E c \in Till : PosStep(c) /\ UNCHANGED deskVars
    BY <2>1 DEF deskVars
  <2>2. CASE \E c \in Desk : DeskStep(c) /\ UNCHANGED posVars
    BY <1>1, <2>2, DeskStepKeeps DEF DeskKeeps, AccrualMoves, Settled, RowsOf
  <2>3. CASE StockPageActs
    BY <2>3 DEF StockPageActs, deskVars
  <2> QED  BY <1>1, <2>1, <2>2, <2>3 DEF Next
<1>2. Inv /\ [Next]_vars
      => [\A b \in Booking : \A a \in Settled(b) : accrual'[b][a] = accrual[b][a]]_deskVars
  BY <1>1 DEF vars
<1> QED  BY <1>2, InvKept, PTL DEF Spec, SettledRowsStay

============================================================================
