------------------------- MODULE StockLedgerProofs -------------------------
(* Theorems about StockLedger, for every value of its constants. *)
EXTENDS StockLedger, TLAPS

LEMMA IdleType == Idle \in Tx
BY NoneAssumption DEF Idle, Tx, Op

LEMMA UndoType ==
  ASSUME TypeOK, NEW t \in Session, Undo(t)
  PROVE  TypeOK'
BY IdleType DEF TypeOK, Undo

(* Both kinds of movement are sets of moves between bins. *)
LEMMA PostingsType ==
  ASSUME NEW d \in Doc, Submittable(d)
  PROVE  Postings(d) \subseteq Move
<1>1. d.type \in EntryType /\ d.lines \in Seq(Line)
  BY DocAssumption
<1>2. ASSUME NEW i \in DOMAIN d.lines
      PROVE  ExpandLine(d.type, i, d.lines[i]) \in Move
  <2>1. d.lines[i] \in Line /\ i \in Nat
    BY <1>1
  <2> QED
    BY <2>1 DEF ExpandLine, Legs, Move, Line
<1> QED
  BY <1>2 DEF Postings

LEMMA ReversalsType ==
  ASSUME NEW rows, rows \subseteq Row
  PROVE  Reversals(rows) \subseteq Move
<1>1. ASSUME NEW r \in Row
      PROVE  /\ Legs(r.id, -r.delta, None, r.bin) \in Move
             /\ Legs(r.id, r.delta, r.bin, None) \in Move
  BY BoundAssumption DEF Legs, Move, Row, Id
<1> QED
  BY <1>1 DEF Reversals

LEMMA MoveBinsType ==
  ASSUME NEW m \in Move
  PROVE  MoveBins(m) \subseteq Bin
BY DEF Move, MoveBins

LEMMA BinsOfType ==
  ASSUME NEW moves, moves \subseteq Move
  PROVE  BinsOf(moves) \subseteq Bin
BY MoveBinsType DEF BinsOf

LEMMA DeltaType ==
  ASSUME NEW m \in Move, NEW b \in Bin
  PROVE  Delta(m, b) \in Int
BY DEF Delta, Move

LEMMA BeginType ==
  ASSUME TypeOK, NEW t \in Session, NEW e \in Entry, NEW op \in Op,
         NEW moves, moves \subseteq Move,
         Begin(t, e, op, moves), UNCHANGED <<status, doc, bins, ledger>>
  PROVE  TypeOK'
<1> DEFINE r == [Idle EXCEPT !.pc = "work", !.op = op, !.ent = e,
                             !.moves = moves, !.keys = BinsOf(moves),
                             !.need = BinsOf(moves)]
<1>1. r \in Tx
  BY IdleType, BinsOfType DEF Tx, Op
<1>2. tx' = [tx EXCEPT ![t] = r]
  BY DEF Begin
<1> QED
  BY <1>1, <1>2 DEF TypeOK

LEMMA ReadDraftType ==
  ASSUME TypeOK, NEW t \in Session, NEW e \in Entry, NEW op \in Op,
         NEW d \in Doc \cup {None}, ReadDraft(t, e, op, d)
  PROVE  TypeOK'
<1> DEFINE r == [Idle EXCEPT !.pc = "read", !.op = op, !.ent = e, !.next = d]
<1>1. r \in Tx
  BY IdleType DEF Tx
<1> QED
  BY <1>1 DEF ReadDraft, TypeOK

LEMMA LedgerRowsType ==
  ASSUME TypeOK, NEW t \in Session, NEW m \in Move, NEW id \in Id
  PROVE  /\ LedgerRows(t, m, id) \subseteq Row
         /\ [b \in Bin |-> After(t, m, b)] \in [Bin -> Int]
<1>1. tx[t].seen \in [Bin -> Int] /\ tx[t].ent \in Entry \cup {None}
  BY DEF TypeOK, Tx
<1>2. ASSUME NEW b \in Bin
      PROVE  After(t, m, b) \in Int /\ Delta(m, b) \in Int
  BY <1>1, DeltaType DEF After
<1> QED
  BY <1>1, <1>2, MoveBinsType DEF LedgerRows, Row

(* Each step of an open transaction keeps the types. *)
LEMMA StepType ==
  ASSUME TypeOK, NEW t \in Session, Step(t)
  PROVE  TypeOK'
<1> tx[t] \in Tx
  BY DEF TypeOK
<1>1. CASE UpdateEntryWrite(t)
  <2>1. tx[t].ent \in Entry \cup {None} /\ tx[t].next \in Doc \cup {None}
    BY DEF Tx
  <2> QED
    BY <1>1, <2>1, IdleType DEF UpdateEntryWrite, TypeOK
<1>2. CASE DeleteEntryWrite(t)
  BY <1>2, IdleType DEF DeleteEntryWrite, TypeOK
<1>3. CASE UpdateEntryRefused(t) \/ DeleteEntryRefused(t)
  BY <1>3, UndoType DEF UpdateEntryRefused, DeleteEntryRefused
<1>fields. ASSUME NEW b \in Bin, NEW q \in Int
      PROVE  /\ Done(tx[t], b) \in Tx
             /\ DoneRead(tx[t], b, q) \in Tx
             /\ [Done(tx[t], b) EXCEPT !.held = tx[t].held \cup {b}] \in Tx
             /\ [DoneRead(tx[t], b, q) EXCEPT !.held = tx[t].held \cup {b}] \in Tx
  <2>1. Done(tx[t], b) \in Tx
    BY DEF Done, Tx
  <2>2. DoneRead(tx[t], b, q) \in Tx
    BY <2>1 DEF DoneRead, Tx
  <2> QED
    BY <2>1, <2>2 DEF Tx
<1>4. ASSUME NEW b \in Bin, LockBin(t, b)
      PROVE  TypeOK'
  <2>1. QtyRead(t, b) \in Int
    BY DEF QtyRead, TypeOK, Tx
  <2> QED
    BY <1>4, <1>fields, <2>1 DEF LockBin, TypeOK
<1>5. ASSUME NEW b \in Bin, MissBin(t, b)
      PROVE  TypeOK'
  <2>1. 0 \in Int
    OBVIOUS
  <2>2. DoneRead(tx[t], b, 0) \in Tx
    BY <1>fields, <2>1
  <2> QED
    BY <1>5, <2>2 DEF MissBin, TypeOK
<1>6. ASSUME NEW b \in Bin, BlockOnBin(t, b)
      PROVE  TypeOK'
  BY <1>6 DEF BlockOnBin, TypeOK, Tx
<1>7. ASSUME NEW b \in Bin, PutBin(t, b)
      PROVE  TypeOK'
  BY <1>7, <1>fields DEF PutBin, TypeOK
<1>8. ASSUME NEW m \in tx[t].moves, PostMove(t, m)
      PROVE  TypeOK'
  <2>1. m \in Move
    BY DEF Tx
  <2>2. PICK id \in Id : Post(t, m, id)
    BY <1>8 DEF PostMove
  <2> DEFINE r == [tx[t] EXCEPT !.moves = @ \ {m},
                                !.buf = @ \cup LedgerRows(t, m, id),
                                !.seen = [b \in Bin |-> After(t, m, b)]]
  <2>3. r \in Tx
    <3>1. LedgerRows(t, m, id) \subseteq Row /\ [b \in Bin |-> After(t, m, b)] \in [Bin -> Int]
      BY <2>1, LedgerRowsType
    <3> QED
      BY <3>1 DEF Tx
  <2>4. tx' = [tx EXCEPT ![t] = r]
    BY <2>2 DEF Post
  <2> QED
    BY <1>8, <2>3, <2>4 DEF PostMove, TypeOK
<1>9. ASSUME NEW m \in tx[t].moves, NegativeStock(t, m)
      PROVE  TypeOK'
  BY <1>9, UndoType DEF NegativeStock
<1>10. CASE Posted(t)
  BY <1>10 DEF Posted, TypeOK, Tx
<1>11. CASE CommitPosting(t)
  <2>1. tx[t].seen \in [Bin -> Int] /\ tx[t].buf \subseteq Row
    BY DEF Tx
  <2>2. bins' \in [Bin -> [there : BOOLEAN, qty : Int]]
    BY <1>11, <2>1 DEF CommitPosting, TypeOK
  <2>3. status' \in [Entry -> EntryStatus \cup {"absent", "deleted"}]
    BY <1>11 DEF CommitPosting, TypeOK, EntryStatus
  <2>4. tx' \in [Session -> Tx]
    BY <1>11, IdleType DEF CommitPosting, TypeOK
  <2> QED
    BY <1>11, <2>1, <2>2, <2>3, <2>4 DEF CommitPosting, TypeOK
<1>12. CASE DeleteBins(t)
  BY <1>12 DEF DeleteBins, TypeOK, Tx
<1>13. CASE CommitRebuild(t)
  <2>1. tx[t].seen \in [Bin -> Int]
    BY DEF Tx
  <2>2. bins' \in [Bin -> [there : BOOLEAN, qty : Int]]
    BY <1>13, <2>1 DEF CommitRebuild, TypeOK
  <2>3. ASSUME NEW s \in Session
        PROVE  [tx[s] EXCEPT !.gone = @ \/ tx[s].want \in tx[t].held] \in Tx
    <3> DEFINE r == tx[s]
               g == r.gone \/ r.want \in tx[t].held
    <3>1. r \in Tx
      BY DEF TypeOK
    <3>2. g \in BOOLEAN
      OBVIOUS
    <3> HIDE DEF r, g
    <3>3. [r EXCEPT !.gone = g] \in Tx
      BY <3>1, <3>2 DEF Tx
    <3> QED
      BY <3>3 DEF r, g
  <2>4. tx' \in [Session -> Tx]
    BY <1>13, <2>3, IdleType DEF CommitRebuild
  <2> QED
    BY <1>13, <2>2, <2>4 DEF CommitRebuild, TypeOK
<1> QED
  BY <1>1, <1>2, <1>3, <1>4, <1>5, <1>6, <1>7, <1>8, <1>9, <1>10, <1>11, <1>12,
     <1>13 DEF Step

(* The rows of each bin in S have a latest one: what replayBins looks for. *)
HasLatest(S) ==
  \A b \in Bin :
    (\E r \in S : r.bin = b) =>
      \E r \in S : r.bin = b /\ \A q \in S : q.bin = b => q.id <= r.id

LEMMA HasLatestUnion ==
  ASSUME NEW S, NEW T, S \subseteq Row, T \subseteq Row, HasLatest(S), HasLatest(T)
  PROVE  HasLatest(S \cup T)
<1> SUFFICES ASSUME NEW b \in Bin, \E r \in S \cup T : r.bin = b
             PROVE  \E r \in S \cup T :
                      r.bin = b /\ \A q \in S \cup T : q.bin = b => q.id <= r.id
  BY DEF HasLatest
<1> \A r \in S \cup T : r.id \in Int
  BY BoundAssumption DEF Row, Id
<1>1. CASE ~ \E r \in S : r.bin = b
  BY <1>1 DEF HasLatest
<1>2. CASE ~ \E r \in T : r.bin = b
  BY <1>2 DEF HasLatest
<1>3. CASE (\E r \in S : r.bin = b) /\ (\E r \in T : r.bin = b)
  <2>1. PICK r \in S : r.bin = b /\ \A q \in S : q.bin = b => q.id <= r.id
    BY <1>3 DEF HasLatest
  <2>2. PICK p \in T : p.bin = b /\ \A q \in T : q.bin = b => q.id <= p.id
    BY <1>3 DEF HasLatest
  <2>3. CASE p.id <= r.id
    BY <2>1, <2>2, <2>3
  <2>4. CASE r.id <= p.id
    BY <2>1, <2>2, <2>4
  <2> QED
    BY <2>3, <2>4
<1> QED
  BY <1>1, <1>2, <1>3

LEMMA ReplayType ==
  ASSUME TypeOK, HasLatest(ledger)
  PROVE  Replay \in [Bin -> Int]
<1> SUFFICES ASSUME NEW b \in Bin, HasRows(b)
             PROVE  (CHOOSE r \in ledger : LatestRow(b, r)).after \in Int
  BY DEF Replay
<1>1. \E r \in ledger : LatestRow(b, r)
  BY DEF HasRows, HasLatest, LatestRow
<1> QED
  BY <1>1 DEF TypeOK, Row

----------------------------------------------------------------------------
(* Documents and the sessions that post them *)

Posting(t) == tx[t].op \in {"submit", "cancel"}

(* A posting session holds the lock of an entry that is still in the state *)
(* it found it in; only posting sessions have moves and rows.              *)
SessionOK(t) ==
  /\ tx[t].op = "submit" => tx[t].ent \in Entry /\ status[tx[t].ent] = "draft"
  /\ tx[t].op = "cancel" => tx[t].ent \in Entry /\ status[tx[t].ent] = "submitted"
  /\ tx[t].op \in {"update", "delete"} => tx[t].ent \in Entry
  /\ tx[t].op = "update" => tx[t].next \in Doc
  /\ \A r \in tx[t].buf : r.ent = tx[t].ent
  /\ tx[t].buf # {} \/ tx[t].moves # {} => Posting(t)

OneSessionPerEntry ==
  \A s, t \in Session : s # t /\ Posting(s) /\ Posting(t) => tx[s].ent # tx[t].ent

DocInv ==
  /\ \A e \in Entry : status[e] \in EntryStatus => doc[e] \in Doc
  /\ \A t \in Session : SessionOK(t)
  /\ OneSessionPerEntry
  /\ RowsHaveDocument

(* What type correctness rests on: documents have contents, and rebuildBins *)
(* always finds a latest row to replay.                                     *)
TypeInv ==
  /\ TypeOK
  /\ DocInv
  /\ HasLatest(ledger)
  /\ \A t \in Session : HasLatest(tx[t].buf)

LEMMA ScopeType == \A scope \in Scope : scope \subseteq Bin
BY ItemAssumption DEF Scope

LEMMA RequestType ==
  ASSUME TypeInv, NEW t \in Session, Request(t)
  PROVE  TypeOK'
<1> USE DEF TypeInv, DocInv
<1>1. ASSUME NEW e \in Entry, BeginSubmit(t, e)
      PROVE  TypeOK'
  <2>1. doc[e] \in Doc
    BY <1>1 DEF EntryStatus, BeginSubmit
  <2> QED
    BY <1>1, <2>1, PostingsType, BeginType DEF BeginSubmit, Op
<1>2. ASSUME NEW e \in Entry, BeginCancel(t, e)
      PROVE  TypeOK'
  <2>1. RowsOf(e) \subseteq Row
    BY DEF RowsOf, TypeOK
  <2> QED
    BY <1>2, <2>1, ReversalsType, BeginType DEF BeginCancel, Op
<1>3. ASSUME NEW e \in Entry, DeleteEntryRead(t, e)
      PROVE  TypeOK'
  BY <1>3, ReadDraftType DEF DeleteEntryRead, Op
<1>4. ASSUME NEW e \in Entry, NEW d \in Doc, UpdateEntryRead(t, e, d)
      PROVE  TypeOK'
  BY <1>4, ReadDraftType DEF UpdateEntryRead, Op
<1>5. ASSUME NEW scope \in Scope, BeginRebuild(t, scope)
      PROVE  TypeOK'
  <2> DEFINE r == [Idle EXCEPT !.pc = "read", !.op = "rebuild", !.seen = Replay,
                               !.keys = {b \in scope : HasRows(b)}, !.need = scope]
  <2>1. r \in Tx
    BY IdleType, ReplayType, ScopeType DEF Tx, Op
  <2> QED
    BY <1>5, <2>1 DEF BeginRebuild, TypeOK
<1> QED
  BY <1>1, <1>2, <1>3, <1>4, <1>5 DEF Request

(* Every step keeps the types. *)
LEMMA NextType ==
  ASSUME TypeInv, [Next]_vars
  PROVE  TypeOK'
<1>1. CASE UNCHANGED vars
  BY <1>1 DEF vars, TypeInv, TypeOK
<1>2. ASSUME NEW e \in Entry, NEW d \in Doc, CreateEntry(e, d)
      PROVE  TypeOK'
  BY <1>2 DEF EntryStatus, CreateEntry, TypeInv, TypeOK
<1>3. ASSUME NEW t \in Session, DeadlockAbort(t) \/ ConnectionLost(t)
      PROVE  TypeOK'
  BY <1>3, UndoType DEF DeadlockAbort, ConnectionLost, TypeInv
<1> QED
  BY <1>1, <1>2, <1>3, RequestType, StepType DEF Next, TypeInv

(* The steps that leave the tables alone and change one session t only, to  *)
(* a record that keeps its entry.                                           *)
LEMMA QuietStep ==
  ASSUME TypeInv, NEW t \in Session, NEW r,
         tx' = [tx EXCEPT ![t] = r], UNCHANGED <<status, doc, bins, ledger>>,
         r.op = tx[t].op, r.ent = tx[t].ent, r.next = tx[t].next,
         \A q \in r.buf : q.ent = r.ent,
         r.buf # {} \/ r.moves # {} => Posting(t),
         HasLatest(r.buf)
  PROVE  DocInv' /\ HasLatest(ledger)' /\ \A s \in Session : HasLatest(tx[s].buf)'
<1> USE DEF TypeInv, DocInv
<1>1. tx'[t] = r /\ \A s \in Session \ {t} : tx'[s] = tx[s]
  BY DEF TypeOK
<1>2. \A s \in Session : SessionOK(s)'
  BY <1>1 DEF SessionOK, Posting
<1>3. OneSessionPerEntry'
  BY <1>1 DEF OneSessionPerEntry, Posting
<1>4. RowsHaveDocument'
  BY DEF RowsHaveDocument, RowsOf
<1> QED
  BY <1>1, <1>2, <1>3, <1>4 DEF HasLatest

(* ... and one that also keeps its moves and its rows keeps everything. *)
LEMMA SameRowsStep ==
  ASSUME TypeInv, TypeOK', NEW t \in Session, NEW r,
         tx' = [tx EXCEPT ![t] = r], UNCHANGED <<status, doc, bins, ledger>>,
         r.op = tx[t].op, r.ent = tx[t].ent, r.next = tx[t].next,
         r.buf = tx[t].buf, r.moves = tx[t].moves
  PROVE  TypeInv'
<1>1. SessionOK(t) /\ HasLatest(tx[t].buf)
  BY DEF TypeInv, DocInv
<1>2. /\ \A q \in r.buf : q.ent = r.ent
      /\ r.buf # {} \/ r.moves # {} => Posting(t)
      /\ HasLatest(r.buf)
  BY <1>1 DEF SessionOK
<1>3. DocInv' /\ HasLatest(ledger)' /\ \A s \in Session : HasLatest(tx[s].buf)'
  BY <1>2, QuietStep
<1> QED
  BY <1>3 DEF TypeInv

(* A session that ends, having posted or not, gives up its entry. *)
LEMMA EndOfSession ==
  ASSUME TypeInv, NEW t \in Session, tx' = [tx EXCEPT ![t] = Idle],
         \A s \in Session \ {t} : Posting(s) => status'[tx[s].ent] = status[tx[s].ent]
  PROVE  /\ \A s \in Session : SessionOK(s)'
         /\ OneSessionPerEntry'
         /\ \A s \in Session : HasLatest(tx[s].buf)'
<1> USE DEF TypeInv, DocInv
<1>1. tx'[t] = Idle /\ \A s \in Session \ {t} : tx'[s] = tx[s]
  BY DEF TypeOK
<1>2. \A s \in Session : SessionOK(s)'
  BY <1>1 DEF SessionOK, Posting, Idle
<1>3. OneSessionPerEntry'
  BY <1>1 DEF OneSessionPerEntry, Posting, Idle
<1>4. HasLatest({})
  BY DEF HasLatest
<1>5. \A s \in Session : HasLatest(tx'[s].buf)
  BY <1>1, <1>4 DEF Idle
<1> QED
  BY <1>2, <1>3, <1>5 DEF HasLatest

LEMMA UndoInv ==
  ASSUME TypeInv, NEW t \in Session, Undo(t)
  PROVE  TypeInv'
<1>1. RowsHaveDocument'
  BY DEF Undo, TypeInv, DocInv, RowsHaveDocument, RowsOf
<1> QED
  BY <1>1, UndoType, EndOfSession DEF Undo, TypeInv, DocInv, HasLatest

LEMMA StepInv ==
  ASSUME TypeInv, NEW t \in Session, Step(t)
  PROVE  TypeInv'
<1> TypeOK'
  BY StepType DEF TypeInv
<1> tx[t] \in Tx
  BY DEF TypeInv, TypeOK
<1>1. CASE UpdateEntryWrite(t)
  <2>1. tx[t].ent \in Entry /\ tx[t].next \in Doc
    BY <1>1 DEF UpdateEntryWrite, TypeInv, DocInv, SessionOK
  <2>2. \A e \in Entry : status'[e] \in EntryStatus => doc'[e] \in Doc
    BY <1>1, <2>1 DEF UpdateEntryWrite, TypeInv, DocInv, TypeOK
  <2>3. RowsHaveDocument'
    BY <1>1 DEF UpdateEntryWrite, TypeInv, DocInv, RowsHaveDocument, RowsOf
  <2>4. /\ \A s \in Session : SessionOK(s)'
        /\ OneSessionPerEntry'
        /\ \A s \in Session : HasLatest(tx[s].buf)'
    BY <1>1, EndOfSession DEF UpdateEntryWrite
  <2> QED
    BY <1>1, <2>2, <2>3, <2>4 DEF UpdateEntryWrite, TypeInv, DocInv, HasLatest
<1>2. CASE DeleteEntryWrite(t)
  <2> DEFINE e == tx[t].ent
  <2>1. e \in Entry
    BY <1>2 DEF DeleteEntryWrite, TypeInv, DocInv, SessionOK
  <2>2. \A s \in Session : Posting(s) => tx[s].ent # e
    BY <1>2 DEF DeleteEntryWrite, EntryFree, Posting
  <2>3. \A s \in Session \ {t} : Posting(s) => status'[tx[s].ent] = status[tx[s].ent]
    BY <1>2, <2>1, <2>2 DEF DeleteEntryWrite, TypeInv, TypeOK
  <2>4. RowsHaveDocument'
    BY <1>2, <2>1 DEF DeleteEntryWrite, TypeInv, TypeOK, DocInv, RowsHaveDocument, RowsOf
  <2>5. \A f \in Entry : status'[f] \in EntryStatus => doc'[f] \in Doc
    BY <1>2, <2>1 DEF EntryStatus, DeleteEntryWrite, TypeInv, TypeOK, DocInv
  <2>6. /\ \A s \in Session : SessionOK(s)'
        /\ OneSessionPerEntry'
        /\ \A s \in Session : HasLatest(tx[s].buf)'
    BY <1>2, <2>3, EndOfSession DEF DeleteEntryWrite
  <2> QED
    BY <1>2, <2>4, <2>5, <2>6 DEF DeleteEntryWrite, TypeInv, DocInv, HasLatest
<1>3. CASE UpdateEntryRefused(t) \/ DeleteEntryRefused(t)
  BY <1>3, UndoInv DEF UpdateEntryRefused, DeleteEntryRefused
<1>4. ASSUME NEW b \in Bin, LockBin(t, b) \/ MissBin(t, b) \/ BlockOnBin(t, b) \/ PutBin(t, b)
      PROVE  TypeInv'
  <2>1. PICK r : /\ tx' = [tx EXCEPT ![t] = r]
                 /\ UNCHANGED <<status, doc, bins, ledger>>
                 /\ r.op = tx[t].op /\ r.ent = tx[t].ent /\ r.next = tx[t].next
                 /\ r.buf = tx[t].buf /\ r.moves = tx[t].moves
    <3>1. CASE LockBin(t, b)
      <4> DEFINE r == [DoneRead(tx[t], b, QtyRead(t, b)) EXCEPT
                         !.held = tx[t].held \cup {b}]
      <4> WITNESS r
      <4> QED
        BY <3>1 DEF LockBin, DoneRead, Done, Tx
    <3>2. CASE MissBin(t, b)
      <4> DEFINE r == DoneRead(tx[t], b, 0)
      <4> WITNESS r
      <4> QED
        BY <3>2 DEF MissBin, DoneRead, Done, Tx
    <3>3. CASE BlockOnBin(t, b)
      <4> DEFINE r == [tx[t] EXCEPT !.want = b]
      <4> WITNESS r
      <4> QED
        BY <3>3 DEF BlockOnBin, Tx
    <3>4. CASE PutBin(t, b)
      <4> DEFINE r == [Done(tx[t], b) EXCEPT !.held = tx[t].held \cup {b}]
      <4> WITNESS r
      <4> QED
        BY <3>4 DEF PutBin, Done, Tx
    <3> QED
      BY <1>4, <3>1, <3>2, <3>3, <3>4
  <2> QED
    BY <2>1, SameRowsStep
<1>5. ASSUME NEW m \in tx[t].moves, PostMove(t, m)
      PROVE  TypeInv'
  <2>1. m \in Move
    BY DEF Tx
  <2>2. PICK id \in Id : Post(t, m, id)
    BY <1>5 DEF PostMove
  <2> DEFINE r == [tx[t] EXCEPT !.moves = @ \ {m},
                                !.buf = @ \cup LedgerRows(t, m, id),
                                !.seen = [b \in Bin |-> After(t, m, b)]]
  <2>3. tx' = [tx EXCEPT ![t] = r]
    BY <2>2 DEF Post
  <2>4. HasLatest(LedgerRows(t, m, id)) /\ LedgerRows(t, m, id) \subseteq Row
    BY <2>1, LedgerRowsType, BoundAssumption DEF LedgerRows, HasLatest, TypeInv, Id
  <2>5. HasLatest(r.buf)
    BY <2>4, HasLatestUnion DEF TypeInv, Tx
  <2>6. \A q \in r.buf : q.ent = r.ent
    BY DEF LedgerRows, TypeInv, DocInv, SessionOK, Tx
  <2>7. Posting(t)
    BY DEF TypeInv, DocInv, SessionOK
  <2>8. r.op = tx[t].op /\ r.ent = tx[t].ent /\ r.next = tx[t].next
    BY DEF Tx
  <2> QED
    BY <1>5, <2>3, <2>5, <2>6, <2>7, <2>8, QuietStep DEF PostMove, TypeInv
<1>6. ASSUME NEW m \in tx[t].moves, NegativeStock(t, m)
      PROVE  TypeInv'
  BY <1>6, UndoInv DEF NegativeStock
<1>7. CASE Posted(t) \/ DeleteBins(t)
  <2>1. PICK r : /\ tx' = [tx EXCEPT ![t] = r]
                 /\ UNCHANGED <<status, doc, bins, ledger>>
                 /\ r.op = tx[t].op /\ r.ent = tx[t].ent /\ r.next = tx[t].next
                 /\ r.buf = tx[t].buf /\ r.moves = tx[t].moves
    <3>1. CASE Posted(t)
      <4> DEFINE r == [tx[t] EXCEPT !.pc = "write", !.need = tx[t].keys]
      <4> WITNESS r
      <4> QED
        BY <3>1 DEF Posted, Tx
    <3>2. CASE DeleteBins(t)
      <4> DEFINE r == [tx[t] EXCEPT !.pc = "work", !.need = {b \in @ : bins[b].there}]
      <4> WITNESS r
      <4> QED
        BY <3>2 DEF DeleteBins, Tx
    <3> QED
      BY <1>7, <3>1, <3>2
  <2> QED
    BY <2>1, SameRowsStep
<1>8. CASE CommitPosting(t)
  <2> DEFINE e == tx[t].ent
  <2>1. e \in Entry /\ Posting(t) /\ \A q \in tx[t].buf : q.ent = e
    BY <1>8 DEF CommitPosting, TypeInv, DocInv, SessionOK, Posting
  <2>2. \A s \in Session \ {t} : Posting(s) => tx[s].ent # e
    BY <2>1 DEF TypeInv, DocInv, OneSessionPerEntry
  <2>0. /\ status' \in [Entry -> EntryStatus \cup {"absent", "deleted"}]
        /\ status'[e] \in {"submitted", "cancelled"}
        /\ \A f \in Entry \ {e} : status'[f] = status[f]
    <3>1. PICK v \in {"submitted", "cancelled"} : status' = [status EXCEPT ![e] = v]
      BY <1>8 DEF CommitPosting
    <3> QED
      BY <3>1, <2>1 DEF TypeInv, TypeOK
  <2>3. ASSUME NEW s \in Session \ {t}, Posting(s)
        PROVE  status'[tx[s].ent] = status[tx[s].ent]
    <3>1. tx[s].ent \in Entry
      BY <2>3 DEF TypeInv, DocInv, SessionOK, Posting
    <3> QED
      BY <3>1, <2>0, <2>2, <2>3
  <2>4. RowsHaveDocument'
    <3>1. \A f \in Entry \ {e} : RowsOf(f)' = RowsOf(f)
      BY <1>8, <2>1 DEF CommitPosting, RowsOf
    <3> QED
      BY <2>0, <3>1 DEF RowsHaveDocument, TypeInv, DocInv
  <2>5. \A f \in Entry : status'[f] \in EntryStatus => doc'[f] \in Doc
    BY <1>8, <2>1 DEF CommitPosting, TypeInv, TypeOK, DocInv, SessionOK, Posting
  <2>6. /\ \A s \in Session : SessionOK(s)'
        /\ OneSessionPerEntry'
        /\ \A s \in Session : HasLatest(tx[s].buf)'
    BY <1>8, <2>3, EndOfSession DEF CommitPosting
  <2>7. HasLatest(ledger')
    BY <1>8, HasLatestUnion DEF CommitPosting, TypeInv, TypeOK, Tx
  <2> QED
    BY <2>4, <2>5, <2>6, <2>7 DEF TypeInv, DocInv, HasLatest
<1>9. CASE CommitRebuild(t)
  <2>1. tx'[t] = Idle
    BY <1>9 DEF CommitRebuild
  <2>2. \A s \in Session \ {t} :
          /\ tx'[s].op = tx[s].op /\ tx'[s].ent = tx[s].ent
          /\ tx'[s].next = tx[s].next /\ tx'[s].buf = tx[s].buf
          /\ tx'[s].moves = tx[s].moves
    <3> SUFFICES ASSUME NEW s \in Session \ {t}
                 PROVE  /\ tx'[s].op = tx[s].op /\ tx'[s].ent = tx[s].ent
                        /\ tx'[s].next = tx[s].next /\ tx'[s].buf = tx[s].buf
                        /\ tx'[s].moves = tx[s].moves
      OBVIOUS
    <3>1. tx'[s] = [tx[s] EXCEPT !.gone = @ \/ tx[s].want \in tx[t].held]
      BY <1>9 DEF CommitRebuild
    <3>2. tx[s] \in Tx
      BY DEF TypeInv, TypeOK
    <3> QED
      BY <3>1, <3>2 DEF Tx
  <2>3. \A s \in Session : SessionOK(s)'
    BY <1>9, <2>1, <2>2 DEF CommitRebuild, SessionOK, Posting, Idle, TypeInv, DocInv
  <2>4. OneSessionPerEntry'
    BY <2>1, <2>2 DEF OneSessionPerEntry, Posting, Idle, TypeInv, DocInv
  <2>5. RowsHaveDocument'
    BY <1>9 DEF CommitRebuild, TypeInv, DocInv, RowsHaveDocument, RowsOf
  <2>6. HasLatest({})
    BY DEF HasLatest
  <2>7. \A s \in Session : HasLatest(tx'[s].buf)
    BY <2>1, <2>2, <2>6 DEF Idle, TypeInv
  <2> QED
    BY <1>9, <2>3, <2>4, <2>5, <2>7 DEF CommitRebuild, TypeInv, DocInv, HasLatest
<1> QED
  BY <1>1, <1>2, <1>3, <1>4, <1>5, <1>6, <1>7, <1>8, <1>9 DEF Step

(* t opens a transaction whose record r is that of a request on entry r.ent. *)
Opens(t, r) ==
  /\ tx' = [tx EXCEPT ![t] = r]
  /\ UNCHANGED <<status, doc, bins, ledger>>
  /\ r.op = "submit" => r.ent \in Entry /\ status[r.ent] = "draft" /\ EntryFree(r.ent)
  /\ r.op = "cancel" => r.ent \in Entry /\ status[r.ent] = "submitted" /\ EntryFree(r.ent)
  /\ r.op \in {"update", "delete"} => r.ent \in Entry
  /\ r.op = "update" => r.next \in Doc
  /\ r.moves # {} => r.op \in {"submit", "cancel"}
  /\ r.buf = {}

LEMMA OpensInv ==
  ASSUME TypeInv, NEW t \in Session, NEW r, Opens(t, r)
  PROVE  DocInv' /\ HasLatest(ledger)' /\ \A s \in Session : HasLatest(tx[s].buf)'
<1> USE DEF TypeInv, DocInv, Opens
<1>1. tx'[t] = r /\ \A s \in Session \ {t} : tx'[s] = tx[s]
  BY DEF TypeOK
<1>2. SessionOK(t)'
  BY <1>1 DEF SessionOK, Posting
<1>3. \A s \in Session \ {t} : SessionOK(s)'
  BY <1>1 DEF SessionOK, Posting
<1>4. OneSessionPerEntry'
  BY <1>1 DEF OneSessionPerEntry, Posting, EntryFree
<1>5. RowsHaveDocument'
  BY DEF RowsHaveDocument, RowsOf
<1>6. \A s \in Session : HasLatest(tx'[s].buf)
  BY <1>1 DEF HasLatest
<1> QED
  BY <1>2, <1>3, <1>4, <1>5, <1>6 DEF HasLatest

LEMMA RequestInv ==
  ASSUME TypeInv, NEW t \in Session, Request(t)
  PROVE  TypeInv'
<1> TypeOK'
  BY RequestType
<1> SUFFICES \E r : Opens(t, r)
  BY OpensInv DEF TypeInv
<1> DEFINE OpenDraft(e, op, d) == [Idle EXCEPT !.pc = "read", !.op = op, !.ent = e, !.next = d]
           OpenPosting(e, op, mv) == [Idle EXCEPT !.pc = "work", !.op = op, !.ent = e,
                                   !.moves = mv, !.keys = BinsOf(mv), !.need = BinsOf(mv)]
<1>1. ASSUME NEW e \in Entry, BeginSubmit(t, e)
      PROVE  \E r : Opens(t, r)
  <2> WITNESS OpenPosting(e, "submit", Postings(doc[e]))
  <2> QED
    BY <1>1 DEF BeginSubmit, Begin, Opens, Idle
<1>2. ASSUME NEW e \in Entry, BeginCancel(t, e)
      PROVE  \E r : Opens(t, r)
  <2> WITNESS OpenPosting(e, "cancel", Reversals(RowsOf(e)))
  <2> QED
    BY <1>2 DEF BeginCancel, Begin, Opens, Idle
<1>3. ASSUME NEW e \in Entry, DeleteEntryRead(t, e)
      PROVE  \E r : Opens(t, r)
  <2> WITNESS OpenDraft(e, "delete", None)
  <2> QED
    BY <1>3 DEF DeleteEntryRead, ReadDraft, Opens, Idle
<1>4. ASSUME NEW e \in Entry, NEW d \in Doc, UpdateEntryRead(t, e, d)
      PROVE  \E r : Opens(t, r)
  <2> WITNESS OpenDraft(e, "update", d)
  <2> QED
    BY <1>4 DEF UpdateEntryRead, ReadDraft, Opens, Idle
<1>5. ASSUME NEW scope \in Scope, BeginRebuild(t, scope)
      PROVE  \E r : Opens(t, r)
  <2> WITNESS [Idle EXCEPT !.pc = "read", !.op = "rebuild", !.seen = Replay,
                           !.keys = {b \in scope : HasRows(b)}, !.need = scope]
  <2> QED
    BY <1>5 DEF BeginRebuild, Opens, Idle
<1> QED
  BY <1>1, <1>2, <1>3, <1>4, <1>5 DEF Request

LEMMA InitInv == Init => TypeInv
<1> SUFFICES ASSUME Init
             PROVE  TypeInv
  OBVIOUS
<1> USE DEF Init
<1>1. ASSUME NEW b \in Bin
      PROVE  OpeningRow(b) \in Row
  BY <1>1, OpeningAssumption, BoundAssumption DEF OpeningRow, Row, Id
<1>2. bins \in [Bin -> [there : BOOLEAN, qty : Int]]
  BY OpeningAssumption
<1>3. TypeOK
  BY <1>1, <1>2, IdleType, OpeningAssumption DEF TypeOK
<1>4. \A t \in Session : tx[t].op = "none" /\ tx[t].moves = {} /\ tx[t].buf = {}
  BY DEF Idle
<1>5. \A r \in ledger : r.id = 1 /\ r.ent = None
  BY DEF OpeningRow
<1>6. DocInv
  BY <1>4, <1>5, NoneAssumption
     DEF EntryStatus, DocInv, SessionOK, OneSessionPerEntry, Posting, RowsHaveDocument, RowsOf
<1>7. HasLatest(ledger) /\ \A t \in Session : HasLatest(tx[t].buf)
  BY <1>4, <1>5 DEF HasLatest
<1> QED
  BY <1>3, <1>6, <1>7 DEF TypeInv

(* TypeInv is inductive. *)
LEMMA NextInv ==
  ASSUME TypeInv, [Next]_vars
  PROVE  TypeInv'
<1>1. CASE UNCHANGED vars
  BY <1>1 DEF vars, TypeInv, TypeOK, DocInv, SessionOK, OneSessionPerEntry,
              Posting, RowsHaveDocument, RowsOf, HasLatest
<1>2. ASSUME NEW e \in Entry, NEW d \in Doc, CreateEntry(e, d)
      PROVE  TypeInv'
  <2>1. TypeOK'
    BY <1>2, NextType DEF Next
  <2>2. \A f \in Entry : status'[f] \in EntryStatus => doc'[f] \in Doc
    BY <1>2 DEF CreateEntry, TypeInv, TypeOK, DocInv
  <2>3. \A f \in Entry : f = e \/ status'[f] = status[f]
    BY <1>2 DEF CreateEntry, TypeInv, TypeOK
  <2>4. status[e] = "absent" /\ UNCHANGED <<ledger, tx>>
    BY <1>2 DEF CreateEntry
  <2>5. \A s \in Session : SessionOK(s)'
    BY <2>3, <2>4 DEF TypeInv, DocInv, SessionOK, Posting
  <2>6. RowsHaveDocument'
    BY <2>3, <2>4 DEF TypeInv, DocInv, RowsHaveDocument, RowsOf
  <2>7. OneSessionPerEntry'
    BY <2>4 DEF TypeInv, DocInv, OneSessionPerEntry, Posting
  <2> QED
    BY <2>1, <2>2, <2>4, <2>5, <2>6, <2>7 DEF TypeInv, DocInv, HasLatest
<1>3. ASSUME NEW t \in Session, DeadlockAbort(t) \/ ConnectionLost(t)
      PROVE  TypeInv'
  BY <1>3, UndoInv DEF DeadlockAbort, ConnectionLost
<1> QED
  BY <1>1, <1>2, <1>3, RequestInv, StepInv DEF Next

(* The inductive invariant: types, which statuses go with which contents,  *)
(* and the entry lock of submitEntry and cancelEntry.                      *)
THEOREM TypeInvariance == Spec => []TypeInv
<1> QED
  BY InitInv, NextInv, PTL DEF Spec

(* Every variable keeps its type: a rebuild always finds the row it        *)
(* replays, and a posting always has the contents of its document.         *)
THEOREM TypeCorrect == Spec => []TypeOK
<1>1. TypeInv => TypeOK
  BY DEF TypeInv
<1> QED
  BY <1>1, TypeInvariance, PTL

(* An entry with ledger rows is submitted or cancelled, however its draft  *)
(* was edited or deleted while it was being submitted.                     *)
THEOREM Documented == Spec => []RowsHaveDocument
<1>1. TypeInv => RowsHaveDocument
  BY DEF TypeInv, DocInv
<1> QED
  BY <1>1, TypeInvariance, PTL
----------------------------------------------------------------------------
(* Rows are written with their entry's transition *)

(* Only a commit of a posting writes to the ledger. *)
LEMMA LedgerWriters ==
  ASSUME [Next]_vars
  PROVE  UNCHANGED ledger \/ \E t \in Session : CommitPosting(t)
<1>1. ASSUME NEW e \in Entry, NEW d \in Doc, CreateEntry(e, d)
      PROVE  UNCHANGED ledger
  BY <1>1 DEF CreateEntry
<1>2. ASSUME NEW t \in Session, Request(t)
      PROVE  UNCHANGED ledger
  BY <1>2 DEF Request, BeginSubmit, BeginCancel, DeleteEntryRead, UpdateEntryRead,
              ReadDraft, BeginRebuild
<1>3. ASSUME NEW t \in Session, Step(t)
      PROVE  UNCHANGED ledger \/ CommitPosting(t)
  BY <1>3 DEF Step, UpdateEntryWrite, UpdateEntryRefused, DeleteEntryWrite,
              DeleteEntryRefused, LockBin, MissBin, BlockOnBin, PutBin, PostMove,
              NegativeStock, Posted, DeleteBins, CommitRebuild, Undo
<1>4. ASSUME NEW t \in Session, DeadlockAbort(t) \/ ConnectionLost(t)
      PROVE  UNCHANGED ledger
  BY <1>4 DEF DeadlockAbort, ConnectionLost, Undo
<1> QED
  BY <1>1, <1>2, <1>3, <1>4 DEF Next, vars

(* Rows of an entry appear only in the step that submits or cancels it, and *)
(* never go: the double-submit guard holds for any number of sessions.     *)
THEOREM TransitionsWriteRows == Spec => RowsOnlyWithTransition
<1>1. ASSUME TypeInv, [Next]_vars, NEW e \in Entry, RowsOf(e)' # RowsOf(e)
      PROVE  /\ RowsOf(e) \subseteq RowsOf(e)'
             /\ <<status[e], status'[e]>> \in
                  {<<"draft", "submitted">>, <<"submitted", "cancelled">>}
  <2>1. PICK t \in Session : CommitPosting(t)
    BY <1>1, LedgerWriters DEF RowsOf
  <2>2. tx[t].ent \in Entry /\ \A q \in tx[t].buf : q.ent = tx[t].ent
    BY <1>1, <2>1 DEF CommitPosting, TypeInv, DocInv, SessionOK
  <2>3. ledger' = ledger \cup tx[t].buf
    BY <2>1 DEF CommitPosting
  <2>4. tx[t].ent = e
    BY <1>1, <2>2, <2>3 DEF RowsOf
  <2>5. RowsOf(e) \subseteq RowsOf(e)'
    BY <2>3 DEF RowsOf
  <2>6. CASE tx[t].op = "submit"
    <3>1. status[e] = "draft"
      BY <1>1, <2>4, <2>6 DEF TypeInv, DocInv, SessionOK
    <3>2. status'[e] = "submitted"
      BY <1>1, <2>1, <2>4, <2>6 DEF CommitPosting, TypeInv, TypeOK
    <3> QED
      BY <2>5, <3>1, <3>2
  <2>7. CASE tx[t].op = "cancel"
    <3>1. status[e] = "submitted"
      BY <1>1, <2>4, <2>7 DEF TypeInv, DocInv, SessionOK
    <3>2. status'[e] = "cancelled"
      BY <1>1, <2>1, <2>4, <2>7 DEF CommitPosting, TypeInv, TypeOK
    <3> QED
      BY <2>5, <3>1, <3>2
  <2> QED
    BY <2>1, <2>6, <2>7 DEF CommitPosting
<1>2. TypeInv /\ [Next]_vars =>
        [\A e \in Entry :
           RowsOf(e)' # RowsOf(e) =>
             /\ RowsOf(e) \subseteq RowsOf(e)'
             /\ <<status[e], status'[e]>> \in
                  {<<"draft", "submitted">>, <<"submitted", "cancelled">>}]_vars
  BY <1>1
<1> QED
  BY <1>2, TypeInvariance, PTL DEF Spec, RowsOnlyWithTransition
----------------------------------------------------------------------------
(* No negative stock *)

(* Bins and rows show nothing negative, because no session computes it. *)
NonNegative(t) ==
  /\ \A b \in Bin : tx[t].seen[b] >= 0
  /\ \A r \in tx[t].buf : r.after >= 0
  /\ \A m \in tx[t].moves : m.qty >= 0

StockInv == NeverNegative /\ \A t \in Session : NonNegative(t)

LEMMA IdleNonNegative ==
  ASSUME NEW t, tx[t] = Idle
  PROVE  NonNegative(t)
BY DEF NonNegative, Idle

(* One session takes the record r, and the tables stay. *)
LEMMA QuietStock ==
  ASSUME TypeInv, StockInv, NEW t \in Session, NEW r,
         tx' = [tx EXCEPT ![t] = r], UNCHANGED <<bins, ledger>>,
         \A b \in Bin : r.seen[b] >= 0,
         \A q \in r.buf : q.after >= 0,
         \A m \in r.moves : m.qty >= 0
  PROVE  StockInv'
<1>1. tx'[t] = r /\ \A s \in Session \ {t} : tx'[s] = tx[s]
  BY DEF TypeInv, TypeOK
<1>2. \A s \in Session : NonNegative(s)'
  BY <1>1 DEF NonNegative, StockInv
<1> QED
  BY <1>2 DEF StockInv, NeverNegative

LEMMA EndStock ==
  ASSUME TypeInv, StockInv, NEW t \in Session,
         tx' = [tx EXCEPT ![t] = Idle], UNCHANGED <<bins, ledger>>
  PROVE  StockInv'
<1>1. \A b \in Bin : Idle.seen[b] >= 0
  BY DEF Idle
<1>2. Idle.buf = {} /\ Idle.moves = {}
  BY DEF Idle
<1> QED
  BY <1>1, <1>2, QuietStock

(* What a line leaves in a bin, when it may be posted. *)
LEMMA AfterNonNegative ==
  ASSUME TypeInv, NEW t \in Session, NonNegative(t), NEW m \in tx[t].moves,
         ~WouldGoNegative(t, m), NEW b \in Bin
  PROVE  After(t, m, b) >= 0
<1>1. m \in Move /\ tx[t].seen \in [Bin -> Int]
  BY DEF TypeInv, TypeOK, Tx
<1>2. m.qty \in Int /\ m.qty >= 0 /\ tx[t].seen[b] \in Int /\ tx[t].seen[b] >= 0
  BY <1>1 DEF Move, NonNegative
<1>3. m.out = b => tx[t].seen[b] - m.qty >= 0
  BY <1>1, <1>2, NoneAssumption DEF WouldGoNegative
<1> QED
  BY <1>2, <1>3 DEF After, Delta

(* What submitting or cancelling a document moves is never less than nothing. *)
LEMMA MovesNonNegative ==
  ASSUME TypeInv
  PROVE  /\ \A d \in Doc : Submittable(d) => \A m \in Postings(d) : m.qty >= 0
         /\ \A rows : rows \subseteq Row => \A m \in Reversals(rows) : m.qty >= 0
<1>1. ASSUME NEW d \in Doc, Submittable(d), NEW i \in DOMAIN d.lines
      PROVE  ExpandLine(d.type, i, d.lines[i]).qty >= 0
  <2>1. d.lines[i] \in Line
    BY DocAssumption
  <2> QED
    BY <1>1, <2>1 DEF Submittable, ValidLine, ExpandLine, Legs, Line
<1>2. ASSUME NEW rows, rows \subseteq Row, NEW r \in rows
      PROVE  IF r.delta < 0 THEN Legs(r.id, -r.delta, None, r.bin).qty >= 0
                            ELSE Legs(r.id, r.delta, r.bin, None).qty >= 0
  <2>1. r.delta \in Int
    BY <1>2 DEF Row
  <2> QED
    BY <2>1 DEF Legs
<1> QED
  BY <1>1, <1>2 DEF Postings, Reversals

LEMMA ReplayNonNegative ==
  ASSUME TypeInv, StockInv, NEW b \in Bin
  PROVE  Replay[b] >= 0
<1>1. CASE HasRows(b)
  <2>1. \E r \in ledger : LatestRow(b, r)
    BY <1>1 DEF HasRows, HasLatest, LatestRow, TypeInv
  <2> QED
    BY <1>1, <2>1 DEF Replay, StockInv, NeverNegative
<1>2. CASE ~HasRows(b)
  BY <1>2 DEF Replay
<1> QED
  BY <1>1, <1>2

LEMMA RequestStock ==
  ASSUME TypeInv, StockInv, NEW t \in Session, Request(t)
  PROVE  StockInv'
<1> DEFINE OpenDraft(e, op, d) == [Idle EXCEPT !.pc = "read", !.op = op, !.ent = e, !.next = d]
           OpenPosting(e, op, mv) == [Idle EXCEPT !.pc = "work", !.op = op, !.ent = e,
                                        !.moves = mv, !.keys = BinsOf(mv), !.need = BinsOf(mv)]
<1>0. \A b \in Bin : Idle.seen[b] >= 0
  BY DEF Idle
<1>1. ASSUME NEW e, NEW op, NEW mv, \A m \in mv : m.qty >= 0,
             tx' = [tx EXCEPT ![t] = OpenPosting(e, op, mv)], UNCHANGED <<bins, ledger>>
      PROVE  StockInv'
  <2>1. /\ OpenPosting(e, op, mv).seen = Idle.seen
        /\ OpenPosting(e, op, mv).buf = {}
        /\ OpenPosting(e, op, mv).moves = mv
    BY DEF Idle
  <2> HIDE DEF OpenPosting
  <2> QED
    BY <1>0, <1>1, <2>1, QuietStock
<1>2. ASSUME NEW e, NEW op, NEW d,
             tx' = [tx EXCEPT ![t] = OpenDraft(e, op, d)], UNCHANGED <<bins, ledger>>
      PROVE  StockInv'
  <2>1. /\ OpenDraft(e, op, d).seen = Idle.seen
        /\ OpenDraft(e, op, d).buf = {}
        /\ OpenDraft(e, op, d).moves = {}
    BY DEF Idle
  <2> HIDE DEF OpenDraft
  <2> QED
    BY <1>0, <1>2, <2>1, QuietStock
<1>3. ASSUME NEW e \in Entry, BeginSubmit(t, e)
      PROVE  StockInv'
  <2>1. doc[e] \in Doc
    BY <1>3 DEF EntryStatus, BeginSubmit, TypeInv, DocInv
  <2>2. \A m \in Postings(doc[e]) : m.qty >= 0
    BY <1>3, <2>1, MovesNonNegative DEF BeginSubmit
  <2> QED
    BY <1>1, <1>3, <2>2 DEF BeginSubmit, Begin
<1>4. ASSUME NEW e \in Entry, BeginCancel(t, e)
      PROVE  StockInv'
  <2>1. \A m \in Reversals(RowsOf(e)) : m.qty >= 0
    BY MovesNonNegative DEF RowsOf, TypeInv, TypeOK
  <2> QED
    BY <1>1, <1>4, <2>1 DEF BeginCancel, Begin
<1>5. ASSUME NEW e \in Entry, DeleteEntryRead(t, e)
      PROVE  StockInv'
  BY <1>2, <1>5 DEF DeleteEntryRead, ReadDraft
<1>6. ASSUME NEW e \in Entry, NEW d \in Doc, UpdateEntryRead(t, e, d)
      PROVE  StockInv'
  BY <1>2, <1>6 DEF UpdateEntryRead, ReadDraft
<1>7. ASSUME NEW scope \in Scope, BeginRebuild(t, scope)
      PROVE  StockInv'
  <2> DEFINE r == [Idle EXCEPT !.pc = "read", !.op = "rebuild", !.seen = Replay,
                               !.keys = {b \in scope : HasRows(b)}, !.need = scope]
  <2>1. r.seen = Replay /\ r.buf = {} /\ r.moves = {}
    BY DEF Idle
  <2>2. tx' = [tx EXCEPT ![t] = r] /\ UNCHANGED <<bins, ledger>>
    BY <1>7 DEF BeginRebuild
  <2> HIDE DEF r
  <2> QED
    BY <2>1, <2>2, ReplayNonNegative, QuietStock
<1> QED
  BY <1>3, <1>4, <1>5, <1>6, <1>7 DEF Request

LEMMA StepStock ==
  ASSUME TypeInv, StockInv, NEW t \in Session, Step(t)
  PROVE  StockInv'
<1> NonNegative(t)
  BY DEF StockInv
<1> tx[t] \in Tx
  BY DEF TypeInv, TypeOK
<1>1. CASE UpdateEntryWrite(t) \/ UpdateEntryRefused(t) \/ DeleteEntryWrite(t)
           \/ DeleteEntryRefused(t)
  BY <1>1, EndStock DEF UpdateEntryWrite, UpdateEntryRefused, DeleteEntryWrite,
                        DeleteEntryRefused, Undo
<1>2. ASSUME NEW b \in Bin, LockBin(t, b)
      PROVE  StockInv'
  <2>1. QtyRead(t, b) >= 0
    BY DEF QtyRead, NonNegative, StockInv, NeverNegative
  <2> DEFINE r == [DoneRead(tx[t], b, QtyRead(t, b)) EXCEPT
                     !.held = tx[t].held \cup {b}]
  <2>2. /\ r.seen = [tx[t].seen EXCEPT ![b] = QtyRead(t, b)]
        /\ r.buf = tx[t].buf /\ r.moves = tx[t].moves
    BY DEF DoneRead, Done, Tx
  <2>3. tx' = [tx EXCEPT ![t] = r] /\ UNCHANGED <<bins, ledger>>
    BY <1>2 DEF LockBin
  <2>4. \A c \in Bin : r.seen[c] >= 0
    BY <2>1, <2>2 DEF NonNegative, Tx
  <2> HIDE DEF r
  <2> QED
    BY <2>2, <2>3, <2>4, QuietStock DEF NonNegative
<1>3. ASSUME NEW b \in Bin, MissBin(t, b)
      PROVE  StockInv'
  <2> DEFINE r == DoneRead(tx[t], b, 0)
  <2>2. /\ r.seen = [tx[t].seen EXCEPT ![b] = 0]
        /\ r.buf = tx[t].buf /\ r.moves = tx[t].moves
    BY DEF DoneRead, Done, Tx
  <2>3. tx' = [tx EXCEPT ![t] = r] /\ UNCHANGED <<bins, ledger>>
    BY <1>3 DEF MissBin
  <2>4. \A c \in Bin : r.seen[c] >= 0
    BY <2>2 DEF NonNegative, Tx
  <2> HIDE DEF r
  <2> QED
    BY <2>2, <2>3, <2>4, QuietStock DEF NonNegative
<1>4. CASE \/ \E b \in Bin : BlockOnBin(t, b) \/ PutBin(t, b)
           \/ Posted(t) \/ DeleteBins(t)
  <2>1. PICK r : /\ tx' = [tx EXCEPT ![t] = r] /\ UNCHANGED <<bins, ledger>>
                 /\ r.seen = tx[t].seen /\ r.buf = tx[t].buf /\ r.moves = tx[t].moves
    <3>1. ASSUME NEW b \in Bin, BlockOnBin(t, b)
          PROVE  \E r : /\ tx' = [tx EXCEPT ![t] = r] /\ UNCHANGED <<bins, ledger>>
                        /\ r.seen = tx[t].seen /\ r.buf = tx[t].buf /\ r.moves = tx[t].moves
      <4> WITNESS [tx[t] EXCEPT !.want = b]
      <4> QED
        BY <3>1 DEF BlockOnBin, Tx
    <3>2. ASSUME NEW b \in Bin, PutBin(t, b)
          PROVE  \E r : /\ tx' = [tx EXCEPT ![t] = r] /\ UNCHANGED <<bins, ledger>>
                        /\ r.seen = tx[t].seen /\ r.buf = tx[t].buf /\ r.moves = tx[t].moves
      <4> WITNESS [Done(tx[t], b) EXCEPT !.held = tx[t].held \cup {b}]
      <4> QED
        BY <3>2 DEF PutBin, Done, Tx
    <3>3. ASSUME Posted(t)
          PROVE  \E r : /\ tx' = [tx EXCEPT ![t] = r] /\ UNCHANGED <<bins, ledger>>
                        /\ r.seen = tx[t].seen /\ r.buf = tx[t].buf /\ r.moves = tx[t].moves
      <4> WITNESS [tx[t] EXCEPT !.pc = "write", !.need = tx[t].keys]
      <4> QED
        BY <3>3 DEF Posted, Tx
    <3>4. ASSUME DeleteBins(t)
          PROVE  \E r : /\ tx' = [tx EXCEPT ![t] = r] /\ UNCHANGED <<bins, ledger>>
                        /\ r.seen = tx[t].seen /\ r.buf = tx[t].buf /\ r.moves = tx[t].moves
      <4> WITNESS [tx[t] EXCEPT !.pc = "work", !.need = {b \in @ : bins[b].there}]
      <4> QED
        BY <3>4 DEF DeleteBins, Tx
    <3> QED
      BY <1>4, <3>1, <3>2, <3>3, <3>4
  <2> QED
    BY <2>1, QuietStock DEF NonNegative
<1>5. ASSUME NEW m \in tx[t].moves, PostMove(t, m)
      PROVE  StockInv'
  <2>1. \A b \in Bin : After(t, m, b) >= 0
    BY <1>5, AfterNonNegative DEF PostMove
  <2>2. PICK id \in Id : Post(t, m, id)
    BY <1>5 DEF PostMove
  <2> DEFINE r == [tx[t] EXCEPT !.moves = @ \ {m},
                                !.buf = @ \cup LedgerRows(t, m, id),
                                !.seen = [b \in Bin |-> After(t, m, b)]]
  <2>3. tx' = [tx EXCEPT ![t] = r] /\ UNCHANGED <<bins, ledger>>
    BY <1>5, <2>2 DEF Post, PostMove
  <2>4. /\ r.seen = [b \in Bin |-> After(t, m, b)] /\ r.moves \subseteq tx[t].moves
        /\ r.buf = tx[t].buf \cup LedgerRows(t, m, id)
    BY DEF Tx
  <2>5. \A q \in LedgerRows(t, m, id) : q.after >= 0
    BY <2>1, MoveBinsType DEF LedgerRows, Tx
  <2> HIDE DEF r
  <2>6. \A b \in Bin : r.seen[b] >= 0
    BY <2>1, <2>4
  <2>7. \A q \in r.buf : q.after >= 0
    BY <2>4, <2>5 DEF NonNegative
  <2>8. \A q \in r.moves : q.qty >= 0
    BY <2>4 DEF NonNegative
  <2> QED
    BY <2>3, <2>6, <2>7, <2>8, QuietStock
<1>6. ASSUME NEW m \in tx[t].moves, NegativeStock(t, m)
      PROVE  StockInv'
  BY <1>6, EndStock DEF NegativeStock, Undo
<1>7. CASE CommitPosting(t)
  <2>1. \A r \in ledger' : r.after >= 0
    BY <1>7 DEF CommitPosting, StockInv, NeverNegative, NonNegative
  <2>2. \A b \in Bin : bins'[b].qty >= 0
    <3> SUFFICES ASSUME NEW b \in Bin
                 PROVE  bins'[b].qty >= 0
      OBVIOUS
    <3>1. bins[b] \in [there : BOOLEAN, qty : Int]
      BY DEF TypeInv, TypeOK
    <3>2. bins'[b] = IF b \in tx[t].keys
                       THEN [bins[b] EXCEPT !.there = TRUE, !.qty = tx[t].seen[b]]
                       ELSE bins[b]
      BY <1>7 DEF CommitPosting
    <3> QED
      BY <3>1, <3>2 DEF StockInv, NeverNegative, NonNegative
  <2>3. tx'[t] = Idle /\ \A s \in Session \ {t} : tx'[s] = tx[s]
    BY <1>7 DEF CommitPosting, TypeInv, TypeOK
  <2>4. \A s \in Session : NonNegative(s)'
    BY <2>3 DEF NonNegative, StockInv, Idle
  <2> QED
    BY <2>1, <2>2, <2>4 DEF StockInv, NeverNegative
<1>8. CASE CommitRebuild(t)
  <2>1. \A b \in Bin : bins'[b].qty >= 0
    BY <1>8 DEF CommitRebuild, StockInv, NeverNegative, NonNegative
  <2>2. ASSUME NEW s \in Session \ {t}
        PROVE  /\ tx'[s].seen = tx[s].seen /\ tx'[s].buf = tx[s].buf
               /\ tx'[s].moves = tx[s].moves
    <3>1. tx'[s] = [tx[s] EXCEPT !.gone = @ \/ tx[s].want \in tx[t].held]
      BY <1>8 DEF CommitRebuild
    <3>2. tx[s] \in Tx
      BY DEF TypeInv, TypeOK
    <3> QED
      BY <3>1, <3>2 DEF Tx
  <2>3. tx'[t] = Idle
    BY <1>8 DEF CommitRebuild
  <2>4. \A s \in Session : NonNegative(s)'
    BY <2>2, <2>3 DEF NonNegative, StockInv, Idle
  <2> QED
    BY <1>8, <2>1, <2>4 DEF CommitRebuild, StockInv, NeverNegative
<1> QED
  BY <1>1, <1>2, <1>3, <1>4, <1>5, <1>6, <1>7, <1>8 DEF Step

(* Nothing ever goes below zero, whatever the sessions interleave.  The     *)
(* guard compares with the copy a session read under lock, so the theorem  *)
(* needs no agreement between that copy and the committed bin.             *)
THEOREM StockNeverNegative == Spec => []NeverNegative
<1>1. Init => StockInv
  <2> SUFFICES ASSUME Init
               PROVE  StockInv
    OBVIOUS
  <2>1. \A t \in Session : NonNegative(t)
    BY IdleNonNegative DEF Init
  <2>2. NeverNegative
    BY OpeningAssumption DEF Init, NeverNegative, OpeningRow
  <2> QED
    BY <2>1, <2>2 DEF StockInv
<1>2. TypeInv /\ StockInv /\ [Next]_vars => StockInv'
  <2> SUFFICES ASSUME TypeInv, StockInv, [Next]_vars
               PROVE  StockInv'
    OBVIOUS
  <2>1. CASE UNCHANGED vars
    BY <2>1 DEF vars, StockInv, NeverNegative, NonNegative
  <2>2. ASSUME NEW e \in Entry, NEW d \in Doc, CreateEntry(e, d)
        PROVE  StockInv'
    BY <2>2 DEF CreateEntry, StockInv, NeverNegative, NonNegative
  <2>3. ASSUME NEW t \in Session, DeadlockAbort(t) \/ ConnectionLost(t)
        PROVE  StockInv'
    BY <2>3, EndStock DEF DeadlockAbort, ConnectionLost, Undo
  <2> QED
    BY <2>1, <2>2, <2>3, RequestStock, StepStock DEF Next
<1>3. StockInv => NeverNegative
  BY DEF StockInv
<1> QED
  BY <1>1, <1>2, <1>3, TypeInvariance, PTL DEF Spec
----------------------------------------------------------------------------
(* Agreement                                                               *)
(*                                                                         *)
(* Bins and ledger agree, for any number of sessions, documents and bins,  *)
(* when every bin has a row and rebuildBins runs alone.  The argument: a   *)
(* session holds the lock of every bin it has read until it commits, so    *)
(* what it has in memory continues the ledger as it is, however many other *)
(* sessions commit meanwhile.                                              *)

RowsIn(S, b) == {r \in S : r.bin = b}

(* The rows S of one bin add up, in the order of their ids, and end at q. *)
Chained(S, q) ==
  /\ \E r \in S : r.after = q /\ \A p \in S : p.id <= r.id
  /\ \A p, r \in S : p.id = r.id => p = r
  /\ \A r \in S :
       \/ r.after = r.delta /\ ~ \E p \in S : p.id < r.id
       \/ \E p \in S : /\ p.id < r.id
                       /\ r.after = p.after + r.delta
                       /\ ~ \E o \in S : p.id < o.id /\ o.id < r.id

(* The bins a posting has read: it holds their locks. *)
ReadBins(r) == IF r.pc = "work" THEN r.keys \ r.need ELSE r.keys

(* A posting's rows and quantities continue the ledger in each bin it read. *)
PostingGood(r) ==
  /\ r.pc \in {"work", "write"}
  /\ r.need \subseteq r.keys
  /\ BinsOf(r.moves) \subseteq r.keys
  /\ ReadBins(r) \subseteq r.held
  /\ \A q \in r.buf : q.bin \in ReadBins(r)
  /\ \A b \in ReadBins(r) : Chained(RowsIn(ledger \cup r.buf, b), r.seen[b])

SessionGood(r) ==
  /\ r.pc = "idle" => r = Idle
  /\ r.gone = FALSE
  /\ r.op \in {"submit", "cancel"} => PostingGood(r)
  /\ r.op = "rebuild" => /\ r.need \cup r.held \subseteq r.keys
                         /\ \A b \in Bin : r.seen[b] = bins[b].qty

OneHolder ==
  \A s, t \in Session : s # t => tx[s].held \cap tx[t].held = {}

RebuildAlone ==
  \A s, t \in Session : s # t /\ tx[s].op = "rebuild" => tx[t].pc = "idle"

AgreeInv ==
  /\ \A b \in Bin : bins[b].there /\ Chained(RowsIn(ledger, b), bins[b].qty)
  /\ \A t \in Session : SessionGood(tx[t])
  /\ OneHolder
  /\ RebuildAlone
----------------------------------------------------------------------------
(* One more row *)

LEMMA ChainedExtends ==
  ASSUME NEW S, \A p \in S : p.id \in Int, NEW q \in Int, Chained(S, q),
         NEW r, r.id \in Int, r.delta \in Int, r.after = q + r.delta,
         \A p \in S : p.id < r.id
  PROVE  Chained(S \cup {r}, r.after)
<1> DEFINE T == S \cup {r}
<1>1. PICK last \in S : last.after = q /\ \A p \in S : p.id <= last.id
  BY DEF Chained
<1>2. \A p \in T : p.id <= r.id
  OBVIOUS
<1>3. \A p, o \in T : p.id = o.id => p = o
  BY DEF Chained
<1>4. ASSUME NEW o \in T
      PROVE  \/ o.after = o.delta /\ ~ \E p \in T : p.id < o.id
             \/ \E p \in T : /\ p.id < o.id
                             /\ o.after = p.after + o.delta
                             /\ ~ \E n \in T : p.id < n.id /\ n.id < o.id
  <2>1. CASE o = r
    <3>1. last.id < o.id /\ o.after = last.after + o.delta
      BY <1>1, <2>1
    <3>2. ~ \E n \in T : last.id < n.id /\ n.id < o.id
      BY <1>1, <2>1
    <3> QED
      BY <3>1, <3>2
  <2>2. CASE o \in S
    <3>1. ~ (r.id < o.id)
      BY <2>2
    <3>2. CASE o.after = o.delta /\ ~ \E p \in S : p.id < o.id
      BY <3>1, <3>2
    <3>3. CASE \E p \in S : /\ p.id < o.id
                            /\ o.after = p.after + o.delta
                            /\ ~ \E n \in S : p.id < n.id /\ n.id < o.id
      BY <3>1, <3>3
    <3> QED
      BY <2>2, <3>2, <3>3 DEF Chained
  <2> QED
    BY <2>1, <2>2
<1> HIDE DEF T
<1>5. r \in T
  BY DEF T
<1>6. Chained(T, r.after)
  BY <1>2, <1>3, <1>4, <1>5 DEF Chained
<1> QED
  BY <1>6 DEF T
----------------------------------------------------------------------------
(* Steps of one session that leave bins and ledger alone *)

LEMMA LocalStep ==
  ASSUME TypeInv, AgreeInv, NEW t \in Session, NEW r,
         tx' = [tx EXCEPT ![t] = r], UNCHANGED <<bins, ledger>>,
         SessionGood(r),
         \A s \in Session \ {t} : r.held \cap tx[s].held = {},
         r.op = "rebuild" => \A s \in Session \ {t} : tx[s].pc = "idle",
         r.pc = "idle" \/ \A s \in Session \ {t} : tx[s].op # "rebuild"
  PROVE  AgreeInv'
<1>1. tx'[t] = r /\ \A s \in Session \ {t} : tx'[s] = tx[s]
  BY DEF TypeInv, TypeOK
<1>2. \A b \in Bin : bins'[b].there /\ Chained(RowsIn(ledger', b), bins'[b].qty)
  BY DEF AgreeInv
<1>3. ASSUME NEW s \in Session
      PROVE  SessionGood(tx[s])'
  <2>1. SessionGood(tx'[s])
    BY <1>1 DEF AgreeInv
  <2> QED
    BY <2>1 DEF SessionGood, PostingGood
<1>4. OneHolder'
  BY <1>1 DEF OneHolder, AgreeInv
<1>5. RebuildAlone'
  BY <1>1 DEF RebuildAlone, AgreeInv
<1> QED
  BY <1>2, <1>3, <1>4, <1>5 DEF AgreeInv

LEMMA IdleGood == SessionGood(Idle)
BY DEF SessionGood, Idle

LEMMA UndoAgree ==
  ASSUME TypeInv, AgreeInv, NEW t \in Session,
         tx' = [tx EXCEPT ![t] = Idle], UNCHANGED <<bins, ledger>>
  PROVE  AgreeInv'
<1>1. Idle.held = {} /\ Idle.op = "none" /\ Idle.pc = "idle"
  BY DEF Idle
<1> HIDE DEF Idle
<1> QED
  BY <1>1, IdleGood, LocalStep

(* A request opens its transaction outside the maintenance window. *)
LEMMA RequestAgree ==
  ASSUME TypeInv, AgreeInv, Maintenance, NEW t \in Session, Request(t)
  PROVE  AgreeInv'
<1>0. ASSUME MayStart(t), NEW r,
             tx' = [tx EXCEPT ![t] = r], UNCHANGED <<bins, ledger>>,
             r.held = {}, r.op # "rebuild", SessionGood(r)
      PROVE  AgreeInv'
  <2>1. \A s \in Session \ {t} : tx[s].op # "rebuild"
    BY <1>0 DEF MayStart, RebuildOpen
  <2> QED
    BY <1>0, <2>1, LocalStep
<1> DEFINE OpenDraft(e, op, d) == [Idle EXCEPT !.pc = "read", !.op = op, !.ent = e, !.next = d]
           OpenPosting(e, op, mv) == [Idle EXCEPT !.pc = "work", !.op = op, !.ent = e,
                                        !.moves = mv, !.keys = BinsOf(mv), !.need = BinsOf(mv)]
<1>1. ASSUME NEW e, NEW op \in {"submit", "cancel"}, NEW mv, MayStart(t),
             Begin(t, e, op, mv), UNCHANGED <<bins, ledger>>
      PROVE  AgreeInv'
  <2> DEFINE r == OpenPosting(e, op, mv)
  <2>1. /\ r.pc = "work" /\ r.op = op /\ r.moves = mv /\ r.keys = BinsOf(mv)
        /\ r.need = BinsOf(mv) /\ r.held = {} /\ r.buf = {} /\ r.gone = FALSE
    BY DEF Idle
  <2>2. tx' = [tx EXCEPT ![t] = r]
    BY <1>1 DEF Begin
  <2> HIDE DEF r
  <2>3. SessionGood(r)
    BY <2>1 DEF SessionGood, PostingGood, ReadBins
  <2> QED
    BY <1>0, <1>1, <2>1, <2>2, <2>3
<1>2. ASSUME NEW e, NEW op \in {"update", "delete"}, NEW d, ReadDraft(t, e, op, d)
      PROVE  AgreeInv'
  <2> DEFINE r == OpenDraft(e, op, d)
  <2>1. r.pc = "read" /\ r.op = op /\ r.held = {} /\ r.gone = FALSE
    BY DEF Idle
  <2>2. tx' = [tx EXCEPT ![t] = r] /\ UNCHANGED <<bins, ledger>> /\ MayStart(t)
    BY <1>2 DEF ReadDraft
  <2> HIDE DEF r
  <2>3. SessionGood(r)
    BY <2>1 DEF SessionGood
  <2> QED
    BY <1>0, <2>1, <2>2, <2>3
<1>3. ASSUME NEW e \in Entry, BeginSubmit(t, e)
      PROVE  AgreeInv'
  BY <1>1, <1>3 DEF BeginSubmit
<1>4. ASSUME NEW e \in Entry, BeginCancel(t, e)
      PROVE  AgreeInv'
  BY <1>1, <1>4 DEF BeginCancel
<1>5. ASSUME NEW e \in Entry, DeleteEntryRead(t, e)
      PROVE  AgreeInv'
  BY <1>2, <1>5 DEF DeleteEntryRead
<1>6. ASSUME NEW e \in Entry, NEW d \in Doc, UpdateEntryRead(t, e, d)
      PROVE  AgreeInv'
  BY <1>2, <1>6 DEF UpdateEntryRead
<1>7. ASSUME NEW scope \in Scope, BeginRebuild(t, scope)
      PROVE  AgreeInv'
  <2> DEFINE r == [Idle EXCEPT !.pc = "read", !.op = "rebuild", !.seen = Replay,
                               !.keys = {b \in scope : HasRows(b)}, !.need = scope]
  <2>1. /\ r.pc = "read" /\ r.op = "rebuild" /\ r.held = {} /\ r.gone = FALSE
        /\ r.seen = Replay /\ r.keys = {b \in scope : HasRows(b)} /\ r.need = scope
    BY DEF Idle
  <2>2. tx' = [tx EXCEPT ![t] = r] /\ UNCHANGED <<bins, ledger>>
    BY <1>7 DEF BeginRebuild
  <2> HIDE DEF r
  <2>3. ASSUME NEW b \in Bin
        PROVE  HasRows(b) /\ Replay[b] = bins[b].qty
    <3>1. Chained(RowsIn(ledger, b), bins[b].qty)
      BY DEF AgreeInv
    <3>2. PICK q \in ledger : /\ q.bin = b /\ q.after = bins[b].qty
                              /\ \A p \in ledger : p.bin = b => p.id <= q.id
      BY <3>1 DEF Chained, RowsIn
    <3>3. \A p \in ledger : LatestRow(b, p) => p = q
      <4>1. \A p \in ledger : p.id \in Int
        BY BoundAssumption DEF TypeInv, TypeOK, Row, Id
      <4> QED
        BY <3>1, <3>2, <4>1 DEF LatestRow, Chained, RowsIn
    <3>4. (CHOOSE p \in ledger : LatestRow(b, p)) = q
      BY <3>2, <3>3 DEF LatestRow
    <3> QED
      BY <3>2, <3>4 DEF Replay, HasRows
  <2>4. SessionGood(r)
    BY <2>1, <2>3, ScopeType DEF SessionGood
  <2>5. \A s \in Session \ {t} : tx[s].pc = "idle"
    BY <1>7 DEF BeginRebuild
  <2>6. \A s \in Session \ {t} : tx[s].op # "rebuild"
    BY <1>7 DEF BeginRebuild, RebuildOpen
  <2> QED
    BY <2>1, <2>2, <2>4, <2>5, <2>6, LocalStep
<1> QED
  BY <1>3, <1>4, <1>5, <1>6, <1>7 DEF Request
----------------------------------------------------------------------------
(* The steps of an open transaction *)

LEMMA SelfStep ==
  ASSUME TypeInv, AgreeInv, NEW t \in Session, tx[t].pc # "idle", NEW r,
         tx' = [tx EXCEPT ![t] = r], UNCHANGED <<bins, ledger>>,
         r.op = tx[t].op, SessionGood(r),
         \A s \in Session \ {t} : r.held \cap tx[s].held = {}
  PROVE  AgreeInv'
<1>1. \A s \in Session \ {t} : tx[s].op # "rebuild"
  BY DEF AgreeInv, RebuildAlone
<1>2. r.op = "rebuild" => \A s \in Session \ {t} : tx[s].pc = "idle"
  BY DEF AgreeInv, RebuildAlone
<1> QED
  BY <1>1, <1>2, LocalStep

(* A bin t is free to take is in nobody else's hands. *)
LEMMA FreeDisjoint ==
  ASSUME AgreeInv, NEW t \in Session, NEW b \in Bin, Free(b, t)
  PROVE  \A s \in Session \ {t} : (tx[t].held \cup {b}) \cap tx[s].held = {}
BY DEF AgreeInv, OneHolder, Free

LEMMA SameHeld ==
  ASSUME AgreeInv, NEW t \in Session
  PROVE  \A s \in Session \ {t} : tx[t].held \cap tx[s].held = {}
BY DEF AgreeInv, OneHolder

LEMMA LockBinAgree ==
  ASSUME TypeInv, AgreeInv, NEW t \in Session, NEW b \in Bin, LockBin(t, b)
  PROVE  AgreeInv'
<1> DEFINE q == QtyRead(t, b)
           r == [DoneRead(tx[t], b, q) EXCEPT !.held = tx[t].held \cup {b}]
<1> tx[t] \in Tx
  BY DEF TypeInv, TypeOK
<1>1. /\ r.pc = tx[t].pc /\ r.op = tx[t].op /\ r.moves = tx[t].moves
      /\ r.keys = tx[t].keys /\ r.need = tx[t].need \ {b}
      /\ r.held = tx[t].held \cup {b} /\ r.gone = FALSE /\ r.buf = tx[t].buf
      /\ r.seen = [tx[t].seen EXCEPT ![b] = q]
  BY DEF DoneRead, Done, Tx
<1>2. /\ tx[t].pc = "work" /\ b \in tx[t].need /\ Free(b, t)
      /\ tx' = [tx EXCEPT ![t] = r] /\ UNCHANGED <<bins, ledger>>
  BY DEF LockBin, Turn
<1> HIDE DEF r
<1>3. SessionGood(tx[t])
  BY DEF AgreeInv
<1>4. ASSUME r.op = "rebuild"
      PROVE  /\ r.need \cup r.held \subseteq r.keys
             /\ \A c \in Bin : r.seen[c] = bins[c].qty
  <2>1. r.seen = tx[t].seen
    BY <1>1, <1>4 DEF QtyRead, Tx
  <2> QED
    BY <1>1, <1>2, <1>3, <1>4, <2>1 DEF SessionGood
<1>5. ASSUME r.op \in {"submit", "cancel"}
      PROVE  PostingGood(r)
  <2>1. PostingGood(tx[t])
    BY <1>1, <1>3, <1>5 DEF SessionGood
  <2>2. ReadBins(r) = ReadBins(tx[t]) \cup {b} /\ b \notin ReadBins(tx[t])
    BY <1>1, <1>2, <2>1 DEF ReadBins, PostingGood
  <2>3. RowsIn(ledger \cup r.buf, b) = RowsIn(ledger, b)
    BY <1>1, <2>1, <2>2 DEF RowsIn, PostingGood
  <2>4. r.seen[b] = bins[b].qty
    BY <1>1, <1>5 DEF QtyRead, Tx
  <2>5. Chained(RowsIn(ledger \cup r.buf, b), r.seen[b])
    BY <2>3, <2>4 DEF AgreeInv
  <2>6. ASSUME NEW c \in ReadBins(tx[t])
        PROVE  Chained(RowsIn(ledger \cup r.buf, c), r.seen[c])
    <3>1. c # b /\ c \in Bin
      BY <2>2 DEF ReadBins, Tx
    <3>2. r.seen[c] = tx[t].seen[c]
      BY <1>1, <3>1 DEF Tx
    <3> QED
      BY <1>1, <2>1, <3>2 DEF PostingGood
  <2>7. ReadBins(r) \subseteq r.held
    BY <1>1, <2>1, <2>2 DEF PostingGood
  <2>8. \A p \in r.buf : p.bin \in ReadBins(r)
    BY <1>1, <2>1, <2>2 DEF PostingGood
  <2>9. r.pc \in {"work", "write"} /\ r.need \subseteq r.keys /\ BinsOf(r.moves) \subseteq r.keys
    BY <1>1, <2>1 DEF PostingGood
  <2> QED
    BY <2>2, <2>5, <2>6, <2>7, <2>8, <2>9 DEF PostingGood
<1>6. SessionGood(r)
  BY <1>1, <1>2, <1>4, <1>5 DEF SessionGood
<1>7. \A s \in Session \ {t} : r.held \cap tx[s].held = {}
  BY <1>1, <1>2, FreeDisjoint
<1> QED
  BY <1>1, <1>2, <1>6, <1>7, SelfStep

(* No posting misses a bin: every bin has a row. *)
LEMMA NoMiss ==
  ASSUME AgreeInv, NEW t \in Session, NEW b \in Bin
  PROVE  ~MissBin(t, b)
BY DEF AgreeInv, SessionGood, MissBin, Sees

(* Waiting for a lock, being through with a write, starting to write or to *)
(* delete: nothing is read.                                                *)
LEMMA WaitAgree ==
  ASSUME TypeInv, AgreeInv, NEW t \in Session, NEW r, tx[t].pc # "idle",
         tx' = [tx EXCEPT ![t] = r], UNCHANGED <<bins, ledger>>,
         r.op = tx[t].op, r.moves = tx[t].moves, r.keys = tx[t].keys,
         r.seen = tx[t].seen, r.buf = tx[t].buf, r.gone = FALSE,
         r.pc # "idle",
         tx[t].op \in {"submit", "cancel"} =>
           r.pc \in {"work", "write"} /\ r.need \subseteq r.keys
             /\ ReadBins(r) = ReadBins(tx[t]),
         tx[t].op = "rebuild" => r.need \cup r.held \subseteq r.keys,
         tx[t].held \subseteq r.held,
         \A s \in Session \ {t} : r.held \cap tx[s].held = {}
  PROVE  AgreeInv'
<1>1. SessionGood(tx[t])
  BY DEF AgreeInv
<1>2. ASSUME r.op \in {"submit", "cancel"}
      PROVE  PostingGood(r)
  BY <1>1, <1>2 DEF SessionGood, PostingGood
<1>3. SessionGood(r)
  BY <1>1, <1>2 DEF SessionGood
<1> QED
  BY <1>3, SelfStep

LEMMA PutBinAgree ==
  ASSUME TypeInv, AgreeInv, NEW t \in Session, NEW b \in Bin, PutBin(t, b)
  PROVE  AgreeInv'
<1> DEFINE r == [Done(tx[t], b) EXCEPT !.held = tx[t].held \cup {b}]
<1>1. tx[t] \in Tx
  BY DEF TypeInv, TypeOK
<1>2. /\ r.pc = tx[t].pc /\ r.op = tx[t].op /\ r.moves = tx[t].moves
      /\ r.keys = tx[t].keys /\ r.need = tx[t].need \ {b} /\ r.seen = tx[t].seen
      /\ r.held = tx[t].held \cup {b} /\ r.gone = FALSE /\ r.buf = tx[t].buf
  BY <1>1 DEF Done, Tx
<1>3. /\ tx[t].pc = "write" /\ Free(b, t)
      /\ tx' = [tx EXCEPT ![t] = r] /\ UNCHANGED <<bins, ledger>>
  BY DEF PutBin
<1> HIDE DEF r
<1>4. tx[t].op \in {"submit", "cancel"} =>
        r.need \subseteq r.keys /\ ReadBins(r) = ReadBins(tx[t])
  BY <1>2, <1>3 DEF AgreeInv, SessionGood, PostingGood, ReadBins
<1>5. \A s \in Session \ {t} : r.held \cap tx[s].held = {}
  BY <1>2, <1>3, FreeDisjoint
<1> QED
  <2>1. /\ tx[t].pc # "idle" /\ r.pc # "idle" /\ tx[t].held \subseteq r.held
        /\ tx[t].op \in {"submit", "cancel"} =>
             r.pc \in {"work", "write"} /\ r.need \subseteq r.keys
               /\ ReadBins(r) = ReadBins(tx[t])
    BY <1>2, <1>3, <1>4
  <2>2. /\ r.op = tx[t].op /\ r.moves = tx[t].moves /\ r.keys = tx[t].keys
        /\ r.seen = tx[t].seen /\ r.buf = tx[t].buf /\ r.gone = FALSE
        /\ tx' = [tx EXCEPT ![t] = r] /\ UNCHANGED <<bins, ledger>>
    BY <1>2, <1>3
  <2>3. tx[t].op = "rebuild" => r.need \cup r.held \subseteq r.keys
    BY <1>2, <1>3 DEF AgreeInv, SessionGood, PutBin, Turn
  <2> QED  BY <1>5, <2>1, <2>2, <2>3, WaitAgree

LEMMA BlockAgree ==
  ASSUME TypeInv, AgreeInv, NEW t \in Session, NEW b \in Bin, BlockOnBin(t, b)
  PROVE  AgreeInv'
<1> DEFINE r == [tx[t] EXCEPT !.want = b]
<1>1. tx[t] \in Tx
  BY DEF TypeInv, TypeOK
<1>2. /\ r.pc = tx[t].pc /\ r.op = tx[t].op /\ r.moves = tx[t].moves
      /\ r.keys = tx[t].keys /\ r.need = tx[t].need /\ r.seen = tx[t].seen
      /\ r.held = tx[t].held /\ r.gone = tx[t].gone /\ r.buf = tx[t].buf
  BY <1>1 DEF Tx
<1>3. /\ tx[t].pc \in {"work", "write"}
      /\ tx' = [tx EXCEPT ![t] = r] /\ UNCHANGED <<bins, ledger>>
  BY DEF BlockOnBin
<1> HIDE DEF r
<1>4. r.gone = FALSE
  BY <1>2 DEF AgreeInv, SessionGood
<1>5. tx[t].op \in {"submit", "cancel"} =>
        r.need \subseteq r.keys /\ ReadBins(r) = ReadBins(tx[t])
  BY <1>2, <1>3 DEF AgreeInv, SessionGood, PostingGood, ReadBins
<1>6. \A s \in Session \ {t} : r.held \cap tx[s].held = {}
  BY <1>2, SameHeld
<1>7. tx[t].op = "rebuild" => r.need \cup r.held \subseteq r.keys
  BY <1>2, <1>3 DEF AgreeInv, SessionGood
<1> QED
  BY <1>2, <1>3, <1>4, <1>5, <1>6, <1>7, WaitAgree

LEMMA PostedAgree ==
  ASSUME TypeInv, AgreeInv, NEW t \in Session, Posted(t)
  PROVE  AgreeInv'
<1> DEFINE r == [tx[t] EXCEPT !.pc = "write", !.need = tx[t].keys]
<1>1. tx[t] \in Tx
  BY DEF TypeInv, TypeOK
<1>2. /\ r.pc = "write" /\ r.op = tx[t].op /\ r.moves = tx[t].moves
      /\ r.keys = tx[t].keys /\ r.need = tx[t].keys /\ r.seen = tx[t].seen
      /\ r.held = tx[t].held /\ r.gone = tx[t].gone /\ r.buf = tx[t].buf
  BY <1>1 DEF Tx
<1>3. /\ tx[t].pc = "work" /\ tx[t].need = {}
      /\ tx' = [tx EXCEPT ![t] = r] /\ UNCHANGED <<bins, ledger>>
  BY DEF Posted, Ready
<1> HIDE DEF r
<1>4. r.gone = FALSE
  BY <1>2 DEF AgreeInv, SessionGood
<1>5. ReadBins(r) = ReadBins(tx[t])
  BY <1>2, <1>3 DEF ReadBins
<1>6. \A s \in Session \ {t} : r.held \cap tx[s].held = {}
  BY <1>2, SameHeld
<1>7. tx[t].op = "rebuild" => r.need \cup r.held \subseteq r.keys
  BY <1>2, <1>3 DEF AgreeInv, SessionGood
<1> QED
  BY <1>2, <1>3, <1>4, <1>5, <1>6, <1>7, WaitAgree

LEMMA DeleteBinsAgree ==
  ASSUME TypeInv, AgreeInv, NEW t \in Session, DeleteBins(t)
  PROVE  AgreeInv'
<1> DEFINE r == [tx[t] EXCEPT !.pc = "work", !.need = {b \in @ : bins[b].there}]
<1>1. tx[t] \in Tx
  BY DEF TypeInv, TypeOK
<1>2. /\ r.pc = "work" /\ r.op = tx[t].op /\ r.moves = tx[t].moves
      /\ r.keys = tx[t].keys /\ r.seen = tx[t].seen
      /\ r.held = tx[t].held /\ r.gone = tx[t].gone /\ r.buf = tx[t].buf
      /\ r.need \subseteq tx[t].need
  BY <1>1 DEF Tx
<1>3. /\ tx[t].pc = "read" /\ tx[t].op = "rebuild"
      /\ tx' = [tx EXCEPT ![t] = r] /\ UNCHANGED <<bins, ledger>>
  BY DEF DeleteBins
<1> HIDE DEF r
<1>4. r.gone = FALSE
  BY <1>2 DEF AgreeInv, SessionGood
<1>5. \A s \in Session \ {t} : r.held \cap tx[s].held = {}
  BY <1>2, SameHeld
<1>6. tx[t].op = "rebuild" => r.need \cup r.held \subseteq r.keys
  BY <1>2, <1>3 DEF AgreeInv, SessionGood
<1> QED
  BY <1>2, <1>3, <1>4, <1>5, <1>6, WaitAgree
----------------------------------------------------------------------------
(* Posting a line *)

LEMMA PostMoveAgree ==
  ASSUME TypeInv, AgreeInv, NEW t \in Session, NEW m \in tx[t].moves, PostMove(t, m)
  PROVE  AgreeInv'
<1>0. tx[t] \in Tx /\ m \in Move
  BY DEF TypeInv, TypeOK, Tx
<1>1. PICK id \in Id : NextId(id) /\ Post(t, m, id)
  BY DEF PostMove
<1> DEFINE rows == LedgerRows(t, m, id)
           r == [tx[t] EXCEPT !.moves = @ \ {m}, !.buf = @ \cup rows,
                              !.seen = [b \in Bin |-> After(t, m, b)]]
<1>2. /\ r.pc = tx[t].pc /\ r.op = tx[t].op /\ r.moves = tx[t].moves \ {m}
      /\ r.keys = tx[t].keys /\ r.need = tx[t].need /\ r.held = tx[t].held
      /\ r.gone = tx[t].gone /\ r.buf = tx[t].buf \cup rows
      /\ r.seen = [b \in Bin |-> After(t, m, b)]
  BY <1>0 DEF Tx
<1>3. /\ tx' = [tx EXCEPT ![t] = r] /\ UNCHANGED <<bins, ledger>>
      /\ tx[t].pc = "work" /\ tx[t].need = {}
  BY <1>1 DEF Post, PostMove, Ready
<1> HIDE DEF r
<1>4. tx[t].op \in {"submit", "cancel"} /\ SessionGood(tx[t])
  BY DEF TypeInv, DocInv, SessionOK, Posting, AgreeInv
<1>5. PostingGood(tx[t])
  BY <1>4 DEF SessionGood
<1>6. MoveBins(m) \subseteq tx[t].keys /\ ReadBins(tx[t]) = tx[t].keys
  BY <1>3, <1>5 DEF PostingGood, BinsOf, ReadBins
<1>7. /\ ReadBins(r) = ReadBins(tx[t])
      /\ BinsOf(r.moves) \subseteq r.keys
  BY <1>2, <1>5 DEF ReadBins, PostingGood, BinsOf
<1>8. \A p \in rows : p.bin \in MoveBins(m)
  BY DEF LedgerRows
<1>9. ASSUME NEW b \in ReadBins(r)
      PROVE  Chained(RowsIn(ledger \cup r.buf, b), r.seen[b])
  <2> DEFINE S == RowsIn(ledger \cup tx[t].buf, b)
             q == tx[t].seen[b]
             row == [id |-> id, ent |-> tx[t].ent, bin |-> b, delta |-> Delta(m, b),
                     after |-> After(t, m, b)]
  <2>1. b \in Bin /\ q \in Int /\ Delta(m, b) \in Int
    BY <1>0, <1>6, <1>7, DeltaType DEF Tx
  <2>2. Chained(S, q)
    BY <1>5, <1>7 DEF PostingGood
  <2>3. \A p \in S : p.id \in Int /\ p.id < id
    <3>1. S \subseteq Row
      BY <1>0 DEF RowsIn, TypeInv, TypeOK, Tx
    <3>2. S \subseteq Written
      BY DEF RowsIn, Written
    <3>3. \A p \in S : p.id \in Int
      BY <3>1, BoundAssumption DEF Row, Id
    <3>4. \A p \in S : p.id < id
      BY <1>1, <3>2 DEF NextId
    <3> QED
      BY <3>3, <3>4
  <2>4. CASE b \in MoveBins(m)
    <3>1. RowsIn(ledger \cup r.buf, b) = S \cup {row}
      BY <1>2, <2>4 DEF RowsIn, LedgerRows
    <3>2. /\ row.id = id /\ row.delta = Delta(m, b) /\ row.after = q + row.delta
          /\ row.after = r.seen[b]
      BY <1>2, <2>1 DEF After
    <3>3. row.id \in Int
      BY <3>2, BoundAssumption DEF Id
    <3> HIDE DEF S, q, row
    <3>4. Chained(S \cup {row}, row.after)
      BY <2>1, <2>2, <2>3, <3>2, <3>3, ChainedExtends
    <3> QED
      BY <3>1, <3>2, <3>4
  <2>5. CASE b \notin MoveBins(m)
    <3>1. RowsIn(ledger \cup r.buf, b) = S
      BY <1>2, <1>8, <2>5 DEF RowsIn
    <3>2. b # m.out /\ b # m.into
      BY <2>1, <2>5, NoneAssumption DEF MoveBins
    <3>3. r.seen[b] = q
      BY <1>2, <2>1, <3>2 DEF After, Delta
    <3> QED
      BY <2>2, <3>1, <3>3
  <2> QED
    BY <2>4, <2>5
<1>10. \A p \in r.buf : p.bin \in ReadBins(r)
  BY <1>2, <1>5, <1>6, <1>7, <1>8 DEF PostingGood
<1>11. PostingGood(r)
  BY <1>2, <1>5, <1>7, <1>9, <1>10 DEF PostingGood
<1>12. SessionGood(r)
  BY <1>2, <1>3, <1>4, <1>11 DEF SessionGood
<1>13. \A s \in Session \ {t} : r.held \cap tx[s].held = {}
  BY <1>2, SameHeld
<1> QED
  BY <1>2, <1>3, <1>12, <1>13, SelfStep
----------------------------------------------------------------------------
(* Commits *)

(* A commit changes the bins t holds, and no other posting has read those. *)
LEMMA CommitPostingAgree ==
  ASSUME TypeInv, AgreeInv, NEW t \in Session, CommitPosting(t)
  PROVE  AgreeInv'
<1>0. tx[t] \in Tx
  BY DEF TypeInv, TypeOK
<1>1. /\ PostingGood(tx[t])
      /\ ReadBins(tx[t]) = tx[t].keys
      /\ tx[t].pc = "write"
  BY DEF CommitPosting, AgreeInv, SessionGood, ReadBins
<1>2. /\ tx'[t] = Idle /\ \A s \in Session \ {t} : tx'[s] = tx[s]
      /\ ledger' = ledger \cup tx[t].buf
  BY DEF CommitPosting, TypeInv, TypeOK
<1>3. ASSUME NEW b \in Bin, b \in tx[t].keys
      PROVE  /\ bins'[b].there /\ bins'[b].qty = tx[t].seen[b]
             /\ RowsIn(ledger', b) = RowsIn(ledger \cup tx[t].buf, b)
  <2>1. bins[b] \in [there : BOOLEAN, qty : Int]
    BY DEF TypeInv, TypeOK
  <2>2. bins'[b] = [bins[b] EXCEPT !.there = TRUE, !.qty = tx[t].seen[b]]
    BY <1>3 DEF CommitPosting
  <2> QED
    BY <1>2, <2>1, <2>2
<1>4. ASSUME NEW b \in Bin, b \notin tx[t].keys
      PROVE  bins'[b] = bins[b] /\ RowsIn(ledger', b) = RowsIn(ledger, b)
  <2>1. bins'[b] = bins[b]
    BY <1>4 DEF CommitPosting
  <2>2. \A p \in tx[t].buf : p.bin # b
    BY <1>1, <1>4 DEF PostingGood
  <2> QED
    BY <1>2, <2>1, <2>2 DEF RowsIn
<1>5. ASSUME NEW b \in Bin
      PROVE  bins'[b].there /\ Chained(RowsIn(ledger', b), bins'[b].qty)
  <2>1. CASE b \in tx[t].keys
    BY <1>1, <1>3, <2>1 DEF PostingGood
  <2>2. CASE b \notin tx[t].keys
    BY <1>4, <2>2 DEF AgreeInv
  <2> QED
    BY <2>1, <2>2
<1>6. ASSUME NEW s \in Session \ {t}
      PROVE  SessionGood(tx[s])'
  <2>1. tx'[s] = tx[s] /\ SessionGood(tx[s]) /\ tx[s] \in Tx
    BY <1>2 DEF AgreeInv, TypeInv, TypeOK
  <2>2. tx[s].op # "rebuild"
    BY <1>1 DEF AgreeInv, RebuildAlone
  <2>3. ASSUME tx[s].op \in {"submit", "cancel"}
        PROVE  PostingGood(tx[s])'
    <3>1. PostingGood(tx[s])
      BY <2>1, <2>3 DEF SessionGood
    <3>2. ASSUME NEW b \in ReadBins(tx[s])
          PROVE  Chained(RowsIn(ledger' \cup tx[s].buf, b), tx[s].seen[b])
      <4>1. b \in tx[s].held /\ b \in Bin
        BY <2>1, <3>1 DEF PostingGood, Tx
      <4>2. b \notin tx[t].keys
        BY <1>1, <4>1 DEF PostingGood, AgreeInv, OneHolder
      <4>3. RowsIn(ledger' \cup tx[s].buf, b) = RowsIn(ledger \cup tx[s].buf, b)
        BY <1>4, <4>1, <4>2 DEF RowsIn
      <4> QED
        BY <3>1, <4>3 DEF PostingGood
    <3> QED
      BY <2>1, <3>1, <3>2 DEF PostingGood, ReadBins
  <2> QED
    BY <2>1, <2>2, <2>3 DEF SessionGood
<1>7. SessionGood(tx[t])'
  <2>1. SessionGood(Idle)'
    BY DEF SessionGood, Idle
  <2> QED
    BY <1>2, <2>1
<1>8. OneHolder'
  BY <1>2 DEF AgreeInv, OneHolder, Idle
<1>9. RebuildAlone'
  BY <1>2 DEF AgreeInv, RebuildAlone, Idle
<1> QED
  BY <1>5, <1>6, <1>7, <1>8, <1>9 DEF AgreeInv

(* A rebuild that runs alone puts back what was there. *)
LEMMA CommitRebuildAgree ==
  ASSUME TypeInv, AgreeInv, NEW t \in Session, CommitRebuild(t)
  PROVE  AgreeInv'
<1>1. /\ tx[t].op = "rebuild" /\ tx[t].pc = "write" /\ tx[t].held \subseteq tx[t].keys
      /\ \A b \in Bin : tx[t].seen[b] = bins[b].qty
      /\ tx[t].held \subseteq Bin
  BY DEF CommitRebuild, AgreeInv, SessionGood, TypeInv, TypeOK, Tx
<1>2. \A s \in Session \ {t} : tx[s] = Idle
  BY <1>1 DEF AgreeInv, RebuildAlone, SessionGood
<1>3. \A s \in Session : tx'[s] = Idle
  <2>1. tx'[t] = Idle
    BY DEF CommitRebuild
  <2>2. ASSUME NEW s \in Session \ {t}
        PROVE  tx'[s] = Idle
    <3>1. tx'[s] = [Idle EXCEPT !.gone = Idle.gone \/ Idle.want \in tx[t].held]
      BY <1>2 DEF CommitRebuild
    <3>2. ~(Idle.gone \/ Idle.want \in tx[t].held)
      BY <1>1, NoneAssumption DEF Idle
    <3> QED
      BY <3>1, <3>2 DEF Idle
  <2> QED
    BY <2>1, <2>2
<1>4. ASSUME NEW b \in Bin
      PROVE  bins'[b].there /\ bins'[b].qty = bins[b].qty
  BY <1>1 DEF CommitRebuild, AgreeInv
<1>5. \A b \in Bin : Chained(RowsIn(ledger', b), bins'[b].qty)
  BY <1>4 DEF CommitRebuild, AgreeInv
<1>6. ASSUME NEW s \in Session
      PROVE  SessionGood(tx[s])'
  <2>1. SessionGood(Idle)'
    BY DEF SessionGood, Idle
  <2> QED
    BY <1>3, <2>1
<1>7. OneHolder' /\ RebuildAlone'
  BY <1>3 DEF OneHolder, RebuildAlone, Idle
<1> QED
  BY <1>4, <1>5, <1>6, <1>7 DEF AgreeInv
----------------------------------------------------------------------------
(* The invariant *)

LEMMA StepAgree ==
  ASSUME TypeInv, AgreeInv, NEW t \in Session, Step(t)
  PROVE  AgreeInv'
<1>1. CASE UpdateEntryWrite(t) \/ UpdateEntryRefused(t) \/ DeleteEntryWrite(t)
           \/ DeleteEntryRefused(t)
  BY <1>1, UndoAgree DEF UpdateEntryWrite, UpdateEntryRefused, DeleteEntryWrite,
                         DeleteEntryRefused, Undo
<1>2. CASE \E b \in Bin : LockBin(t, b) \/ MissBin(t, b) \/ BlockOnBin(t, b) \/ PutBin(t, b)
  BY <1>2, LockBinAgree, NoMiss, BlockAgree, PutBinAgree
<1>3. CASE \E m \in tx[t].moves : PostMove(t, m)
  BY <1>3, PostMoveAgree
<1>4. CASE \E m \in tx[t].moves : NegativeStock(t, m)
  BY <1>4, UndoAgree DEF NegativeStock, Undo
<1>5. CASE Posted(t) \/ CommitPosting(t) \/ DeleteBins(t) \/ CommitRebuild(t)
  BY <1>5, PostedAgree, CommitPostingAgree, DeleteBinsAgree, CommitRebuildAgree
<1> QED
  BY <1>1, <1>2, <1>3, <1>4, <1>5 DEF Step

LEMMA InitAgree ==
  ASSUME Seeded = Bin, Init
  PROVE  AgreeInv
<1>1. ASSUME NEW b \in Bin
      PROVE  bins[b].there /\ Chained(RowsIn(ledger, b), bins[b].qty)
  <2>1. RowsIn(ledger, b) = {OpeningRow(b)}
    BY DEF Init, RowsIn, OpeningRow
  <2>2. /\ OpeningRow(b).id = 1 /\ OpeningRow(b).after = Opening[b]
        /\ OpeningRow(b).delta = Opening[b]
    BY DEF OpeningRow
  <2>3. bins[b].there /\ bins[b].qty = Opening[b]
    BY DEF Init
  <2> HIDE DEF OpeningRow
  <2>4. Chained({OpeningRow(b)}, Opening[b])
    BY <2>2 DEF Chained
  <2> QED
    BY <2>1, <2>3, <2>4
<1>2. \A t \in Session : tx[t] = Idle
  BY DEF Init
<1>3. \A t \in Session : SessionGood(tx[t])
  BY <1>2, IdleGood
<1>4. OneHolder /\ RebuildAlone
  BY <1>2 DEF OneHolder, RebuildAlone, Idle
<1> QED
  BY <1>1, <1>3, <1>4 DEF AgreeInv

LEMMA NextAgree ==
  ASSUME Maintenance, TypeInv, AgreeInv, [Next]_vars
  PROVE  AgreeInv'
<1>1. ASSUME UNCHANGED <<bins, ledger, tx>>
      PROVE  AgreeInv'
  <2>1. OneHolder' /\ RebuildAlone'
    BY <1>1 DEF AgreeInv, OneHolder, RebuildAlone
  <2>2. \A t \in Session : SessionGood(tx[t])'
    BY <1>1 DEF AgreeInv, SessionGood, PostingGood
  <2> QED
    BY <1>1, <2>1, <2>2 DEF AgreeInv
<1>2. ASSUME NEW e \in Entry, NEW d \in Doc, CreateEntry(e, d)
      PROVE  AgreeInv'
  BY <1>1, <1>2 DEF CreateEntry
<1>3. ASSUME NEW t \in Session, DeadlockAbort(t) \/ ConnectionLost(t)
      PROVE  AgreeInv'
  BY <1>3, UndoAgree DEF DeadlockAbort, ConnectionLost, Undo
<1> QED
  BY <1>1, <1>2, <1>3, RequestAgree, StepAgree DEF Next, vars

(* What a session has read under lockBins' locks continues the ledger as   *)
(* it is until the session commits, so bins and ledger agree throughout.   *)
THEOREM Agreement ==
  ASSUME Seeded = Bin, Maintenance
  PROVE  Spec => []AgreeInv
<1>1. Init => AgreeInv
  BY InitAgree
<1>2. TypeInv /\ AgreeInv /\ [Next]_vars => AgreeInv'
  BY NextAgree
<1> QED
  BY <1>1, <1>2, TypeInvariance, PTL DEF Spec

(* The bins are what the ledger says, for any number of postings at once:  *)
(* what the row locks of lockBins are for.  It takes a row for every bin   *)
(* (else there is nothing to lock) and rebuilds in a maintenance window.   *)
THEOREM BinsAgree ==
  ASSUME Seeded = Bin, Maintenance
  PROVE  Spec => []BinsMatchLedger
<1>1. TypeInv /\ AgreeInv => BinsMatchLedger
  <2> SUFFICES ASSUME TypeInv, AgreeInv, NEW b \in Bin
               PROVE  /\ bins[b].there <=> HasRows(b)
                      /\ \A r \in ledger : LatestRow(b, r) => bins[b].qty = r.after
    BY DEF BinsMatchLedger
  <2>1. bins[b].there /\ Chained(RowsIn(ledger, b), bins[b].qty)
    BY DEF AgreeInv
  <2>2. PICK q \in ledger : /\ q.bin = b /\ q.after = bins[b].qty
                            /\ \A p \in ledger : p.bin = b => p.id <= q.id
    BY <2>1 DEF Chained, RowsIn
  <2>3. \A p \in ledger : p.id \in Int
    BY BoundAssumption DEF TypeInv, TypeOK, Row, Id
  <2>4. \A p \in ledger : LatestRow(b, p) => p = q
    BY <2>1, <2>2, <2>3 DEF LatestRow, Chained, RowsIn
  <2>5. HasRows(b) /\ bins[b].there \in BOOLEAN
    BY <2>2 DEF HasRows, TypeInv, TypeOK
  <2> QED
    BY <2>1, <2>2, <2>4, <2>5
<1> QED
  BY <1>1, Agreement, TypeInvariance, PTL

(* Every ledger row continues the one before it in its bin: no movement is *)
(* lost or counted twice, under the same two conditions.                   *)
THEOREM LedgerAddsUp ==
  ASSUME Seeded = Bin, Maintenance
  PROVE  Spec => []LedgerChains
<1>1. TypeInv /\ AgreeInv => LedgerChains
  <2> SUFFICES ASSUME TypeInv, AgreeInv, NEW r \in ledger
               PROVE  \/ r.after = r.delta /\ ~ \E q \in ledger : Before(q, r)
                      \/ \E q \in ledger :
                           /\ Before(q, r)
                           /\ ~ \E p \in ledger : Before(q, p) /\ Before(p, r)
                           /\ r.after = q.after + r.delta
    BY DEF LedgerChains
  <2>1. r.bin \in Bin /\ r \in RowsIn(ledger, r.bin)
    BY DEF TypeInv, TypeOK, Row, RowsIn
  <2>2. Chained(RowsIn(ledger, r.bin), bins[r.bin].qty)
    BY <2>1 DEF AgreeInv
  <2>3. CASE r.after = r.delta /\ ~ \E p \in RowsIn(ledger, r.bin) : p.id < r.id
    BY <2>3 DEF Before, RowsIn
  <2>4. CASE \E p \in RowsIn(ledger, r.bin) :
               /\ p.id < r.id
               /\ r.after = p.after + r.delta
               /\ ~ \E o \in RowsIn(ledger, r.bin) : p.id < o.id /\ o.id < r.id
    BY <2>4 DEF Before, RowsIn
  <2> QED
    BY <2>1, <2>2, <2>3, <2>4 DEF Chained
<1> QED
  BY <1>1, Agreement, TypeInvariance, PTL
============================================================================
