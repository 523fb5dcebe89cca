---------------------------- MODULE StockLedger ----------------------------
(***************************************************************************)
(* The stock ledger of src/server/services/stock.service.ts: documents     *)
(* (entries) that are drafted, submitted and cancelled; an append-only     *)
(* ledger of signed movements; and one bin row per (item, warehouse) that  *)
(* caches the quantity on hand.                                            *)
(*                                                                         *)
(* Every operation is one READ COMMITTED transaction run by a session.  A  *)
(* statement that can block, or between which another session can commit, *)
(* is a step of its own; a session's writes become visible when it         *)
(* commits.  A bin stands for one (item, warehouse) key: operations on     *)
(* different items meet only through the locks, exactly as operations on   *)
(* different warehouses do.  Quantities only: the rates are left out.      *)
(***************************************************************************)
EXTENDS Integers, Sequences, FiniteSets

CONSTANTS
  Session,      \* database sessions (request handlers) that run transactions
  Entry,        \* documents: rows of stk_entries
  Bin,          \* keys of stk_bins: binKey(itemId, warehouseId)
  ItemBins,     \* the bins of each item: a set of sets of bins
  Doc,          \* the contents a document may be given: [type, lines]
  Opening,      \* Opening[b]: quantity the opening ledger row of b brought in
  Seeded,       \* the bins that have a row (and an opening ledger row) at start
  Maintenance,  \* TRUE: rebuildBins runs only while no other transaction does
  MaxRows,      \* bound on ledger row ids
  None          \* SQL null

EntryType == {"receipt", "issue", "transfer", "adjustment"}
EntryStatus == {"draft", "submitted", "cancelled"}

Line == [qty : Int, from : Bin \cup {None}, to : Bin \cup {None}]

Id == 1 .. MaxRows

ASSUME SessionAssumption == IsFiniteSet(Session)
ASSUME NoneAssumption == None \notin Bin \cup Entry \cup Doc
ASSUME DocAssumption ==
  \A d \in Doc : d.type \in EntryType /\ d.lines \in Seq(Line)
ASSUME OpeningAssumption == Opening \in [Bin -> Nat] /\ Seeded \subseteq Bin
ASSUME ItemAssumption == ItemBins \subseteq SUBSET Bin
ASSUME BoundAssumption == MaxRows \in Nat \ {0} /\ Maintenance \in BOOLEAN

VARIABLES
  status,   \* stk_entries.status; "absent" before the row, "deleted" after
  doc,      \* the entry's type and stk_entry_lines
  bins,     \* stk_bins: the committed rows
  ledger,   \* stk_ledger: the set of committed rows
  tx        \* what each session's open transaction holds

vars == <<status, doc, bins, ledger, tx>>
----------------------------------------------------------------------------
(* Lines and legs *)

(* An entry without a row of its own wrote the opening rows. *)
Row == [id : Id, ent : Entry \cup {None}, bin : Bin, delta : Int, after : Int]

(* The legs of one line: qty leaves bin out and arrives in bin into. *)
Move == [no : Nat, qty : Int, out : Bin \cup {None}, into : Bin \cup {None}]

(* validateEntryLine, the parts that do not concern the rate. *)
ValidLine(type, l) ==
  /\ l.qty > 0
  /\ type = "receipt" => l.to # None
  /\ type = "issue" => l.from # None
  /\ type = "transfer" => l.from # None /\ l.to # None /\ l.from # l.to
  /\ type = "adjustment" => (l.from = None) # (l.to = None)

Legs(no, q, out, into) == [no |-> no, qty |-> q, out |-> out, into |-> into]

(* expandLine: an issue has no in-leg and a receipt no out-leg, whatever   *)
(* the line says; an adjustment has the one leg whose warehouse is given.  *)
ExpandLine(type, no, l) ==
  Legs(no, l.qty, IF type # "receipt" THEN l.from ELSE None,
                  IF type # "issue" THEN l.to ELSE None)

(* What submitting a document moves; its lines come back in no set order. *)
Postings(d) == {ExpandLine(d.type, i, d.lines[i]) : i \in DOMAIN d.lines}

(* Mutant of Reversals: only what was taken out is put back. *)
ReversalsOfIssues(rows) ==
  {Legs(r.id, -r.delta, None, r.bin) : r \in {q \in rows : q.delta < 0}}

(* What cancelling an entry moves: every ledger row of it, negated. *)
Reversals(rows) ==
  {IF r.delta < 0 THEN Legs(r.id, -r.delta, None, r.bin)
                  ELSE Legs(r.id, r.delta, r.bin, None) : r \in rows}

(* Mutant of MoveBins: the leg a line does not have is not filtered out. *)
MoveBinsUnfiltered(m) == {m.out, m.into}

MoveBins(m) == {m.out, m.into} \ {None}

BinsOf(moves) == UNION {MoveBins(m) : m \in moves}

Delta(m, b) == (IF b = m.into THEN m.qty ELSE 0) - (IF b = m.out THEN m.qty ELSE 0)

Submittable(d) ==
  /\ d.lines # << >>
  /\ \A i \in DOMAIN d.lines : ValidLine(d.type, d.lines[i])
----------------------------------------------------------------------------
(* Sessions *)

Op == {"none", "submit", "cancel", "update", "delete", "rebuild"}

(* pc: idle; read (something was read, nothing locked or written); work      *)
(* (taking bin locks until need is empty, then computing ledger rows); write *)
(* (upserting bins until need is empty, then commit).  held: bin rows locked *)
(* or inserted; want: the one waited for; gone: that row was deleted; seen:  *)
(* the quantities the transaction holds in memory; buf: its ledger rows.     *)
Tx == [pc : {"idle", "read", "work", "write"}, op : Op,
       ent : Entry \cup {None}, next : Doc \cup {None},
       moves : SUBSET Move, keys : SUBSET Bin, need : SUBSET Bin,
       held : SUBSET Bin, want : Bin \cup {None}, gone : BOOLEAN,
       seen : [Bin -> Int], buf : SUBSET Row]

Idle == [pc |-> "idle", op |-> "none", ent |-> None, next |-> None,
         moves |-> {}, keys |-> {}, need |-> {}, held |-> {}, want |-> None,
         gone |-> FALSE, seen |-> [b \in Bin |-> 0], buf |-> {}]

RowsOf(e) == {r \in ledger : r.ent = e}

(* A row lock on bin b that t does not wait for. *)
Free(b, t) == \A s \in Session \ {t} : b \notin tx[s].held

(* `for('update')` on the entry row, held to the end of the transaction. *)
EntryFree(e) ==
  \A s \in Session : tx[s].op \in {"submit", "cancel"} => tx[s].ent # e

RebuildOpen == \E s \in Session : tx[s].op = "rebuild"

MayStart(t) == tx[t].pc = "idle" /\ (Maintenance => ~RebuildOpen)

(* The transaction ends without effect: an error thrown inside it, a       *)
(* deadlock victim, a lost connection.                                     *)
Undo(t) ==
  /\ tx' = [tx EXCEPT ![t] = Idle]
  /\ UNCHANGED <<status, doc, bins, ledger>>
----------------------------------------------------------------------------
(* Drafts *)

CreateEntry(e, d) ==
  /\ status[e] = "absent"
  /\ status' = [status EXCEPT ![e] = "draft"]
  /\ doc' = [doc EXCEPT ![e] = d]
  /\ UNCHANGED <<bins, ledger, tx>>

(* updateEntry and deleteEntry read the status without locking the row. *)
ReadDraft(t, e, op, d) ==
  /\ MayStart(t)
  /\ status[e] = "draft"
  /\ tx' = [tx EXCEPT ![t] = [Idle EXCEPT !.pc = "read", !.op = op,
                                          !.ent = e, !.next = d]]
  /\ UNCHANGED <<status, doc, bins, ledger>>

UpdateEntryRead(t, e, d) == ReadDraft(t, e, "update", d)

(* Then they write.  Changing the header waits for the entry's row lock, and *)
(* so does the foreign key of a new line; only emptying the entry does not. *)
(* The status is not read again.  The write is one step: that the lines of *)
(* two updates of one entry may end up together is left out.               *)
UpdateEntryWrite(t) ==
  LET e == tx[t].ent
      d == tx[t].next
  IN /\ tx[t].op = "update"
     /\ status[e] \in EntryStatus
     /\ EntryFree(e) \/ (d.type = doc[e].type /\ d.lines = << >>)
     /\ doc' = [doc EXCEPT ![e] = d]
     /\ tx' = [tx EXCEPT ![t] = Idle]
     /\ UNCHANGED <<status, bins, ledger>>

(* The lines' foreign key refuses new lines of a deleted entry. *)
UpdateEntryRefused(t) ==
  /\ tx[t].op = "update"
  /\ status[tx[t].ent] = "deleted"
  /\ Undo(t)

DeleteEntryRead(t, e) == ReadDraft(t, e, "delete", None)

(* Mutant of DeleteEntryWrite: stk_ledger.entry_id ON DELETE CASCADE. *)
DeleteEntryCascade(t) ==
  LET e == tx[t].ent
  IN /\ tx[t].op = "delete"
     /\ EntryFree(e)
     /\ status' = [status EXCEPT ![e] = "deleted"]
     /\ doc' = [doc EXCEPT ![e] = None]
     /\ tx' = [tx EXCEPT ![t] = Idle]
     /\ UNCHANGED <<bins, ledger>>

(* The ledger's foreign key refuses to delete an entry that has rows. *)
DeleteEntryWrite(t) ==
  LET e == tx[t].ent
  IN /\ tx[t].op = "delete"
     /\ EntryFree(e)
     /\ RowsOf(e) = {}
     /\ status' = [status EXCEPT ![e] = "deleted"]
     /\ doc' = [doc EXCEPT ![e] = None]
     /\ tx' = [tx EXCEPT ![t] = Idle]
     /\ UNCHANGED <<bins, ledger>>

DeleteEntryRefused(t) ==
  /\ tx[t].op = "delete"
  /\ EntryFree(tx[t].ent)
  /\ RowsOf(tx[t].ent) # {}
  /\ Undo(t)
----------------------------------------------------------------------------
(* Submit and cancel *)

(* The entry row is locked, its status checked, its moves worked out. *)
Begin(t, e, op, moves) ==
  tx' = [tx EXCEPT ![t] =
           [Idle EXCEPT !.pc = "work", !.op = op, !.ent = e, !.moves = moves,
                        !.keys = BinsOf(moves), !.need = BinsOf(moves)]]

(* Mutant of BeginSubmit: the entry row is read without `for update`. *)
BeginSubmitUnlocked(t, e) ==
  /\ MayStart(t)
  /\ status[e] = "draft"
  /\ Submittable(doc[e])
  /\ Begin(t, e, "submit", Postings(doc[e]))
  /\ UNCHANGED <<status, doc, bins, ledger>>

BeginSubmit(t, e) ==
  /\ MayStart(t)
  /\ EntryFree(e)
  /\ status[e] = "draft"
  /\ Submittable(doc[e])
  /\ Begin(t, e, "submit", Postings(doc[e]))
  /\ UNCHANGED <<status, doc, bins, ledger>>

BeginCancel(t, e) ==
  /\ MayStart(t)
  /\ EntryFree(e)
  /\ status[e] = "submitted"
  /\ RowsOf(e) # {}
  /\ Begin(t, e, "cancel", Reversals(RowsOf(e)))
  /\ UNCHANGED <<status, doc, bins, ledger>>

(* The row of b is visible to t's statement; one that waited for a row that *)
(* was deleted meanwhile does not see the row inserted in its place.       *)
Sees(t, b) == bins[b].there /\ ~tx[t].gone

Turn(t, b) == b \in tx[t].need /\ tx[t].want \in {None, b}

(* t is through with b; a read leaves quantity q in its copy of the bin. *)
Done(r, b) == [r EXCEPT !.need = r.need \ {b}, !.want = None, !.gone = FALSE]
DoneRead(r, b, q) == [Done(r, b) EXCEPT !.seen = [r.seen EXCEPT ![b] = q]]

(* The DELETE of rebuildBins takes the same locks and reads nothing. *)
QtyRead(t, b) == IF tx[t].op = "rebuild" THEN tx[t].seen[b] ELSE bins[b].qty

(* Mutant of LockBin: the bin is read without `for update`. *)
ReadBin(t, b) ==
  /\ tx[t].pc = "work"
  /\ Turn(t, b)
  /\ Sees(t, b)
  /\ tx' = [tx EXCEPT ![t] = DoneRead(tx[t], b, QtyRead(t, b))]
  /\ UNCHANGED <<status, doc, bins, ledger>>

(* lockBins, one key: SELECT ... FOR UPDATE of a row that exists. *)
LockBin(t, b) ==
  /\ tx[t].pc = "work"
  /\ Turn(t, b)
  /\ Sees(t, b)
  /\ Free(b, t)
  /\ tx' = [tx EXCEPT ![t] = [DoneRead(tx[t], b, QtyRead(t, b)) EXCEPT
                                 !.held = tx[t].held \cup {b}]]
  /\ UNCHANGED <<status, doc, bins, ledger>>

(* lockBins, one key: there is no row, so EMPTY_BIN, and nothing is locked. *)
MissBin(t, b) ==
  /\ tx[t].pc = "work"
  /\ Turn(t, b)
  /\ ~Sees(t, b)
  /\ tx' = [tx EXCEPT ![t] = DoneRead(tx[t], b, 0)]
  /\ UNCHANGED <<status, doc, bins, ledger>>

(* The statement waits for another session's lock, or for its uncommitted  *)
(* insert of the same key.  While locking, a key without a row is no wait. *)
BlockOnBin(t, b) ==
  /\ tx[t].pc \in {"work", "write"}
  /\ b \in tx[t].need
  /\ tx[t].want = None
  /\ ~Free(b, t)
  /\ tx[t].pc = "work" => bins[b].there
  /\ tx' = [tx EXCEPT ![t].want = b]
  /\ UNCHANGED <<status, doc, bins, ledger>>

WouldGoNegative(t, m) ==
  m.out # None /\ tx[t].seen[m.out] - m.qty < 0

Ready(t) == tx[t].pc = "work" /\ tx[t].need = {}

(* Every row written so far, committed or not, has a smaller id.  The rows *)
(* of one line share an id: only the order within a bin is ever used.      *)
Written == ledger \cup UNION {tx[s].buf : s \in Session}

NextId(id) ==
  /\ \A r \in Written : r.id < id
  /\ id = 1 \/ \E r \in Written : r.id = id - 1

After(t, m, b) == tx[t].seen[b] + Delta(m, b)

LedgerRows(t, m, id) ==
  {[id |-> id, ent |-> tx[t].ent, bin |-> b, delta |-> Delta(m, b),
    after |-> After(t, m, b)] : b \in MoveBins(m)}

Post(t, m, id) ==
  tx' = [tx EXCEPT ![t].moves = @ \ {m},
                   ![t].buf = @ \cup LedgerRows(t, m, id),
                   ![t].seen = [b \in Bin |-> After(t, m, b)]]

(* Mutant of PostMove: the negative-stock guard is dropped. *)
PostMoveUnguarded(t, m) ==
  /\ Ready(t)
  /\ m \in tx[t].moves
  /\ \E id \in Id : NextId(id) /\ Post(t, m, id)
  /\ UNCHANGED <<status, doc, bins, ledger>>

(* The legs of one line (one ledger row, when cancelling): the new state of *)
(* each bin from the copy read under lock, and a ledger row with it.        *)
PostMove(t, m) ==
  /\ Ready(t)
  /\ m \in tx[t].moves
  /\ ~WouldGoNegative(t, m)
  /\ \E id \in Id : NextId(id) /\ Post(t, m, id)
  /\ UNCHANGED <<status, doc, bins, ledger>>

(* StockError 'negative_stock' rolls the whole transaction back. *)
NegativeStock(t, m) ==
  /\ Ready(t)
  /\ m \in tx[t].moves
  /\ WouldGoNegative(t, m)
  /\ Undo(t)

(* The rows are inserted; the bins are written next. *)
Posted(t) ==
  /\ Ready(t)
  /\ tx[t].moves = {}
  /\ tx' = [tx EXCEPT ![t].pc = "write", ![t].need = tx[t].keys]
  /\ UNCHANGED <<status, doc, bins, ledger>>

(* Mutant of PutBin: the upsert goes through the pool and not through the  *)
(* transaction, so that it waits for the row t itself has locked.          *)
PutBinOutside(t, b) ==
  /\ tx[t].pc = "write"
  /\ Turn(t, b)
  /\ \A s \in Session : b \notin tx[s].held
  /\ tx' = [tx EXCEPT ![t] = [Done(tx[t], b) EXCEPT
                                 !.held = tx[t].held \cup {b}]]
  /\ UNCHANGED <<status, doc, bins, ledger>>

(* writeBins, one key: an upsert with the absolute value t computed.       *)
(* rebuildBins inserts instead; the rows it inserts it has deleted before. *)
PutBin(t, b) ==
  /\ tx[t].pc = "write"
  /\ Turn(t, b)
  /\ Free(b, t)
  /\ tx' = [tx EXCEPT ![t] = [Done(tx[t], b) EXCEPT
                                 !.held = tx[t].held \cup {b}]]
  /\ UNCHANGED <<status, doc, bins, ledger>>

(* The entry's new status, the rows and the bins become visible at once. *)
CommitPosting(t) ==
  /\ tx[t].op \in {"submit", "cancel"}
  /\ tx[t].pc = "write"
  /\ tx[t].need = {}
  /\ status' = [status EXCEPT ![tx[t].ent] =
                  IF tx[t].op = "submit" THEN "submitted" ELSE "cancelled"]
  /\ ledger' = ledger \cup tx[t].buf
  /\ bins' = [b \in Bin |->
                IF b \in tx[t].keys
                  THEN [bins[b] EXCEPT !.there = TRUE, !.qty = tx[t].seen[b]]
                  ELSE bins[b]]
  /\ tx' = [tx EXCEPT ![t] = Idle]
  /\ UNCHANGED doc
----------------------------------------------------------------------------
(* rebuildBins *)

LatestRow(b, r) ==
  /\ r \in ledger
  /\ r.bin = b
  /\ \A q \in ledger : q.bin = b => q.id <= r.id

HasRows(b) == \E r \in ledger : r.bin = b

Scope == ItemBins \cup {Bin}

(* replayBins: the latest row's qty_after. *)
Replay == [b \in Bin |->
             IF HasRows(b) THEN (CHOOSE r \in ledger : LatestRow(b, r)).after
                           ELSE 0]

(* The ledger is read, of one item or of the whole organisation, then the  *)
(* DELETE of every bin row in that scope that is there starts.  One rebuild *)
(* runs at a time.                                                         *)
BeginRebuild(t, scope) ==
  /\ tx[t].pc = "idle"
  /\ ~RebuildOpen
  /\ Maintenance => \A s \in Session : tx[s].pc = "idle"
  /\ tx' = [tx EXCEPT ![t] =
              [Idle EXCEPT !.pc = "read", !.op = "rebuild", !.seen = Replay,
                           !.keys = {b \in scope : HasRows(b)},
                           !.need = scope]]
  /\ UNCHANGED <<status, doc, bins, ledger>>

DeleteBins(t) ==
  /\ tx[t].pc = "read"
  /\ tx[t].op = "rebuild"
  /\ tx' = [tx EXCEPT ![t].pc = "work",
                      ![t].need = {b \in @ : bins[b].there}]
  /\ UNCHANGED <<status, doc, bins, ledger>>

(* The deleted rows go and the replayed ones appear; a statement that was *)
(* waiting for a deleted row finds none.                                   *)
CommitRebuild(t) ==
  LET r == tx[t]
  IN /\ r.op = "rebuild"
     /\ r.pc = "write"
     /\ r.need = {}
     /\ bins' = [b \in Bin |->
                   IF b \in r.held
                     THEN [there |-> b \in r.keys,
                           qty |-> IF b \in r.keys THEN r.seen[b] ELSE 0]
                     ELSE bins[b]]
     /\ tx' = [s \in Session |->
                 IF s = t THEN Idle
                 ELSE [tx[s] EXCEPT !.gone = @ \/ tx[s].want \in r.held]]
     /\ UNCHANGED <<status, doc, ledger>>
----------------------------------------------------------------------------
(* Transactions that fail from outside *)

(* t is on a cycle of sessions each of which waits for the next one. *)
Deadlocked(t) ==
  \E C \in SUBSET Session :
    /\ t \in C
    /\ \A s \in C : \E r \in C \ {s} : tx[s].want \in tx[r].held
    /\ \A r \in C : \E s \in C \ {r} : tx[s].want \in tx[r].held

(* PostgreSQL aborts one of the sessions; nothing retries. *)
DeadlockAbort(t) == Deadlocked(t) /\ Undo(t)

(* Connection lost, process killed, idle_in_transaction_session_timeout. *)
ConnectionLost(t) == tx[t].pc # "idle" /\ Undo(t)
----------------------------------------------------------------------------
OpeningRow(b) == [id |-> 1, ent |-> None, bin |-> b, delta |-> Opening[b],
                  after |-> Opening[b]]

Init ==
  /\ status = [e \in Entry |-> "absent"]
  /\ doc = [e \in Entry |-> None]
  /\ bins = [b \in Bin |->
               [there |-> b \in Seeded,
                qty |-> IF b \in Seeded THEN Opening[b] ELSE 0]]
  /\ ledger = {OpeningRow(b) : b \in Seeded}
  /\ tx = [t \in Session |-> Idle]

(* What a handler does once its transaction is open. *)
Step(t) ==
  \/ UpdateEntryWrite(t) \/ UpdateEntryRefused(t)
  \/ DeleteEntryWrite(t) \/ DeleteEntryRefused(t)
  \/ \E b \in Bin : \/ LockBin(t, b) \/ MissBin(t, b) \/ BlockOnBin(t, b)
                    \/ PutBin(t, b)
  \/ \E m \in tx[t].moves : PostMove(t, m) \/ NegativeStock(t, m)
  \/ Posted(t) \/ CommitPosting(t) \/ DeleteBins(t) \/ CommitRebuild(t)

Request(t) ==
  \/ \E e \in Entry :
       \/ BeginSubmit(t, e) \/ BeginCancel(t, e) \/ DeleteEntryRead(t, e)
       \/ \E d \in Doc : UpdateEntryRead(t, e, d)
  \/ \E scope \in Scope : BeginRebuild(t, scope)

Next ==
  \/ \E e \in Entry, d \in Doc : CreateEntry(e, d)
  \/ \E t \in Session : \/ Request(t) \/ Step(t)
                        \/ DeadlockAbort(t) \/ ConnectionLost(t)

Spec == Init /\ [][Next]_vars

(* A handler runs on until its transaction ends, row locks are granted in  *)
(* the order they were asked for, and deadlocks are detected.              *)
FairSpec ==
  /\ Spec
  /\ \A t \in Session : SF_vars(Step(t)) /\ WF_vars(DeadlockAbort(t))
----------------------------------------------------------------------------
(* Properties *)

(* Types.  Not by shape alone: a posting finds its document's contents, its *)
(* moves name real bins, and a replay finds a latest row for every bin.    *)
TypeOK ==
  /\ status \in [Entry -> EntryStatus \cup {"absent", "deleted"}]
  /\ doc \in [Entry -> Doc \cup {None}]
  /\ bins \in [Bin -> [there : BOOLEAN, qty : Int]]
  /\ ledger \subseteq Row
  /\ tx \in [Session -> Tx]

(* The bins cache the ledger: a bin's row holds what its latest ledger row *)
(* says, and exists as soon as there is one ("bins are a cache; the ledger *)
(* is truth").                                                             *)
BinsMatchLedger ==
  \A b \in Bin :
    /\ bins[b].there <=> HasRows(b)
    /\ \A r \in ledger : LatestRow(b, r) => bins[b].qty = r.after

Before(q, r) == q.bin = r.bin /\ q.id < r.id

(* The ledger adds up: a row's qty_after is the previous row's of the same *)
(* bin plus its own delta, the first row's is its delta.                   *)
LedgerChains ==
  \A r \in ledger :
    \/ r.after = r.delta /\ ~ \E q \in ledger : Before(q, r)
    \/ \E q \in ledger :
         /\ Before(q, r)
         /\ ~ \E p \in ledger : Before(q, p) /\ Before(p, r)
         /\ r.after = q.after + r.delta

(* No bin and no ledger row ever shows less than nothing. *)
NeverNegative ==
  /\ \A b \in Bin : bins[b].qty >= 0
  /\ \A r \in ledger : r.after >= 0

(* An entry with ledger rows is submitted or cancelled: no draft edit or   *)
(* delete that raced a submit leaves a movement without its document.      *)
RowsHaveDocument ==
  \A e \in Entry : RowsOf(e) # {} => status[e] \in {"submitted", "cancelled"}

(* Rows of an entry are written only with its submission and with its      *)
(* cancellation, each once, and never removed.                             *)
RowsOnlyWithTransition ==
  [][\A e \in Entry :
       RowsOf(e)' # RowsOf(e) =>
         /\ RowsOf(e) \subseteq RowsOf(e)'
         /\ <<status[e], status'[e]>> \in
              {<<"draft", "submitted">>, <<"submitted", "cancelled">>}]_vars

(* Every transaction ends, however many wait on each other's bins. *)
EveryTransactionEnds ==
  \A t \in Session : tx[t].pc # "idle" ~> tx[t].pc = "idle"
============================================================================
