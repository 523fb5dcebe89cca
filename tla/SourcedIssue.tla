--------------------------- MODULE SourcedIssue ---------------------------
(***************************************************************************)
(* Stock issues that are made for something else, a ticket of the point of *)
(* sale or a booking, and carry its id (stock.service.ts: createSourced-   *)
(* Issue, createServiceIssue, findEntryBySource).  The stock itself is     *)
(* StockBook, which the ledger of StockLedger implements: a document moves *)
(* its quantities at one instant.  Nothing ties the rows of stk_entries to *)
(* their source but a read before the insert.                              *)
(***************************************************************************)
EXTENDS Integers, FiniteSets

CONSTANTS
  Ticket, Booking,  \* what issues are made for
  Bin,              \* items, in the one warehouse
  MaxEntry,         \* bound: entries
  InStock,          \* quantity of each item at start
  None              \* SQL null

Source == Ticket \cup Booking
Entry == 1 .. MaxEntry  \* in the order of createdAt

ASSUME SourcesDiffer == Ticket \cap Booking = {} /\ None \notin Source \cup Entry
ASSUME StockBounds == MaxEntry \in Nat \ {0} /\ InStock \in Nat

VARIABLES
  onHand, state, moved,  \* the stock book
  rows,    \* the rows of stk_entries
  source,  \* what an entry was made for
  lines,   \* the items it moves, one of each: its lines while it is a draft,
           \* its ledger rows from then on
  next     \* the next entry

book == <<onHand, state, moved>>
entries == <<rows, source, lines, next>>

Book == INSTANCE StockBook

Other == 1  \* a receipt, drafted on the stock page

SourcedInit ==
  /\ onHand = [b \in Bin |-> InStock]
  /\ state = [e \in Entry |-> "open"]
  /\ moved = [e \in Entry |-> Book!Nothing]
  /\ rows = {Other}
  /\ source = [e \in Entry |-> None]
  /\ lines = [e \in Entry |-> IF e = Other THEN Bin ELSE {}]
  /\ next = Other + 1

Movement(e) ==
  [b \in Bin |-> IF b \in lines[e] THEN IF e = Other THEN 1 ELSE -1 ELSE 0]

Draft(e) == e \in rows /\ state[e] = "open"

(* Mutant of IssuesOf: drafts are not seen. *)
IssuesPosted(s) == {e \in rows : source[e] = s /\ state[e] = "posted"}

(* status <> 'cancelled', of one source *)
IssuesOf(s) == {e \in rows : source[e] = s /\ state[e] # "reversed"}

(* findEntryBySource: the latest. *)
FindEntryBySource(s) ==
  IF IssuesOf(s) = {} THEN None
  ELSE CHOOSE e \in IssuesOf(s) : \A f \in IssuesOf(s) : f <= e

(* The transaction of insertSourcedIssueEntry begins (and takes createdAt) *)
(* and looks for a duplicate ...                                           *)
Reserve == next \in Entry /\ next' = next + 1

(* ... and inserts. *)
InsertDraft(e, s, items) ==
  /\ rows' = rows \cup {e}
  /\ source' = [source EXCEPT ![e] = s]
  /\ lines' = [lines EXCEPT ![e] = items]
  /\ UNCHANGED <<book, next>>

Submittable(e) ==
  Draft(e) /\ lines[e] # {} /\ \A b \in Bin : onHand[b] + Movement(e)[b] >= 0

SubmitEntry(e) ==
  /\ Draft(e)
  /\ lines[e] # {}
  /\ moved' = [moved EXCEPT ![e] = Movement(e)]
  /\ Book!Submit(e)
  /\ UNCHANGED entries

Cancellable(e) ==
  state[e] = "posted" /\ \A b \in Bin : onHand[b] - Movement(e)[b] >= 0

CancelEntry(e) ==
  /\ moved' = [moved EXCEPT ![e] = Book!Nothing]
  /\ Book!Cancel(e)
  /\ UNCHANGED entries

(* updateEntry: other lines, or none.  (It reads the status unlocked, so it *)
(* may be late and change the lines of an entry that was submitted; nobody *)
(* reads those again, a cancellation reverses the ledger rows.)            *)
UpdateEntry(e) ==
  /\ Draft(e)
  /\ \E items \in SUBSET Bin : lines' = [lines EXCEPT ![e] = items]
  /\ UNCHANGED <<book, rows, source, next>>

DeleteEntry(e) ==
  /\ Draft(e)
  /\ rows' = rows \ {e}
  /\ UNCHANGED <<book, source, lines, next>>

(* The stock page: any entry, whatever it was made for. *)
StockPage(e) ==
  SubmitEntry(e) \/ CancelEntry(e) \/ UpdateEntry(e) \/ DeleteEntry(e)
============================================================================
