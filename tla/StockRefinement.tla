-------------------------- MODULE StockRefinement --------------------------
(* StockLedger implements StockBook: the quantities, the rows and the lock *)
(* discipline of the transactions add up to one atomic step per document.  *)
EXTENDS StockLedger, FiniteSetsExt

(* What the committed ledger rows of e come to in bin b. *)
Net(e, b) ==
  MapThenSumSet(LAMBDA r : r.delta, {r \in RowsOf(e) : r.bin = b})

BookState(e) ==
  CASE status[e] \in {"absent", "draft", "deleted"} -> "open"
    [] status[e] = "submitted" -> "posted"
    [] status[e] = "cancelled" -> "reversed"

Book == INSTANCE StockBook
  WITH onHand <- [b \in Bin |-> bins[b].qty],
       state <- [e \in Entry |-> BookState(e)],
       moved <- [e \in Entry |-> [b \in Bin |-> Net(e, b)]]

(* Submitting and cancelling are atomic: whatever transactions overlap, a  *)
(* document's movement appears in all its bins at once, exactly once, and  *)
(* a cancellation takes back exactly that movement.                        *)
ImplementsBook == Book!Spec
============================================================================
