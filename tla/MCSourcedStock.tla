-------------------------- MODULE MCSourcedStock --------------------------
(* Model checking SourcedStock.  Tickets and bookings meet only in the     *)
(* stock, which the stock page moves as well; so a behaviour has the ones  *)
(* or the others, bookings if the shift is closed and nothing was sold.    *)
(* The receipt keeps the line it has; drafts of issues are edited.         *)
EXTENDS SourcedStock, TLC

NothingSold ==
  /\ shift.status = "closed" /\ ~straddled
  /\ \A c \in Till : TillAt(c, "idle")
  /\ \A t \in Ticket : ticket[t].status = "absent"

MCNext ==
  \/ \E c \in Till : PosStep(c) /\ UNCHANGED deskVars
  \/ \E c \in Desk : NothingSold /\ DeskStep(c) /\ UNCHANGED posVars
  \/ StockPageActs /\ lines'[Other] = lines[Other]

MCSpec == Init /\ [][MCNext]_vars

Symmetry == Permutations(Till) \cup Permutations(Desk) \cup Permutations(Bin)
============================================================================
