--------------------------- MODULE SourcedStock ---------------------------
(***************************************************************************)
(* The point of sale and the bookings on one stock book: each makes issues *)
(* for its tickets or bookings, and the stock page submits, cancels and    *)
(* deletes them like any other entry.                                      *)
(***************************************************************************)
EXTENDS PosTicket, BookingAccruals

vars == <<book, entries, posVars, deskVars>>

Init == SourcedInit /\ BookingInit /\ \E open \in BOOLEAN : PosInit(open)

StockPageActs ==
  /\ \E e \in Entry : StockPage(e)
  /\ UNCHANGED <<posVars, deskVars>>

Next ==
  \/ \E c \in Till : PosStep(c) /\ UNCHANGED deskVars
  \/ \E c \in Desk : DeskStep(c) /\ UNCHANGED posVars
  \/ StockPageActs

Spec == Init /\ [][Next]_vars
----------------------------------------------------------------------------
(* Properties *)

StockTypes ==
  /\ onHand \in [Bin -> Int]
  /\ state \in [Entry -> {"open", "posted", "reversed"}]
  /\ moved \in [Entry -> [Bin -> -1 .. 1]]
  /\ rows \subseteq Entry
  /\ source \in [Entry -> Source \cup {None}]
  /\ lines \in [Entry -> SUBSET Bin]
  /\ next \in 1 .. MaxEntry + 1

(* Types: of the book, the tickets and the bookings. *)
TypeOK == StockTypes /\ PosTypes /\ BookingTypes

(* "A same-tx dup guard refuses a second non-cancelled entry for (source,  *)
(* sourceId)": through requests that end anywhere, drafts left by short    *)
(* stock, retries and hand-made cancellations a source has one issue,      *)
(* as long as no two requests are at work on it at once.                   *)
OneIssuePerSource ==
  \A s \in Source \ (posCrossed \cup deskCrossed) :
    Cardinality({e \in rows : source[e] = s /\ state[e] # "reversed"}) <= 1
============================================================================
