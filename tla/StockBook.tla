----------------------------- MODULE StockBook -----------------------------
(***************************************************************************)
(* What the stock ledger promises: a document moves its quantities once,   *)
(* when it is submitted, and takes back exactly those, once, when it is    *)
(* cancelled; each happens at one instant; nothing goes below zero.        *)
(***************************************************************************)
EXTENDS Integers

CONSTANTS Entry, Bin

VARIABLES
  onHand,  \* quantity in each bin
  state,   \* open, posted or reversed
  moved    \* what each entry has moved and not taken back

vars == <<onHand, state, moved>>

Nothing == [b \in Bin |-> 0]

Init ==
  /\ onHand \in [Bin -> Nat]
  /\ state = [e \in Entry |-> "open"]
  /\ moved = [e \in Entry |-> Nothing]

Moves(e, old, new) ==
  /\ \E m \in {moved'[e]} : moved' = [moved EXCEPT ![e] = m]
  /\ onHand' = [b \in Bin |-> onHand[b] + moved'[e][b] - moved[e][b]]
  /\ \A b \in Bin : onHand'[b] >= 0
  /\ state[e] = old
  /\ state' = [state EXCEPT ![e] = new]

Submit(e) == Moves(e, "open", "posted")

Cancel(e) == Moves(e, "posted", "reversed") /\ moved'[e] = Nothing

Next == \E e \in Entry : Submit(e) \/ Cancel(e)

Spec == Init /\ [][Next]_vars
============================================================================
