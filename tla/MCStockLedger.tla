--------------------------- MODULE MCStockLedger ---------------------------
(* Small instances of StockLedger: two bins, two sessions. *)
EXTENDS StockRefinement, TLC

CONSTANTS b1, b2

MCBin == {b1, b2}
MCOpening == [b \in MCBin |-> IF b = b1 THEN 1 ELSE 0]

(* One item in two warehouses, or two items. *)
MCOneItem == {MCBin}
MCEachItem == {{b} : b \in MCBin}

MCNothing == [b \in MCBin |-> 0]

L(q, f, t) == [qty |-> q, from |-> f, to |-> t]

Receipt == [type |-> "receipt", lines |-> <<L(1, None, b1)>>]
Lost == [type |-> "adjustment", lines |-> <<L(1, b1, None)>>]
Swap == [type |-> "transfer", lines |-> <<L(1, b1, b2), L(1, b2, b1)>>]
TwoLines == [type |-> "receipt", lines |-> <<L(1, None, b1), L(1, None, b2)>>]

PostingDocs == {Lost, Swap}
CrossingDocs == {TwoLines}
RacingDocs == {Receipt, Lost}

Symmetric == Permutations(Session) \cup Permutations(Entry)
============================================================================
