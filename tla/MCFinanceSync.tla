--------------------------- MODULE MCFinanceSync ---------------------------
(* Model checking FinanceSync: calls of advanceJob are interchangeable. *)
EXTENDS FinanceSync, TLC

Symmetry == Permutations(Worker)
============================================================================
