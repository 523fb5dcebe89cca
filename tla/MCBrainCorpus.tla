---------------------------- MODULE MCBrainCorpus ----------------------------
(* A small instance of BrainCorpus: a conversation that has messages and   *)
(* one that is new.                                                        *)
EXTENDS BrainCorpus, TLC

CONSTANTS c1, c2

MCConv == {c1, c2}
MCOrder == (c1 :> 1) @@ (c2 :> 2)
MCTexts == (c1 :> {<<"a">>, <<"b">>, <<"a", "c">>}) @@ (c2 :> {<< >>, <<"a">>})
MCStart == (c1 :> <<"a">>) @@ (c2 :> << >>)
MCCursor == [kind : {"dirty", "reconcile"}, left : SUBSET MCConv, failed : BOOLEAN]
==============================================================================
