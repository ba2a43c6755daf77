----------------------------- MODULE MCHistory ------------------------------
(* Two orders; the first identifier belongs to the younger.  One fills a     *)
(* batch of the reconciliation, both one of the export.                      *)
EXTENDS History, TLC

CONSTANTS o1, o2, b1

MCIds        == {o1, o2}
MCIdRank     == (o1 :> 1) @@ (o2 :> 2)
MCObservedAt == (o1 :> 2) @@ (o2 :> 1)
=============================================================================
