----------------------------- MODULE MCUmaFeed -----------------------------
(* Three branches that part after the first block; the second blocks of two  *)
(* of them carry one event each, under one key, that of the third none.      *)
EXTENDS FeedConsumer, TLC

CONSTANTS g1, a2, b2, c2, ea2, eb2, c1

MCBlocks   == {g1, a2, b2, c2}
MCNumberOf == (g1 :> 1) @@ (a2 :> 2) @@ (b2 :> 2) @@ (c2 :> 2)
MCBranches == {<<g1, a2>>, <<g1, b2>>, <<g1, c2>>}
MCEvents   == {ea2, eb2}
MCBlockOf  == (ea2 :> a2) @@ (eb2 :> b2)
MCIndexOf  == (ea2 :> 1) @@ (eb2 :> 1)

\* The two branches may be exchanged for each other.
Exchange == {(a2 :> x) @@ (b2 :> y) @@ (ea2 :> ex) @@ (eb2 :> ey) :
                <<x, y, ex, ey>> \in {<<a2, b2, ea2, eb2>>, <<b2, a2, eb2, ea2>>}}
=============================================================================
