----------------------------- MODULE MCJournal -----------------------------
(* The journal on its own, called in any order by any number of callers.   *)
EXTENDS Journal, TLC

CONSTANTS i1, i2, i3, b1, b2

MCIds       == {i1, i2, i3}
MCLiveIds   == {i1, i2}
MCShadowIds == {i3}
MCBodies    == {b1, b2}

\* The two live identifiers are interchangeable, and so are the contents.
Symmetry == Permutations(MCLiveIds) \cup Permutations(MCBodies)


=============================================================================
