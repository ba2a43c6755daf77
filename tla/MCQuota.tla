------------------------------ MODULE MCQuota -------------------------------
(* Two markets and two tasks; a slot outlives three cooldowns, so that the   *)
(* number of orders binds where the cooldown does not.                       *)
EXTENDS Quota, TLC

CONSTANTS m1, m2, t1, t2

MCMarkets == {m1, m2}
MCTasks   == {t1, t2}
Symmetry  == Permutations(MCMarkets) \cup Permutations(MCTasks)
=============================================================================
