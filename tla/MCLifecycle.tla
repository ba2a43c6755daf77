---------------------------- MODULE MCLifecycle ----------------------------
(***************************************************************************)
(* One market on a small chain: a round disputed and reset in the block    *)
(* where the next round is proposed, that round disputed after the first   *)
(* was settled, and a later request of its own.                            *)
(***************************************************************************)
EXTENDS Lifecycle

MCRequests  == {"r", "s"}
MCRounds    == {"r1", "r2", "s1"}
MCRequestOf == [k \in MCRounds |-> IF k = "s1" THEN "s" ELSE "r"]

Event(status, round, block, index) ==
  [status |-> status, round |-> round, at |-> <<block, index>>]

MCChain == {
  Event("proposed", "r1", 1, 1), Event("disputed", "r1", 2, 0),
  Event("proposed", "r2", 2, 1), Event("settled",  "r1", 3, 0),
  Event("disputed", "r2", 4, 0), Event("settled",  "r2", 5, 0),
  Event("proposed", "s1", 6, 0)}
=============================================================================
