-------------------------- MODULE MCExecutionLane ---------------------------
(***************************************************************************)
(* An instance of ExecutionLane for TLC.                                   *)
(***************************************************************************)
EXTENDS ExecutionLane

CONSTANTS j1, j2

MCJobs      == {j1, j2}

MCRequests  == {"a"}
MCRounds    == {"r1"}
MCRequestOf == [k \in MCRounds |-> "a"]
MCPriceOf   == [k \in MCRounds |-> "1"]

At(st, k, block, index) == [status |-> st, round |-> k, at |-> <<block, index>>]

\* A proposal that is disputed and settled.
EndedChain == {At("proposed", "r1", 1, 1), At("disputed", "r1", 2, 1),
               At("settled", "r1", 3, 0)}
=============================================================================
