------------------------------- MODULE Ledger -------------------------------
(***************************************************************************)
(* What an order journal promises its callers, without files, offsets,     *)
(* crashes or an index: a register of orders that only grows, admits an    *)
(* identifier once, never forgets or rewrites what was ordered, and never  *)
(* reserves more than the budget.  Journal.tla implements it.              *)
(***************************************************************************)
EXTENDS Integers, FiniteSets

CONSTANTS Ids, Bodies, Outcomes, OrderCapacity, OrderBudget, TotalBudget

VARIABLE entries   \* the orders: records of id, body and state

Entries == [id : Ids, body : Bodies, state : Outcomes]

Init == entries = {}

\* A new identifier is admitted; until something is learnt it is "unknown".
Reserve(i, b) ==
  /\ \A e \in entries : e.id # i
  /\ Cardinality(entries) < OrderCapacity
  /\ OrderBudget * (Cardinality(entries) + 1) <= TotalBudget
  /\ entries' = entries \cup {[id |-> i, body |-> b, state |-> "unknown"]}

\* The outcome of an admitted order is recorded; the order itself stays.
Settle(e, st) ==
  entries' = (entries \ {e}) \cup {[e EXCEPT !.state = st]}

Next ==
  \/ \E i \in Ids, b \in Bodies : Reserve(i, b)
  \/ \E e \in entries, st \in Outcomes : Settle(e, st)

Spec == Init /\ [][Next]_entries

=============================================================================
