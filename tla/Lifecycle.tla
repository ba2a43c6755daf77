----------------------------- MODULE Lifecycle ------------------------------
(***************************************************************************)
(* The proposal cache of one market at work: oracle events that arrive     *)
(* late, twice or out of order, database rows that lag behind the chain or *)
(* run ahead of the events, and the eviction of quiet markets.             *)
(***************************************************************************)
EXTENDS LifecycleCache

VARIABLES
  life,      \* the Lifecycle entry of the market
  \* history, not state of the program
  heard,     \* events ever applied
  recent,    \* events applied since the last eviction
  told       \* how far into the chain the database was in any fetch

vars == <<life, heard, recent, told>>

-----------------------------------------------------------------------------
(* Actions *)

Init ==
  /\ life = Empty
  /\ heard = {} /\ recent = {}
  /\ told = <<0, 0>>

\* redis_session: an event from the bus, at any time and any number of times.
Hear(e) ==
  /\ life' = Apply(life, e)
  /\ heard' = heard \cup {e} /\ recent' = recent \cup {e}
  /\ UNCHANGED told

\* The rows of a fetch that the database answered when it had the events up
\* to position p; it answers without the market's resolution if it has none.
Learnt(p) ==
  UNION {LET known == ReconcileSettles(life, blocks)
             rows  == Rows(UpTo(p))
         IN IF rows = {} THEN {known} ELSE {Seed(known, row) : row \in rows} :
           blocks \in SettledBlocks(UpTo(p))}

Remember(p) ==
  /\ told' = IF Before(told, p) THEN p ELSE told
  /\ UNCHANGED <<heard, recent>>

\* prepare_inputs: the fetch of one signal.
PrepareInputs(p) == life' \in Learnt(p) /\ Remember(p)

\* sync_loop: a page, after which the market is not asked for again unless
\* its proposal is less than thirty seconds old (time is not modelled) and the
\* row is not of that proposal.
Lags(l, p) ==
  /\ l.needs_refresh /\ l.mark.status = "proposed"
  /\ \A row \in Rows(UpTo(p)) :
       row.request # l.mark.request \/ row.proposed_at # l.mark.at[1]

SyncContext(p) ==
  /\ \E l \in Learnt(p) :
       \/ life' = [l EXCEPT !.needs_refresh = FALSE]
       \/ life' = l /\ Lags(l, p)
  /\ Remember(p)

\* Mutant: the proofs go with the mark.
PruneForgets ==
  /\ ~HasDispute(life)
  /\ life' = Empty
  /\ recent' = {}
  /\ UNCHANGED <<heard, told>>

\* Lifecycle::prune_inactive, for a market that has left the market table and
\* whose mark is three hours old: after a full page or at the capacity limit.
PruneInactive ==
  /\ ~HasDispute(life)
  /\ life' = [life EXCEPT !.mark = NoMark, !.needs_refresh = FALSE]
  /\ recent' = {}
  /\ UNCHANGED <<heard, told>>

Next ==
  \/ \E e \in Chain : \/ Hear(e)
                      \/ PrepareInputs(e.at)
                      \/ SyncContext(e.at)
  \/ PruneInactive

Spec == Init /\ [][Next]_vars

-----------------------------------------------------------------------------
(* Properties *)

\* The shape of the cache; a dispute it holds is not settled for it.
LifeTypeOK ==
  /\ life \in Caches
  /\ \A k \in life.disputes : life.terminals[k].status = "disputed"
  /\ heard \subseteq Chain /\ recent \subseteq heard
  /\ told \in Nat \X Nat

\* The rounds a mark may be of.
Named(mark) ==
  IF mark.round # NoRound THEN {mark.round}
  ELSE {e.round : e \in {f \in Chain : /\ f.status = "proposed"
                                       /\ RequestOf[f.round] = mark.request
                                       /\ f.at[1] = mark.at[1]}}

\* Whatever the order of events, rows and evictions: a round whose dispute or
\* settlement was applied is never again taken for proposed.
NeverRevived ==
  life.mark.status = "proposed" =>
    \A e \in heard : e.status # "proposed" => e.round \notin Named(life.mark)

\* A dispute that was applied blocks the market until the settlement of its
\* round was applied, or rows reported one of its request from then on;
\* neither newer rounds nor evictions release it.
Released(e) ==
  \/ \E f \in heard : f.status = "settled" /\ f.round = e.round
  \/ \E f \in UpTo(told) : /\ f.status = "settled" /\ e.at[1] <= f.at[1]
                           /\ RequestOf[f.round] = RequestOf[e.round]

DisputeBlocks ==
  \A e \in heard :
    e.status = "disputed" => e.round \in life.disputes \/ Released(e)

\* A proposal is superseded by every later one that was applied, late or not,
\* unless that one has ended or the cache has been evicted since.
NewestProposalCounts ==
  life.mark.status = "proposed" =>
    \A e \in recent :
      e.status = "proposed" /\ Before(life.mark.at, e.at) => Proven(life, e.round)

\* The comment at shadow_state.rs:41, "evicting a cache entry must not revive a
\* late proposal": an event does not make a round proposed again whose end the
\* newest row read has shown.
EndedStaysEnded ==
  life.mark.status = "proposed" /\ life.mark.round # NoRound =>
    \A row \in Rows(UpTo(told)) :
      row.request = life.mark.request /\ row.proposed_at = life.mark.at[1]
        => row.status = "proposed"
=============================================================================
