--------------------------- MODULE LifecycleCache ---------------------------
(***************************************************************************)
(* The cache of proposals in src/shadow_state.rs, for one market: what the *)
(* methods of `Lifecycle` make of one event, one fetch, one eviction.      *)
(* Markets do not influence each other.                                    *)
(*                                                                         *)
(* A request has several rounds when a dispute resets it; the code's       *)
(* request key (market, request, timestamp, oracle) names a round.         *)
(***************************************************************************)
EXTENDS Integers

CONSTANTS
  Requests,   \* request_id
  Rounds,     \* request keys
  RequestOf,  \* the request of each round
  Chain       \* the market's events on the chain: [status, round, at]

NoRequest == "no request"
NoRound   == "no round"

\* Positions are pairs of block and index within it.
Positions == (Nat \ {0}) \X Nat

Before(p, q) == p[1] < q[1] \/ (p[1] = q[1] /\ p[2] < q[2])

ChainIsConsistent(chain) ==
  \A e, f \in chain :
    e.round = f.round =>
      /\ e.status = f.status => e = f
      /\ e.status = "proposed" /\ f.status # "proposed" => Before(e.at, f.at)
      /\ e.status = "disputed" /\ f.status = "settled"  => Before(e.at, f.at)

\* Oracle events: a round is proposed, then may be disputed, then settled.
ASSUME ChainAssumption ==
  /\ NoRequest \notin Requests /\ NoRound \notin Rounds
  /\ RequestOf \in [Rounds -> Requests]
  /\ Chain \subseteq [status : {"proposed", "disputed", "settled"},
                      round : Rounds, at : Positions]
  /\ ChainIsConsistent(Chain)

NoMark  == [status |-> "none", request |-> NoRequest, round |-> NoRound,
            at |-> <<0, 0>>]
NoProof == [status |-> "none", at |-> <<0, 0>>]

Empty == [mark |-> NoMark, terminals |-> [k \in Rounds |-> NoProof],
          settled |-> {}, disputes |-> {}, needs_refresh |-> FALSE]

Statuses == {"none", "proposed", "disputed", "settled"}

Caches ==
  [mark : [status : Statuses, request : Requests \cup {NoRequest},
           round : Rounds \cup {NoRound}, at : Nat \X Nat],
   terminals : [Rounds -> [status : Statuses \ {"proposed"}, at : Nat \X Nat]],
   settled : SUBSET Rounds, disputes : SUBSET Rounds, needs_refresh : BOOLEAN]

-----------------------------------------------------------------------------
(* Lifecycle::apply *)

Proven(l, k) == l.terminals[k].status # "none"

\* An event that ends a round and is older than what is known of its end.
Outdated(l, e) ==
  /\ e.status # "proposed" /\ Proven(l, e.round)
  /\ l.terminals[e.round].status = "settled" \/ ~Before(l.terminals[e.round].at, e.at)

\* What is remembered of the end of a round, beyond the life of its mark.
Prove(l, e) ==
  [l EXCEPT
     !.terminals[e.round] = [status |-> e.status, at |-> e.at],
     !.settled  = IF e.status = "settled" THEN @ \cup {e.round} ELSE @,
     !.disputes = IF e.status = "settled" THEN @ \ {e.round}
                  ELSE IF e.round \in l.settled THEN @ ELSE @ \cup {e.round}]

\* Mutant: the position is not compared.
SupersedesAnyPosition(e, mark) ==
  mark.status # "none" =>
    /\ e.status # "proposed" => /\ mark.request = RequestOf[e.round]
                                /\ mark.round \in {NoRound, e.round}
    /\ e.status = "proposed" /\ mark.status # "proposed" => mark.round # e.round

\* Whether the event replaces the mark there is.
Supersedes(e, mark) ==
  mark.status # "none" =>
    /\ Before(mark.at, e.at)
    /\ e.status # "proposed" => /\ mark.request = RequestOf[e.round]
                                /\ mark.round \in {NoRound, e.round}
    /\ e.status = "proposed" /\ mark.status # "proposed" => mark.round # e.round

\* What `apply` returns.
Changes(l, e) ==
  /\ ~Outdated(l, e)
  /\ e.status = "proposed" => ~Proven(l, e.round)
  /\ Supersedes(e, l.mark)

MarkOf(e) == [status |-> e.status, request |-> RequestOf[e.round],
              round |-> e.round, at |-> e.at]

Apply(l, e) ==
  LET ends   == e.status # "proposed" /\ ~Outdated(l, e)
      proven == IF ends THEN Prove(l, e) ELSE l
  IN [proven EXCEPT !.needs_refresh = TRUE,
                    !.mark = IF Changes(l, e) THEN MarkOf(e) ELSE @]

HasDispute(l) == l.disputes # {}

-----------------------------------------------------------------------------
(* Database rows: Lifecycle::reconcile_settles and Lifecycle::seed *)

\* Mutant: the settlement's block is not compared with the end's.
ReconcileAnyBlock(l, blocks) ==
  LET done == {k \in Rounds : Proven(l, k) /\ blocks[RequestOf[k]] > 0}
  IN [l EXCEPT
        !.settled   = @ \cup done,
        !.disputes  = @ \ done,
        !.terminals = [k \in Rounds |->
                         IF k \in done
                         THEN [status |-> "settled", at |-> <<blocks[RequestOf[k]], 0>>]
                         ELSE @[k]]]

\* Mutant: the disputes are kept.
ReconcileKeepsDisputes(l, blocks) ==
  LET done == {k \in Rounds : Proven(l, k)
                              /\ l.terminals[k].at[1] <= blocks[RequestOf[k]]}
  IN [l EXCEPT
        !.settled   = @ \cup done,
        !.terminals = [k \in Rounds |->
                         IF k \in done
                         THEN [status |-> "settled", at |-> <<blocks[RequestOf[k]], 0>>]
                         ELSE @[k]]]

\* A request counts as settled in every round known to have ended by then.
ReconcileSettles(l, blocks) ==
  LET reached(k) == Proven(l, k) /\ l.terminals[k].at[1] <= blocks[RequestOf[k]]
      done == {k \in Rounds : reached(k)}
  IN [l EXCEPT
        !.settled   = @ \cup done,
        !.disputes  = @ \ done,
        !.terminals = [k \in Rounds |->
                         IF k \in done
                         THEN [status |-> "settled", at |-> <<blocks[RequestOf[k]], 0>>]
                         ELSE @[k]]]

\* The mark a row stands for: it names no round, and of the position only
\* the block.  A proposed row yields to proof of an end as late as itself.
Seed(l, row) ==
  IF \/ l.mark.status # "none" /\ l.mark.at[1] >= row.block
     \/ /\ row.status = "proposed"
        /\ \E k \in Rounds : /\ RequestOf[k] = row.request /\ Proven(l, k)
                             /\ l.terminals[k].at[1] >= row.block
  THEN l
  ELSE [l EXCEPT !.mark = [status |-> row.status, request |-> row.request,
                           round |-> NoRound, at |-> <<row.block, 0>>]]

-----------------------------------------------------------------------------
(* External: what the database knows once it has the events of some prefix *)

UpTo(p) == {e \in Chain : ~Before(p, e.at)}

\* `settled_request_blocks`: for each request its latest settlement, or 0.
SettledBlocks(events) ==
  LET Settled(r) == {e.at[1] : e \in {f \in events : f.status = "settled"
                                                    /\ RequestOf[f.round] = r}}
  IN {b \in [Requests -> {0} \cup {e.at[1] : e \in events}] :
        \A r \in Requests : /\ b[r] \in {0} \cup Settled(r)
                            /\ \A c \in Settled(r) : c <= b[r]}

\* The row of the round proposed last, with the latest thing known of it.
Rows(events) ==
  LET newest == {p \in events :
                   /\ p.status = "proposed"
                   /\ \A q \in events : q.status = "proposed" => ~Before(p.at, q.at)}
      last   == {e \in events :
                   /\ \E p \in newest : p.round = e.round
                   /\ \A f \in events : f.round = e.round => ~Before(e.at, f.at)}
  IN {[status |-> e.status, request |-> RequestOf[e.round],
        proposed_at |-> p.at[1], block |-> e.at[1]] : p \in newest, e \in last}
=============================================================================
