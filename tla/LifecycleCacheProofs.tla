------------------------ MODULE LifecycleCacheProofs ------------------------
(***************************************************************************)
(* What is proved of the proposal cache's operators, wherever it is used.  *)
(***************************************************************************)
EXTENDS LifecycleCache, TLAPS

LEMMA OrderOfPositions ==
  ASSUME NEW p \in Nat \X Nat, NEW q \in Nat \X Nat, NEW r \in Nat \X Nat
  PROVE  /\ Before(p, q) => ~Before(q, p)
         /\ Before(p, q) /\ Before(q, r) => Before(p, r)
         /\ ~Before(q, p) /\ ~Before(r, q) => ~Before(r, p)
         /\ p[1] < q[1] => Before(p, q)
         /\ Before(p, q) => p[1] <= q[1]
  BY DEF Before

LEMMA EventFields ==
  ASSUME NEW e \in Chain
  PROVE  /\ e.status \in {"proposed", "disputed", "settled"}
         /\ e.round \in Rounds /\ e.round # NoRound
         /\ RequestOf[e.round] \in Requests
         /\ e.at \in Nat \X Nat /\ e.at[1] \in Nat \ {0} /\ e.at[2] \in Nat
  BY ChainAssumption DEF Positions

\* What `apply` leaves in the cache.
Whole(l) == l = [mark |-> l.mark, terminals |-> l.terminals, settled |-> l.settled,
                 disputes |-> l.disputes, needs_refresh |-> l.needs_refresh]

\* What `apply` makes of each field.
Ends(l, e) == e.status # "proposed" /\ ~Outdated(l, e)

LEMMA ApplyFields ==
  ASSUME NEW before \in Caches, NEW e \in Chain
  PROVE  LET after == Apply(before, e)
         IN /\ after.mark = IF Changes(before, e) THEN MarkOf(e) ELSE before.mark
            /\ after.needs_refresh = TRUE /\ Whole(after)
            /\ after.terminals =
                 IF Ends(before, e)
                 THEN [before.terminals EXCEPT ![e.round] = [status |-> e.status, at |-> e.at]]
                 ELSE before.terminals
            /\ after.settled = IF Ends(before, e) /\ e.status = "settled"
                               THEN before.settled \cup {e.round} ELSE before.settled
            /\ after.disputes =
                 IF Ends(before, e) /\ e.status = "settled" THEN before.disputes \ {e.round}
                 ELSE IF Ends(before, e) /\ e.round \notin before.settled
                      THEN before.disputes \cup {e.round} ELSE before.disputes
<1> DEFINE l == Apply(before, e)
<1>1. /\ before.terminals \in [Rounds -> [status : {"none", "disputed", "settled"}, at : Nat \X Nat]]
      /\ Whole(before)
  BY DEF Caches, Statuses, Whole
<1>2. CASE Ends(before, e)
  <2> DEFINE q == Prove(before, e)
  <2>1. /\ q.terminals = [before.terminals EXCEPT
                            ![e.round] = [status |-> e.status, at |-> e.at]]
        /\ q.settled = IF e.status = "settled" THEN before.settled \cup {e.round}
                       ELSE before.settled
        /\ q.disputes = IF e.status = "settled" THEN before.disputes \ {e.round}
                        ELSE IF e.round \in before.settled THEN before.disputes
                        ELSE before.disputes \cup {e.round}
        /\ q.mark = before.mark /\ Whole(q)
    <3> DEFINE t == [before.terminals EXCEPT ![e.round] = [status |-> e.status, at |-> e.at]]
               s == IF e.status = "settled" THEN before.settled \cup {e.round}
                    ELSE before.settled
               d == IF e.status = "settled" THEN before.disputes \ {e.round}
                    ELSE IF e.round \in before.settled THEN before.disputes
                    ELSE before.disputes \cup {e.round}
    <3>1. q = [before EXCEPT !.terminals = t, !.settled = s, !.disputes = d]
      BY <1>1 DEF Prove, Whole
    <3> HIDE DEF q, t, s, d
    <3>2. q = [mark |-> before.mark, terminals |-> t, settled |-> s, disputes |-> d,
               needs_refresh |-> before.needs_refresh]
      BY <1>1, <3>1 DEF Whole
    <3>3. q.terminals = t /\ q.settled = s /\ q.disputes = d /\ q.mark = before.mark
          /\ Whole(q)
      BY <3>2 DEF Whole
    <3> QED
      BY <3>3 DEF t, s, d
  <2>2. l = [q EXCEPT !.needs_refresh = TRUE,
                      !.mark = IF Changes(before, e) THEN MarkOf(e) ELSE @]
    BY <1>2 DEF Apply, Ends
  <2> HIDE DEF q
  <2>3. /\ l.mark = IF Changes(before, e) THEN MarkOf(e) ELSE q.mark
        /\ l.needs_refresh = TRUE /\ Whole(l)
        /\ l.terminals = q.terminals /\ l.settled = q.settled
        /\ l.disputes = q.disputes
    BY <2>1, <2>2 DEF Whole
  <2> QED
    BY <1>2, <2>1, <2>3
<1>3. CASE ~Ends(before, e)
  <2>1. l = [before EXCEPT !.needs_refresh = TRUE,
                         !.mark = IF Changes(before, e) THEN MarkOf(e) ELSE @]
    BY <1>3 DEF Apply, Ends
  <2> QED
    BY <1>1, <1>3, <2>1 DEF Whole
<1> QED
  BY <1>2, <1>3

LEMMA ApplyIsCache ==
  ASSUME NEW before \in Caches, NEW e \in Chain
  PROVE  Apply(before, e) \in Caches
<1> DEFINE after == Apply(before, e)
<1>1. /\ before.mark \in [status : Statuses, request : Requests \cup {NoRequest},
                          round : Rounds \cup {NoRound}, at : Nat \X Nat]
      /\ before.terminals \in [Rounds -> [status : Statuses \ {"proposed"}, at : Nat \X Nat]]
      /\ before.settled \subseteq Rounds /\ before.disputes \subseteq Rounds
  BY DEF Caches
<1>2. /\ MarkOf(e) \in [status : Statuses, request : Requests \cup {NoRequest},
                        round : Rounds \cup {NoRound}, at : Nat \X Nat]
      /\ e.round \in Rounds
      /\ e.status # "proposed" =>
           [status |-> e.status, at |-> e.at] \in [status : Statuses \ {"proposed"}, at : Nat \X Nat]
  BY EventFields DEF MarkOf, Statuses
<1>3. /\ after.mark \in [status : Statuses, request : Requests \cup {NoRequest},
                         round : Rounds \cup {NoRound}, at : Nat \X Nat]
      /\ after.settled \subseteq Rounds /\ after.disputes \subseteq Rounds
      /\ after.needs_refresh = TRUE /\ Whole(after)
  <2>1. after.mark = IF Changes(before, e) THEN MarkOf(e) ELSE before.mark
    BY ApplyFields
  <2>2. /\ after.settled \in {before.settled, before.settled \cup {e.round}}
        /\ after.disputes \in {before.disputes, before.disputes \ {e.round},
                              before.disputes \cup {e.round}}
    BY ApplyFields
  <2>3. after.needs_refresh = TRUE /\ Whole(after)
    BY ApplyFields
  <2>4. after.settled \subseteq Rounds /\ after.disputes \subseteq Rounds
    BY <1>1, <1>2, <2>2
  <2>5. after.mark \in [status : Statuses, request : Requests \cup {NoRequest},
                       round : Rounds \cup {NoRound}, at : Nat \X Nat]
    BY <1>1, <1>2, <2>1, Zenon
  <2> QED
    BY <2>3, <2>4, <2>5
<1>4. after.terminals \in [Rounds -> [status : Statuses \ {"proposed"}, at : Nat \X Nat]]
  <2>1. after.terminals = IF Ends(before, e)
                          THEN [before.terminals EXCEPT ![e.round] = [status |-> e.status,
                                                                      at |-> e.at]]
                          ELSE before.terminals
    BY ApplyFields
  <2>2. Ends(before, e) => e.status # "proposed"
    BY DEF Ends
  <2> QED
    BY <1>1, <1>2, <2>1, <2>2
<1> HIDE DEF after
<1>5. after = [mark |-> after.mark, terminals |-> after.terminals,
               settled |-> after.settled, disputes |-> after.disputes,
               needs_refresh |-> TRUE]
  BY <1>3 DEF Whole
<1>6. after \in Caches
  BY <1>3, <1>4, <1>5 DEF Caches
<1> QED
  BY <1>6 DEF after

\* A settlement report leaves the mark, and which rounds are known to have ended.
LEMMA ReconcileFields ==
  ASSUME NEW before \in Caches, NEW blocks \in [Requests -> Nat]
  PROVE  LET after == ReconcileSettles(before, blocks)
         IN /\ after \in Caches /\ after.mark = before.mark
            /\ \A k \in Rounds : Proven(after, k) <=> Proven(before, k)
<1> DEFINE after == ReconcileSettles(before, blocks)
           done == {k \in Rounds : /\ Proven(before, k)
                                   /\ before.terminals[k].at[1] <= blocks[RequestOf[k]]}
           ended == [k \in Rounds |->
                      IF k \in done
                      THEN [status |-> "settled", at |-> <<blocks[RequestOf[k]], 0>>]
                      ELSE before.terminals[k]]
<1>1. Whole(before)
  BY DEF Caches, Statuses, Whole
<1>2. ended \in [Rounds -> [status : Statuses \ {"proposed"}, at : Nat \X Nat]]
  BY ChainAssumption DEF Caches, Statuses
<1>3. \A k \in Rounds : ended[k].status # "none" <=> Proven(before, k)
  BY DEF Proven
<1>4. done \subseteq Rounds /\ before.settled \subseteq Rounds /\ before.disputes \subseteq Rounds
  BY DEF Caches
<1>5. after = [before EXCEPT !.settled = before.settled \cup done,
                             !.disputes = before.disputes \ done,
                             !.terminals = ended]
  BY <1>1 DEF ReconcileSettles
<1> HIDE DEF after, done, ended
<1>6. after = [mark |-> before.mark, terminals |-> ended,
               settled |-> before.settled \cup done, disputes |-> before.disputes \ done,
               needs_refresh |-> before.needs_refresh]
  BY <1>1, <1>5 DEF Whole
<1>7. after \in Caches /\ after.mark = before.mark /\ after.terminals = ended
  BY <1>2, <1>4, <1>6 DEF Caches
<1>8. \A k \in Rounds : Proven(after, k) <=> Proven(before, k)
  BY <1>3, <1>7 DEF Proven
<1> QED
  BY <1>7, <1>8 DEF after
=============================================================================
