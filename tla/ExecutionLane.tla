--------------------------- MODULE ExecutionLane ----------------------------
(***************************************************************************)
(* The rust_uma lane: `native_session` and `execute` of src/shadow.rs and  *)
(* src/uma_trade.rs, for the proposals of one market.  A proposal from the *)
(* feed becomes a task that waits for a slot, fetches its inputs, decides  *)
(* under the data lock, signs, reserves the order in the journal, checks   *)
(* everything once more, submits, and records the outcome; the feed        *)
(* changes the cache, reconnects and replaces it at any await between.     *)
(*                                                                         *)
(* Time is not modelled: a refusal for age, health, price, quota or market *)
(* rules may happen wherever the code can refuse.  The journal is what     *)
(* Journal.tla promises: a register of orders that survives the process.   *)
(***************************************************************************)
EXTENDS LifecycleCache, FiniteSets

CONSTANTS
  Jobs,         \* permits of proposal_queue
  MaxInflight,  \* max_inflight
  PriceOf,      \* the price each round proposes
  MaxEpoch      \* bound of the model: changes of redis_epoch in one process

ASSUME LaneAssumption ==
  /\ IsFiniteSet(Jobs)
  /\ MaxInflight \in Nat \ {0} /\ MaxEpoch \in Nat
  /\ DOMAIN PriceOf = Rounds

VARIABLES
  \* the process
  phase,     \* "up", "stopping", "draining", "exited", or "down" after a crash
  stopped,   \* the AtomicBool
  up,        \* redis_up
  epoch,     \* redis_epoch
  life,      \* data.lifecycle, the market's part
  policy,    \* data.policy: whether the strategy may trade, if known
  job,       \* the tasks spawned by dispatch_uma
  \* what outlives it
  register,  \* the journal's state of each order
  posts,     \* how often each order was submitted
  operator,  \* the strategy switch in the database
  broken     \* history: orders on record whose next write failed in this process

processVars == <<phase, stopped, up, epoch, life, policy, job>>
outsideVars == <<register, posts, operator, broken>>
vars        == <<processVars, outsideVars>>

-----------------------------------------------------------------------------
(* Data *)

\* signal_id names the proposal's log entry.
Orders  == {e \in Chain : e.status = "proposed"}
NoOrder == [status |-> "none", round |-> NoRound, at |-> <<0, 0>>]

\* Events the database has when it is asked, or the feed when it is joined.
Prefixes == {{}} \cup {UpTo(e.at) : e \in Chain}

\* A task: its event, the redis_epoch of its dispatch, the rows and policy it
\* fetched, the round its context was overlaid with, its result; and, as
\* history, whether the feed contradicted its event since.
IdleJob ==
  [pc |-> "idle", ev |-> NoOrder, epoch |-> 0, rows |-> {}, policy |-> "none",
   ctx |-> NoRound, result |-> "none", touched |-> FALSE]

Started  == {"check", "submit", "await", "record"}
Holding  == {j \in Jobs : job[j].pc \notin {"idle", "queued"}}   \* slots taken
Running  == phase \in {"up", "stopping"}
Ready    == up /\ ~stopped

Step(j, pc) == job' = [job EXCEPT ![j].pc = pc]
GoIdle(j)   == job' = [job EXCEPT ![j] = IdleJob]

\* Past the final check only the order and its result matter.
Past(j, pc, st) ==
  job' = [job EXCEPT ![j] = [IdleJob EXCEPT !.pc = pc, !.ev = job[j].ev, !.result = st,
                                            !.policy = job[j].policy]]

\* needs_refresh is kept for the other lane; this one only reports its size.
Unlisted(l) == [l EXCEPT !.needs_refresh = FALSE]

\* matches_proposal, for the request, block and price of a round.
Matches(k) ==
  /\ life.mark.status = "proposed"
  /\ life.mark.request = RequestOf[k]
  /\ \E e \in Orders : e.round = k /\ e.at[1] = life.mark.at[1]
  /\ PriceOf[life.mark.round] = PriceOf[k]

-----------------------------------------------------------------------------
(* The feed: native_session, uma_loop *)

\* Whether an event contradicts the one a task trades on.
Disturbs(e, ev) ==
  \/ e.status # "proposed" /\ e.round = ev.round
  \/ /\ e.status = "proposed" /\ e.round # ev.round
     /\ Before(ev.at, e.at) /\ ~Proven(life, e.round)

Disturbed(e) ==
  [j \in Jobs |-> IF job[j].pc # "idle" /\ Disturbs(e, job[j].ev)
                  THEN [job[j] EXCEPT !.touched = TRUE] ELSE job[j]]

\* The next message of the feed, in whatever order it publishes.  A proposal
\* that changes the market becomes a task, or is dropped if there are too many.
FeedEvent(e) ==
  /\ Running /\ up
  /\ life' = Unlisted(Apply(life, e))
  /\ IF Changes(life, e) /\ e.status = "proposed" /\ \E j \in Jobs : job[j].pc = "idle"
     THEN \E j \in Jobs :
            /\ job[j].pc = "idle"
            /\ job' = [Disturbed(e) EXCEPT
                         ![j] = [IdleJob EXCEPT !.pc = "queued", !.ev = e, !.epoch = epoch]]
     ELSE job' = Disturbed(e)
  /\ UNCHANGED <<phase, stopped, up, epoch, policy, outsideVars>>

\* A gap, a reset, another generation, silence, a failed snapshot.
FeedLost ==
  /\ Running /\ epoch < MaxEpoch
  /\ up' = FALSE
  /\ epoch' = epoch + 1
  /\ job' = [j \in Jobs |-> IF job[j].pc = "idle" THEN job[j]
                            ELSE [job[j] EXCEPT !.touched = TRUE]]
  /\ UNCHANGED <<phase, stopped, life, policy, outsideVars>>

\* native_uma::snapshot: the feed's events in the order of the chain.
Replay[events \in SUBSET Chain] ==
  IF events = {} THEN Empty
  ELSE LET last == CHOOSE e \in events : \A f \in events : ~Before(e.at, f.at)
       IN Apply(Replay[events \ {last}], last)

\* A fact of the constants, from ApplyIsCache by induction on the set.
ASSUME ReplayAssumption == \A events \in Prefixes : Replay[events] \in Caches

\* A new session takes the snapshot for its cache and dispatches nothing.
Snapshot(events) ==
  /\ Running /\ ~up /\ epoch < MaxEpoch
  /\ life' = Unlisted(Replay[events])
  /\ epoch' = epoch + 1
  /\ up' = TRUE
  /\ UNCHANGED <<phase, stopped, policy, job, outsideVars>>

-----------------------------------------------------------------------------
(* A task: receive_uma, uma_inputs *)

Abandon(j) ==
  /\ GoIdle(j)
  /\ UNCHANGED <<phase, stopped, up, epoch, life, policy, outsideVars>>

\* Too old, not binary, no slot in time, or the first check fails.
Reject(j) == job[j].pc = "queued" /\ Abandon(j)

\* The market or a book is missing, malformed, distrusted or late.
InputsFail(j) == job[j].pc \in {"inputs", "books"} /\ Abandon(j)

\* A guard, the price, the valuation, the size, the quota or the cooldown.
Refuse(j) == job[j].pc = "decide" /\ Abandon(j)

\* An order that cannot be signed, or whose token is none.
SignFails(j) == job[j].pc = "sign" /\ Abandon(j)

\* input_permit and the first check.
Admit(j) ==
  /\ job[j].pc = "queued" /\ Cardinality(Holding) < MaxInflight
  /\ Ready /\ job[j].epoch = epoch /\ Matches(job[j].ev.round)
  /\ Step(j, "inputs")
  /\ UNCHANGED <<phase, stopped, up, epoch, life, policy, outsideVars>>

\* One statement reads the market and the policy; then the books are fetched.
Fetch(j) ==
  /\ job[j].pc = "inputs"
  /\ \E rows \in Prefixes :
       job' = [job EXCEPT ![j].pc = "books", ![j].rows = rows, ![j].policy = operator]
  /\ UNCHANGED <<phase, stopped, up, epoch, life, policy, outsideVars>>

\* has_disputed_resolution
HasDisputedRow(events) ==
  \E e \in events : /\ e.status = "disputed"
                    /\ \A f \in events : f.round = e.round => f.status # "settled"

\* native_uma::overlay: the proposal stands unless a dispute is known, the row
\* is newer, or as late and not a proposal, or its request is settled.
Overlaid(l, events, settles) ==
  /\ l.mark.status = "proposed"
  /\ ~HasDispute(l) /\ ~HasDisputedRow(events)
  /\ \A row \in Rows(events) : /\ row.block <= l.mark.at[1]
                               /\ row.block = l.mark.at[1] => row.status = "proposed"
  /\ settles[l.mark.request] < l.mark.at[1]

\* The end of uma_inputs, under the data lock.  Without an eligible context the
\* decision can only refuse.
StoreInputs(j) ==
  /\ job[j].pc = "books"
  /\ \E settles \in SettledBlocks(job[j].rows) :
       /\ life' = ReconcileSettles(life, settles)
       /\ \E ctx \in Rounds \cup {NoRound} :
            /\ ctx = IF Overlaid(life', job[j].rows, settles) THEN life'.mark.round
                                                             ELSE NoRound
            /\ job' = [job EXCEPT ![j].pc = "decide", ![j].rows = {}, ![j].ctx = ctx]
  /\ policy' = job[j].policy
  /\ UNCHANGED <<phase, stopped, up, epoch, outsideVars>>

\* Mutant: the policy of whichever task stored its inputs last.
DecideByCache(j) ==
  /\ job[j].pc = "decide"
  /\ Ready /\ job[j].epoch = epoch
  /\ job[j].ctx # NoRound /\ Matches(job[j].ctx) /\ ~HasDispute(life)
  /\ PriceOf[job[j].ctx] = PriceOf[job[j].ev.round]
  /\ policy = "on"
  /\ Step(j, "sign")
  /\ UNCHANGED <<phase, stopped, up, epoch, life, policy, outsideVars>>

\* The guards of `decide`: the winner by the context must be the token whose
\* book was fetched for the event.
Decide(j) ==
  /\ job[j].pc = "decide"
  /\ Ready /\ job[j].epoch = epoch
  /\ job[j].ctx # NoRound /\ Matches(job[j].ctx) /\ ~HasDispute(life)
  /\ PriceOf[job[j].ctx] = PriceOf[job[j].ev.round]
  /\ job[j].policy = "on"
  /\ Step(j, "sign")
  /\ UNCHANGED <<phase, stopped, up, epoch, life, policy, outsideVars>>

-----------------------------------------------------------------------------
(* A task: execute *)

Reserve(j) == register' = [register EXCEPT ![job[j].ev] = "prepared"]

\* Mutant: an order that `prepare` found is treated like a new one.
PrepareTwice(j) ==
  /\ job[j].pc = "sign"
  /\ register[job[j].ev] # "none"
  /\ Step(j, "check")
  /\ UNCHANGED <<phase, stopped, up, epoch, life, policy, outsideVars>>

\* Signed, and new to the journal.
Prepare(j) ==
  /\ job[j].pc = "sign"
  /\ register[job[j].ev] = "none"
  /\ Reserve(j)
  /\ Step(j, "check")
  /\ UNCHANGED <<phase, stopped, up, epoch, life, policy, posts, operator, broken>>

\* The journal knows the order: the recorded reply is the answer.
AnswerKnown(j) ==
  /\ job[j].pc = "sign"
  /\ register[job[j].ev] # "none"
  /\ GoIdle(j)
  /\ UNCHANGED <<phase, stopped, up, epoch, life, policy, outsideVars>>

\* No budget, no capacity, a poisoned journal, or a write that failed and may
\* still be in the file: the lane halts.
PrepareFails(j) ==
  /\ job[j].pc = "sign"
  /\ \/ UNCHANGED <<register, broken>>
     \/ /\ register[job[j].ev] = "none" /\ Reserve(j)
        /\ broken' = broken \cup {job[j].ev}
  /\ stopped' = TRUE
  /\ GoIdle(j)
  /\ UNCHANGED <<phase, up, epoch, life, policy, posts, operator>>

\* Mutant: the feed's epoch is not compared.
UnchangedSinceAnyEpoch(j) ==
  /\ Ready
  /\ life.mark.at[2] = job[j].ev.at[2]
  /\ life.mark.request = RequestOf[job[j].ctx] /\ life.mark.round = job[j].ev.round
  /\ ~HasDispute(life) /\ Matches(job[j].ctx)
  /\ policy = "on"

\* `valid`, under the data lock: index and request key against the event,
\* request, block and price against the context, the policy last stored.
StillValid(j) ==
  /\ Ready
  /\ job[j].epoch = epoch
  /\ life.mark.at[2] = job[j].ev.at[2]
  /\ life.mark.request = RequestOf[job[j].ctx] /\ life.mark.round = job[j].ev.round
  /\ ~HasDispute(life) /\ Matches(job[j].ctx)
  /\ policy = "on"

\* The final check; it may also find the signal too old.
FinalCheck(j) ==
  /\ job[j].pc = "check"
  /\ \/ StillValid(j) /\ Past(j, "submit", "none")
     \/ Past(j, "record", "blocked")
  /\ UNCHANGED <<phase, stopped, up, epoch, life, policy, outsideVars>>

\* control.dry_run(): nothing is sent.
DryRun(j) ==
  /\ job[j].pc = "submit"
  /\ Past(j, "record", "dry_run")
  /\ UNCHANGED <<phase, stopped, up, epoch, life, policy, outsideVars>>

Submit(j) ==
  /\ job[j].pc = "submit"
  /\ posts' = [posts EXCEPT ![job[j].ev] = @ + 1]
  /\ Step(j, "await")
  /\ UNCHANGED <<phase, stopped, up, epoch, life, policy, register, operator, broken>>

\* The answer, as ExchangeResponse.tla classifies it; 401 and 403 halt.
Respond(j) ==
  /\ job[j].pc = "await"
  /\ \/ /\ \E st \in {"accepted", "rejected", "unknown"} :
             Past(j, "record", st)
        /\ UNCHANGED stopped
     \/ /\ \E st \in {"rejected", "unknown"} :
             Past(j, "record", st)
        /\ stopped' = TRUE
  /\ UNCHANGED <<phase, up, epoch, life, policy, outsideVars>>

\* No answer in five seconds, or a transport error.
TimeOut(j) ==
  /\ job[j].pc = "await"
  /\ Past(j, "record", "unknown")
  /\ UNCHANGED <<phase, stopped, up, epoch, life, policy, outsideVars>>

RecordIn(j) == register' = [register EXCEPT ![job[j].ev] = job[j].result]

\* `finish`, and the slot is released.
Record(j) ==
  /\ job[j].pc = "record"
  /\ RecordIn(j)
  /\ GoIdle(j)
  /\ UNCHANGED <<phase, stopped, up, epoch, life, policy, posts, operator, broken>>

\* The result may be in the file or not: the lane halts.
RecordFails(j) ==
  /\ job[j].pc = "record"
  /\ UNCHANGED register \/ RecordIn(j)
  /\ broken' = broken \cup {job[j].ev}
  /\ stopped' = TRUE
  /\ GoIdle(j)
  /\ UNCHANGED <<phase, up, epoch, life, policy, posts, operator>>

-----------------------------------------------------------------------------
(* The process: serve_inner, stop, reconciliation_loop *)

Fresh ==
  /\ stopped' = FALSE /\ up' = FALSE /\ epoch' = 0
  /\ life' = Empty /\ policy' = "none"
  /\ job' = [j \in Jobs |-> IdleJob]

\* Journal::open makes preparations without a result unknown.
Start ==
  /\ phase \in {"down", "exited"}
  /\ phase' = "up"
  /\ Fresh
  /\ register' = [i \in Orders |-> IF register[i] = "prepared" THEN "unknown"
                                                               ELSE register[i]]
  /\ broken' = {}
  /\ UNCHANGED <<posts, operator>>

Crash ==
  /\ phase \notin {"down", "exited"}
  /\ phase' = "down"
  /\ Fresh
  /\ UNCHANGED outsideVars

\* POST /stop, or a journal read that fails for /metrics or the history loop.
Stop ==
  /\ Running /\ ~stopped
  /\ stopped' = TRUE
  /\ UNCHANGED <<phase, up, epoch, life, policy, job, outsideVars>>

\* SIGTERM or SIGINT: halt("shutdown"), open connections are finished.
Terminate ==
  /\ phase = "up"
  /\ phase' = "stopping"
  /\ stopped' = TRUE
  /\ UNCHANGED <<up, epoch, life, policy, job, outsideVars>>

\* The loops are aborted, the tasks of proposals are not.
AbortLoops ==
  /\ phase = "stopping"
  /\ phase' = "draining"
  /\ UNCHANGED <<stopped, up, epoch, life, policy, job, outsideVars>>

\* Mutant: one free slot is enough to leave.
ExitEarly ==
  /\ phase = "draining" /\ Cardinality(Holding) < MaxInflight
  /\ phase' = "exited"
  /\ Fresh
  /\ UNCHANGED outsideVars

\* acquire_many: every slot is free, so no order is on its way.
Exit ==
  /\ phase = "draining" /\ Holding = {}
  /\ phase' = "exited"
  /\ Fresh
  /\ UNCHANGED outsideVars

\* resolve_unknown_once, for an order the journal's index has as unknown: the
\* loop asked the dashboard, and its write, which may outlive the loop, finds the
\* order still unknown.  One that is not sent, or sent and unseen for five
\* minutes, is rejected.  External: a confirmed fill is of an order that was
\* sent.  A write that fails is this step or none, and halts nothing.
Resolve(i) ==
  /\ phase \notin {"down", "exited"}
  /\ register[i] = "unknown" /\ i \notin broken
  /\ \E st \in {"accepted", "rejected"} :
       /\ st = "accepted" => posts[i] > 0
       /\ register' = [register EXCEPT ![i] = st]
  /\ UNCHANGED <<processVars, posts, operator, broken>>

\* External: the operator turns the strategy off or on.
SwitchStrategy ==
  /\ operator' = IF operator = "on" THEN "off" ELSE "on"
  /\ UNCHANGED <<processVars, register, posts, broken>>

-----------------------------------------------------------------------------

Init ==
  /\ phase = "down" /\ stopped = FALSE /\ up = FALSE /\ epoch = 0
  /\ life = Empty /\ policy = "none"
  /\ job = [j \in Jobs |-> IdleJob]
  /\ register = [i \in Orders |-> "none"]
  /\ posts = [i \in Orders |-> 0]
  /\ operator = "on"
  /\ broken = {}

\* Mutant: the exchange call has no timeout.
WorkUntimed(j) ==
  \/ Reject(j) \/ Admit(j) \/ Fetch(j) \/ InputsFail(j) \/ StoreInputs(j)
  \/ Refuse(j) \/ Decide(j) \/ SignFails(j) \/ Prepare(j)
  \/ AnswerKnown(j) \/ PrepareFails(j) \/ FinalCheck(j) \/ DryRun(j)
  \/ Submit(j) \/ Record(j) \/ RecordFails(j)

Work(j) ==
  \/ Reject(j) \/ Admit(j) \/ Fetch(j) \/ InputsFail(j) \/ StoreInputs(j)
  \/ Refuse(j) \/ Decide(j) \/ SignFails(j) \/ Prepare(j)
  \/ AnswerKnown(j) \/ PrepareFails(j) \/ FinalCheck(j) \/ DryRun(j)
  \/ Submit(j) \/ TimeOut(j) \/ Record(j) \/ RecordFails(j)

Next ==
  \/ \E e \in Chain : FeedEvent(e)
  \/ \E events \in Prefixes : Snapshot(events)
  \/ FeedLost
  \/ \E j \in Jobs : Work(j) \/ Respond(j)
  \/ \E i \in Orders : Resolve(i)
  \/ Start \/ Crash \/ Stop \/ Terminate \/ AbortLoops \/ Exit
  \/ SwitchStrategy

Spec == Init /\ [][Next]_vars

\* The runtime polls every task; whatever a task awaits has a timeout or is a
\* file operation, which ends.  Nothing is assumed of the feed, the exchange or
\* the operator.
Fairness == WF_vars(Exit) /\ \A j \in Jobs : WF_vars(Work(j))

FairSpec == Spec /\ Fairness

-----------------------------------------------------------------------------
(* Properties *)

Outcomes == {"accepted", "rejected", "unknown", "blocked", "dry_run"}

JobSpace ==
  [pc : {"idle", "queued", "inputs", "books", "decide", "sign"} \cup Started,
   ev : Orders \cup {NoOrder}, epoch : Nat, rows : SUBSET Chain,
   policy : {"none", "on", "off"}, ctx : Rounds \cup {NoRound},
   result : Outcomes \cup {"none"}, touched : BOOLEAN]

\* The shape of the state; the semaphore is never oversubscribed.
LaneTypeOK ==
  /\ phase \in {"up", "stopping", "draining", "exited", "down"}
  /\ stopped \in BOOLEAN /\ up \in BOOLEAN
  /\ epoch \in Nat /\ policy \in {"none", "on", "off"} /\ life \in Caches
  /\ job \in [Jobs -> JobSpace]
  /\ register \in [Orders -> Outcomes \cup {"none", "prepared"}]
  /\ posts \in [Orders -> Nat]
  /\ operator \in {"on", "off"} /\ broken \subseteq Orders
  /\ Cardinality(Holding) <= MaxInflight

\* A proposal is submitted at most once, although a reconnect, a restart or a
\* restarted feed may dispatch it again while its first task is still at work
\* (docs/rust_uma.md "the original order is never automatically resubmitted").
AtMostOneSubmission == \A i \in Orders : posts[i] <= 1

\* What was submitted is in the journal, whatever failed or died since
\* (docs/rust_uma.md "Persist the prepared order before submission").
SubmissionIsDurable == \A i \in Orders : posts[i] > 0 => register[i] # "none"

\* An order on record as blocked or dry run, or absent, was never sent, in this
\* life of the process or an earlier one.
UnsentIsUnsent ==
  \A i \in Orders : register[i] \in {"none", "blocked", "dry_run"} => posts[i] = 0

\* Whatever tasks, feed, operator, inquiries and crashes do, what becomes of the
\* orders is what an order path promises: sent once and only from its record, and
\* settled by what the exchange answered or by why it was not sent, even where
\* the result's record fails or the process dies in between.  A definite outcome
\* stays; an unknown one may be replaced once, by reconciliation
\* (docs/rust_uma.md "isolated and reconciled").
Path == INSTANCE Submissions WITH record <- register, sent <- posts
ImplementsSubmissions == Path!Spec

\* The final check passes only if since the dispatch the session never broke,
\* the round did not end and no later proposal took its place, as far as the
\* feed told (docs/rust_uma.md "revalidates the lifecycle identity, feed epoch").
UndisturbedTrigger ==
  [][\A j \in Jobs : job[j].pc = "check" /\ job'[j].pc = "submit"
                       => ~job[j].touched]_vars

\* Once the strategy is off and no task is left that read it as on, nothing is
\* submitted, whatever policy the tasks left in the cache (docs/rust_uma.md
\* "shutdown flags are read again on every proposal").
QuietOnceOff ==
  [][operator = "off" /\ (\A j \in Jobs : job[j].policy # "on")
       => \A i \in Orders : posts'[i] <= posts[i]]_vars

\* An orderly exit leaves no order without its outcome on record, except those
\* whose record failed (README "waits for the requests in flight").
DrainedIsClosed ==
  phase = "exited" => \A i \in Orders : register[i] = "prepared" => i \in broken

\* A shutdown ends, with the process or by it.
DrainEnds == phase = "draining" ~> phase # "draining"
=============================================================================
