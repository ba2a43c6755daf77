# Verification of the Rust trading service

This directory holds TLA+ models of the program in this repository, TLC
configurations that check them on small instances, and proofs, checked by TLAPS,
of what holds for every instance.  Paths below are relative to the repository.

## 1. The system

One binary (`src/main.rs`) runs one of three services.

| Component | Source | State | Operations |
| --- | --- | --- | --- |
| Order journal | `src/journal.rs` | order log, acknowledgement file, SQLite index of offsets, `used`, `count`, `failed` | `open`, `get`, `prepare`, `finish`, `ack_history`, batches for export and reconciliation |
| Signal service | `src/lib.rs` | stop flag, bounded queue, job set, permits | `POST /signal`, `POST /stop`, `GET /orders/{id}`, the worker, `process` |
| Response classification | `src/lib.rs` | none | `apply_exchange_response` |
| Trading control | `src/trading_control.rs` | latch, time of the last authoritative snapshot | bus messages, snapshot polling, disconnect |
| Lifecycle cache | `src/shadow_state.rs`, `src/native_uma.rs` | marks, disputes, terminal proofs, refresh set | `apply`, `seed`, `reconcile_settles`, `prune_inactive`, `snapshot`, `overlay` |
| UMA feed | `src/uma.rs` | events, blocks, fault, epoch, sequence | two websocket loops, scan loop, rescan, snapshot |
| Execution lane | `src/shadow.rs`, `src/uma_trade.rs` | markets, policy, reservations, readiness times, epochs, stop reason | OBer input, UMA proposals, `decide`, `execute`, synchronisation, restart |
| History | `src/shadow_history.rs` | (the journal) | export batches, reconciliation of unknown orders |
| Exchange client | `src/exchange.rs` | credentials | sign, post |
| Monitor | `scripts/monitor.py` | incidents file | read snapshot, evaluate, notify |
| Context and valuation | `src/postgres_context.rs`, `src/shadow_valuation.rs` | connection pool | queries, a formula |
| Telemetry, demo, deployment | `src/telemetry.rs`, `src/demo.rs`, `scripts/deploy*.py` | counters | display, test double, containers |

Interaction.  Both order paths (signal service and execution lane) share the
journal code under a `Mutex<Journal>`, the exchange client and the response
classification.  The execution lane reads the lifecycle cache, which the UMA
feed (a process of its own) fills by sequence-numbered messages and snapshots;
history export and reconciliation read and write the journal behind the lane;
the trading control latch is read by the lane just before it submits.

What is hard: a process may die between the fsync of a preparation, the
submission and its result; writes tear; concurrent jobs race for one
identifier; an answer may come after the timeout; state is read, released,
awaited over and used; the feed has gaps, reorganisations and restarts.
`PROJECT.json` lists each of these at its line.

## 2. Plan

1. `Ledger`, `Journal`: the durable core both order paths rest on.  Done, with proofs.
2. `ExchangeResponse`, `SignalService`: the first order path on top of it.  Done.
3. `JournalProofs`, then `SignalServiceProofs`: the journal's invariants, and
   that nothing is submitted twice, for any number of requests and limits.  Done,
   with the proof that `Journal` implements `Ledger`.
4. `TradingControl`: a latch that must never be released and a lease that must
   expire, against a bus that loses and repeats.  Done, with proofs.
5. `Lifecycle`: proposals, disputes and settlements in any order, with fetches
   and evictions between them.  Done, with proofs.
6. `UmaFeed` and `FeedConsumer`: block scanning with reorganisations; sequence,
   epoch and snapshot; the consumer's cache shown equal to the feed's.  Done, with proofs.
7. `ExecutionLane`: the lane of UMA proposals from dispatch to recorded outcome,
   with reconnects, snapshots, stop, drain, crash and restart.  Done, with
   proofs.  `Quota`, its reservations and cooldown with their restoration from the
   journal: done, with proofs.  `Submissions`, what both order paths promise: done, with
   the proofs that the signal service and the lane implement it.  Left: `ContextSync` (the lane fed by OBer: epochs,
   readiness, the full-snapshot loop).
8. `History`: export and reconciliation behind the lane, with liveness.  Done, with proofs.
9. Left: `Monitor`, the alerting of `scripts/monitor.py`.

## 3. What is modelled

### Journal.tla (src/journal.rs)

Variables `header`, `log`, `torn`, `acks`, `ackTail` are what is on disk:
`header` is the scope line, `log` the complete lines after it (positions stand
for byte offsets), `torn` an incomplete last line.  `acks` is the set of
identifiers with a parsable acknowledgement line; `ackTail` what an interrupted
acknowledgement left: a fragment, or a whole identifier without its newline,
which `lines()` still accepts at the next start but to which the next
acknowledgement is glued.  `up`, `index`, `length`, `used`, `count`, `failed`
are the process: the file lock, the SQLite rows, and the fields of
`struct Journal`.  A public operation runs under the mutex and is one step;
each has an action for success and actions for what can fail in it: the append
(nothing, a part, or all of the line is in the file, `AppendBroken`), or the
index statement (the line is durable).  Both poison the journal.  A failed
acknowledgement does not.  `Crash` drops the process between two operations
(a death inside an append is `AppendBroken` followed by `Crash`), `Open`
replays the files as the loop in `open` does, `OpenInterrupted` is a death
while the scope line is written.

Abstractions: budgets are one constant per order (`config.order_budget_pusd`,
stable over restarts); a failed INSERT or UPDATE changes no row (one SQL
statement); read errors change nothing and are left to the callers; JSON and
file permissions are left out.

### Ledger.tla

The promise behind the journal without files and crashes: a register of orders
that only grows, admits an identifier once and stays within capacity and
budget.  `Journal!ImplementsLedger` is the refinement: the entries are the
prepared lines of the file, with the state a recovery would give them, so that
crashes, failed writes and restarts are stuttering steps (or the step they
durably took).

### ExchangeResponse.tla (apply_exchange_response in src/lib.rs)

A response is a record of what the classification tells apart; `Classify` is
the chain of conditions.  `Claims`, `Refuses` and `HonestAbout` describe, as
external assumptions, what an exchange may say of an order it did or did not
book; the service model uses them to generate answers.

### SignalService.tla (src/lib.rs)

Extends Journal and ExchangeResponse; `Codes` are the status codes answers may have.
Each request carries a program counter
through `process`: `lookup`, `admit` (stop flag, token list, policy,
signature), `prepare`, `recheck`, `post`, `await`, `finish`, and `halt` (an
error was returned, the stop flag is about to be stored).  The cuts are the
awaits, and the points where another thread can observe the flags.  Policy and
signing results are nondeterministic.  `Post` puts the order on the wire,
`VenueTakes` and `WireLoses` are the network, `Respond` an answer in time,
`TimeOut` everything else; the exchange may take an order after the timeout or
after the process died.  `Panic` drops a job with its permit and its reply
sender, and `JoinPanicked` is the worker noticing.  `Die` is the death of the
process at any point; the journal stays.  The permit is modelled as released
together with the answer (in the code it is dropped right after the reply is
sent).

### Submissions.tla

The promise of an order path, without requests, tasks, feeds or processes: an order is
recorded before it is sent, sent once at most, and settled with an outcome that says
whether it was sent.  A definite outcome stays.  `GiveUp` is what a restart may do to
orders nobody can answer for any more, and `Resolve` what an inquiry may make of an
unknown one, once: rejected, whether it was sent or not, or accepted, if it was.
`ExecutionLane!ImplementsSubmissions` (`Spec`) reads the record off the lane's
register.  `SignalService!ImplementsSubmissions` reads it off the journal's file
(`OnRecord`), and says more (`FinalSpec`): `src/lib.rs` has no reconciliation and its
restarts write no line, so neither step occurs.  `sent` is in both what the exchange
received.

### TradingControl.tla (src/trading_control.rs)

`latched` and `checked_at` are the two atomics; `DryRun` is what the execution
lane reads before it submits.  `pc` is `run` (no session, in one, just out of
one), `snap` the snapshot loop of the session, with a cut between the checks of
`confirm_snapshot` and the store of the lease, `closed` the watch channel,
`events` the disconnects whose callback task has not run (possibly of a session
that is over).  External: a global clock in coarse ticks (`now` starts where
`checked_at = 0` is already too old, as it is in the program), the dashboard
with a clock off by at most `Skew`, the page a request is answered with (fresh
or cached), and a bus that may lose any message and drop the link.  A task may
be delayed by any number of ticks, except inside `confirm_snapshot`, which does
not await.  `Grace` is what the code's two limits and the skew add up to.
Between a disconnect callback and the end of its session a renewal that was
past its checks may still store a lease.  `DisconnectDisables` says that the session
ends nevertheless, once the callback and the select had their turn, and `OfflineIsDry`
that no lease outlives it.

### LifecycleCache.tla, Lifecycle.tla (src/shadow_state.rs, used by src/shadow.rs)

`LifecycleCache` has the methods of `struct Lifecycle` as operators, without
variables, and what the database answers; `Lifecycle` and `ExecutionLane` use
them.  The cache of one market; markets do not influence each other, except that a
cache over its capacity stops the program, which is not modelled.  `life` is
the market's share of `struct Lifecycle`: the mark, the terminal proofs, the
settled and the disputed rounds, the refresh flag.  `Apply`,
`ReconcileSettles`, `Seed` and `PruneInactive` are the methods; `Hear`,
`PrepareInputs` and `SyncContext` the places that call them, each under one
write lock.  External: the events of a chain (`Chain`, in the order the oracle's
protocol allows), a bus that repeats, delays and loses them (`Hear` takes any
event at any time), and a database that has indexed the chain up to some
position and answers as `sql/market_context.sql` does; a fetch may be answered
from any position, because other events and fetches are absorbed between the
query and its use.  Time is left out: a mark may be three hours old, and a
proposal older than thirty seconds, whenever that matters.  `heard`, `recent`
and `told` are history.

### ExecutionLane.tla (src/shadow.rs, src/uma_trade.rs, src/native_uma.rs)

The lane that trades on UMA proposals, for one market.  `job` is the set of
permits of `proposal_queue`, each with the task it was given to.  A task's `pc` is
where `receive_uma` and `execute` await: `queued` (waiting for a slot), `inputs`
(the market query), `books`, `decide` (about to decide, under the data lock),
`sign`, `check` (prepared, about to check again), `submit`, `await` (on the wire),
`record`.  `life`, `policy`, `up`, `epoch`, `stopped` are the shared state;
`FeedEvent`, `FeedLost` and `Snapshot` are the session with the feed and interleave
with the tasks at every one of these cuts, as do stop, crash and shutdown.
`StoreInputs` is everything `uma_inputs` does under the lock: settlements from the
rows, the policy, and the overlay of the mark over the row, of which the context
`ctx` remains.

Merged or abstracted: the first check runs together with the grant of the slot;
signing with the preparation that follows it; a failed record with the halt it
causes.  Prices, health and freshness of the book, valuation, size, quota and
cooldown (`Quota.tla`) are a refusal that may always happen (`Refuse`), age likewise
(`Reject`, `FinalCheck`).  The journal is the register `Ledger.tla` promises:
`register` survives crashes, preparing and recording may fail with or without
effect, and a restart turns open preparations into unknown orders.  The dry-run
switch may be on at any moment (`DryRun`; `TradingControl` says when it must be).
`Resolve` is the reconciliation loop, which `serve_inner` spawns beside the tasks: it
turns an order that is on record as unknown into a rejected or an accepted one, also
one a restart gave up that was never sent.  Here it is the write alone, of which
`resolve_unknown_once` checks again under the journal's lock that the order is still
unknown; batches, requests and their failures are in `History.tla`.  Its blocking write
may outlive the loop (`AbortLoops`).  External: the dashboard confirms a fill only of an
order the exchange received.  An order whose result failed to be recorded is not
resolved in the same process, because the journal is poisoned.
The policy the final check reads is the one any task stored last: a task that read the
strategy as on itself may pass on another task's late word.  `QuietOnceOff` says that
this ends with the tasks that read it as on.
An unclear answer of the exchange isolates the order, as README.md:113 and
`docs/rust_uma.md:44` say; README.md:321 says that it stops trading, which only 401
and 403 do.
External: the feed sends the chain's events in any order and any number of times,
a snapshot has the events of some prefix of the chain, a market query those of
another; the operator turns the strategy on and off.  Not modelled: a cache of
more than 20,000 markets (the session fails), the same round in two blocks after a
reorganisation.  `touched` and `broken` are history.

### UmaFeed.tla (src/uma.rs)

The service that turns the oracle's logs into numbered events.  `events`,
`sequence`, `initialized`, `scanned`, `fault` are `struct Feed`, `headers` the
header cache, `ws` one record per websocket connection (its unread messages, and
the event that has its timestamp but is not inserted yet), `scan` the locals of
`scan_loop`, `rescan` and `rescan_on`: `idle`, `anchor` (the last scanned block must
still stand), `range` (one request of at most `Span` blocks), `logs`, `headers`,
`apply` (the header that ends the range is read again, orphans leave), `insert`,
`verify` (the end of a reconstruction).  The cuts are the RPC requests and the
lock around each publication; scans, connections and the heartbeat interleave at
all of them.  `ScanFinish` clears the fault whoever raised it, as the code does.
External: the chain grows along one of `Branches` and is rolled back; a block is its
hash and fixes its ancestors; a connection delivers the logs of new and removed
blocks, late, but none that the chain has left more than `Lookback` blocks behind
(`InTime`: without this assumption a log may arrive for blocks no later scan reads
again, and stays); the bus drops what does not fit the subscriber's queue.

Left out: clocks (`ready` also wants a recent scan, and a snapshot may be refused at
any time), retention and pruning, capacities, the health report, the decoding of
logs.  The headers of a scan are read at one moment.  When the chain a provider
shows is shorter while it answers `eth_getLogs` than when the head was read, the
logs above its end are missing and the scan goes on: blocks outside the overlap are
not read again.  `ScanRepairs` therefore speaks of scans that nothing disturbed;
`tests/uma_replacement/REVIEW.md` names the same gap for silent empty answers.

### FeedConsumer.tla (src/native_uma.rs, native_session in src/shadow.rs)

Extends UmaFeed by a trader's session: `Subscribe`, `ReadSnapshot` (with `uma_trade`
only once per session), `Consume` (messages the snapshot covers are skipped, an
event with the next number is applied), and whatever does not fit ends the session
(`MessageRefused`, `SnapshotRefused`, `SessionFails`).  `consumer.cache` is the set
of events the lifecycle cache was built from; what an event does to it is
`Lifecycle.tla`.  `replaced` is history: the events whose key another one took since
the snapshot was read.

### History.tla (src/shadow_history.rs and its two loops in src/shadow.rs)

Extends Journal.  `running` are the orders whose task has prepared them and not yet
recorded an outcome, `exporter` and `resolver` the locals of `export` and
`resolve_unknown_once`: a batch read some time ago, and whether its next entry was
taken, or what was decided of it.  Every request, every journal operation and the
reading of a batch is a step of its own; whatever fails ends the batch.  External:
the history service keeps the first receipt of an order, may refuse some orders
always and a receipt that differs from the one it holds, and decides in its own time
what became of an order it was told is unknown.

`CatchesUp` names what can stand in the way.  For the export: an order, itself or an
earlier identifier, that the service refuses.  It may also refuse the retry of a
receipt whose answer was lost when the order was resolved in between, since the
receipt then says something else (`Obstructed`).  For the reconciliation: a batch
full of older orders that stay undecided, or an older one whose receipt never
arrived (`Starved`): the failed query ends the batch.  README.md:115 says that unknown
orders and failed queries do not block other orders; of trading that is so, of the
reconciliation of other orders it is not.  Left out: the
five minutes an unknown order must be old (`FirstOf` by age, a verdict may always be
missing), the readiness polls of `history_loop`, signals with equal times.

### Quota.tla (Reservations in src/shadow_state.rs, restored in src/shadow.rs)

`slots` and `last` are the two maps of `Reservations`, `restore` the times of the
recorded orders of earlier lives, by market that is not known yet, `known` the markets that have tokens.
`Decide` takes a slot under the lock and leaves a task with the order; signing,
recording, the last check and the submission are steps of their own, each may fail, and
the slot stays taken.  `Start` reads the recent orders from the journal, sorted by time
and in any order where times are equal; `Fetch` makes a market known and gives its
waiting orders their slots before anything is decided about it.  The code keeps one list
of waiting orders for all markets and tests the age of each; the model splits the list
by market and drops what lapsed from the front, which in a sorted list is the same.
`sent` is history: the recorded orders that were submitted.

What the code counts from differs: a slot that was taken counts from the decision, a
restored one from the message the order answered.  The message is older, by at most
`MaxAge` (the age is checked again just before the submission), so a restart ends a
window and a cooldown that much early.  `QuotaKept` and `CooldownKept` say what remains
of `docs/rust_uma.md:46` ("A recovered journal restores market quotas"): within one life
the full promise, across a restart all but `MaxAge` of it.

Abstracted: a token stands for its market; the refusals of `decide` that come before the
reservation leave it alone and are not taking the step; a lane that halted may go on
deciding, which is more than the code does; a token that is dropped from the map and
comes back finds nothing left to restore.  The clock does not run backwards.

## 4. Runs

| Run | Instance | What it shows |
| --- | --- | --- |
| `journal` | `MCJournal.cfg` of `MCJournal` | Any sequence of journal operations with torn writes, failed fsyncs, failed index statements, crashes and restarts: the files stay replayable, the index agrees with them, and the journal implements the register of orders, its budget included. Checks `RestartAccepted`, `IndexMatchesLog`, `ReadsOwnRecords`, `PendingIsExact`, `ImplementsLedger`. |
| `service` | `MCSignalService.cfg` of `MCSignalService` | Three concurrent requests with repeated and conflicting identifiers, failing writes, panics, stops, crashes and restarts at every point: no order is submitted twice, unrecorded or beyond the budget, what becomes of each is what an order path promises, no reply contradicts the exchange or a later recovery, and no shape of exchange answer, at any distinguished HTTP status, is judged against its evidence. Checks `ServiceTypeOK`, `AtMostOneSubmission`, `SubmissionIsDurable`, `SubmissionsWithinBudget`, `PlacedOrdersStayOpen`, `DefiniteRepliesHold`, `DrainedStaysQuiet`, `ImplementsSubmissions`, `Verdict`. |
| `service_live` | `MCSignalServiceLive.cfg` of `MCSignalService` | Under the fairness of the runtime: queued work is answered, and a poisoned journal stops the service. Checks `PoisonStops`, `QueuedIsAnswered`. |
| `service_unknown` (expects a violation) | `MCSignalServiceUnknown.cfg` of `MCSignalService` | Unknown orders do not keep the service stopped, against README.md:176. Checks `UnknownKeepsStopped`. |
| `control` | `MCTradingControl.cfg` of `MCTradingControl` | Switching at any time, lost messages, old snapshots from a skewed clock, broken connections, late callbacks and restarts: no process is live once the switch has been on, or the dashboard silent, for the grace period, none without a session; and a broken connection ends its session, and with it an authorisation that snapshots on their way had renewed. Checks `ControlTypeOK`, `StopReachesProcess`, `SilenceStops`, `OfflineIsDry`, `DisconnectDisables`. |
| `lifecycle` | `MCLifecycle.cfg` of `MCLifecycle` | Two rounds of one request and a later request: events late, repeated and in any order, fetches as old or new as can be, evictions at any time.  No ended round looks proposed, no dispute is lost, no newer proposal is passed over. Checks `LifeTypeOK`, `NeverRevived`, `DisputeBlocks`, `NewestProposalCounts`. |
| `lifecycle_eviction` (expects a violation) | `MCLifecycleEviction.cfg` of `MCLifecycle` | An end known only from a row does not survive an eviction: the late proposal is taken for new. Checks `EndedStaysEnded`. |
| `lane` | `MCExecutionLane.cfg` of `MCExecutionLane` | The feed breaks and is joined again with older or newer snapshots, and the lane restarts: one proposal is dispatched repeatedly, to two tasks at every pair of cuts, with journal failures, stops, crashes and exits at each: it is recorded before it is submitted, submitted once, settled with an outcome that says so and that only reconciliation may replace, if it is unknown, and never on a trigger the feed has overtaken; an exit leaves no order without an outcome, a strategy that was turned off stays quiet, and a shutdown ends whatever the exchange does. Checks `ImplementsSubmissions`, `UndisturbedTrigger`, `DrainedIsClosed`, `QuietOnceOff`, `DrainEnds`. |
| `feed` | `MCUmaFeed.cfg` of `MCUmaFeed` | Three branches of the chain, a rollback, a connection that delivers logs late, scans that fail or meet a changed chain, lost messages and restarts: a session that saw every number knows what the feed knows, and an undisturbed scan leaves exactly the chain's events. Checks `FeedTypeOK`, `InStep`, `ScanRepairs`. |
| `feed_orphans` (expects a violation) | `MCUmaFeedOrphans.cfg` of `MCUmaFeed` | A session drops what a reorganisation orphaned, against README.md:353. Checks `OrphansLeave`. |
| `history` | `MCHistory.cfg` of `MCHistory` | Two orders, deaths, failed writes, lost requests and answers, a service that refuses orders and decides unknown ones at any time: the service is never told what the journal takes back, and finished orders are exported and decided ones resolved but for the named obstacles. Checks `HistoryTypeOK`, `ReceiptsStand`, `CatchesUp`. |
| `quota` | `MCQuota.cfg` of `MCQuota` | Two markets, two tasks, failures after the decision and a restart at any time: no market gets more orders in a window, or sooner after one another, than its policy says, but for what the restoration loses; and every slot lapses. Checks `QuotaTypeOK`, `QuotaKept`, `CooldownKept`, `SlotsLapse`. |

Bounds.  In `MCJournal` two live and one shadow identifier, two bodies and four
lines give: an order with two results, two orders with one result each, a
repeated preparation after a failed append, both files torn, and
a budget that binds at two of three possible orders (the budget and the types are
part of `ImplementsLedger` and of `ServiceTypeOK`; that a journal filled to
its capacity is accepted again is `RestartIsAccepted`, proved for any capacity).  In `MCSignalService`
three requests over two identifiers cover two racing duplicates with a third
request, a conflicting body, a full queue (2) and full slots (2), and at most
six journal lines (each request may write two).  `MaxRecords` only bounds
appends.  Symmetry is over identifiers and bodies that no property or action
tells apart; the runs with liveness use none.  Deadlock is not checked: a process
that died may stay dead, and clients may stay silent.

In `MCTradingControl` both limits
and the skew are one tick and the clock passes the grace period; one
message in the subscription's inbox is enough to be late.

`MCLifecycle` has seven events: a round disputed and reset, the next round
proposed in the dispute's block and disputed after the first was settled, then
another request.
No bound is needed: the cache has finitely many states.

`MCExecutionLane` is one round that is proposed, disputed and settled, with two tasks,
two slots and three changes of epoch per life: both tasks may carry the same proposal,
of the same session or of different ones, at every pair of cuts, and a snapshot may be
from before the proposal or from after its end.  The recorded orders of a second round
would multiply the states beyond what a run should take; `ExecutionLaneProofs` has no
such limit.  `MaxEpoch` bounds only the number of reconnects in
one life of the process; crashes, restarts and switches of the strategy are
unbounded.  The operator
can always act, so the deadlock check says nothing here; `DrainEnds` does.

`MCUmaFeed` has three branches of two blocks: two carry an event under the same key,
the third none, so that a rollback replaces an event, removes it or brings one.
`Lookback` is 0 and `Span` 2, so a scan reads the last scanned block again and a
reconstruction takes one request; a queue of one message loses whatever comes
before it is read; one rollback and one fault (a failed request, a lost connection, a
restart) can meet at every cut.  More blocks or connections exceed the time a run
should take; the theorems hold for any number.

`MCHistory` has two orders whose identifiers and ages are in opposite order, batches
of two for the export and of one for the reconciliation, and two faults; an order may
be recorded as accepted, unknown or blocked, one of each kind the loops tell apart.
Six lines suffice for a preparation, a result and a resolution of both.
Deadlock is not checked there: a torn log stops the process for good.

`MCQuota` has two markets, two tasks and at most two orders per market.  A slot is held
for five ticks and a cooldown takes two, so that the third order of a market meets the
limit when no cooldown forbids it; a message may be one tick old, which is what a
restart loses; three rows and one restart put orders of both lives into one window.
Symmetry is over markets and tasks, none of which is named.

The answers of the exchange in `Verdict` range over every combination of the
response's features at thirteen status codes, those the code distinguishes and one
of each class.

Fairness (`FairSpec`): weak fairness of the worker (`Receive`, `JoinPanicked`)
and of every job's own steps, because tokio polls a ready task and the mutex,
the file operations and the signer return; the timeout around the exchange call
is one of those steps.  Nothing is assumed of the exchange, of the clients, or
of a dead process.  In `TradingControl` the callbacks, the store after the checks
and the reset after a session are weakly fair, and noticing the closed channel
strongly: the `select!` is biased and polls it first each time.  In
`ExecutionLane` the exit and every task are weakly fair: what a task awaits has
a timeout (slot, query, books, exchange) or is a file operation; the exchange's
answer, the feed and the operator are not.  In `History` the two loops are weakly
fair: they sleep two and thirty seconds for ever, and requests have a timeout; the
premise of each promise says that the process lives on with a healthy journal, and
nothing is assumed of the tasks or of the service.  `UmaFeed` needs no fairness: its
properties are about what may never happen.

### Where the documents disagree with the code

- `service_unknown`: README.md:176 says the tests cover that an unknown state
  keeps the service stopped across restarts.  `Service::start` never raises the
  stop flag and an uncertain answer does not either (`src/lib.rs:605`);
  README.md:113 and `tests/e2e.rs` say that other orders go on.  The
  counterexample is a restart after a crash between preparation and result.
- `lifecycle_eviction`: a comment (`src/shadow_state.rs:41`) and README.md:336
  say that terminal proofs are kept so that an evicted market's late proposal
  stays refused.  That holds for ends the cache heard as events
  (`NeverRevived`); an end it only read from a row lives in the mark alone and
  goes with it.  The counterexample: a fetch shows the newest round settled, the
  mark is evicted, the round's proposal arrives.  Before trading the lane
  fetches the market again, and its row corrects the mark.
- `feed_orphans`: README.md:353 says that a gap in the numbers, a restart of the feed
  or a reorganisation requires the snapshot to be loaded again.  An event of a new
  block under a key the feed still holds replaces the old one and is published as an
  ordinary event with the next number (`src/uma.rs:347`), and a trading session reads no
  second snapshot (`src/shadow.rs:533`): it goes on with both events.  The
  counterexample: a snapshot is read, the chain is rolled back and grows again, the
  scan reads the new block's log before the connection reports the removal.

## 5. Proofs

`JournalProofs.tla` proves `JournalSpec => []JournalInv` for any identifiers,
bodies, limits and number of records, from `IdsAssumption` and
`LimitsAssumption`, and from it the journal's safety properties.  The
properties are not inductive by themselves: that the next append goes to the
right position and the budget check compares with the right sum needs
`CountsMatchLog` (a healthy process knows the number of prepared lines), that
a result does not orphan needs the index rows to lead to their own records,
and that reopening finds the latest result needs `LatestExists`.  The invariant
therefore relates file and memory only while the journal is healthy, and says
of a poisoned one just what the file guarantees: after a failed append nobody
knows what is in the file, and no operation will append to it again.  The proof
has one lemma per operation (`OpenInv`, `PrepareInv`, `PrepareFailsInv`,
`FinishInv`, `FinishFailsInv`, `AckInv`, `ProcessLossInv`) over lemmas on what
appending a line does to the positions of preparations and results.
`JournalImplementsLedger` is the refinement for every value of the constants.  An entry
of the ledger is a prepared line with the state a recovery gives it; identifiers are
prepared once (`ReadsOwnRecords`), so entries and prepared lines are in bijection and
the ledger's capacity and budget are the journal's (`EntriesCount`).  A step that writes
no line leaves the recovered states alone (`RecoveryKept`), a prepared line is the
register's `Reserve` (`RegisterReserves`), a result its `Settle` (`RegisterSettles`),
and a failed append is one of these or a stutter, according to what reached the file.

`SignalServiceProofs.tla` proves the service's safety properties for any number
of requests, orders, slots and restarts and any answers of the exchange that
`HonestAbout` allows, from `ServiceAssumption` and the journal's assumptions.
The journal's theorems carry over because every step of the service is a step
of the journal or leaves it alone (`ServiceStepsJournal`).  The argument for a
single submission is ownership: the journal admits one preparation per
identifier, so at most one job holds an order's reservation
(`HoldersOwnOrders`), and until that job has posted nobody has
(`NotYetSubmitted`).  The same ownership makes the recorded results unique, and
with `Truthful`, what may be claimed of an order given what happened to it, a
result in the file can neither contradict the exchange nor be overwritten;
`RowsWithoutResult` is needed because a poisoned journal still answers lookups:
whatever definite state it returns is read from a result line.  The budget
theorem maps every submitted identifier to its prepared line, an injection, and
counts.  `StoppedStaysQuiet` is an action property over the same invariant.
`VerdictsAreSound` is about the classification alone, for any status code: a definite
verdict rests on evidence about our own order, and what reports an execution, a server
error or another order is never a rejection; `VerdictsHold` puts it under the
specification, for any set of status codes.

Both order paths are shown to implement `Submissions.tla`.  For the service
(`ServiceImplementsSubmissions`) the abstract record of an order is read off the file,
so the steps that matter are appends, reported or not: `OnRecordReserved` and
`OnRecordSettled` say what one line changes.  That the outcome fits what was sent needs
two directions: a definite state was earned at the exchange (`Truthful`), and an order
recorded as unknown was really sent (`AskedWasSent`, its own inductive invariant over
`ServiceInv`).  For the lane (`LaneImplementsSubmissions`) the record is `register`; a
restart is the abstract `GiveUp`, the write of the reconciliation the abstract
`Resolve`, a task's steps are the abstract ones by its ownership, and `AnsweredWasSent`
plays the second part.  In the service nothing corresponds to `GiveUp` or `Resolve`: its
restarts write no line, and nobody inquires; it implements `FinalSpec`, which has
neither.  `ServiceKeepsJournal` says that under the service
the journal runs as `JournalSpec` says, so its theorems, the refinement of `Ledger`
included, hold there too.

`TradingControlProofs.tla` proves the safety of the dry-run switch for any
limits, skew and clock from `LimitsArePositive`.  The invariant follows the
authority from its source: a page that says "off" was written before the switch
was turned on (`PageIsOfItsTime`), an accepted page is at most `StaleLimit` old
(`RenewalIsRecent`), hence so was the dashboard's word when the lease was stored
(`LeaseIsRecent`), and `DryRun` gives up a lease after `LeaseLimit`.

`LifecycleCacheProofs.tla` has the lemmas on the cache's operators that both
users need: what `Apply` and `ReconcileSettles` make of each field.
`ShadowStateProofs.tla` proves the cache's safety (`Lifecycle.tla`) for any requests,
rounds and chain that satisfies `ChainAssumption`, whatever the order of events, rows and
evictions.  The strengthening says why a late event cannot do harm: every end
that was heard has a proof (`EndsAreProven`) that no step removes and that is
not older than the proposal's block (`ProofsAreLate`, which is what makes a
lagging row yield); a mark that says proposed names no proven round
(`ProposedIsUnproven`); and a disputed round's proof is the dispute itself until
a settlement takes its place (`ProofsAreFounded`), so that a settlement row can
release only disputes it is later than.

`ExecutionLaneProofs.tla` proves the lane's safety for any numbers of tasks and
slots, prices, epochs and runs, and any chain that satisfies `ChainAssumption`.
There are two arguments.  A single submission is again ownership: the register
admits one preparation of an order, so the tasks past `Prepare` have different
orders, each on record as prepared (`OwnersAreAlone`), and until the owner has
submitted nobody has (`NotYetSubmitted`); whatever is still prepared in a living
process has an owner or its record failed (`OpenOrdersAreOwned`), hence an exit,
which waits for the owners, leaves nothing open.  That the final check cannot be
fooled is about the cache: as long as the epoch is the one of its dispatch, a
task's proposal is the market's mark, unended and uncontradicted, or the mark has
moved on to a later event (`TriggersAreTracked`), and a mark never moves back
within a session, since only a snapshot replaces it and a snapshot has a new
epoch (`EpochsGrow`).  The check compares the mark's round with the proposal's; a
round is proposed once, so a mark that moved on fails it.  `Replay` is a
recursive function, of which the prover can show nothing: that its value is a
cache at all is `ReplayAssumption`, which TLC evaluates on every instance; nothing
else about a snapshot's content is used.

`FeedConsumerProofs.tla` proves the feed's and the session's safety for any chain,
branches, connections, providers and limits, from `FeedAssumption`.  That a session
which saw every number is in step rests on the messages still to come: if the bus
holds, for every number the session has not seen, the event that was published with
it (`Connected`), then the session's cache together with those events, less the
replaced ones, is the feed's (`Following`).  A dropped message breaks the premise for
good, because numbers are used once (`BusNumbered`) and a gap ends the session; so do
resets and the clearing of the cache, which take a number no event has.
`UndisturbedScanRepairs` follows a scan nothing disturbs from the logs it read to the
orphans it removed and the logs it inserted (`ScanKnows`): the headers it read are the
chain's, and every cached event in range is on one of them or leaves.

`HistoryProofs.tla` proves, for any number of orders and batches of any size, that
the history service never holds an outcome the journal does not stand by.  Every step
of tasks and loops is a step of the journal (`JournalOps`), so its theorems carry over
(`HistoryKeepsJournal`), and the argument is about what the log recovers of an order:
it changes only while a task runs, of which nobody has heard (`RunningUnheard`), or
when a verdict is recorded, which is the service's own (`VerdictStands`) and replaces
"unknown".  Hence what waits for the export, what is on its way and what was told still
stands (`WaitingStands`, `EntriesStand`), and an acknowledged order was told.  That the
journal may be poisoned or restarted between reading a batch and acknowledging it does
not matter: rows lead to lines that never change.  `CatchesUp` is liveness and stays
with TLC.

`ShadowStateProofs.tla` also proves the quota's safety (`Quota.tla`) for any policy,
window, ages and number of markets, tasks and restarts, from `QuotaAssumption`.  Slots
are times and have no names, so counting orders by counting slots needs the times to
tell orders apart.  `CountsFrom` is the time a life of the process counts an order from,
its decision or, after a restart, its message; since a message is younger than a
cooldown, decisions that are a cooldown apart in this measure (`Spaced`) have different
times in every later life.  `Remembered` is the memory's promise: an order that still
counts has its slot, or waits in `restore` for its market, which no decision has touched
yet (`UnknownIsUntouched`).  A decision then sees a slot for every order that counts;
the slots left after the purge are fewer than the limit, the map from orders to slots is
an injection, and the quota follows by counting (`WithinQuota`).  The cooldown follows
from `Spaced` at once.  Dropping what lapsed from the front of a list drops everything
that lapsed because the lists are in the order of time (`Ascending`): restored times
come sorted from the journal, are not repeated, and are put before any decision.  The
slots are bounded by the same counting.  Where the code loses up to `MaxAge` at a restart,
so do the theorems, as the definitions say.

Out of the prover's reach and left to TLC: liveness, and anything that needs
ENABLED.

## 6. Not modelled

- **Lifecycle cache** (src/shadow_state.rs, src/shadow.rs) - partly: One market's marks, terminal proofs, disputes and refresh flag under bus events, fetches and eviction; the replacement of the cache by feed snapshots and the overlay of rows are in ExecutionLane; the capacity limit that stops the program is not modelled.
- **Execution lane** (src/shadow.rs, src/uma_trade.rs, src/shadow_state.rs, src/native_uma.rs) - partly: The rust_uma lane for one market, from the feed's message to the recorded outcome and its reconciliation, with reconnects, stop, drain, crash and restart; the reservations (orders per market, cooldown, restoration) in a module of their own.  Left out: the other lane, fed by OBer over Redis, with its synchronisation loop.
- **Exchange client and signing** (src/exchange.rs): Order amounts, hashing and HTTP authentication: pure conversions and cryptography of an external SDK; the submission itself is the action Post.
- **Monitor** (scripts/monitor.py, scripts/monitor_snapshot.py): A notifier outside the trading process: alert deduplication and escalation.
- **Telemetry** (src/telemetry.rs): Counters and percentiles for display; decides nothing.
- **PostgreSQL context and valuation** (src/postgres_context.rs, src/shadow_valuation.rs, sql/market_context.sql): A query and a pricing formula: inputs of the decision, not protocol.
- **Demo exchange and command line** (src/demo.rs, src/main.rs): A test double and argument handling.
- **Deployment and observation** (scripts/deploy.py, scripts/deploy_monitor.py, scripts/deploy_uma_dry.py, scripts/observe.py, deploy/compose.live.yaml): Operator scripts around containers.
- **UMA feed** (src/uma.rs, src/native_uma.rs, src/shadow.rs) - partly: Scan loop, websocket connections, reorganisations, the numbered messages with heartbeats and resets, snapshots, and the trader's session that follows them; clocks, retention, capacities and the health report are abstracted, the decoding of logs (decode, Event::validate) is not modelled.
