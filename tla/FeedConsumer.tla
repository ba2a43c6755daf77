--------------------------- MODULE FeedConsumer ---------------------------
(***************************************************************************)
(* A trader's session with the UMA service (src/native_uma.rs and          *)
(* `native_session` of src/shadow.rs): subscribe, read a snapshot, then    *)
(* follow the numbered messages; whatever does not fit ends the session.   *)
(* What an event does to the lifecycle cache is module Lifecycle; here the *)
(* cache is the set of events it was built from.                           *)
(***************************************************************************)
EXTENDS UmaFeed

CONSTANTS
  UmaTrade   \* settings.uma_trade: no snapshots but the first of a session

ASSUME ConsumerAssumption == UmaTrade \in BOOLEAN

VARIABLE consumer

allVars == <<vars, consumer>>

NoEpoch == 0

\* Data and the locals of `native_session`: up is redis_up, cache the events
\* behind `lifecycle`.
NewConsumer == [up |-> FALSE, epoch |-> NoEpoch, sequence |-> 0, cache |-> {}]

\* native_uma::snapshot and its use: nothing but what the snapshot holds remains.
\* The first one precedes every message; later ones come every 30 s.
ReadSnapshot ==
  /\ listening
  /\ consumer.epoch = NoEpoch \/ ~UmaTrade
  /\ Ready
  /\ consumer' = [up |-> TRUE, epoch |-> epoch, sequence |-> sequence, cache |-> events]
  /\ replaced' = {}
  /\ UNCHANGED <<netVars, epoch, headers, ws, scan, feedVars, listening, bus>>

\* uma_loop after an error: the next session begins with a new subscription.
\* The lifecycle cache stays, but nothing trades on it until the next snapshot
\* replaces it (`ready`), so it is forgotten here.
EndSession ==
  /\ consumer' = NewConsumer
  /\ listening' = FALSE /\ bus' = <<>> /\ replaced' = {}

Subscribe ==
  /\ ~listening
  /\ listening' = TRUE
  /\ UNCHANGED <<netVars, epoch, headers, ws, scan, feedVars, bus, replaced, consumer>>

SnapshotRefused ==
  /\ listening
  /\ consumer.epoch = NoEpoch \/ ~UmaTrade
  /\ ~Ready
  /\ EndSession
  /\ UNCHANGED <<netVars, epoch, headers, ws, scan, feedVars>>

\* native_uma::next_sequence and the messages the snapshot covers.
Covered(m) == m.epoch = consumer.epoch /\ m.sequence < consumer.sequence
Refused(m) ==
  \/ m.epoch # consumer.epoch
  \/ m.kind = "reset"
  \/ m.kind = "heartbeat" /\ m.sequence # consumer.sequence
  \/ m.kind = "event" /\ m.sequence > consumer.sequence + 1
Applies(m) == m.kind = "event" /\ m.sequence = consumer.sequence + 1

NextMessage == listening /\ consumer.epoch # NoEpoch /\ bus # <<>>

Consume ==
  /\ NextMessage
  /\ LET m == Head(bus)
     IN  /\ Covered(m) \/ ~Refused(m)
         /\ \/ /\ ~Covered(m) /\ Applies(m)
               /\ consumer' = [consumer EXCEPT !.sequence = m.sequence, !.cache = @ \cup {m.event}]
            \/ /\ Covered(m) \/ ~Applies(m)
               /\ UNCHANGED consumer
  /\ bus' = Tail(bus)
  /\ UNCHANGED <<netVars, epoch, headers, ws, scan, feedVars, listening, replaced>>

MessageRefused ==
  /\ NextMessage
  /\ ~Covered(Head(bus)) /\ Refused(Head(bus))
  /\ EndSession
  /\ UNCHANGED <<netVars, epoch, headers, ws, scan, feedVars>>

\* The connection ends, five seconds pass without a message, a request fails or
\* its answer is stale.
SessionFails ==
  /\ listening /\ faults < MaxFaults
  /\ faults' = faults + 1
  /\ EndSession
  /\ UNCHANGED <<chain, rollbacks, epoch, headers, ws, scan, feedVars>>

InitAll == Init /\ consumer = NewConsumer

ConsumerNext == \/ Subscribe \/ ReadSnapshot \/ SnapshotRefused \/ Consume \/ MessageRefused
                \/ SessionFails

Next == (FeedNext /\ UNCHANGED consumer) \/ ConsumerNext

Spec == InitAll /\ [][Next]_allVars

-----------------------------------------------------------------------------
Notices  == [kind : {"log", "removed"}, event : Events]
Messages == [kind : {"event", "reset", "heartbeat"}, epoch : Nat, sequence : Nat,
             event : Events \cup {NoEvent}]
Sockets  == [up : BOOLEAN, inbox : Seq(Notices), pending : Events \cup {NoEvent}]
Scans    == [pc : {"idle", "anchor", "range", "logs", "headers", "apply", "insert", "verify"},
             provider : 1 .. Providers, head : Blocks \cup {NoBlock}, to : Blocks \cup {NoBlock},
             range : SUBSET Nat, logs : SUBSET Events, known : SUBSET Blocks, calm : BOOLEAN]

FeedTypeOK ==
  /\ chain \in Seq(Blocks) /\ chain # <<>>
  /\ rollbacks \in 0 .. MaxRollbacks /\ faults \in 0 .. MaxFaults
  /\ epoch \in Nat \ {NoEpoch}
  /\ headers \in SUBSET Blocks
  /\ ws \in [Conns -> Sockets]
  /\ scan \in Scans
  /\ events \in SUBSET Events /\ sequence \in Nat
  /\ initialized \in BOOLEAN /\ fault \in BOOLEAN /\ scanned \in Blocks \cup {NoBlock}
  /\ listening \in BOOLEAN /\ replaced \in SUBSET Events /\ bus \in Seq(Messages)
  /\ consumer \in [up : BOOLEAN, epoch : Nat, sequence : Nat, cache : SUBSET Events]

CaughtUp == consumer.up /\ consumer.epoch = epoch /\ consumer.sequence = sequence

\* A session that has seen every number knows exactly the events the feed holds,
\* whatever the bus dropped; the exception is an event whose key was taken over
\* since the snapshot (next_sequence; the messages skipped in native_session).
InStep == CaughtUp => consumer.cache \ replaced = events

\* README.md:353: a reorganisation requires a new snapshot, so what the feed
\* dropped is not believed by a session that is up and has seen everything.
OrphansLeave == CaughtUp /\ Ready => consumer.cache \subseteq events

\* Whatever was in the cache before, a scan during which nothing else happened
\* leaves exactly the chain's events in the blocks it read: orphans that another
\* connection put there, removals and replacements are repaired (rescan_on).
ScanRepairs ==
  [][ScanFinish /\ scan.calm => {e \in events' : Number(e) \in scan.range} = LogsIn(scan.range)]_allVars

\* Strengthening of InStep: what the bus still holds, and whether it leads the
\* session to the feed's number without a gap.
QueueOf(b)  == {b[i] : i \in DOMAIN b}
Announces(m) == m.kind = "event" /\ m.epoch = epoch
Connected == \A n \in consumer.sequence + 1 .. sequence :
               \E m \in QueueOf(bus) : Announces(m) /\ m.sequence = n
Coming == {m.event : m \in {q \in QueueOf(bus) : Announces(q) /\ q.sequence > consumer.sequence}}

BusOfItsTime ==
  \A m \in QueueOf(bus) : /\ m.epoch <= epoch
                          /\ m.epoch = epoch => m.sequence <= sequence
                          /\ m.kind = "event" => m.event \in Events
BusNumbered ==
  \A m, q \in QueueOf(bus) : Announces(m) /\ Announces(q) /\ m.sequence = q.sequence => m = q
SessionOfItsTime ==
  /\ consumer.epoch <= epoch
  /\ consumer.epoch # NoEpoch => listening
  /\ consumer.up => consumer.epoch # NoEpoch
  /\ consumer.epoch = epoch => consumer.sequence <= sequence
Following ==
  consumer.epoch = epoch /\ Connected =>
    /\ initialized
    /\ (consumer.cache \cup Coming) \ replaced = events

\* Strengthening of ScanRepairs: what a scan knows while it is undisturbed.
ChainNumbered == \A n \in 1 .. Height : NumberOf[chain[n]] = n
ScanHasHead ==
  /\ scan.pc # "idle" => scan.head \in Blocks
  /\ scan.pc = "verify" => ~initialized
InRange(S) == {e \in S : Number(e) \in scan.range}
ScanKnows ==
  scan.calm =>
    \/ scan.pc = "headers" /\ scan.logs = LogsIn(scan.range)
    \/ /\ scan.pc = "apply" /\ scan.logs = LogsIn(scan.range)
       /\ \A b \in scan.known : OnChain(b)
       /\ \A e \in InRange(events) : Number(e) <= Height /\ chain[Number(e)] \in scan.known
    \/ scan.pc = "insert" /\ InRange(events) \cup scan.logs = LogsIn(scan.range)

FeedInv ==
  /\ FeedTypeOK
  /\ BusOfItsTime
  /\ BusNumbered
  /\ SessionOfItsTime
  /\ Following
  /\ ChainNumbered
  /\ ScanHasHead
  /\ ScanKnows

=============================================================================
