------------------------------ MODULE UmaFeed ------------------------------
(***************************************************************************)
(* The UMA service of src/uma.rs: websocket connections and a scan loop    *)
(* fill one cache of oracle events from a chain that reorganises, and      *)
(* every change is announced on a message bus that may drop it.            *)
(*                                                                         *)
(* A block is its hash: it fixes all its ancestors.  RPC requests are      *)
(* answered from the node's chain at the moment of the step.  Clocks are   *)
(* left out: `ready` also wants a recent scan, and a snapshot may be       *)
(* refused for that at any time (FeedConsumer!SessionFails).  So are       *)
(* retention, which covers all a run of the model spans, and the health    *)
(* report the messages carry.                                              *)
(***************************************************************************)
EXTENDS Integers, Sequences, FiniteSets

CONSTANTS
  Blocks, NoBlock,
  NumberOf,      \* the height of a block
  Branches,      \* the chains the network may build, as sequences of blocks
  Events, NoEvent,
  BlockOf,       \* the block an event's log is in
  IndexOf,       \* its log index there
  Conns,         \* websocket connections
  Lookback,      \* 64 blocks that a scan reads again
  Span,          \* 500 blocks of one log request
  Providers,     \* HTTP providers a scan may try
  BusCapacity,   \* messages the subscriber's queue holds
  MaxRollbacks,  \* bound on reorganisations
  MaxFaults      \* bound on failed requests and connections, and on restarts

ASSUME FeedAssumption ==
  /\ NoBlock \notin Blocks /\ NoEvent \notin Events
  /\ IsFiniteSet(Events)
  /\ NumberOf \in [Blocks -> Nat \ {0}]
  /\ Branches \subseteq Seq(Blocks) /\ Branches # {}
  /\ \A b \in Branches : b # <<>> /\ \A i \in DOMAIN b : NumberOf[b[i]] = i
  /\ BlockOf \in [Events -> Blocks] /\ IndexOf \in [Events -> Nat]
  /\ \A d, e \in Events : BlockOf[d] = BlockOf[e] /\ IndexOf[d] = IndexOf[e] => d = e
  /\ Lookback \in Nat /\ Span \in Nat /\ Lookback + 1 < Span
  /\ Providers \in Nat \ {0} /\ BusCapacity \in Nat \ {0}
  /\ {MaxRollbacks, MaxFaults} \subseteq Nat

VARIABLES
  chain, rollbacks, faults,  \* the network, external
  epoch,                     \* App
  headers,                   \* App::headers, at most one block per number
  ws,                        \* `ws_loop`, one record per connection
  scan,                      \* `scan_loop`
  events, sequence, initialized, scanned, fault,  \* Feed
  listening, bus,            \* the subscription on the bus, external
  replaced                   \* history: events another one took the key of
                             \* since the last snapshot was read

netVars  == <<chain, rollbacks, faults>>
feedVars == <<events, sequence, initialized, scanned, fault>>
busVars  == <<listening, bus, replaced>>
vars     == <<netVars, epoch, headers, ws, scan, feedVars, busVars>>

Number(e) == NumberOf[BlockOf[e]]
Key(e)    == <<Number(e), IndexOf[e]>>
Before(d, e) == Number(d) < Number(e) \/ (Number(d) = Number(e) /\ IndexOf[d] < IndexOf[e])

Height       == Len(chain)
OnChain(b)   == NumberOf[b] <= Height /\ chain[NumberOf[b]] = b
LogsIn(range) == {e \in Events : OnChain(BlockOf[e]) /\ Number(e) \in range}

\* Feed::ready without its clocks.  head_block and scanned_block are only ever
\* set together, to the same number.
Ready == initialized /\ ~fault

\* Sends on the bus; a full queue drops the message.
Publish(m) ==
  /\ bus' = IF listening /\ Len(bus) < BusCapacity THEN Append(bus, m) ELSE bus
  /\ UNCHANGED listening
Message(kind, n, e) == [kind |-> kind, epoch |-> epoch, sequence |-> n, event |-> e]
Reset == Publish(Message("reset", sequence + 1, NoEvent))

\* insert: an event under a key that another block's event holds takes its place
\* and is published like any other.
Insert(e) ==
  LET old == {d \in events : Key(d) = Key(e)}
  IN  IF e \in events
      THEN UNCHANGED <<feedVars, busVars>>
      ELSE /\ events' = (events \ old) \cup {e}
           /\ sequence' = sequence + 1
           /\ fault' = (fault \/ old # {})
           /\ Publish(Message("event", sequence + 1, e))
           /\ replaced' = IF listening THEN (replaced \cup old) \ {e} ELSE {}
           /\ UNCHANGED <<initialized, scanned>>

\* The locals of `scan_loop`; calm is history: nothing but the scan itself has
\* changed the chain or the cache since it read the logs.
Idle   == [pc |-> "idle", provider |-> 1, head |-> NoBlock, to |-> NoBlock,
           range |-> {}, logs |-> {}, known |-> {}, calm |-> FALSE]
Disturb == scan' = [scan EXCEPT !.calm = FALSE]
Closed == [up |-> FALSE, inbox |-> <<>>, pending |-> NoEvent]

FeedStart ==
  /\ events = {} /\ sequence = 0 /\ initialized = FALSE /\ scanned = NoBlock /\ fault = FALSE
  /\ headers = {} /\ ws = [c \in Conns |-> Closed] /\ scan = Idle

Init ==
  /\ \E b \in Branches : chain = SubSeq(b, 1, 1)
  /\ rollbacks = 0 /\ faults = 0 /\ epoch = 1
  /\ FeedStart
  /\ listening = FALSE /\ bus = <<>> /\ replaced = {}

-----------------------------------------------------------------------------
\* The network.

\* The logs of some blocks go to every open connection, in the chain's order.
Orders(S) == {s \in [1 .. Cardinality(S) -> S] :
                \A i, j \in DOMAIN s : i < j => Before(s[i], s[j])}
Send(kind, S) ==
  \E s \in Orders(S) :
    LET notices == [i \in DOMAIN s |-> [kind |-> kind, event |-> s[i]]]
    IN  ws' = [c \in Conns |-> IF ws[c].up THEN [ws[c] EXCEPT !.inbox = @ \o notices] ELSE ws[c]]

\* An assumption on the network: no connection delivers a log that the chain has
\* left more than Lookback blocks behind.
InTime(n) ==
  \A c \in Conns :
    /\ \A i \in DOMAIN ws[c].inbox : Number(ws[c].inbox[i].event) + Lookback >= n
    /\ ws[c].pending # NoEvent => Number(ws[c].pending) + Lookback >= n

\* A block is added; connections learn of its logs.
Grow(b) ==
  /\ \E br \in Branches : Height < Len(br) /\ Append(chain, b) = SubSeq(br, 1, Height + 1)
  /\ InTime(Height + 1)
  /\ chain' = Append(chain, b)
  /\ Send("log", {e \in Events : BlockOf[e] = b})
  /\ Disturb
  /\ UNCHANGED <<rollbacks, faults, epoch, headers, feedVars, busVars>>

\* Blocks are orphaned; connections learn which logs are gone.
Rollback(n) ==
  /\ rollbacks < MaxRollbacks
  /\ n < Height
  /\ rollbacks' = rollbacks + 1
  /\ chain' = SubSeq(chain, 1, n)
  /\ Send("removed", LogsIn(n + 1 .. Height))
  /\ Disturb
  /\ UNCHANGED <<faults, epoch, headers, feedVars, busVars>>

-----------------------------------------------------------------------------
\* ws_loop

WsConnect(c) ==
  /\ ~ws[c].up
  /\ ws' = [ws EXCEPT ![c].up = TRUE]
  /\ UNCHANGED <<netVars, epoch, headers, scan, feedVars, busVars>>

WsEnds(c) ==
  /\ ws[c].up /\ faults < MaxFaults
  /\ faults' = faults + 1
  /\ ws' = [ws EXCEPT ![c] = Closed]
  /\ UNCHANGED <<chain, rollbacks, epoch, headers, scan, feedVars, busVars>>

\* newHeads: the header of a block is cached.  Only blocks with logs matter.
WsHead(c, b) ==
  /\ ws[c].up /\ ws[c].pending = NoEvent
  /\ OnChain(b) /\ b \notin headers /\ \E e \in Events : BlockOf[e] = b
  /\ headers' = {h \in headers : NumberOf[h] # NumberOf[b]} \cup {b}
  /\ UNCHANGED <<netVars, epoch, ws, scan, feedVars, busVars>>

\* A log is stamped with its block's time: from the cached header of exactly
\* that block, or from the chain's, which must be the same block.
WsLog(c) ==
  /\ ws[c].pending = NoEvent /\ ws[c].inbox # <<>> /\ Head(ws[c].inbox).kind = "log"
  /\ LET e == Head(ws[c].inbox).event
         b == BlockOf[e]
     IN  \/ /\ b \in headers \/ OnChain(b)
            /\ headers' = {h \in headers : NumberOf[h] # NumberOf[b]} \cup {b}
            /\ ws' = [ws EXCEPT ![c].inbox = Tail(@), ![c].pending = e]
         \/ /\ b \notin headers /\ ~OnChain(b)
            /\ ws' = [ws EXCEPT ![c] = Closed]
            /\ UNCHANGED headers
  /\ UNCHANGED <<netVars, epoch, scan, feedVars, busVars>>

WsInsert(c) ==
  /\ ws[c].pending # NoEvent
  /\ Insert(ws[c].pending)
  /\ ws' = [ws EXCEPT ![c].pending = NoEvent]
  /\ Disturb
  /\ UNCHANGED <<netVars, epoch, headers>>

\* Mutant: the reset that announces a removal has no number of its own.
WsRemovedUncounted(c) ==
  /\ ws[c].pending = NoEvent /\ ws[c].inbox # <<>> /\ Head(ws[c].inbox).kind = "removed"
  /\ events' = events \ {Head(ws[c].inbox).event}
  /\ fault' = TRUE
  /\ Reset
  /\ ws' = [ws EXCEPT ![c].inbox = Tail(@)]
  /\ Disturb
  /\ UNCHANGED <<netVars, epoch, headers, sequence, initialized, scanned, replaced>>

\* A removed log: gone if it is the one under its key, a reset in any case.
WsRemoved(c) ==
  /\ ws[c].pending = NoEvent /\ ws[c].inbox # <<>> /\ Head(ws[c].inbox).kind = "removed"
  /\ events' = events \ {Head(ws[c].inbox).event}
  /\ sequence' = sequence + 1
  /\ fault' = TRUE
  /\ Reset
  /\ ws' = [ws EXCEPT ![c].inbox = Tail(@)]
  /\ Disturb
  /\ UNCHANGED <<netVars, epoch, headers, initialized, scanned, replaced>>

-----------------------------------------------------------------------------
\* scan_loop, rescan, rescan_on

Height0(b) == IF b = NoBlock THEN 0 ELSE NumberOf[b]
Larger(a, b)  == IF a >= b THEN a ELSE b
Smaller(a, b) == IF a <= b THEN a ELSE b
Overlap == Larger(0, Height0(scanned) - Lookback)

\* Where a scan begins: with the oldest block retained, here the first, or some
\* blocks before the last one scanned.
FirstBlock == IF initialized THEN Overlap ELSE Larger(1, Overlap)

\* The error branch of the loop.
ScanError == fault' = TRUE /\ scan' = Idle

\* The head is read, and the anchor: the last scanned block must still stand.
ScanHead ==
  /\ scan.pc = "idle"
  /\ scan' = [scan EXCEPT !.pc = IF scanned = NoBlock THEN "range" ELSE "anchor",
                          !.head = chain[Height]]
  /\ UNCHANGED <<netVars, epoch, headers, ws, feedVars, busVars>>

ScanAnchor ==
  /\ scan.pc = "anchor"
  /\ \/ /\ OnChain(scanned)
        /\ scan' = [scan EXCEPT !.pc = "range"]
        /\ UNCHANGED <<feedVars, headers, busVars>>
     \/ /\ NumberOf[scanned] > Height
        /\ ScanError
        /\ UNCHANGED <<events, sequence, initialized, scanned, headers, busVars>>
     \/ /\ NumberOf[scanned] <= Height /\ ~OnChain(scanned)
        /\ initialized' = FALSE
        /\ events' = {}
        /\ scanned' = NoBlock
        /\ sequence' = sequence + 1
        /\ headers' = {}
        /\ Reset
        /\ ScanError
        /\ UNCHANGED replaced
  /\ UNCHANGED <<netVars, epoch, ws>>

\* The blocks of one log request, and the header that must end them.  Once
\* initialized a request that reaches the head ends with the head read before.
ScanRange ==
  /\ scan.pc = "range"
  /\ LET top  == NumberOf[scan.head]
         from == IF scan.to = NoBlock THEN FirstBlock ELSE NumberOf[scan.to] + 1
         to   == Smaller(from + Span - 1, top)
     IN  \/ /\ from > top /\ ~initialized
            /\ scan' = [scan EXCEPT !.pc = "verify"]
            /\ UNCHANGED fault
         \/ /\ to <= Height \/ (initialized /\ to = top)
            /\ from <= top \/ initialized
            /\ scan' = [scan EXCEPT !.pc = "logs", !.range = from .. to, !.provider = 1,
                                    !.to = IF initialized /\ to = top THEN scan.head ELSE chain[to]]
            /\ UNCHANGED fault
         \/ /\ to > Height /\ ~(initialized /\ to = top)
            /\ from <= top \/ initialized
            /\ ScanError
  /\ UNCHANGED <<netVars, epoch, headers, ws, events, sequence, initialized, scanned, busVars>>

\* Mutant: one provider too many.
NextProviderOneMore ==
  \/ /\ scan.provider <= Providers
     /\ scan' = [scan EXCEPT !.pc = "logs", !.provider = @ + 1, !.logs = {}, !.known = {}, !.calm = FALSE]
     /\ UNCHANGED fault
  \/ /\ scan.provider > Providers
     /\ ScanError

\* A provider's answer that does not fit: the next provider, or the error branch.
NextProvider ==
  \/ /\ scan.provider < Providers
     /\ scan' = [scan EXCEPT !.pc = "logs", !.provider = @ + 1, !.logs = {}, !.known = {}, !.calm = FALSE]
     /\ UNCHANGED fault
  \/ /\ scan.provider = Providers
     /\ ScanError

ScanLogs ==
  /\ scan.pc = "logs"
  /\ scan' = [scan EXCEPT !.pc = "headers", !.logs = LogsIn(scan.range), !.calm = TRUE]
  /\ UNCHANGED <<netVars, epoch, headers, ws, feedVars, busVars>>

\* Mutant: only the headers of blocks with a log are read.
ScanHeadersOfLogs ==
  /\ scan.pc = "headers"
  /\ LET numbers == {Number(e) : e \in scan.logs}
     IN  \/ /\ \A e \in scan.logs : OnChain(BlockOf[e])
            /\ scan' = [scan EXCEPT !.pc = "apply",
                                    !.known = {b \in Blocks : OnChain(b) /\ NumberOf[b] \in numbers}]
            /\ UNCHANGED fault
         \/ /\ \E e \in scan.logs : ~OnChain(BlockOf[e])
            /\ NextProvider
  /\ UNCHANGED <<netVars, epoch, headers, ws, events, sequence, initialized, scanned, busVars>>

\* The headers of all blocks with a log or a cached event, read at one moment.
\* Every log must be in one of them.
ScanHeaders ==
  /\ scan.pc = "headers"
  /\ LET cached  == {e \in events : Number(e) \in scan.range}
         numbers == {Number(e) : e \in scan.logs \cup cached}
         known   == {b \in Blocks : OnChain(b) /\ NumberOf[b] \in numbers}
     IN  \/ /\ \A n \in numbers : n <= Height
            /\ \A e \in scan.logs : OnChain(BlockOf[e])
            /\ scan' = [scan EXCEPT !.pc = "apply", !.known = known]
            /\ UNCHANGED fault
         \/ /\ \/ \E n \in numbers : n > Height
               \/ \E e \in scan.logs : ~OnChain(BlockOf[e])
            /\ NextProvider
  /\ UNCHANGED <<netVars, epoch, headers, ws, events, sequence, initialized, scanned, busVars>>

\* The header that ends the range is read again; then events of other blocks
\* than the headers' leave the cache, with a reset.
ScanApply ==
  /\ scan.pc = "apply"
  /\ LET orphans == {e \in events : /\ Number(e) \in scan.range
                                    /\ \E b \in scan.known : NumberOf[b] = Number(e) /\ b # BlockOf[e]}
     IN  \/ /\ OnChain(scan.to)
            /\ scan' = [scan EXCEPT !.pc = "insert", !.known = {}]
            /\ \/ orphans = {} /\ UNCHANGED <<events, sequence, fault, bus, listening>>
               \/ /\ orphans # {}
                  /\ events' = events \ orphans
                  /\ sequence' = sequence + 1
                  /\ fault' = TRUE
                  /\ Reset
         \/ /\ ~OnChain(scan.to)
            /\ NextProvider
            /\ UNCHANGED <<events, sequence, bus, listening>>
  /\ UNCHANGED <<netVars, epoch, headers, ws, initialized, scanned, replaced>>

\* The logs are inserted in the order of their keys.
ScanInsert(e) ==
  /\ scan.pc = "insert" /\ e \in scan.logs
  /\ \A d \in scan.logs \ {e} : Before(e, d)
  /\ Insert(e)
  /\ scan' = [scan EXCEPT !.logs = @ \ {e}]
  /\ UNCHANGED <<netVars, epoch, headers, ws>>

\* The range is done: the anchor moves and the fault is cleared, whoever raised it.
ScanFinish ==
  /\ scan.pc = "insert" /\ scan.logs = {}
  /\ scanned' = scan.to
  /\ fault' = FALSE
  /\ scan' = IF initialized THEN Idle ELSE [scan EXCEPT !.pc = "range", !.range = {}, !.calm = FALSE]
  /\ UNCHANGED <<netVars, epoch, headers, ws, events, sequence, initialized, busVars>>

\* The end of a reconstruction: the head it began with must still stand.
ScanVerify ==
  /\ scan.pc = "verify"
  /\ \/ /\ OnChain(scan.head)
        /\ initialized' = TRUE
        /\ scan' = Idle
        /\ UNCHANGED <<events, scanned, fault>>
     \/ /\ NumberOf[scan.head] <= Height /\ ~OnChain(scan.head)
        /\ events' = {}
        /\ scanned' = NoBlock
        /\ ScanError
        /\ UNCHANGED initialized
     \/ /\ NumberOf[scan.head] > Height
        /\ ScanError
        /\ UNCHANGED <<events, scanned, initialized>>
  /\ UNCHANGED <<netVars, epoch, headers, ws, sequence, busVars>>

\* An RPC request fails.
ScanFails ==
  /\ faults < MaxFaults
  /\ faults' = faults + 1
  /\ \/ scan.pc \in {"logs", "headers", "apply", "insert"} /\ NextProvider
     \/ scan.pc \in {"idle", "anchor", "range", "verify"} /\ ScanError
  /\ UNCHANGED <<chain, rollbacks, epoch, headers, ws, events, sequence, initialized, scanned,
                 busVars>>

-----------------------------------------------------------------------------
\* The heartbeat of `serve`, bounded: sent when the last one was read.
Heartbeat ==
  /\ bus = <<>>
  /\ Publish(Message("heartbeat", sequence, NoEvent))
  /\ UNCHANGED <<netVars, epoch, headers, ws, scan, feedVars, replaced>>

\* The service is started again, with a new epoch and nothing else.
Restart ==
  /\ faults < MaxFaults
  /\ faults' = faults + 1
  /\ epoch' = epoch + 1
  /\ events' = {} /\ sequence' = 0 /\ initialized' = FALSE /\ scanned' = NoBlock
  /\ fault' = FALSE /\ headers' = {} /\ ws' = [c \in Conns |-> Closed] /\ scan' = Idle
  /\ UNCHANGED <<chain, rollbacks, busVars>>

Network == (\E b \in Blocks : Grow(b)) \/ (\E n \in 1 .. Height : Rollback(n))
Socket(c) == \/ WsConnect(c) \/ WsEnds(c) \/ WsLog(c) \/ WsInsert(c) \/ WsRemoved(c)
             \/ \E b \in Blocks : WsHead(c, b)
ScanStep == \/ ScanHead \/ ScanAnchor \/ ScanRange \/ ScanLogs \/ ScanHeaders \/ ScanApply
            \/ (\E e \in Events : ScanInsert(e)) \/ ScanFinish \/ ScanVerify
FeedNext == Network \/ (\E c \in Conns : Socket(c)) \/ ScanStep \/ ScanFails \/ Heartbeat \/ Restart

=============================================================================
