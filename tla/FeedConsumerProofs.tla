------------------------- MODULE FeedConsumerProofs -------------------------
(***************************************************************************)
(* A session that has seen every number knows what the feed holds, and an  *)
(* undisturbed scan repairs the cache: for any chain, any number of        *)
(* connections, providers, losses, reorganisations and restarts.           *)
(***************************************************************************)
EXTENDS FeedConsumer, FiniteSetTheorems, TLAPS

-----------------------------------------------------------------------------
(* Queues *)

\* What is on a queue after a message was appended.
LEMMA QueueAppend ==
  ASSUME NEW S, NEW b \in Seq(S), NEW m \in S
  PROVE  /\ Append(b, m) \in Seq(S)
         /\ QueueOf(Append(b, m)) = QueueOf(b) \cup {m}
<1>1. /\ Append(b, m) \in Seq(S)
      /\ DOMAIN Append(b, m) = DOMAIN b \cup {Len(b) + 1}
      /\ \A i \in DOMAIN b : Append(b, m)[i] = b[i]
      /\ Append(b, m)[Len(b) + 1] = m
  OBVIOUS
<1> QED BY <1>1 DEF QueueOf

\* A queue is its head and the rest.
LEMMA QueueTail ==
  ASSUME NEW S, NEW b \in Seq(S), b # <<>>
  PROVE  /\ Head(b) \in S
         /\ Tail(b) \in Seq(S)
         /\ QueueOf(b) = {Head(b)} \cup QueueOf(Tail(b))
<1>1. /\ Head(b) \in S /\ Head(b) = b[1]
      /\ Tail(b) \in Seq(S) /\ Len(Tail(b)) = Len(b) - 1
      /\ Len(b) \in Nat /\ Len(b) >= 1
      /\ DOMAIN b = 1 .. Len(b) /\ DOMAIN Tail(b) = 1 .. Len(b) - 1
      /\ \A i \in 1 .. Len(b) - 1 : Tail(b)[i] = b[i + 1]
  OBVIOUS
<1>2. ASSUME NEW x \in QueueOf(b) PROVE x = Head(b) \/ x \in QueueOf(Tail(b))
  <2>1. PICK i \in 1 .. Len(b) : x = b[i]
    BY <1>1 DEF QueueOf
  <2>2. CASE i = 1 BY <2>1, <2>2, <1>1
  <2>3. CASE i # 1
    <3>1. i - 1 \in 1 .. Len(b) - 1 /\ (i - 1) + 1 = i
      BY <2>3, <1>1
    <3>2. Tail(b)[i - 1] = x
      BY <3>1, <2>1, <1>1
    <3> QED BY <3>1, <3>2, <1>1 DEF QueueOf
  <2> QED BY <2>2, <2>3
<1>3. ASSUME NEW x \in QueueOf(Tail(b)) PROVE x \in QueueOf(b)
  <2>1. PICK i \in 1 .. Len(b) - 1 : x = Tail(b)[i]
    BY <1>1 DEF QueueOf
  <2>2. i + 1 \in 1 .. Len(b) /\ x = b[i + 1]
    BY <2>1, <1>1
  <2> QED BY <2>2, <1>1 DEF QueueOf
<1>4. Head(b) \in QueueOf(b)
  BY <1>1 DEF QueueOf
<1> QED BY <1>1, <1>2, <1>3, <1>4

LEMMA QueueTyped ==
  ASSUME NEW S, NEW b \in Seq(S)
  PROVE  QueueOf(b) \subseteq S
BY DEF QueueOf

-----------------------------------------------------------------------------
(* Types *)

\* A notice reaches every open connection's inbox.
LEMMA SendTyped ==
  ASSUME FeedTypeOK, NEW kind \in {"log", "removed"}, NEW S \in SUBSET Events, Send(kind, S)
  PROVE  ws' \in [Conns -> Sockets]
<1>1. Cardinality(S) \in Nat
  BY FeedAssumption, FS_Subset, FS_CardinalityType
<1>2. PICK s \in [1 .. Cardinality(S) -> S] :
        ws' = [c \in Conns |->
                 IF ws[c].up
                 THEN [ws[c] EXCEPT !.inbox = @ \o [i \in DOMAIN s |-> [kind |-> kind, event |-> s[i]]]]
                 ELSE ws[c]]
  BY DEF Send, Orders
<1> DEFINE notices == [i \in DOMAIN s |-> [kind |-> kind, event |-> s[i]]]
<1>3. notices \in Seq(Notices)
  <2>1. \A i \in 1 .. Cardinality(S) : [kind |-> kind, event |-> s[i]] \in Notices
    BY DEF Notices
  <2> QED BY <1>1, <2>1
<1>4. ASSUME NEW c \in Conns
      PROVE  [ws[c] EXCEPT !.inbox = @ \o notices] \in Sockets
  <2>1. ws[c] \in Sockets
    BY DEF FeedTypeOK
  <2> HIDE DEF notices
  <2>2. ws[c].inbox \o notices \in Seq(Notices)
    BY <1>3, <2>1 DEF Sockets
  <2> QED BY <2>1, <2>2 DEF Sockets
<1> QED BY <1>2, <1>4 DEF FeedTypeOK

LEMMA PublishTyped ==
  ASSUME FeedTypeOK, NEW m \in Messages, Publish(m)
  PROVE  bus' \in Seq(Messages) /\ listening' \in BOOLEAN
BY DEF FeedTypeOK, Publish

LEMMA InsertTyped ==
  ASSUME FeedTypeOK, NEW e \in Events, Insert(e)
  PROVE  /\ events' \in SUBSET Events /\ sequence' \in Nat
         /\ initialized' \in BOOLEAN /\ fault' \in BOOLEAN /\ scanned' \in Blocks \cup {NoBlock}
         /\ listening' \in BOOLEAN /\ replaced' \in SUBSET Events /\ bus' \in Seq(Messages)
<1> DEFINE old == {d \in events : Key(d) = Key(e)}
<1>1. CASE e \in events
  BY <1>1 DEF Insert, feedVars, busVars, FeedTypeOK
<1>2. CASE e \notin events
  <2>1. /\ events' = (events \ old) \cup {e}
        /\ sequence' = sequence + 1
        /\ fault' = (fault \/ old # {})
        /\ Publish(Message("event", sequence + 1, e))
        /\ replaced' = IF listening THEN (replaced \cup old) \ {e} ELSE {}
        /\ UNCHANGED <<initialized, scanned>>
    BY <1>2 DEF Insert
  <2>2. Message("event", sequence + 1, e) \in Messages
    BY DEF Message, Messages, FeedTypeOK
  <2>3. bus' \in Seq(Messages) /\ listening' \in BOOLEAN
    BY <2>1, <2>2, PublishTyped
  <2>4. old \subseteq events OBVIOUS
  <2> HIDE DEF old
  <2>5. events' \in SUBSET Events /\ replaced' \in SUBSET Events
    BY <2>1, <2>4 DEF FeedTypeOK
  <2>6. fault' \in BOOLEAN
    BY <2>1
  <2> QED BY <2>1, <2>3, <2>5, <2>6 DEF FeedTypeOK
<1> QED BY <1>1, <1>2

LEMMA ResetTyped ==
  ASSUME FeedTypeOK, Reset
  PROVE  bus' \in Seq(Messages) /\ listening' \in BOOLEAN
<1>1. Message("reset", sequence + 1, NoEvent) \in Messages
  BY DEF Message, Messages, FeedTypeOK
<1> QED BY <1>1, PublishTyped DEF Reset

LEMMA ScanErrorTyped ==
  ASSUME ScanError
  PROVE  fault' \in BOOLEAN /\ scan' \in Scans
BY FeedAssumption DEF ScanError, Idle, Scans

LEMMA NextProviderTyped ==
  ASSUME FeedTypeOK, NextProvider
  PROVE  fault' \in BOOLEAN /\ scan' \in Scans
<1>1. CASE scan.provider < Providers /\ UNCHANGED fault
           /\ scan' = [scan EXCEPT !.pc = "logs", !.provider = @ + 1, !.logs = {}, !.known = {},
                                   !.calm = FALSE]
  <2>1. scan \in Scans /\ fault' \in BOOLEAN
    BY <1>1 DEF FeedTypeOK
  <2>2. scan.provider + 1 \in 1 .. Providers
    BY <1>1, <2>1, FeedAssumption DEF Scans
  <2> QED BY <1>1, <2>1, <2>2 DEF Scans
<1>2. CASE ScanError BY <1>2, ScanErrorTyped
<1> QED BY <1>1, <1>2 DEF NextProvider

LEMMA TypeInit == InitAll => FeedTypeOK
<1> SUFFICES ASSUME InitAll PROVE FeedTypeOK
  OBVIOUS
<1>1. PICK b \in Branches : chain = SubSeq(b, 1, 1)
  BY DEF InitAll, Init
<1>2. b \in Seq(Blocks) /\ b # <<>>
  BY <1>1, FeedAssumption
<1>3. chain \in Seq(Blocks) /\ chain # <<>>
  BY <1>1, <1>2
<1>4. Closed \in Sockets
  BY DEF Closed, Sockets
<1>5. scan \in Scans
  BY FeedAssumption DEF InitAll, Init, FeedStart, Idle, Scans
<1>6. bus \in Seq(Messages)
  BY DEF InitAll, Init
<1>7. consumer \in [up : BOOLEAN, epoch : Nat, sequence : Nat, cache : SUBSET Events]
  BY DEF InitAll, NewConsumer, NoEpoch
<1>8. 0 \in 0 .. MaxRollbacks /\ 0 \in 0 .. MaxFaults
  <2>1. MaxRollbacks \in Nat /\ MaxFaults \in Nat BY FeedAssumption
  <2> QED BY <2>1
<1>9. ws \in [Conns -> Sockets]
  BY <1>4 DEF InitAll, Init, FeedStart
<1>10. epoch \in Nat \ {NoEpoch}
  BY DEF InitAll, Init, NoEpoch
<1> QED
  BY <1>3, <1>5, <1>6, <1>7, <1>8, <1>9, <1>10 DEF InitAll, Init, FeedStart, FeedTypeOK

\* The network and the connections.
LEMMA SocketTypeStep ==
  ASSUME FeedTypeOK, UNCHANGED consumer, Network \/ \E c \in Conns : Socket(c)
  PROVE  FeedTypeOK'
<1>1. ASSUME NEW b \in Blocks, Grow(b) PROVE FeedTypeOK'
  <2>1. ws' \in [Conns -> Sockets]
    <3>1. {e \in Events : BlockOf[e] = b} \in SUBSET Events OBVIOUS
    <3> QED BY <1>1, <3>1, SendTyped DEF Grow
  <2>2. chain' \in Seq(Blocks) /\ chain' # <<>>
    <3>1. chain \in Seq(Blocks) BY DEF FeedTypeOK
    <3>2. Append(chain, b) \in Seq(Blocks) /\ Append(chain, b) # <<>> BY <3>1
    <3>3. chain' = Append(chain, b) BY <1>1 DEF Grow
    <3> QED BY <3>2, <3>3
  <2>3. scan' \in Scans
    BY <1>1 DEF Grow, Disturb, FeedTypeOK, Scans
  <2> QED BY <1>1, <2>1, <2>2, <2>3 DEF Grow, FeedTypeOK, feedVars, busVars
<1>2. ASSUME NEW n \in 1 .. Height, Rollback(n) PROVE FeedTypeOK'
  <2>1. ws' \in [Conns -> Sockets]
    <3>1. LogsIn(n + 1 .. Height) \in SUBSET Events BY DEF LogsIn
    <3> QED BY <1>2, <3>1, SendTyped DEF Rollback
  <2>2. chain' \in Seq(Blocks) /\ chain' # <<>>
    <3>1. chain \in Seq(Blocks) BY DEF FeedTypeOK
    <3>2. n \in 1 .. Len(chain) BY DEF Height
    <3>3. SubSeq(chain, 1, n) \in Seq(Blocks) /\ Len(SubSeq(chain, 1, n)) = n
      BY <3>1, <3>2
    <3>4. SubSeq(chain, 1, n) # <<>> BY <3>2, <3>3
    <3>5. chain' = SubSeq(chain, 1, n) BY <1>2 DEF Rollback
    <3> QED BY <3>3, <3>4, <3>5
  <2>3. scan' \in Scans
    BY <1>2 DEF Rollback, Disturb, FeedTypeOK, Scans
  <2>4. rollbacks' \in 0 .. MaxRollbacks
    BY <1>2, FeedAssumption DEF Rollback, FeedTypeOK
  <2> QED BY <1>2, <2>1, <2>2, <2>3, <2>4 DEF Rollback, FeedTypeOK, feedVars, busVars
<1>3. ASSUME NEW c \in Conns, WsConnect(c) PROVE FeedTypeOK'
  <2>1. ws' \in [Conns -> Sockets]
    BY <1>3 DEF WsConnect, FeedTypeOK, Sockets
  <2> QED BY <1>3, <2>1 DEF WsConnect, FeedTypeOK, netVars, feedVars, busVars
<1>4. ASSUME NEW c \in Conns, WsEnds(c) PROVE FeedTypeOK'
  <2>1. ws' \in [Conns -> Sockets]
    BY <1>4 DEF WsEnds, FeedTypeOK, Closed, Sockets
  <2>2. faults' \in 0 .. MaxFaults
    BY <1>4, FeedAssumption DEF WsEnds, FeedTypeOK
  <2> QED BY <1>4, <2>1, <2>2 DEF WsEnds, FeedTypeOK, feedVars, busVars
<1>5. ASSUME NEW c \in Conns, WsLog(c) PROVE FeedTypeOK'
  <2>1. ws[c] \in Sockets
    BY DEF FeedTypeOK
  <2>2. /\ Head(ws[c].inbox) \in Notices
        /\ Tail(ws[c].inbox) \in Seq(Notices)
    BY <1>5, <2>1, QueueTail DEF WsLog, Sockets
  <2>3. Head(ws[c].inbox).event \in Events
    BY <2>2 DEF Notices
  <2>4. BlockOf[Head(ws[c].inbox).event] \in Blocks
    BY <2>3, FeedAssumption
  <2>5. headers' \in SUBSET Blocks
    BY <1>5, <2>4 DEF WsLog, FeedTypeOK
  <2>6. ws' \in [Conns -> Sockets]
    <3>1. [ws[c] EXCEPT !.inbox = Tail(@), !.pending = Head(ws[c].inbox).event] \in Sockets
      BY <2>1, <2>2, <2>3 DEF Sockets
    <3>2. Closed \in Sockets BY DEF Closed, Sockets
    <3>3. \/ ws' = [ws EXCEPT ![c] = [ws[c] EXCEPT !.inbox = Tail(@),
                                                   !.pending = Head(ws[c].inbox).event]]
          \/ ws' = [ws EXCEPT ![c] = Closed]
      BY <1>5 DEF WsLog, FeedTypeOK
    <3> QED BY <3>1, <3>2, <3>3 DEF FeedTypeOK
  <2> QED BY <1>5, <2>5, <2>6 DEF WsLog, FeedTypeOK, netVars, feedVars, busVars
<1>6. ASSUME NEW c \in Conns, WsInsert(c) PROVE FeedTypeOK'
  <2>1. ws[c].pending \in Events
    BY <1>6 DEF WsInsert, FeedTypeOK, Sockets
  <2>2. ws' \in [Conns -> Sockets]
    BY <1>6 DEF WsInsert, FeedTypeOK, Sockets
  <2>3. scan' \in Scans
    BY <1>6 DEF WsInsert, Disturb, FeedTypeOK, Scans
  <2>4. Insert(ws[c].pending)
    BY <1>6 DEF WsInsert
  <2> QED BY <1>6, <2>1, <2>2, <2>3, <2>4, InsertTyped DEF WsInsert, FeedTypeOK, netVars
<1>7. ASSUME NEW c \in Conns, WsRemoved(c) PROVE FeedTypeOK'
  <2>1. Tail(ws[c].inbox) \in Seq(Notices)
    <3>1. ws[c].inbox \in Seq(Notices) BY DEF FeedTypeOK, Sockets
    <3>2. ws[c].inbox # <<>> BY <1>7 DEF WsRemoved
    <3> QED BY <3>1, <3>2, QueueTail
  <2>2. ws' \in [Conns -> Sockets]
    <3>1. ws' = [ws EXCEPT ![c] = [ws[c] EXCEPT !.inbox = Tail(@)]]
      BY <1>7 DEF WsRemoved, FeedTypeOK
    <3>2. [ws[c] EXCEPT !.inbox = Tail(@)] \in Sockets
      BY <2>1 DEF FeedTypeOK, Sockets
    <3> QED BY <3>1, <3>2 DEF FeedTypeOK
  <2>3. scan' \in Scans
    BY <1>7 DEF WsRemoved, Disturb, FeedTypeOK, Scans
  <2>4. bus' \in Seq(Messages) /\ listening' \in BOOLEAN
    BY <1>7, ResetTyped DEF WsRemoved
  <2> QED BY <1>7, <2>2, <2>3, <2>4 DEF WsRemoved, FeedTypeOK, netVars
<1>8. ASSUME NEW c \in Conns, NEW b \in Blocks, WsHead(c, b) PROVE FeedTypeOK'
  <2>1. headers' \in SUBSET Blocks
    BY <1>8 DEF WsHead, FeedTypeOK
  <2> QED BY <1>8, <2>1 DEF WsHead, FeedTypeOK, netVars, feedVars, busVars
<1> QED BY <1>1, <1>2, <1>3, <1>4, <1>5, <1>6, <1>7, <1>8 DEF Network, Socket

\* The scan.
LEMMA ScanTypeStep ==
  ASSUME FeedTypeOK, ScanHasHead, UNCHANGED consumer, ScanStep \/ ScanFails
  PROVE  FeedTypeOK'
<1> USE FeedAssumption
<1>s. scan \in Scans
  BY DEF FeedTypeOK
<1>h. Height \in Nat \ {0} /\ \A n \in 1 .. Height : chain[n] \in Blocks
  BY DEF FeedTypeOK, Height
<1>1. CASE ScanHead
  <2>1. scan' \in Scans
    <3>1. chain[Height] \in Blocks BY <1>h
    <3> QED BY <1>1, <1>s, <3>1 DEF ScanHead, Scans
  <2> QED BY <1>1, <2>1 DEF ScanHead, FeedTypeOK, netVars, feedVars, busVars
<1>2. CASE ScanAnchor
  <2>1. CASE OnChain(scanned) /\ scan' = [scan EXCEPT !.pc = "range"] /\ UNCHANGED <<feedVars, headers, busVars>>
    <3>1. scan' \in Scans BY <2>1, <1>s DEF Scans
    <3> QED BY <1>2, <2>1, <3>1 DEF ScanAnchor, FeedTypeOK, netVars, feedVars, busVars
  <2>2. CASE /\ ScanError
             /\ UNCHANGED <<events, sequence, initialized, scanned, headers, busVars>>
    BY <1>2, <2>2, ScanErrorTyped DEF ScanAnchor, FeedTypeOK, netVars, busVars
  <2>3. CASE /\ initialized' = FALSE /\ events' = {} /\ scanned' = NoBlock
             /\ sequence' = sequence + 1 /\ headers' = {} /\ Reset /\ ScanError
             /\ UNCHANGED replaced
    <3>1. fault' \in BOOLEAN /\ scan' \in Scans BY <2>3, ScanErrorTyped
    <3>2. bus' \in Seq(Messages) /\ listening' \in BOOLEAN BY <2>3, ResetTyped
    <3>3. /\ events' \in SUBSET Events /\ headers' \in SUBSET Blocks
          /\ scanned' \in Blocks \cup {NoBlock} /\ initialized' \in BOOLEAN
      BY <2>3
    <3>5. sequence' \in Nat /\ replaced' \in SUBSET Events
      <4>1. sequence \in Nat /\ replaced \in SUBSET Events BY DEF FeedTypeOK
      <4>2. sequence' = sequence + 1 /\ replaced' = replaced BY <2>3
      <4> QED BY <4>1, <4>2
    <3>4. UNCHANGED <<netVars, epoch, ws>>
      BY <1>2 DEF ScanAnchor
    <3> QED BY <3>1, <3>2, <3>3, <3>4, <3>5 DEF FeedTypeOK, netVars
  <2> QED BY <1>2, <2>1, <2>2, <2>3 DEF ScanAnchor
<1>3. CASE ScanRange
  <2> DEFINE top  == NumberOf[scan.head]
             from == IF scan.to = NoBlock THEN FirstBlock ELSE NumberOf[scan.to] + 1
             to   == Smaller(from + Span - 1, top)
  <2>1. scan' \in Scans /\ fault' \in BOOLEAN
    <3>1. top \in Nat \ {0}
      BY <1>3 DEF ScanRange, ScanHasHead
    <3>2. FirstBlock \in Nat
      BY DEF FirstBlock, Overlap, Larger, Height0, FeedTypeOK
    <3>3. from \in Nat
      BY <3>2, <1>s DEF Scans
    <3>4. to \in Nat \ {0}
      BY <3>1, <3>3 DEF Smaller
    <3>5. fault \in BOOLEAN BY DEF FeedTypeOK
    <3>6. scan.head \in Blocks \cup {NoBlock} BY <1>s DEF Scans
    <3> HIDE DEF top, from, to
    <3>7. CASE scan' = [scan EXCEPT !.pc = "verify"] /\ UNCHANGED fault
      BY <3>7, <1>s, <3>5 DEF Scans
    <3>8. CASE /\ to <= Height \/ (initialized /\ to = top)
               /\ scan' = [scan EXCEPT !.pc = "logs", !.range = from .. to, !.provider = 1,
                             !.to = IF initialized /\ to = top THEN scan.head ELSE chain[to]]
               /\ UNCHANGED fault
      <4>1. from .. to \in SUBSET Nat BY <3>3, <3>4
      <4>2. (IF initialized /\ to = top THEN scan.head ELSE chain[to]) \in Blocks \cup {NoBlock}
        BY <3>8, <3>4, <3>6, <1>h
      <4>3. 1 \in 1 .. Providers OBVIOUS
      <4> QED BY <3>8, <1>s, <3>5, <4>1, <4>2, <4>3 DEF Scans
    <3>9. CASE ScanError BY <3>9, ScanErrorTyped
    <3> QED BY <1>3, <3>7, <3>8, <3>9 DEF ScanRange, top, from, to
  <2> QED BY <1>3, <2>1 DEF ScanRange, FeedTypeOK, netVars, busVars
<1>4. CASE ScanLogs
  <2>1. scan' \in Scans
    <3>1. LogsIn(scan.range) \in SUBSET Events BY DEF LogsIn
    <3> QED BY <1>4, <1>s, <3>1 DEF ScanLogs, Scans
  <2> QED BY <1>4, <2>1 DEF ScanLogs, FeedTypeOK, netVars, feedVars, busVars
<1>5. CASE ScanHeaders
  <2>1. scan' \in Scans /\ fault' \in BOOLEAN
    <3>1. CASE NextProvider BY <3>1, NextProviderTyped
    <3>2. CASE /\ \E known \in SUBSET Blocks : scan' = [scan EXCEPT !.pc = "apply", !.known = known]
               /\ UNCHANGED fault
      <4>1. PICK known \in SUBSET Blocks : scan' = [scan EXCEPT !.pc = "apply", !.known = known]
        BY <3>2
      <4>2. scan' \in Scans BY <4>1, <1>s DEF Scans
      <4> QED BY <3>2, <4>2 DEF FeedTypeOK
    <3>3. {b \in Blocks : OnChain(b) /\ NumberOf[b] \in
             {Number(e) : e \in scan.logs \cup {f \in events : Number(f) \in scan.range}}}
            \in SUBSET Blocks
      OBVIOUS
    <3> QED BY <1>5, <3>1, <3>2, <3>3 DEF ScanHeaders
  <2> QED BY <1>5, <2>1 DEF ScanHeaders, FeedTypeOK, netVars, busVars
<1>6. CASE ScanApply
  <2>1. scan' \in Scans /\ fault' \in BOOLEAN
    <3>1. CASE NextProvider BY <3>1, NextProviderTyped
    <3>2. CASE scan' = [scan EXCEPT !.pc = "insert", !.known = {}] /\ fault' \in {fault, TRUE}
      BY <3>2, <1>s DEF Scans, FeedTypeOK
    <3> QED BY <1>6, <3>1, <3>2 DEF ScanApply
  <2>2. /\ events' \in SUBSET Events /\ sequence' \in Nat
        /\ bus' \in Seq(Messages) /\ listening' \in BOOLEAN
    <3>1. CASE UNCHANGED <<events, sequence, bus, listening>> BY <3>1 DEF FeedTypeOK
    <3>2. CASE Reset /\ sequence' = sequence + 1 /\ events' \in SUBSET events
      BY <3>2, ResetTyped DEF FeedTypeOK
    <3> QED BY <1>6, <3>1, <3>2 DEF ScanApply
  <2> QED BY <1>6, <2>1, <2>2 DEF ScanApply, FeedTypeOK, netVars
<1>7. ASSUME NEW e \in Events, ScanInsert(e) PROVE FeedTypeOK'
  <2>1. scan' \in Scans
    BY <1>7, <1>s DEF ScanInsert, Scans
  <2>2. Insert(e) BY <1>7 DEF ScanInsert
  <2> QED BY <1>7, <2>1, <2>2, InsertTyped DEF ScanInsert, FeedTypeOK, netVars
<1>8. CASE ScanFinish
  <2>1. scan' \in Scans
    <3>1. Idle \in Scans BY DEF Idle, Scans
    <3>2. [scan EXCEPT !.pc = "range", !.range = {}, !.calm = FALSE] \in Scans
      BY <1>s DEF Scans
    <3> QED BY <1>8, <3>1, <3>2 DEF ScanFinish
  <2>2. scanned' \in Blocks \cup {NoBlock}
    BY <1>8, <1>s DEF ScanFinish, Scans
  <2> QED BY <1>8, <2>1, <2>2 DEF ScanFinish, FeedTypeOK, netVars, busVars
<1>9. CASE ScanVerify
  <2>1. scan' \in Scans /\ fault' \in BOOLEAN
    <3>1. CASE ScanError BY <3>1, ScanErrorTyped
    <3>2. CASE scan' = Idle /\ UNCHANGED fault
      <4>1. Idle \in Scans BY DEF Idle, Scans
      <4> QED BY <3>2, <4>1 DEF FeedTypeOK
    <3> QED BY <1>9, <3>1, <3>2 DEF ScanVerify
  <2>2. events' \in SUBSET Events /\ scanned' \in Blocks \cup {NoBlock} /\ initialized' \in BOOLEAN
    <3>1. events \in SUBSET Events /\ scanned \in Blocks \cup {NoBlock} /\ initialized \in BOOLEAN
      BY DEF FeedTypeOK
    <3>2. events' \in {events, {}} /\ scanned' \in {scanned, NoBlock}
      BY <1>9 DEF ScanVerify
    <3>3. initialized' \in {initialized, TRUE}
      BY <1>9 DEF ScanVerify
    <3> QED BY <3>1, <3>2, <3>3
  <2> QED BY <1>9, <2>1, <2>2 DEF ScanVerify, FeedTypeOK, netVars, busVars
<1>10. CASE ScanFails
  <2>1. scan' \in Scans /\ fault' \in BOOLEAN
    BY <1>10, ScanErrorTyped, NextProviderTyped DEF ScanFails
  <2>2. faults' \in 0 .. MaxFaults
    BY <1>10 DEF ScanFails, FeedTypeOK
  <2> QED BY <1>10, <2>1, <2>2 DEF ScanFails, FeedTypeOK, busVars
<1> QED BY <1>1, <1>2, <1>3, <1>4, <1>5, <1>6, <1>7, <1>8, <1>9, <1>10 DEF ScanStep

\* The heartbeat, the restart and the session.
LEMMA SessionTypeStep ==
  ASSUME FeedTypeOK, BusOfItsTime, ((Heartbeat \/ Restart) /\ UNCHANGED consumer) \/ ConsumerNext
  PROVE  FeedTypeOK'
<1> DEFINE Consumers == [up : BOOLEAN, epoch : Nat, sequence : Nat, cache : SUBSET Events]
<1>1. CASE Heartbeat /\ UNCHANGED consumer
  <2>1. Message("heartbeat", sequence, NoEvent) \in Messages
    BY DEF Message, Messages, FeedTypeOK
  <2>2. bus' \in Seq(Messages) /\ listening' \in BOOLEAN
    BY <1>1, <2>1, PublishTyped DEF Heartbeat
  <2> QED BY <1>1, <2>2 DEF Heartbeat, FeedTypeOK, netVars, feedVars
<1>2. CASE Restart /\ UNCHANGED consumer
  <2>1. ws' \in [Conns -> Sockets]
    BY <1>2 DEF Restart, Closed, Sockets
  <2>2. scan' \in Scans
    BY <1>2, FeedAssumption DEF Restart, Idle, Scans
  <2>3. faults' \in 0 .. MaxFaults /\ epoch' \in Nat \ {NoEpoch} /\ sequence' \in Nat
    BY <1>2, FeedAssumption DEF Restart, FeedTypeOK, NoEpoch
  <2> QED BY <1>2, <2>1, <2>2, <2>3 DEF Restart, FeedTypeOK, busVars
<1>3. CASE Subscribe
  BY <1>3 DEF Subscribe, FeedTypeOK, netVars, feedVars
<1>4. CASE ReadSnapshot
  <2>1. consumer' \in Consumers
    BY <1>4 DEF ReadSnapshot, FeedTypeOK
  <2> QED BY <1>4, <2>1 DEF ReadSnapshot, FeedTypeOK, netVars, feedVars
<1>5. ASSUME EndSession
      PROVE  /\ consumer' \in Consumers /\ listening' \in BOOLEAN
             /\ bus' \in Seq(Messages) /\ replaced' \in SUBSET Events
  <2>1. NewConsumer \in Consumers
    BY DEF NewConsumer, NoEpoch
  <2>2. <<>> \in Seq(Messages) OBVIOUS
  <2>3. consumer' = NewConsumer /\ listening' = FALSE /\ bus' = <<>> /\ replaced' = {}
    BY <1>5 DEF EndSession
  <2> HIDE DEF Consumers
  <2> QED BY <2>1, <2>2, <2>3
<1>6. CASE SnapshotRefused \/ MessageRefused
  BY <1>5, <1>6 DEF SnapshotRefused, MessageRefused, FeedTypeOK, netVars, feedVars
<1>7. CASE SessionFails
  <2>1. faults' \in 0 .. MaxFaults
    BY <1>7, FeedAssumption DEF SessionFails, FeedTypeOK
  <2> QED BY <1>5, <1>7, <2>1 DEF SessionFails, FeedTypeOK, feedVars
<1>8. CASE Consume
  <2> DEFINE m == Head(bus)
  <2>1. m \in Messages /\ bus' \in Seq(Messages)
    BY <1>8, QueueTail DEF Consume, NextMessage, FeedTypeOK
  <2>2. consumer \in Consumers
    BY DEF FeedTypeOK
  <2>3. consumer' \in Consumers
    <3>1. CASE UNCHANGED consumer BY <3>1, <2>2
    <3>2. CASE consumer' = [consumer EXCEPT !.sequence = m.sequence, !.cache = @ \cup {m.event}]
               /\ m.event \in Events
      BY <3>2, <2>1, <2>2 DEF Messages
    <3>3. m \in QueueOf(bus)
      BY <1>8, QueueTail DEF Consume, NextMessage, FeedTypeOK
    <3>4. Applies(m) => m.event \in Events
      BY <3>3 DEF Applies, BusOfItsTime
    <3> QED BY <1>8, <3>1, <3>2, <3>4 DEF Consume
  <2> QED BY <1>8, <2>1, <2>3 DEF Consume, FeedTypeOK, netVars, feedVars
<1> QED BY <1>1, <1>2, <1>3, <1>4, <1>6, <1>7, <1>8 DEF ConsumerNext

-----------------------------------------------------------------------------
(* What the bus still holds *)

BusInv == BusOfItsTime /\ BusNumbered /\ SessionOfItsTime /\ Following

LEMMA BusInit == InitAll => BusInv
<1> SUFFICES ASSUME InitAll PROVE BusInv
  OBVIOUS
<1>1. bus = <<>> /\ epoch = 1 /\ consumer = NewConsumer
  BY DEF InitAll, Init
<1>2. QueueOf(bus) = {}
  BY <1>1 DEF QueueOf
<1>3. consumer.epoch = 0 /\ ~consumer.up
  BY <1>1 DEF NewConsumer, NoEpoch
<1>4. BusOfItsTime /\ BusNumbered
  BY <1>2 DEF BusOfItsTime, BusNumbered
<1>5. SessionOfItsTime /\ Following
  BY <1>1, <1>3 DEF SessionOfItsTime, Following, NoEpoch
<1> QED BY <1>4, <1>5 DEF BusInv

\* Nothing the session could see changes.
LEMMA QuietStep ==
  ASSUME BusInv, UNCHANGED <<epoch, events, sequence, initialized, busVars, consumer>>
  PROVE  BusInv'
<1> USE DEF busVars
<1>1. QueueOf(bus)' = QueueOf(bus) /\ Connected' = Connected /\ Coming' = Coming
  BY DEF QueueOf, Connected, Coming, Announces
<1> QED BY <1>1 DEF BusInv, BusOfItsTime, BusNumbered, SessionOfItsTime, Following, Announces

\* What publishing adds to the queue, and that it repeats no number.
LEMMA PublishStep ==
  ASSUME FeedTypeOK, BusOfItsTime, BusNumbered, NEW m \in Messages, Publish(m),
         m.epoch = epoch, epoch' = epoch, sequence' \in Nat, m.sequence = sequence',
         m.kind = "event" => m.event \in Events /\ sequence' = sequence + 1,
         sequence' \in {sequence, sequence + 1}
  PROVE  /\ QueueOf(bus)' \in {QueueOf(bus), QueueOf(bus) \cup {m}}
         /\ BusOfItsTime' /\ BusNumbered'
<1>1. QueueOf(bus)' \in {QueueOf(bus), QueueOf(bus) \cup {m}}
  <2>1. bus \in Seq(Messages) BY DEF FeedTypeOK
  <2>2. QueueOf(Append(bus, m)) = QueueOf(bus) \cup {m} BY <2>1, QueueAppend
  <2>3. bus' = bus \/ bus' = Append(bus, m) BY DEF Publish
  <2> QED BY <2>2, <2>3 DEF QueueOf
<1>2. QueueOf(bus) \subseteq Messages
  BY QueueTyped DEF FeedTypeOK
<1>3. BusOfItsTime'
  <2> SUFFICES ASSUME NEW q \in QueueOf(bus)'
               PROVE  /\ q.epoch <= epoch'
                      /\ q.epoch = epoch' => q.sequence <= sequence'
                      /\ q.kind = "event" => q.event \in Events
    BY DEF BusOfItsTime
  <2>1. CASE q = m BY <2>1 DEF FeedTypeOK
  <2>2. CASE q \in QueueOf(bus)
    <3>1. /\ q.epoch <= epoch /\ (q.epoch = epoch => q.sequence <= sequence)
          /\ q.kind = "event" => q.event \in Events
      BY <2>2 DEF BusOfItsTime
    <3>2. q.sequence \in Nat /\ sequence \in Nat
      BY <2>2, <1>2 DEF Messages, FeedTypeOK
    <3> QED BY <3>1, <3>2
  <2> QED BY <1>1, <2>1, <2>2
<1>4. BusNumbered'
  <2> SUFFICES ASSUME NEW q \in QueueOf(bus)', NEW r \in QueueOf(bus)',
                      Announces(q)', Announces(r)', q.sequence = r.sequence
               PROVE  q = r
    BY DEF BusNumbered
  <2>1. Announces(q) /\ Announces(r)
    BY DEF Announces
  <2>2. ASSUME NEW x \in QueueOf(bus), Announces(x), Announces(m) PROVE x.sequence # m.sequence
    <3>1. x.sequence <= sequence BY <2>2 DEF BusOfItsTime, Announces
    <3>2. m.sequence = sequence + 1 BY <2>2 DEF Announces
    <3>3. x.sequence \in Nat /\ sequence \in Nat BY <1>2, <2>2 DEF Messages, FeedTypeOK
    <3> QED BY <3>1, <3>2, <3>3
  <2> QED BY <1>1, <2>1, <2>2 DEF BusNumbered
<1> QED BY <1>1, <1>3, <1>4

\* A reset takes a number no event will ever have: the session does not get past
\* it, whether it is delivered or lost.
LEMMA ResetStep ==
  ASSUME FeedTypeOK, BusInv, Reset, epoch' = epoch, sequence' = sequence + 1,
         UNCHANGED consumer
  PROVE  BusInv'
<1> DEFINE m == Message("reset", sequence + 1, NoEvent)
<1>1. m \in Messages /\ m.kind = "reset" /\ m.epoch = epoch /\ m.sequence = sequence + 1
  BY DEF Message, Messages, FeedTypeOK
<1>2. sequence' \in Nat /\ sequence \in Nat
  BY DEF FeedTypeOK
<1>3. Publish(m) BY DEF Reset
<1> HIDE DEF m
<1>4. /\ QueueOf(bus)' \in {QueueOf(bus), QueueOf(bus) \cup {m}}
      /\ BusOfItsTime' /\ BusNumbered'
  BY <1>1, <1>2, <1>3, PublishStep DEF BusInv
<1>5. SessionOfItsTime'
  <2>1. listening' = listening BY <1>3 DEF Publish
  <2>2. consumer.sequence \in Nat BY DEF FeedTypeOK
  <2> QED BY <1>2, <2>1, <2>2 DEF BusInv, SessionOfItsTime
<1>6. Following'
  <2> SUFFICES ASSUME consumer.epoch = epoch, Connected' PROVE FALSE
    BY DEF Following
  <2>1. consumer.sequence \in Nat /\ consumer.sequence <= sequence
    BY DEF FeedTypeOK, BusInv, SessionOfItsTime
  <2>2. sequence + 1 \in consumer.sequence + 1 .. sequence'
    BY <2>1, <1>2
  <2>3. PICK q \in QueueOf(bus)' : Announces(q)' /\ q.sequence = sequence + 1
    BY <2>2 DEF Connected
  <2>4. q.kind = "event" /\ q.epoch = epoch
    BY <2>3 DEF Announces
  <2>5. q \in QueueOf(bus)
    BY <1>1, <1>4, <2>4
  <2>6. q.sequence <= sequence
    BY <2>4, <2>5 DEF BusInv, BusOfItsTime
  <2> QED BY <2>3, <2>6, <1>2
<1> QED BY <1>4, <1>5, <1>6 DEF BusInv

\* An event that is announced, or lost, keeps the session in step with what is
\* still to come; the event it replaces is remembered as such.
LEMMA InsertStep ==
  ASSUME FeedTypeOK, BusInv, NEW e \in Events, Insert(e), epoch' = epoch, UNCHANGED consumer
  PROVE  BusInv'
<1>1. CASE e \in events
  BY <1>1, QuietStep DEF Insert, feedVars, busVars
<1>2. CASE e \notin events
  <2> DEFINE old == {d \in events : Key(d) = Key(e)}
             m   == Message("event", sequence + 1, e)
  <2>1. /\ events' = (events \ old) \cup {e}
        /\ sequence' = sequence + 1
        /\ Publish(m)
        /\ replaced' = IF listening THEN (replaced \cup old) \ {e} ELSE {}
        /\ initialized' = initialized
    BY <1>2 DEF Insert
  <2>2. m \in Messages /\ m.kind = "event" /\ m.epoch = epoch /\ m.sequence = sequence + 1
        /\ m.event = e
    BY DEF Message, Messages, FeedTypeOK
  <2>3. sequence' \in Nat /\ sequence \in Nat /\ consumer.sequence \in Nat
    BY <2>1 DEF FeedTypeOK
  <2> HIDE DEF m, old
  <2>4. /\ QueueOf(bus)' \in {QueueOf(bus), QueueOf(bus) \cup {m}}
        /\ BusOfItsTime' /\ BusNumbered'
    BY <2>1, <2>2, <2>3, PublishStep DEF BusInv
  <2>5. SessionOfItsTime'
    <3>1. listening' = listening BY <2>1 DEF Publish
    <3> QED BY <2>1, <2>3, <3>1 DEF BusInv, SessionOfItsTime
  <2>6. Following'
    <3> SUFFICES ASSUME consumer.epoch = epoch, Connected'
                 PROVE  initialized' /\ (consumer.cache \cup Coming') \ replaced' = events'
      BY DEF Following
    <3>1. listening /\ consumer.sequence <= sequence
      BY DEF BusInv, SessionOfItsTime, FeedTypeOK, NoEpoch
    <3>2. \A q : Announces(q)' <=> Announces(q)
      BY DEF Announces
    <3>3. m \in QueueOf(bus)'
      <4>1. sequence + 1 \in consumer.sequence + 1 .. sequence'
        BY <2>1, <2>3, <3>1
      <4>2. PICK q \in QueueOf(bus)' : Announces(q)' /\ q.sequence = sequence + 1
        BY <4>1 DEF Connected
      <4>3. q \notin QueueOf(bus)
        <5> SUFFICES ASSUME q \in QueueOf(bus) PROVE FALSE OBVIOUS
        <5>1. q.sequence <= sequence
          BY <3>2, <4>2 DEF BusInv, BusOfItsTime, Announces
        <5> QED BY <4>2, <5>1, <2>3
      <4> QED BY <2>4, <4>2, <4>3
    <3>4. QueueOf(bus)' = QueueOf(bus) \cup {m}
      BY <2>4, <3>3
    <3>5. Connected
      <4> SUFFICES ASSUME NEW n \in consumer.sequence + 1 .. sequence
                   PROVE  \E q \in QueueOf(bus) : Announces(q) /\ q.sequence = n
        BY DEF Connected
      <4>1. n \in consumer.sequence + 1 .. sequence' /\ n # sequence + 1
        BY <2>1, <2>3
      <4>2. PICK q \in QueueOf(bus)' : Announces(q)' /\ q.sequence = n
        BY <4>1 DEF Connected
      <4>3. q # m BY <2>2, <4>1, <4>2
      <4> QED BY <3>2, <3>4, <4>2, <4>3
    <3>6. initialized /\ (consumer.cache \cup Coming) \ replaced = events
      BY <3>5 DEF BusInv, Following
    <3>7. Coming' = Coming \cup {e}
      <4>1. Announces(m) /\ m.sequence > consumer.sequence
        BY <2>2, <2>3, <3>1 DEF Announces
      <4>2. Coming' = {q.event : q \in {x \in QueueOf(bus) \cup {m} :
                                          Announces(x) /\ x.sequence > consumer.sequence}}
        BY <3>2, <3>4 DEF Coming
      <4> QED BY <4>1, <4>2, <2>2 DEF Coming
    <3> QED BY <2>1, <3>1, <3>6, <3>7, <1>2
  <2> QED BY <2>4, <2>5, <2>6 DEF BusInv
<1> QED BY <1>1, <1>2

LEMMA HeartbeatStep ==
  ASSUME FeedTypeOK, BusInv, Heartbeat, UNCHANGED consumer
  PROVE  BusInv'
<1> DEFINE m == Message("heartbeat", sequence, NoEvent)
<1>1. m \in Messages /\ m.kind = "heartbeat" /\ m.epoch = epoch /\ m.sequence = sequence
  BY DEF Message, Messages, FeedTypeOK
<1>2. /\ Publish(m) /\ UNCHANGED <<epoch, replaced, consumer>>
      /\ events' = events /\ sequence' = sequence /\ initialized' = initialized
  BY DEF Heartbeat, feedVars
<1>3. sequence' \in Nat BY <1>2 DEF FeedTypeOK
<1> HIDE DEF m
<1>4. /\ QueueOf(bus)' \in {QueueOf(bus), QueueOf(bus) \cup {m}}
      /\ BusOfItsTime' /\ BusNumbered'
  BY <1>1, <1>2, <1>3, PublishStep DEF BusInv
<1>5. listening' = listening BY <1>2 DEF Publish
<1>6. \A q : Announces(q)' <=> Announces(q)
  BY <1>2 DEF Announces
<1>7. ~Announces(m) BY <1>1 DEF Announces
<1>8. Coming' = Coming /\ Connected' = Connected
  BY <1>2, <1>4, <1>6, <1>7 DEF Coming, Connected
<1> QED BY <1>2, <1>4, <1>5, <1>8 DEF BusInv, SessionOfItsTime, Following

\* A reconstruction ends: the session that follows this feed, if any, saw it
\* initialized, so there is none while the cache is thrown away.
LEMMA VerifyStep ==
  ASSUME BusInv, ScanHasHead, ScanVerify, UNCHANGED consumer
  PROVE  BusInv'
<1>1. ~initialized BY DEF ScanVerify, ScanHasHead
<1>2. UNCHANGED <<epoch, sequence, busVars, consumer>>
  BY DEF ScanVerify
<1>3. QueueOf(bus)' = QueueOf(bus) /\ Connected' = Connected
  BY <1>2 DEF QueueOf, Connected, Announces, busVars
<1>4. ~(consumer.epoch = epoch /\ Connected)
  BY <1>1 DEF BusInv, Following
<1> QED BY <1>2, <1>3, <1>4
        DEF BusInv, BusOfItsTime, BusNumbered, SessionOfItsTime, Following, Announces, busVars

\* No message of an earlier life says anything about the new one.
LEMMA RestartStep ==
  ASSUME FeedTypeOK, BusInv, Restart, UNCHANGED consumer
  PROVE  BusInv'
<1>1. epoch' = epoch + 1 /\ epoch \in Nat /\ consumer.epoch \in Nat
  BY DEF Restart, FeedTypeOK
<1>2. UNCHANGED busVars BY DEF Restart
<1>3. QueueOf(bus)' = QueueOf(bus) BY <1>2 DEF QueueOf, busVars
<1>4. QueueOf(bus) \subseteq Messages BY QueueTyped DEF FeedTypeOK
<1>5. \A q \in QueueOf(bus) : q.epoch \in Nat /\ q.epoch <= epoch
  BY <1>4 DEF Messages, BusInv, BusOfItsTime
<1>6. \A q \in QueueOf(bus) : q.epoch # epoch' /\ q.epoch <= epoch'
  BY <1>1, <1>5
<1>7. consumer.epoch # epoch' /\ consumer.epoch <= epoch'
  BY <1>1 DEF BusInv, SessionOfItsTime
<1>8. BusOfItsTime' /\ BusNumbered'
  BY <1>3, <1>6 DEF BusInv, BusOfItsTime, BusNumbered, Announces
<1>9. SessionOfItsTime' /\ Following'
  BY <1>2, <1>7 DEF BusInv, SessionOfItsTime, Following, busVars
<1> QED BY <1>8, <1>9 DEF BusInv

\* The session itself.
LEMMA ConsumerStep ==
  ASSUME FeedTypeOK, BusInv, ConsumerNext
  PROVE  BusInv'
<1>1. UNCHANGED <<epoch, sequence, events, initialized>>
  BY DEF ConsumerNext, Subscribe, ReadSnapshot, SnapshotRefused, Consume, MessageRefused,
         SessionFails, feedVars
<1>2. \A q : Announces(q)' <=> Announces(q)
  BY <1>1 DEF Announces
<1>3. QueueOf(bus) \subseteq Messages /\ bus \in Seq(Messages)
  BY QueueTyped DEF FeedTypeOK
<1>4. CASE Subscribe
  <2>1. UNCHANGED <<bus, replaced, consumer>> /\ listening' BY <1>4 DEF Subscribe
  <2>2. QueueOf(bus)' = QueueOf(bus) /\ Connected' = Connected /\ Coming' = Coming
    BY <1>1, <2>1 DEF QueueOf, Connected, Coming, Announces
  <2> QED BY <1>1, <2>1, <2>2
          DEF BusInv, BusOfItsTime, BusNumbered, SessionOfItsTime, Following, Announces
<1>5. CASE ReadSnapshot
  <2>1. /\ consumer' = [up |-> TRUE, epoch |-> epoch, sequence |-> sequence, cache |-> events]
        /\ replaced' = {} /\ UNCHANGED <<listening, bus>> /\ listening /\ initialized
    BY <1>5 DEF ReadSnapshot, Ready
  <2>2. /\ consumer'.up /\ consumer'.epoch = epoch
        /\ consumer'.sequence = sequence /\ consumer'.cache = events
    BY <2>1
  <2>3. QueueOf(bus)' = QueueOf(bus)
    BY <2>1 DEF QueueOf
  <2>4. BusOfItsTime' /\ BusNumbered'
    BY <1>1, <2>3 DEF BusInv, BusOfItsTime, BusNumbered, Announces
  <2>5. epoch \in Nat \ {NoEpoch} /\ sequence \in Nat BY DEF FeedTypeOK
  <2>6. SessionOfItsTime'
    BY <1>1, <2>1, <2>2, <2>5 DEF SessionOfItsTime, NoEpoch
  <2>7. Coming' = {}
    <3> SUFFICES ASSUME NEW q \in QueueOf(bus), Announces(q), q.sequence > sequence PROVE FALSE
      BY <1>2, <2>2, <2>3 DEF Coming
    <3>1. q.sequence <= sequence BY DEF BusInv, BusOfItsTime, Announces
    <3>2. q.sequence \in Nat BY <1>3 DEF Messages
    <3> QED BY <3>1, <3>2, <2>5
  <2>8. Following'
    BY <1>1, <2>1, <2>2, <2>7 DEF Following
  <2> QED BY <2>4, <2>6, <2>8 DEF BusInv
<1>6. CASE EndSession
  <2>1. bus' = <<>> /\ consumer'.epoch = 0 /\ ~consumer'.up
    BY <1>6 DEF EndSession, NewConsumer, NoEpoch
  <2>2. QueueOf(bus)' = {}
    BY <2>1 DEF QueueOf
  <2>3. epoch \in Nat /\ epoch # 0 BY DEF FeedTypeOK, NoEpoch
  <2> QED BY <1>1, <2>1, <2>2, <2>3
          DEF BusInv, BusOfItsTime, BusNumbered, SessionOfItsTime, Following, NoEpoch
<1>7. CASE Consume
  <2> DEFINE m == Head(bus)
  <2>1. /\ m \in Messages /\ bus' = Tail(bus)
        /\ QueueOf(bus) = {m} \cup QueueOf(bus)'
        /\ UNCHANGED <<listening, replaced>>
        /\ Covered(m) \/ ~Refused(m)
        /\ \/ /\ ~Covered(m) /\ Applies(m)
              /\ consumer' = [consumer EXCEPT !.sequence = m.sequence, !.cache = @ \cup {m.event}]
           \/ /\ Covered(m) \/ ~Applies(m)
              /\ UNCHANGED consumer
    <3>1. bus # <<>> /\ bus' = Tail(bus) BY <1>7 DEF Consume, NextMessage
    <3>2. QueueOf(bus)' = QueueOf(Tail(bus)) BY <3>1 DEF QueueOf
    <3>3. m \in Messages /\ QueueOf(bus) = {m} \cup QueueOf(Tail(bus))
      BY <1>3, <3>1, QueueTail
    <3> QED BY <1>7, <3>1, <3>2, <3>3 DEF Consume
  <2> HIDE DEF m
  <2>2. m.epoch = consumer.epoch
    BY <2>1 DEF Covered, Refused
  <2>3. m.sequence \in Nat /\ consumer.sequence \in Nat /\ sequence \in Nat
    BY <2>1 DEF Messages, FeedTypeOK
  <2>4. BusOfItsTime' /\ BusNumbered'
    BY <1>1, <2>1 DEF BusInv, BusOfItsTime, BusNumbered, Announces
  <2>5. CASE ~Covered(m) /\ Applies(m)
             /\ consumer' = [consumer EXCEPT !.sequence = m.sequence, !.cache = @ \cup {m.event}]
    <3>1. /\ m.kind = "event" /\ m.sequence = consumer.sequence + 1
          /\ consumer'.sequence = consumer.sequence + 1
          /\ consumer'.cache = consumer.cache \cup {m.event}
          /\ consumer'.epoch = consumer.epoch /\ consumer'.up = consumer.up
      BY <2>5 DEF Applies, FeedTypeOK
    <3>2. SessionOfItsTime'
      <4>1. consumer.epoch = epoch => m.sequence <= sequence
        BY <2>1, <2>2 DEF BusInv, BusOfItsTime
      <4> QED BY <1>1, <2>1, <3>1, <4>1 DEF BusInv, SessionOfItsTime
    <3>3. Following'
      <4> SUFFICES ASSUME consumer.epoch = epoch, Connected'
                   PROVE  initialized /\ (consumer'.cache \cup Coming') \ replaced = events
        BY <1>1, <2>1, <3>1 DEF Following
      <4>1. Announces(m) BY <2>2, <3>1 DEF Announces
      <4>2. Connected
        <5> SUFFICES ASSUME NEW n \in consumer.sequence + 1 .. sequence
                     PROVE  \E q \in QueueOf(bus) : Announces(q) /\ q.sequence = n
          BY DEF Connected
        <5>1. CASE n = consumer.sequence + 1 BY <5>1, <2>1, <3>1, <4>1
        <5>2. CASE n # consumer.sequence + 1
          <6>1. n \in consumer'.sequence + 1 .. sequence'
            BY <5>2, <1>1, <2>3, <3>1
          <6>2. PICK q \in QueueOf(bus)' : Announces(q)' /\ q.sequence = n
            BY <6>1 DEF Connected
          <6> QED BY <6>2, <1>2, <2>1
        <5> QED BY <5>1, <5>2
      <4>3. initialized /\ (consumer.cache \cup Coming) \ replaced = events
        BY <4>2 DEF BusInv, Following
      <4>4. Coming' = {q.event : q \in {x \in QueueOf(bus)' :
                                          Announces(x) /\ x.sequence > consumer.sequence + 1}}
        BY <1>2, <3>1 DEF Coming
      <4>5. ASSUME NEW x \in QueueOf(bus), Announces(x), x.sequence > consumer.sequence
            PROVE  x = m \/ (x \in QueueOf(bus)' /\ x.sequence > consumer.sequence + 1)
        <5>1. x.sequence \in Nat BY <4>5, <1>3 DEF Messages
        <5>2. CASE x.sequence = consumer.sequence + 1
          BY <5>2, <4>1, <4>5, <2>1, <3>1 DEF BusInv, BusNumbered
        <5>3. CASE x.sequence # consumer.sequence + 1
          BY <5>1, <5>3, <4>5, <2>1, <2>3
        <5> QED BY <5>2, <5>3
      <4>6. ASSUME NEW x \in QueueOf(bus)', x.sequence > consumer.sequence + 1
            PROVE  x \in QueueOf(bus) /\ x.sequence > consumer.sequence
        <5>1. x \in QueueOf(bus) BY <2>1, <4>6
        <5>2. x.sequence \in Nat BY <5>1, <1>3 DEF Messages
        <5> QED BY <5>1, <5>2, <4>6, <2>3
      <4>7. consumer.sequence + 1 > consumer.sequence BY <2>3
      <4>8. Coming \cup {m.event} = Coming' \cup {m.event}
        BY <4>4, <4>5, <4>6 DEF Coming
      <4>9. m.event \in Coming
        BY <2>1, <3>1, <4>1, <4>7 DEF Coming
      <4> QED BY <3>1, <4>3, <4>8, <4>9
    <3> QED BY <2>4, <3>2, <3>3 DEF BusInv
  <2>6. CASE (Covered(m) \/ ~Applies(m)) /\ UNCHANGED consumer
    <3>1. SessionOfItsTime'
      BY <1>1, <2>1, <2>6 DEF BusInv, SessionOfItsTime
    <3>2. ~(m.kind = "event" /\ m.sequence > consumer.sequence)
      BY <2>1, <2>2, <2>3, <2>6 DEF Covered, Applies, Refused
    <3>3. \A n \in consumer.sequence + 1 .. sequence : Announces(m) => m.sequence # n
      BY <2>3, <3>2 DEF Announces
    <3>4. Connected' = Connected
      BY <1>1, <1>2, <2>1, <2>6, <3>3 DEF Connected
    <3>5. Coming' = Coming
      BY <1>2, <2>1, <2>6, <3>2 DEF Coming, Announces
    <3>6. Following'
      BY <1>1, <2>1, <2>6, <3>4, <3>5 DEF BusInv, Following
    <3> QED BY <2>4, <3>1, <3>6 DEF BusInv
  <2> QED BY <2>1, <2>5, <2>6
<1> QED BY <1>4, <1>5, <1>6, <1>7
        DEF ConsumerNext, SnapshotRefused, MessageRefused, SessionFails

-----------------------------------------------------------------------------
(* What a scan knows *)

ScanInv == ScanHasHead /\ ScanKnows

LEMMA ScanInit == InitAll => ScanInv
BY DEF InitAll, Init, FeedStart, Idle, ScanInv, ScanHasHead, ScanKnows

LEMMA ScanQuietStep ==
  ASSUME ScanInv, UNCHANGED <<chain, scan, events, initialized>>
  PROVE  ScanInv'
BY DEF ScanInv, ScanHasHead, ScanKnows, LogsIn, OnChain, Height, InRange

\* A disturbance only makes the scan forget.
LEMMA ScanDisturbedStep ==
  ASSUME FeedTypeOK, ScanInv, Disturb, initialized' = initialized
  PROVE  ScanInv'
<1>1. scan' = [scan EXCEPT !.calm = FALSE] /\ scan \in Scans
  BY DEF Disturb, FeedTypeOK
<1>2. scan'.calm = FALSE /\ scan'.pc = scan.pc /\ scan'.head = scan.head
  BY <1>1 DEF Scans
<1> QED BY <1>2 DEF ScanInv, ScanHasHead, ScanKnows

\* Every step that leaves the loop, or begins a request, forgets as well.
LEMMA ScanEndsStep ==
  ASSUME scan' = Idle
  PROVE  ScanInv'
BY DEF Idle, ScanInv, ScanHasHead, ScanKnows

LEMMA ScanRetryStep ==
  ASSUME FeedTypeOK, ScanInv, scan.pc # "idle", NextProvider
  PROVE  ScanInv'
<1>1. CASE scan' = [scan EXCEPT !.pc = "logs", !.provider = @ + 1, !.logs = {}, !.known = {},
                                !.calm = FALSE]
  <2>1. scan'.calm = FALSE /\ scan'.pc = "logs" /\ scan'.head = scan.head
    BY <1>1 DEF FeedTypeOK, Scans
  <2> QED BY <2>1 DEF ScanInv, ScanHasHead, ScanKnows
<1>2. CASE ScanError BY <1>2, ScanEndsStep DEF ScanError
<1> QED BY <1>1, <1>2 DEF NextProvider

\* Two events of the chain under one key are one event.
LEMMA KeysOfChain ==
  ASSUME NEW d \in Events, NEW e \in Events, OnChain(BlockOf[d]), OnChain(BlockOf[e]),
         Key(d) = Key(e)
  PROVE  d = e
<1>1. Number(d) = Number(e) /\ IndexOf[d] = IndexOf[e]
  BY DEF Key
<1>2. BlockOf[d] = BlockOf[e]
  BY <1>1 DEF OnChain, Number
<1> QED BY <1>1, <1>2, FeedAssumption

LEMMA ScanStepInv ==
  ASSUME FeedTypeOK, ChainNumbered, ScanInv, ScanStep \/ ScanFails
  PROVE  ScanInv'
<1> USE FeedAssumption
<1>s. scan \in Scans /\ events \subseteq Events /\ initialized \in BOOLEAN
  BY DEF FeedTypeOK
<1>h. Height \in Nat \ {0} /\ \A n \in 1 .. Height : chain[n] \in Blocks
  BY DEF FeedTypeOK, Height
<1>n. \A e \in Events : Number(e) \in Nat \ {0} /\ BlockOf[e] \in Blocks
  BY DEF Number
<1>1. CASE ScanHead
  <2>1. chain[Height] \in Blocks BY <1>h
  <2>3. scan' = [scan EXCEPT !.pc = IF scanned = NoBlock THEN "range" ELSE "anchor",
                             !.head = chain[Height]]
    BY <1>1 DEF ScanHead
  <2>4. scan'.head \in Blocks /\ scan'.pc \in {"range", "anchor"} /\ scan'.calm = scan.calm
    BY <2>1, <2>3, <1>s DEF Scans
  <2>2. scan.calm = FALSE BY <1>1, <1>s DEF ScanHead, ScanInv, ScanKnows, Scans
  <2> QED BY <2>2, <2>4 DEF ScanInv, ScanHasHead, ScanKnows
<1>2. CASE ScanAnchor
  <2>1. CASE scan' = [scan EXCEPT !.pc = "range"]
    <3>1. scan.pc = "anchor" BY <1>2 DEF ScanAnchor
    <3>2. scan'.head = scan.head /\ scan'.pc = "range" /\ scan'.calm = scan.calm
      BY <2>1, <1>s DEF Scans
    <3>3. scan.calm = FALSE BY <3>1, <1>s DEF ScanInv, ScanKnows, Scans
    <3> QED BY <3>1, <3>2, <3>3 DEF ScanInv, ScanHasHead, ScanKnows
  <2>2. CASE ScanError BY <2>2, ScanEndsStep DEF ScanError
  <2> QED BY <1>2, <2>1, <2>2 DEF ScanAnchor
<1>3. CASE ScanRange
  <2>1. scan.pc = "range" /\ scan.calm = FALSE /\ scan.head \in Blocks /\ initialized' = initialized
    BY <1>3, <1>s DEF ScanRange, ScanInv, ScanKnows, ScanHasHead, Scans
  <2>2. CASE scan' = [scan EXCEPT !.pc = "verify"] /\ ~initialized
    BY <2>1, <2>2, <1>s DEF ScanInv, ScanHasHead, ScanKnows, Scans
  <2>3. CASE scan'.pc = "logs" /\ scan'.head = scan.head /\ scan'.calm = scan.calm
    BY <2>1, <2>3 DEF ScanInv, ScanHasHead, ScanKnows
  <2>4. CASE ScanError BY <2>4, ScanEndsStep DEF ScanError
  <2> DEFINE top  == NumberOf[scan.head]
             from == IF scan.to = NoBlock THEN FirstBlock ELSE NumberOf[scan.to] + 1
             to   == Smaller(from + Span - 1, top)
             end  == IF initialized /\ to = top THEN scan.head ELSE chain[to]
  <2>5. \/ scan' = [scan EXCEPT !.pc = "verify"] /\ ~initialized
        \/ scan' = [scan EXCEPT !.pc = "logs", !.range = from .. to, !.provider = 1, !.to = end]
        \/ ScanError
    BY <1>3 DEF ScanRange
  <2> HIDE DEF top, from, to, end
  <2>6. ASSUME scan' = [scan EXCEPT !.pc = "logs", !.range = from .. to, !.provider = 1, !.to = end]
        PROVE  scan'.pc = "logs" /\ scan'.head = scan.head /\ scan'.calm = scan.calm
    BY <2>6, <1>s DEF Scans
  <2> QED BY <2>2, <2>3, <2>4, <2>5, <2>6
<1>4. CASE ScanLogs
  <2>1. /\ scan'.pc = "headers" /\ scan'.head = scan.head /\ scan'.logs = LogsIn(scan.range)
        /\ scan'.range = scan.range /\ scan.pc = "logs"
    BY <1>4, <1>s DEF ScanLogs, Scans
  <2>2. chain' = chain /\ initialized' = initialized
    BY <1>4 DEF ScanLogs, netVars, feedVars
  <2>3. LogsIn(scan.range)' = LogsIn(scan.range)
    BY <2>1, <2>2 DEF LogsIn, OnChain, Height
  <2> QED BY <2>1, <2>2, <2>3 DEF ScanInv, ScanHasHead, ScanKnows
<1>5. CASE ScanHeaders
  <2>1. scan.pc = "headers" /\ chain' = chain /\ events' = events /\ initialized' = initialized
    BY <1>5 DEF ScanHeaders, netVars
  <2>2. CASE NextProvider BY <2>1, <2>2, ScanRetryStep
  <2>3. ASSUME ~NextProvider PROVE ScanInv'
    <3> DEFINE numbers == {Number(e) : e \in scan.logs \cup InRange(events)}
               known   == {b \in Blocks : OnChain(b) /\ NumberOf[b] \in numbers}
    <3>1. /\ \A n \in numbers : n <= Height
          /\ scan' = [scan EXCEPT !.pc = "apply", !.known = known]
      BY <1>5, <2>3 DEF ScanHeaders, InRange
    <3>2. /\ scan'.pc = "apply" /\ scan'.known = known /\ scan'.logs = scan.logs
          /\ scan'.range = scan.range /\ scan'.head = scan.head /\ scan'.calm = scan.calm
      BY <3>1, <1>s DEF Scans
    <3>3. \A b \in known : OnChain(b)
      OBVIOUS
    <3>4. ASSUME NEW e \in InRange(events)
          PROVE  Number(e) <= Height /\ chain[Number(e)] \in known
      <4>1. e \in Events /\ Number(e) \in numbers BY <3>4, <1>s DEF InRange
      <4>2. Number(e) \in 1 .. Height BY <3>1, <4>1, <1>n, <1>h
      <4>3. chain[Number(e)] \in Blocks BY <4>2, <1>h
      <4>4. NumberOf[chain[Number(e)]] = Number(e)
        BY <4>2 DEF ChainNumbered
      <4> QED BY <4>1, <4>2, <4>3, <4>4 DEF OnChain
    <3>5. scan.calm => scan.logs = LogsIn(scan.range)
      BY <2>1 DEF ScanInv, ScanKnows
    <3> HIDE DEF known
    <3>6. /\ scan'.calm => scan'.logs = LogsIn(scan.range)'
          /\ \A b \in scan'.known : OnChain(b)'
      BY <2>1, <3>2, <3>3, <3>5 DEF LogsIn, OnChain, Height
    <3>7. \A e \in InRange(events)' : Number(e) <= Height' /\ chain'[Number(e)] \in scan'.known
      BY <2>1, <3>2, <3>4 DEF InRange, Height
    <3>8. scan.head \in Blocks BY <2>1 DEF ScanInv, ScanHasHead
    <3> QED BY <3>2, <3>6, <3>7, <3>8 DEF ScanInv, ScanHasHead, ScanKnows
  <2> QED BY <2>2, <2>3
<1>6. CASE ScanApply
  <2> DEFINE orphans == {e \in events : /\ Number(e) \in scan.range
                                        /\ \E b \in scan.known : NumberOf[b] = Number(e)
                                                                 /\ b # BlockOf[e]}
  <2>1. scan.pc = "apply" /\ chain' = chain /\ initialized' = initialized
    BY <1>6 DEF ScanApply, netVars
  <2>2. CASE NextProvider BY <2>1, <2>2, ScanRetryStep
  <2>3. ASSUME ~NextProvider PROVE ScanInv'
    <3>1. scan' = [scan EXCEPT !.pc = "insert", !.known = {}] /\ events' = events \ orphans
      BY <1>6, <2>3 DEF ScanApply
    <3>2. /\ scan'.pc = "insert" /\ scan'.logs = scan.logs /\ scan'.range = scan.range
          /\ scan'.head = scan.head /\ scan'.calm = scan.calm
      BY <3>1, <1>s DEF Scans
    <3>3. LogsIn(scan.range)' = LogsIn(scan.range)
      BY <2>1, <3>2 DEF LogsIn, OnChain, Height
    <3>4. ASSUME scan.calm PROVE (InRange(events) \cup scan.logs = LogsIn(scan.range))'
      <4>1. /\ scan.logs = LogsIn(scan.range)
            /\ \A b \in scan.known : OnChain(b)
            /\ \A e \in InRange(events) : Number(e) <= Height /\ chain[Number(e)] \in scan.known
        BY <2>1, <3>4 DEF ScanInv, ScanKnows
      <4>2. ASSUME NEW e \in events, Number(e) \in scan.range, e \notin orphans
            PROVE  e \in LogsIn(scan.range)
        <5>1. Number(e) \in 1 .. Height /\ chain[Number(e)] \in scan.known
          BY <4>1, <4>2, <1>n, <1>s, <1>h DEF InRange
        <5>2. NumberOf[chain[Number(e)]] = Number(e)
          BY <5>1 DEF ChainNumbered
        <5>3. chain[Number(e)] = BlockOf[e]
          BY <4>2, <5>1, <5>2
        <5> QED BY <4>2, <5>1, <5>3, <1>s DEF LogsIn, OnChain, Number
      <4>3. InRange(events)' = {e \in events : Number(e) \in scan.range /\ e \notin orphans}
        BY <3>1, <3>2 DEF InRange
      <4> HIDE DEF orphans
      <4>4. InRange(events)' \subseteq LogsIn(scan.range)
        BY <4>2, <4>3
      <4> QED BY <3>2, <3>3, <4>1, <4>4
    <3>5. scan.head \in Blocks BY <2>1 DEF ScanInv, ScanHasHead
    <3> QED BY <3>2, <3>4, <3>5 DEF ScanInv, ScanHasHead, ScanKnows
  <2> QED BY <2>2, <2>3
<1>7. ASSUME NEW e \in Events, ScanInsert(e) PROVE ScanInv'
  <2>1. /\ scan.pc = "insert" /\ e \in scan.logs /\ Insert(e) /\ chain' = chain
        /\ scan' = [scan EXCEPT !.logs = @ \ {e}]
    BY <1>7 DEF ScanInsert, netVars
  <2>2. /\ scan'.pc = "insert" /\ scan'.logs = scan.logs \ {e} /\ scan'.range = scan.range
        /\ scan'.head = scan.head /\ scan'.calm = scan.calm
    BY <2>1, <1>s DEF Scans
  <2>3. LogsIn(scan.range)' = LogsIn(scan.range)
    BY <2>1, <2>2 DEF LogsIn, OnChain, Height
  <2>4. initialized' = initialized
    BY <2>1 DEF Insert, feedVars
  <2>5. ASSUME scan.calm PROVE (InRange(events) \cup scan.logs = LogsIn(scan.range))'
    <3>1. InRange(events) \cup scan.logs = LogsIn(scan.range)
      BY <2>1, <2>5 DEF ScanInv, ScanKnows
    <3>2. e \in LogsIn(scan.range) /\ Number(e) \in scan.range /\ OnChain(BlockOf[e])
      BY <2>1, <3>1 DEF LogsIn
    <3>3. CASE e \in events
      <4>1. events' = events BY <2>1, <3>3 DEF Insert, feedVars
      <4>2. InRange(events)' = InRange(events) BY <2>2, <4>1 DEF InRange
      <4>3. e \in InRange(events) BY <3>2, <3>3 DEF InRange
      <4> QED BY <2>1, <2>2, <2>3, <3>1, <4>2, <4>3
    <3>4. CASE e \notin events
      <4> DEFINE old == {d \in events : Key(d) = Key(e)}
      <4>1. events' = (events \ old) \cup {e} BY <2>1, <3>4 DEF Insert
      <4>2. ASSUME NEW d \in old PROVE FALSE
        <5>1. Number(d) = Number(e) /\ d \in Events BY <1>s DEF Key
        <5>2. d \in InRange(events) BY <3>2, <5>1 DEF InRange
        <5>3. OnChain(BlockOf[d]) BY <3>1, <5>2 DEF LogsIn
        <5>4. d = e BY <3>2, <5>1, <5>3, KeysOfChain
        <5> QED BY <3>4, <5>4
      <4>3. events' = events \cup {e} BY <4>1, <4>2
      <4>4. InRange(events)' = InRange(events) \cup {e} BY <2>2, <3>2, <4>3 DEF InRange
      <4> QED BY <2>1, <2>2, <2>3, <3>1, <4>4
    <3> QED BY <3>3, <3>4
  <2>6. scan.head \in Blocks BY <2>1 DEF ScanInv, ScanHasHead
  <2> QED BY <2>2, <2>5, <2>6 DEF ScanInv, ScanHasHead, ScanKnows
<1>8. CASE ScanFinish
  <2>1. CASE scan' = Idle BY <2>1, ScanEndsStep
  <2>2. CASE scan' = [scan EXCEPT !.pc = "range", !.range = {}, !.calm = FALSE]
    <3>1. scan'.pc = "range" /\ scan'.head = scan.head /\ scan'.calm = FALSE /\ scan.pc = "insert"
      BY <1>8, <2>2, <1>s DEF ScanFinish, Scans
    <3> QED BY <3>1 DEF ScanInv, ScanHasHead, ScanKnows
  <2> QED BY <1>8, <2>1, <2>2 DEF ScanFinish
<1>9. CASE ScanVerify
  BY <1>9, ScanEndsStep DEF ScanVerify, ScanError
<1>10. CASE ScanFails
  <2>1. CASE scan.pc # "idle" /\ NextProvider BY <2>1, ScanRetryStep
  <2>2. CASE ScanError BY <2>2, ScanEndsStep DEF ScanError
  <2> QED BY <1>10, <2>1, <2>2 DEF ScanFails
<1> QED BY <1>1, <1>2, <1>3, <1>4, <1>5, <1>6, <1>7, <1>8, <1>9, <1>10 DEF ScanStep

-----------------------------------------------------------------------------
(* The chain, and everything together *)

LEMMA ChainInit == InitAll => ChainNumbered
<1> SUFFICES ASSUME InitAll PROVE ChainNumbered
  OBVIOUS
<1>1. PICK b \in Branches : chain = SubSeq(b, 1, 1)
  BY DEF InitAll, Init
<1>2. b \in Seq(Blocks) /\ b # <<>> /\ \A i \in DOMAIN b : NumberOf[b[i]] = i
  BY <1>1, FeedAssumption
<1>3. Len(chain) = 1 /\ chain[1] = b[1] /\ 1 \in DOMAIN b
  BY <1>1, <1>2
<1>4. NumberOf[b[1]] = 1
  BY <1>2, <1>3
<1> QED BY <1>3, <1>4 DEF ChainNumbered, Height

\* The chain is always the beginning of a branch, so a block stands at its number.
LEMMA ChainStep ==
  ASSUME FeedTypeOK, ChainNumbered, [Next]_allVars
  PROVE  ChainNumbered'
<1>t. chain \in Seq(Blocks) /\ Height = Len(chain)
  BY DEF FeedTypeOK, Height
<1>1. ASSUME NEW b \in Blocks, Grow(b) PROVE ChainNumbered'
  <2>1. PICK br \in Branches : Height < Len(br) /\ Append(chain, b) = SubSeq(br, 1, Height + 1)
    BY <1>1 DEF Grow
  <2>2. br \in Seq(Blocks) /\ \A i \in DOMAIN br : NumberOf[br[i]] = i
    BY <2>1, FeedAssumption
  <2>3. chain' = SubSeq(br, 1, Height + 1)
    BY <1>1, <2>1 DEF Grow
  <2>4. Len(chain') = Height + 1 /\ \A n \in 1 .. Height + 1 : chain'[n] = br[n] /\ n \in DOMAIN br
    BY <1>t, <2>1, <2>2, <2>3
  <2> QED BY <2>2, <2>4 DEF ChainNumbered, Height
<1>2. ASSUME NEW n \in 1 .. Height, Rollback(n) PROVE ChainNumbered'
  <2>1. chain' = SubSeq(chain, 1, n)
    BY <1>2 DEF Rollback
  <2>2. Len(chain') = n /\ \A k \in 1 .. n : chain'[k] = chain[k] /\ k \in 1 .. Height
    BY <1>t, <2>1
  <2> QED BY <2>2 DEF ChainNumbered, Height
<1>3. CASE chain' = chain
  BY <1>3 DEF ChainNumbered, Height
<1>4. ASSUME NEW c \in Conns, Socket(c) PROVE chain' = chain
  BY <1>4 DEF Socket, WsConnect, WsEnds, WsHead, WsLog, WsInsert, WsRemoved, netVars
<1>5. ASSUME ScanStep \/ ScanFails \/ Heartbeat \/ Restart PROVE chain' = chain
  BY <1>5 DEF ScanStep, ScanHead, ScanAnchor, ScanRange, ScanLogs, ScanHeaders, ScanApply,
              ScanInsert, ScanFinish, ScanVerify, ScanFails, Heartbeat, Restart, netVars
<1>6. ASSUME ConsumerNext PROVE chain' = chain
  BY <1>6 DEF ConsumerNext, Subscribe, ReadSnapshot, SnapshotRefused, Consume, MessageRefused,
              SessionFails, netVars
<1>7. ASSUME UNCHANGED allVars PROVE chain' = chain
  BY <1>7 DEF allVars, vars, netVars
<1> QED BY <1>1, <1>2, <1>3, <1>4, <1>5, <1>6, <1>7 DEF Next, FeedNext, Network

LEMMA TypeStep ==
  ASSUME FeedTypeOK, BusOfItsTime, ScanHasHead, [Next]_allVars
  PROVE  FeedTypeOK'
<1>1. CASE UNCHANGED allVars
  BY <1>1 DEF allVars, vars, netVars, feedVars, busVars, FeedTypeOK
<1> QED BY <1>1, SocketTypeStep, ScanTypeStep, SessionTypeStep DEF Next, FeedNext

LEMMA BusStep ==
  ASSUME FeedTypeOK, BusInv, ScanHasHead, [Next]_allVars
  PROVE  BusInv'
<1>1. ASSUME Network, UNCHANGED consumer PROVE BusInv'
  BY <1>1, QuietStep DEF Network, Grow, Rollback, feedVars
<1>2. ASSUME NEW c \in Conns, Socket(c), UNCHANGED consumer PROVE BusInv'
  <2>1. CASE WsInsert(c)
    <3>1. ws[c].pending \in Events
      BY <2>1 DEF WsInsert, FeedTypeOK, Sockets
    <3> QED BY <1>2, <2>1, <3>1, InsertStep DEF WsInsert
  <2>2. CASE WsRemoved(c)
    BY <1>2, <2>2, ResetStep DEF WsRemoved
  <2>3. CASE WsConnect(c) \/ WsEnds(c) \/ WsLog(c) \/ \E b \in Blocks : WsHead(c, b)
    BY <1>2, <2>3, QuietStep DEF WsConnect, WsEnds, WsLog, WsHead, feedVars
  <2> QED BY <1>2, <2>1, <2>2, <2>3 DEF Socket
<1>3. ASSUME ScanStep \/ ScanFails, UNCHANGED consumer PROVE BusInv'
  <2>1. CASE ScanHead \/ ScanRange \/ ScanLogs \/ ScanHeaders \/ ScanFinish \/ ScanFails
    BY <1>3, <2>1, QuietStep
       DEF ScanHead, ScanRange, ScanLogs, ScanHeaders, ScanFinish, ScanFails, feedVars
  <2>2. CASE ScanAnchor
    <3>1. CASE UNCHANGED <<events, sequence, initialized, busVars>>
      BY <1>3, <2>2, <3>1, QuietStep DEF ScanAnchor
    <3>2. CASE Reset /\ sequence' = sequence + 1 /\ UNCHANGED replaced
      BY <1>3, <2>2, <3>2, ResetStep DEF ScanAnchor
    <3> QED BY <2>2, <3>1, <3>2 DEF ScanAnchor, feedVars
  <2>3. CASE ScanApply
    <3>1. CASE UNCHANGED <<events, sequence, bus, listening>>
      BY <1>3, <2>3, <3>1, QuietStep DEF ScanApply, busVars
    <3>2. CASE Reset /\ sequence' = sequence + 1
      BY <1>3, <2>3, <3>2, ResetStep DEF ScanApply
    <3> QED BY <2>3, <3>1, <3>2 DEF ScanApply
  <2>4. ASSUME NEW e \in Events, ScanInsert(e) PROVE BusInv'
    BY <1>3, <2>4, InsertStep DEF ScanInsert
  <2>5. CASE ScanVerify
    BY <1>3, <2>5, VerifyStep
  <2> QED BY <1>3, <2>1, <2>2, <2>3, <2>4, <2>5 DEF ScanStep
<1>4. CASE UNCHANGED allVars
  BY <1>4, QuietStep DEF allVars, vars, feedVars
<1> QED
  BY <1>1, <1>2, <1>3, <1>4, HeartbeatStep, RestartStep, ConsumerStep DEF Next, FeedNext

LEMMA ScanInvStep ==
  ASSUME FeedTypeOK, ChainNumbered, ScanInv, [Next]_allVars
  PROVE  ScanInv'
<1>1. ASSUME Network PROVE ScanInv'
  BY <1>1, ScanDisturbedStep DEF Network, Grow, Rollback, feedVars
<1>2. ASSUME NEW c \in Conns, Socket(c) PROVE ScanInv'
  <2>1. CASE WsInsert(c)
    <3>1. initialized' = initialized BY <2>1 DEF WsInsert, Insert, feedVars
    <3> QED BY <2>1, <3>1, ScanDisturbedStep DEF WsInsert
  <2>2. CASE WsRemoved(c) BY <2>2, ScanDisturbedStep DEF WsRemoved
  <2>3. CASE WsConnect(c) \/ WsEnds(c) \/ WsLog(c) \/ \E b \in Blocks : WsHead(c, b)
    BY <2>3, ScanQuietStep DEF WsConnect, WsEnds, WsLog, WsHead, netVars, feedVars
  <2> QED BY <1>2, <2>1, <2>2, <2>3 DEF Socket
<1>3. ASSUME Heartbeat \/ ConsumerNext \/ UNCHANGED allVars PROVE ScanInv'
  BY <1>3, ScanQuietStep
     DEF Heartbeat, ConsumerNext, Subscribe, ReadSnapshot, SnapshotRefused, Consume,
         MessageRefused, SessionFails, allVars, vars, netVars, feedVars
<1>4. CASE Restart
  BY <1>4, ScanEndsStep DEF Restart
<1> QED BY <1>1, <1>2, <1>3, <1>4, ScanStepInv DEF Next, FeedNext

\* The inductive invariant of the feed, its bus and a session: the messages on
\* the bus are numbered once and lead a connected session to the feed's number
\* with the feed's events; an undisturbed scan has read the chain's logs.
THEOREM FeedInvariant == Spec => []FeedInv
<1>1. InitAll => FeedInv
  BY TypeInit, BusInit, ScanInit, ChainInit DEF FeedInv, BusInv, ScanInv
<1>2. FeedInv /\ [Next]_allVars => FeedInv'
  BY TypeStep, BusStep, ScanInvStep, ChainStep DEF FeedInv, BusInv, ScanInv
<1> QED BY <1>1, <1>2, PTL DEF Spec

\* Every variable of the feed, the bus and the session keeps its type; a scan
\* never asks a provider that is not there (uma.rs rescan, rescan_on).
THEOREM FeedTypeCorrect == Spec => []FeedTypeOK
BY FeedInvariant, PTL DEF FeedInv

\* A session that has applied every number of the feed's epoch holds exactly the
\* feed's events, whatever the bus dropped, except those whose key was taken
\* over (native_uma::next_sequence, native_session).
THEOREM SessionInStep == Spec => []InStep
<1>1. FeedInv => InStep
  <2> SUFFICES ASSUME FeedInv, CaughtUp PROVE consumer.cache \ replaced = events
    BY DEF InStep
  <2>1. consumer.epoch = epoch /\ consumer.sequence = sequence /\ sequence \in Nat
    BY DEF CaughtUp, FeedInv, FeedTypeOK
  <2>2. Connected
    BY <2>1 DEF Connected
  <2>3. bus \in Seq(Messages)
    BY DEF FeedInv, FeedTypeOK
  <2>4. ASSUME NEW m \in QueueOf(bus), Announces(m) PROVE ~(m.sequence > consumer.sequence)
    <3>1. m \in Messages BY <2>3, QueueTyped
    <3>2. m.sequence \in Nat /\ m.sequence <= sequence
      BY <2>4, <3>1 DEF FeedInv, BusOfItsTime, Announces, Messages
    <3> QED BY <2>1, <3>2
  <2>5. Coming = {}
    BY <2>4 DEF Coming
  <2> QED BY <2>1, <2>2, <2>5 DEF FeedInv, Following
<1> QED BY <1>1, FeedInvariant, PTL

\* A scan nothing else interfered with leaves exactly the chain's events in the
\* blocks it read, whatever was cached before (rescan_on).
THEOREM UndisturbedScanRepairs == Spec => ScanRepairs
<1>1. FeedInv /\ ScanFinish /\ scan.calm
        => {e \in events' : Number(e) \in scan.range} = LogsIn(scan.range)
  BY DEF FeedInv, ScanKnows, ScanFinish, InRange
<1>2. FeedInv /\ [Next]_allVars
        => [ScanFinish /\ scan.calm
              => {e \in events' : Number(e) \in scan.range} = LogsIn(scan.range)]_allVars
  BY <1>1
<1> QED BY <1>2, FeedInvariant, PTL DEF Spec, ScanRepairs

=============================================================================
