---------------------------- MODULE HistoryProofs ----------------------------
(***************************************************************************)
(* The history service is never told something the journal takes back, and *)
(* only what it holds leaves the export: for any number of orders, batches *)
(* of any size, and any deaths, lost requests and failed writes.           *)
(***************************************************************************)
EXTENDS History, JournalProofs

\* What the journal says of an order after its log has grown.
LEMMA RecoveredAfterPrepare ==
  ASSUME JournalInv, NEW s \in Signals, Preparable(s),
         log' = log \/ log' = Append(log, Prepared(s))
  PROVE  /\ s.id \in Ids /\ RecoveredState(log, s.id) = "absent"
         /\ \A i \in Ids \ {s.id} : RecoveredState(log', i) = RecoveredState(log, i)
         /\ \A n \in DOMAIN log : log'[n] = log[n]
<1> USE DEF JournalInv
<1>1. /\ up /\ ~failed /\ s.id \in Ids /\ log \in Seq(Records)
      /\ Replayable(log) /\ LatestExists(log)
  BY DEF Preparable, Signals, JournalTypeOK, RestartAccepted
<1>2. PrepPositions(log, s.id) = {}
  BY <1>1, KnownIsPrepared DEF Preparable
<1>3. RecoveredState(log, s.id) = "absent"
  BY <1>2 DEF RecoveredState
<1>4. ASSUME NEW i \in Ids \ {s.id}, log' = Append(log, Prepared(s))
      PROVE  RecoveredState(log', i) = RecoveredState(log, i)
  <2>1. /\ PrepPositions(log', i) = PrepPositions(log, i)
        /\ ResultPositions(log', i) = ResultPositions(log, i)
        /\ \A n \in DOMAIN log : log'[n] = log[n]
    BY <1>1, <1>4, AppendPrepared
  <2> QED BY <1>1, <2>1, RecoverySame
<1>5. \A n \in DOMAIN log : log'[n] = log[n]
  BY <1>1, AppendPrepared
<1> QED BY <1>1, <1>3, <1>4, <1>5

LEMMA RecoveredAfterFinish ==
  ASSUME JournalInv, NEW j \in Ids, NEW st \in Outcomes, Finishable(j),
         log' = log \/ log' = Append(log, Result(j, st))
  PROVE  /\ \A i \in Ids \ {j} : RecoveredState(log', i) = RecoveredState(log, i)
         /\ RecoveredState(log', j) \in {RecoveredState(log, j), st}
         /\ log' = Append(log, Result(j, st)) =>
              /\ RecoveredState(log', j) = st
              /\ log'[Len(log) + 1].state = st
         /\ \A n \in DOMAIN log : log'[n] = log[n]
<1> USE DEF JournalInv
<1>1. /\ up /\ ~failed /\ log \in Seq(Records)
      /\ Replayable(log) /\ LatestExists(log) /\ PrepPositions(log, j) # {}
  BY KnownIsPrepared DEF Finishable, JournalTypeOK, RestartAccepted
<1>2. CASE log' = log
  <2>1. log' # Append(log, Result(j, st))
    BY <1>1, <1>2, AppendResult
  <2> QED BY <1>2, <2>1
<1>3. CASE log' = Append(log, Result(j, st))
  <2>1. /\ \A i \in Ids : PrepPositions(log', i) = PrepPositions(log, i)
        /\ \A n \in DOMAIN log : log'[n] = log[n]
        /\ log'[Len(log) + 1] = Result(j, st)
        /\ \A i \in Ids : ResultPositions(log', i) =
             IF i = j THEN ResultPositions(log, i) \cup {Len(log) + 1}
                      ELSE ResultPositions(log, i)
    BY <1>1, <1>3, AppendResult
  <2>2. ASSUME NEW i \in Ids \ {j} PROVE RecoveredState(log', i) = RecoveredState(log, i)
    BY <1>1, <2>1, RecoverySame
  <2>3. Latest(ResultPositions(log', j)) = Len(log) + 1
    <3>1. /\ ResultPositions(log, j) \subseteq 1 .. Len(log) /\ Len(log) \in Nat
      BY <1>1, PositionsAreLines
    <3>2. /\ ResultPositions(log', j) \in SUBSET Nat /\ Len(log) + 1 \in ResultPositions(log', j)
          /\ \A n \in ResultPositions(log', j) : n <= Len(log) + 1
      BY <2>1, <3>1
    <3> QED BY <3>2, LatestIsGreatest
  <2>4. ResultPositions(log', j) # {}
    BY <2>1
  <2>5. RecoveredState(log', j) = st
    BY <1>1, <2>1, <2>3, <2>4 DEF RecoveredState, Result
  <2> QED BY <2>1, <2>2, <2>5 DEF Result
<1> QED BY <1>2, <1>3

\* What a healthy journal reads is what it will recover.
LEMMA ReadsWhatItRecovers ==
  ASSUME JournalInv, up, ~failed, NEW i \in Ids, index[i].state # "prepared"
  PROVE  /\ index[i].state = RecoveredState(log, i)
         /\ StoredState(i) = index[i].state
<1> USE DEF JournalInv
<1>1. /\ index[i].res = Latest(ResultPositions(log, i))
      /\ index[i].state = RecoveredState(log, i)
      /\ log \in Seq(Records) /\ Replayable(log) /\ LatestExists(log)
  BY DEF IndexMatchesLog, RestartAccepted, JournalTypeOK
<1>2. index[i].res # 0 => /\ ResultPositions(log, i) # {}
                          /\ index[i].state = log[index[i].res].state
  BY <1>1, LatestFinds, RecoveryReads DEF RecoveredState
<1> QED BY <1>1, <1>2 DEF StoredState

-----------------------------------------------------------------------------
(* The journal's part *)

Heard ==
  /\ HistoryTypeOK
  /\ ReceiptsStand
  /\ RunningUnheard
  /\ WaitingStands
  /\ EntriesStand
  /\ DecidedWasUnknown
  /\ VerdictStands

\* Whatever the loops and the tasks do to the journal is one of its operations.
LEMMA JournalOps ==
  ASSUME HistoryTypeOK, [HistoryNext]_historyVars
  PROVE  [JournalNext]_journalVars
<1>r. Results \subseteq Outcomes BY HistoryAssumption
<1>1. ASSUME HistoryOpen \/ Dies PROVE JournalNext
  BY <1>1 DEF HistoryOpen, Dies, JournalNext
<1>2. ASSUME NEW s \in Signals, Begin(s) \/ BeginFails(s) PROVE JournalNext
  BY <1>2 DEF Begin, BeginFails, JournalNext
<1>3. ASSUME NEW i \in Ids, NEW st \in Results, End(i, st) \/ EndFails(i, st) PROVE JournalNext
  BY <1>3, <1>r DEF End, EndFails, JournalNext
<1>4. ASSUME NEW i \in Ids, NEW st \in Outcomes, Decide(i, st) PROVE UNCHANGED journalVars
  BY <1>4 DEF Decide
<1>5. ASSUME ExportStep PROVE JournalNext \/ UNCHANGED journalVars
  <2>1. ASSUME ReadPending \/ PostTaken \/ PostRefused \/ PostFails PROVE UNCHANGED journalVars
    BY <2>1 DEF ReadPending, PostTaken, PostRefused, PostFails
  <2>2. \A e \in exporter.batch : e.id \in Ids
    BY DEF HistoryTypeOK, Receipts
  <2>3. ASSUME Acknowledge \/ AcknowledgeFails PROVE JournalNext \/ UNCHANGED journalVars
    BY <2>2, <2>3 DEF Acknowledge, AcknowledgeFails, JournalNext
  <2> QED BY <1>5, <2>1, <2>3 DEF ExportStep
<1>6. ASSUME ResolveStep PROVE JournalNext \/ UNCHANGED journalVars
  <2>1. ASSUME ReadUnknown \/ AskUndecided \/ AskDecided \/ AskFails PROVE UNCHANGED journalVars
    BY <2>1 DEF ReadUnknown, AskUndecided, AskDecided, AskFails
  <2>2. /\ resolver.batch \subseteq Ids
        /\ resolver.verdict # Undecided => resolver.verdict \in Outcomes
    BY DEF HistoryTypeOK, Outcomes
  <2>3. ASSUME Resolve \/ ResolveFails PROVE JournalNext \/ UNCHANGED journalVars
    BY <2>2, <2>3 DEF Resolve, ResolveFails, Answered, JournalNext
  <2> QED BY <1>6, <2>1, <2>3 DEF ResolveStep
<1>7. ASSUME UNCHANGED historyVars PROVE UNCHANGED journalVars
  BY <1>7 DEF historyVars
<1> QED BY <1>1, <1>2, <1>3, <1>4, <1>5, <1>6, <1>7 DEF HistoryNext

\* What is recovered is an outcome, or nothing.
LEMMA RecoveredTyped ==
  ASSUME JournalInv, NEW i \in Ids
  PROVE  RecoveredState(log, i) \in Outcomes \cup {"absent"}
BY RecoveryReads DEF JournalInv, JournalTypeOK, RestartAccepted

\* What stood stands, when the log says the same of the order or the decision.
LEMMA StandsKept ==
  ASSUME NEW i \in Ids, NEW st, Stands(i, st), Decided(i)' = Decided(i),
         \/ RecoveredState(log', i) = RecoveredState(log, i)
         \/ RecoveredState(log, i) = "unknown" /\ RecoveredState(log', i) = Decided(i)
  PROVE  Stands(i, st)'
BY DEF Stands

\* Rows lead to lines that stay where they are.
LEMMA StoredSame ==
  ASSUME JournalInv, NEW i \in Ids, Known(i), \A n \in DOMAIN log : log'[n] = log[n],
         index'[i].res = index[i].res, index'[i].state = index[i].state
  PROVE  StoredState(i)' = StoredState(i)
<1>1. index[i].res # 0 => index[i].res \in DOMAIN log
  BY DEF JournalInv, ReadsOwnRecords, ResultPositions
<1> QED BY <1>1 DEF StoredState

\* What the service holds or may be told: outcomes, of orders that wait and do not run.
LEMMA WaitingTyped ==
  ASSUME JournalInv, PendingIsExact, Heard, NEW i \in Waiting
  PROVE  /\ i \in Ids /\ up /\ Known(i)
         /\ index[i].state \in {"accepted", "unknown", "rejected"}
         /\ StoredState(i) \in Outcomes
         /\ i \notin running
<1>1. i \in Ids /\ index[i].pending
  BY DEF Waiting
<1>2. up
  <2>1. NoRow.pending = FALSE BY DEF NoRow
  <2> QED BY <1>1, <2>1 DEF JournalInv, DeadKnowsNothing
<1>3. index[i].state \in {"accepted", "unknown", "rejected"}
  BY <1>1, <1>2 DEF PendingIsExact, Pending
<1>4. Known(i)
  BY DEF Heard, WaitingStands
<1>5. index[i].res # 0 => log[index[i].res].state \in Outcomes
  <2>1. CASE index[i].res # 0
    <3>1. /\ index[i].res \in DOMAIN log /\ log[index[i].res].kind = "result"
          /\ log \in Seq(Records)
      BY <1>1, <1>4, <2>1 DEF JournalInv, ReadsOwnRecords, ResultPositions, JournalTypeOK
    <3>2. log[index[i].res] \in Records
      BY <3>1
    <3> QED BY <3>1, <3>2 DEF Records
  <2> QED BY <2>1
<1> QED BY <1>1, <1>2, <1>3, <1>4, <1>5 DEF StoredState, Outcomes, Heard, RunningUnheard

\* The log says the same of the order, or now says what the service decided.
Moved(i) ==
  \/ RecoveredState(log', i) = RecoveredState(log, i)
  \/ RecoveredState(log, i) = "unknown" /\ RecoveredState(log', i) = Decided(i)

Unheard(i) == Told(i) = Untold /\ \A e \in exporter.batch : e.id # i

\* A step that tells the service nothing and reads no batch keeps what stands, if it
\* moves only orders nobody has heard of.
LEMMA Frame ==
  ASSUME Heard, service' = service, running' \subseteq Ids, faults' \in 0 .. MaxFaults,
         \/ exporter' = exporter
         \/ \E B \in SUBSET exporter.batch : exporter' = [batch |-> B, posted |-> FALSE],
         \/ resolver' = resolver
         \/ \E B \in SUBSET Ids : resolver' = [batch |-> B, verdict |-> Undecided],
         up' \/ exporter'.batch = {},
         \A i \in Ids : Moved(i) \/ Unheard(i),
         AckedIds' \subseteq AckedIds \cup {i \in Ids : Told(i) # Untold}
  PROVE  /\ HistoryTypeOK' /\ ReceiptsStand' /\ EntriesStand' /\ DecidedWasUnknown'
         /\ VerdictStands'
<1> USE DEF Heard
<1>t. /\ exporter \in [batch : SUBSET Receipts, posted : BOOLEAN]
      /\ resolver \in [batch : SUBSET Ids, verdict : {Undecided, "rejected", "accepted"}]
  BY DEF HistoryTypeOK
<1>1. exporter' \in [batch : SUBSET Receipts, posted : BOOLEAN]
  <2>1. ASSUME NEW B \in SUBSET exporter.batch
        PROVE  [batch |-> B, posted |-> FALSE] \in [batch : SUBSET Receipts, posted : BOOLEAN]
    <3>1. exporter.batch \in SUBSET Receipts
      BY <1>t
    <3> QED BY <3>1
  <2> QED BY <1>t, <2>1
<1>2. resolver' \in [batch : SUBSET Ids, verdict : {Undecided, "rejected", "accepted"}]
  <2>1. ASSUME NEW B \in SUBSET Ids
        PROVE  [batch |-> B, verdict |-> Undecided]
                 \in [batch : SUBSET Ids, verdict : {Undecided, "rejected", "accepted"}]
    OBVIOUS
  <2> QED BY <1>t, <2>1
<1>3. HistoryTypeOK'
  BY <1>1, <1>2 DEF HistoryTypeOK
<1>s. ASSUME NEW i \in Ids, NEW st, Stands(i, st), Moved(i) PROVE Stands(i, st)'
  BY <1>s DEF Stands, Moved, Decided
<1>4. ReceiptsStand'
  <2> SUFFICES ASSUME NEW i \in Ids
               PROVE  IF Told(i)' = Untold THEN i \notin AckedIds' ELSE Stands(i, Told(i))'
    BY DEF ReceiptsStand
  <2>1. Told(i)' = Told(i)
    BY DEF Told
  <2>2. CASE Told(i) = Untold
    BY <2>1, <2>2 DEF ReceiptsStand
  <2>3. CASE Told(i) # Untold
    <3>1. Moved(i) /\ Stands(i, Told(i))
      BY <2>3 DEF ReceiptsStand, Unheard
    <3>2. Stands(i, Told(i))'
      BY <2>1, <3>1 DEF Stands, Moved, Decided
    <3> QED BY <2>1, <2>3, <3>2
  <2> QED BY <2>2, <2>3
<1>5. EntriesStand'
  <2> SUFFICES ASSUME NEW e \in exporter'.batch
               PROVE  up' /\ Stands(e.id, e.state)' /\ (Posted(e)' => Told(e.id)' # Untold)
    BY DEF EntriesStand
  <2>1. e \in exporter.batch /\ e.id \in Ids
    <3>1. e \in exporter.batch
      OBVIOUS
    <3> QED BY <3>1, <1>t DEF Receipts
  <2>2. up'
    OBVIOUS
  <2>3. Stands(e.id, e.state)'
    <3>1. Stands(e.id, e.state) /\ Moved(e.id)
      BY <2>1 DEF EntriesStand, Unheard
    <3> QED BY <3>1, <2>1, <1>s
  <2>4. Posted(e)' => Posted(e)
    BY <1>t DEF Posted
  <2>5. Told(e.id)' = Told(e.id)
    BY DEF Told
  <2> QED BY <2>1, <2>2, <2>3, <2>4, <2>5 DEF EntriesStand
<1>6. DecidedWasUnknown'
  BY DEF DecidedWasUnknown, Told, Decided
<1>7. VerdictStands'
  BY DEF VerdictStands, Answered, Decided
<1> QED BY <1>3, <1>4, <1>5, <1>6, <1>7

\* A waiting order whose row keeps its lines stands as before.
LEMMA WaitingKept ==
  ASSUME JournalInv, Heard, service' = service, NEW i \in Waiting, Moved(i),
         \A n \in DOMAIN log : log'[n] = log[n],
         index'[i].prep = index[i].prep, index'[i].res = index[i].res,
         index'[i].state = index[i].state
  PROVE  Known(i)' /\ Stands(i, StoredState(i))'
<1>1. i \in Ids /\ Known(i) /\ Stands(i, StoredState(i))
  BY DEF Waiting, Heard, WaitingStands
<1>2. StoredState(i)' = StoredState(i)
  BY <1>1, StoredSame
<1>3. Stands(i, StoredState(i))'
  BY <1>1, <1>2 DEF Stands, Moved, Decided
<1> QED BY <1>1, <1>3 DEF Known

-----------------------------------------------------------------------------
(* One lemma for each kind of step *)

LEMMA OpenHeard ==
  ASSUME JournalInv, PendingIsExact, Heard, HistoryOpen
  PROVE  Heard'
<1> USE DEF JournalInv
<1>1. /\ ~up /\ up' /\ log' = log /\ acks' = acks /\ ackTail' = ackTail
      /\ index' = [i \in Ids |-> RebuiltRow(i)]
      /\ UNCHANGED <<running, exporter, resolver, service, faults>>
  BY DEF HistoryOpen, Open
<1>2. running = {} /\ exporter.batch = {}
  BY <1>1 DEF Heard, RunningUnheard, EntriesStand
<1>3. /\ HistoryTypeOK' /\ ReceiptsStand' /\ EntriesStand' /\ DecidedWasUnknown'
      /\ VerdictStands'
  <2>1. AckedIds' \subseteq AckedIds /\ running' \subseteq Ids /\ faults' \in 0 .. MaxFaults
    BY <1>1 DEF AckedIds, Heard, HistoryTypeOK
  <2>2. \A i \in Ids : Moved(i)
    BY <1>1 DEF Moved
  <2> QED BY <1>1, <2>1, <2>2, Frame
<1>4. WaitingStands'
  <2> SUFFICES ASSUME NEW i \in Ids, index'[i].pending
               PROVE  Known(i)' /\ Stands(i, StoredState(i))'
    BY DEF WaitingStands, Waiting
  <2>1. index'[i] = RebuiltRow(i)
    BY <1>1
  <2>2. PrepPositions(log, i) # {}
    BY <2>1 DEF RebuiltRow, NoRow
  <2>3. /\ index'[i].prep = Latest(PrepPositions(log, i))
        /\ index'[i].res = Latest(ResultPositions(log, i))
        /\ index'[i].state = RecoveredState(log, i)
    BY <2>1, <2>2 DEF RebuiltRow
  <2>4. log \in Seq(Records) /\ Replayable(log) /\ LatestExists(log)
    BY DEF JournalTypeOK, RestartAccepted
  <2>5. Known(i)'
    BY <2>2, <2>3, <2>4, LatestFinds DEF Known
  <2>6. StoredState(i)' = RecoveredState(log, i)
    <3>1. index'[i].res # 0 => log[index'[i].res].state = RecoveredState(log, i)
      BY <2>2, <2>3, <2>4, LatestFinds DEF RecoveredState
    <3> QED BY <1>1, <2>3, <3>1 DEF StoredState
  <2> QED BY <1>1, <2>5, <2>6 DEF Stands
<1> QED BY <1>1, <1>2, <1>3, <1>4 DEF Heard, RunningUnheard

LEMMA DiesHeard ==
  ASSUME JournalInv, PendingIsExact, Heard, Dies
  PROVE  Heard'
<1>1. /\ log' = log /\ acks' = acks /\ ackTail' = ackTail
      /\ index' = [i \in Ids |-> NoRow] /\ service' = service
      /\ running' = {} /\ exporter' = NoExport /\ resolver' = NoResolve
      /\ faults < MaxFaults /\ faults' = faults + 1
  BY DEF Dies, Fault, Crash, diskVars
<1>2. /\ HistoryTypeOK' /\ ReceiptsStand' /\ EntriesStand' /\ DecidedWasUnknown'
      /\ VerdictStands'
  <2>1. AckedIds' \subseteq AckedIds
    BY <1>1 DEF AckedIds
  <2>2. faults' \in 0 .. MaxFaults
    BY <1>1, HistoryAssumption DEF Heard, HistoryTypeOK
  <2>3. \A i \in Ids : Moved(i)
    BY <1>1 DEF Moved
  <2>4. /\ \E B \in SUBSET exporter.batch : exporter' = [batch |-> B, posted |-> FALSE]
        /\ \E B \in SUBSET Ids : resolver' = [batch |-> B, verdict |-> Undecided]
        /\ exporter'.batch = {}
    BY <1>1 DEF NoExport, NoResolve
  <2> QED BY <1>1, <2>1, <2>2, <2>3, <2>4, Frame
<1>3. WaitingStands'
  BY <1>1 DEF WaitingStands, Waiting, NoRow
<1> QED BY <1>1, <1>2, <1>3 DEF Heard, RunningUnheard

\* Of an order without a line nobody has heard.
LEMMA AbsentUnheard ==
  ASSUME Heard, NEW i \in Ids, RecoveredState(log, i) = "absent"
  PROVE  Unheard(i)
<1>1. /\ Told(i) \in Outcomes \cup {Untold} /\ Decided(i) # "absent"
      /\ \A e \in exporter.batch : e.state \in Outcomes
  BY DEF Heard, HistoryTypeOK, Told, Decided, Undecided, Receipts
<1>2. \A st \in Outcomes : ~Stands(i, st)
  BY <1>1 DEF Stands, Outcomes
<1>3. Told(i) = Untold
  BY <1>1, <1>2 DEF Heard, ReceiptsStand
<1>4. \A e \in exporter.batch : e.id # i
  BY <1>1, <1>2 DEF Heard, EntriesStand
<1> QED BY <1>3, <1>4 DEF Unheard

LEMMA BeginHeard ==
  ASSUME JournalInv, PendingIsExact, Heard, NEW s \in Signals, Begin(s) \/ BeginFails(s)
  PROVE  Heard'
<1> USE DEF JournalInv
<1>1. /\ Preparable(s) /\ s.id \in Ids /\ up /\ up' /\ ~failed
      /\ log' = log \/ log' = Append(log, Prepared(s))
      /\ acks' = acks /\ ackTail' = ackTail
      /\ UNCHANGED <<exporter, resolver, service>>
  BY DEF Begin, BeginFails, Prepare, PrepareAppendFails, PrepareIndexFails, Append1,
         AppendBroken, Preparable, Signals
<1>2. /\ RecoveredState(log, s.id) = "absent"
      /\ \A i \in Ids \ {s.id} : RecoveredState(log', i) = RecoveredState(log, i)
      /\ \A n \in DOMAIN log : log'[n] = log[n]
  BY <1>1, RecoveredAfterPrepare
<1>3. Unheard(s.id)
  BY <1>1, <1>2, AbsentUnheard
<1>m. \A i \in Ids : Moved(i) \/ Unheard(i)
  BY <1>2, <1>3 DEF Moved
<1>4. /\ HistoryTypeOK' /\ ReceiptsStand' /\ EntriesStand' /\ DecidedWasUnknown'
      /\ VerdictStands'
  <2>1. AckedIds' \subseteq AckedIds
    BY <1>1 DEF AckedIds
  <2>2. faults' \in 0 .. MaxFaults /\ running' \subseteq Ids
    BY <1>1, HistoryAssumption DEF Heard, HistoryTypeOK, Begin, BeginFails, Fault
  <2> QED BY <1>1, <1>m, <2>1, <2>2, Frame
<1>5. \A i \in Ids \ {s.id} : index'[i] = index[i]
  BY DEF Begin, BeginFails, Prepare, PrepareAppendFails, PrepareIndexFails, InsertRow, JournalTypeOK
<1>6. \/ /\ index'[s.id].prep # 0 /\ index'[s.id].res = 0
         /\ index'[s.id].state = "prepared" /\ index'[s.id].pending = FALSE
      \/ index'[s.id] = index[s.id] /\ running' = running
  <2>1. CASE Begin(s)
    <3> DEFINE row == [NoRow EXCEPT !.prep = length + 1, !.state = "prepared",
                                    !.pending = Pending(s.id, "prepared")]
    <3>1. index' = [index EXCEPT ![s.id] = row] /\ index \in [Ids -> Rows] /\ length \in Nat
      BY <2>1 DEF Begin, Prepare, InsertRow, JournalTypeOK
    <3>2. Pending(s.id, "prepared") = FALSE
      BY DEF Pending
    <3>3. row.prep # 0 /\ row.res = 0 /\ row.state = "prepared"
      BY <3>1 DEF NoRow
    <3>4. row.pending = FALSE
      BY <3>2 DEF NoRow
    <3> HIDE DEF row
    <3> QED BY <1>1, <3>1, <3>3, <3>4
  <2>2. CASE BeginFails(s)
    BY <2>2 DEF BeginFails, PrepareAppendFails, PrepareIndexFails
  <2> QED BY <2>1, <2>2
<1>7. RunningUnheard'
  <2> SUFFICES ASSUME NEW i \in running'
               PROVE  /\ up' /\ index'[i].prep # 0 /\ index'[i].res = 0
                      /\ index'[i].state = "prepared" /\ Told(i)' = Untold
                      /\ \A e \in exporter'.batch : e.id # i
    BY DEF RunningUnheard
  <2>1. i \in running \/ (i = s.id /\ running' # running)
    BY DEF Begin, BeginFails
  <2>2. s.id \notin running
    BY <1>1 DEF Heard, RunningUnheard, Preparable, Known
  <2>3. running \subseteq Ids
    BY DEF Heard, HistoryTypeOK
  <2>4. CASE i \in running
    BY <1>1, <1>5, <2>2, <2>3, <2>4 DEF Heard, RunningUnheard, Told
  <2>5. CASE i = s.id /\ running' # running
    BY <1>1, <1>3, <1>6, <2>5 DEF Unheard, Told
  <2> QED BY <2>1, <2>4, <2>5
<1>8. WaitingStands'
  <2> SUFFICES ASSUME NEW i \in Ids, index'[i].pending
               PROVE  Known(i)' /\ Stands(i, StoredState(i))'
    BY DEF WaitingStands, Waiting
  <2>1. s.id \notin Waiting
    BY <1>1, WaitingTyped DEF Preparable
  <2>2. i # s.id
    BY <1>1, <1>6, <2>1 DEF Waiting
  <2>3. i \in Waiting /\ index'[i] = index[i] /\ Moved(i)
    BY <1>2, <1>5, <2>2 DEF Waiting, Moved
  <2> QED BY <1>1, <1>2, <2>3, WaitingKept
<1> QED BY <1>4, <1>7, <1>8 DEF Heard

LEMMA EndHeard ==
  ASSUME JournalInv, PendingIsExact, Heard, NEW j \in Ids, NEW st \in Outcomes,
         End(j, st) \/ EndFails(j, st)
  PROVE  Heard'
<1> USE DEF JournalInv
<1>1. /\ Finishable(j) /\ up /\ up' /\ ~failed /\ j \in running
      /\ log' = log \/ log' = Append(log, Result(j, st))
      /\ acks' = acks /\ ackTail' = ackTail /\ running' = running \ {j}
      /\ UNCHANGED <<exporter, resolver, service>>
  BY DEF End, EndFails, Finish, FinishAppendFails, FinishIndexFails, Append1,
         AppendBroken, Finishable
<1>2. /\ \A i \in Ids \ {j} : RecoveredState(log', i) = RecoveredState(log, i)
      /\ \A n \in DOMAIN log : log'[n] = log[n]
      /\ log' = Append(log, Result(j, st)) =>
           RecoveredState(log', j) = st /\ log'[Len(log) + 1].state = st
  BY <1>1, RecoveredAfterFinish
<1>3. Unheard(j)
  BY <1>1 DEF Heard, RunningUnheard, Unheard
<1>m. \A i \in Ids : Moved(i) \/ Unheard(i)
  BY <1>2, <1>3 DEF Moved
<1>4. /\ HistoryTypeOK' /\ ReceiptsStand' /\ EntriesStand' /\ DecidedWasUnknown'
      /\ VerdictStands'
  <2>1. AckedIds' \subseteq AckedIds
    BY <1>1 DEF AckedIds
  <2>2. faults' \in 0 .. MaxFaults /\ running' \subseteq Ids
    BY <1>1, HistoryAssumption DEF Heard, HistoryTypeOK, End, EndFails, Fault
  <2> QED BY <1>1, <1>m, <2>1, <2>2, Frame
<1>5. \A i \in Ids \ {j} : index'[i] = index[i]
  BY DEF End, EndFails, Finish, FinishAppendFails, FinishIndexFails, UpdateRow, JournalTypeOK
<1>6. RunningUnheard'
  BY <1>1, <1>5 DEF Heard, RunningUnheard, Told, HistoryTypeOK
<1>7. WaitingStands'
  <2> SUFFICES ASSUME NEW i \in Ids, index'[i].pending
               PROVE  Known(i)' /\ Stands(i, StoredState(i))'
    BY DEF WaitingStands, Waiting
  <2>1. CASE i # j
    <3>1. i \in Waiting /\ index'[i] = index[i] /\ Moved(i)
      BY <1>2, <1>5, <2>1 DEF Waiting, Moved
    <3> QED BY <1>1, <1>2, <3>1, WaitingKept
  <2>2. CASE i = j /\ End(j, st)
    <3> DEFINE row == [index[j] EXCEPT !.res = length + 1, !.state = st,
                                       !.pending = Pending(j, st) /\ ~index[j].exported]
    <3>1. /\ index' = [index EXCEPT ![j] = row] /\ index \in [Ids -> Rows] /\ length \in Nat
          /\ log' = Append(log, Result(j, st)) /\ length = Len(log)
      BY <1>1, <2>2 DEF End, Finish, UpdateRow, JournalTypeOK, Append1, IndexMatchesLog
    <3>2. row.prep = index[j].prep /\ row.res = length + 1 /\ row.state = st
      BY <3>1 DEF Rows
    <3> HIDE DEF row
    <3>3. index'[j] = row /\ length + 1 # 0
      BY <3>1
    <3>4. Known(j)'
      BY <1>1, <3>2, <3>3 DEF Known, Finishable
    <3>5. StoredState(j)' = st
      BY <1>2, <3>1, <3>2, <3>3 DEF StoredState
    <3> QED BY <1>2, <2>2, <3>1, <3>4, <3>5 DEF Stands
  <2>3. CASE i = j /\ EndFails(j, st)
    <3>1. index' = index
      BY <2>3 DEF EndFails, FinishAppendFails, FinishIndexFails
    <3> QED BY <1>1, <2>3, <3>1, WaitingTyped DEF Waiting
  <2> QED BY <2>1, <2>2, <2>3
<1> QED BY <1>4, <1>6, <1>7 DEF Heard

LEMMA DecideHeard ==
  ASSUME JournalInv, PendingIsExact, Heard, NEW j \in Ids, NEW st \in Outcomes, Decide(j, st)
  PROVE  Heard'
<1> USE DEF Heard
<1>1. /\ UNCHANGED <<journalVars, running, exporter, resolver, faults>>
      /\ Told(j) = "unknown" /\ Decided(j) = Undecided /\ st \in {"rejected", "accepted"}
      /\ service' = [service EXCEPT !.decided[j] = st]
  BY DEF Decide
<1>2. UNCHANGED <<log, acks, ackTail, up, index>>
  BY <1>1 DEF journalVars, diskVars, processVars
<1>3. service \in [told : [Ids -> Outcomes \cup {Untold}],
                  decided : [Ids -> {Undecided, "rejected", "accepted"}], refused : SUBSET Ids]
  BY DEF HistoryTypeOK
<1>4. /\ service'.told = service.told /\ service'.refused = service.refused
      /\ service'.decided = [service.decided EXCEPT ![j] = st]
      /\ service' \in [told : [Ids -> Outcomes \cup {Untold}],
                  decided : [Ids -> {Undecided, "rejected", "accepted"}], refused : SUBSET Ids]
  BY <1>1, <1>3
<1>5. \A i \in Ids : Told(i)' = Told(i) /\ (Decided(i) # Undecided => Decided(i)' = Decided(i))
  BY <1>1, <1>3, <1>4 DEF Told, Decided
<1>6. ASSUME NEW i \in Ids, NEW v, Stands(i, v) PROVE Stands(i, v)'
  <2>1. RecoveredState(log, i) # Undecided
    BY RecoveredTyped DEF Undecided, Outcomes
  <2>2. RecoveredState(log', i) = RecoveredState(log, i)
    BY <1>2
  <2> QED BY <1>5, <1>6, <2>1, <2>2 DEF Stands
<1>7. HistoryTypeOK'
  BY <1>1, <1>4 DEF HistoryTypeOK
<1>8. ReceiptsStand'
  BY <1>2, <1>5, <1>6 DEF ReceiptsStand, AckedIds
<1>9. RunningUnheard'
  BY <1>1, <1>2, <1>5 DEF RunningUnheard, HistoryTypeOK
<1>10. WaitingStands'
  <2>1. /\ Waiting' = Waiting
        /\ \A i \in Waiting : i \in Ids /\ StoredState(i)' = StoredState(i) /\ Known(i)' = Known(i)
    BY <1>2 DEF Waiting, StoredState, Known
  <2> QED BY <1>6, <2>1 DEF WaitingStands
<1>11. EntriesStand'
  <2>1. \A e \in exporter.batch : e.id \in Ids
    BY DEF HistoryTypeOK, Receipts
  <2> QED BY <1>1, <1>2, <1>5, <1>6, <2>1 DEF EntriesStand, Posted
<1>12. DecidedWasUnknown'
  BY <1>1, <1>3, <1>4 DEF DecidedWasUnknown, Told, Decided
<1>13. VerdictStands'
  <2>1. ASSUME NEW i \in resolver.batch, Answered(i) PROVE resolver.verdict = Decided(i)'
    <3>1. i \in Ids /\ resolver.verdict = Decided(i) /\ resolver.verdict # Undecided
      BY <2>1 DEF VerdictStands, Answered, HistoryTypeOK
    <3> QED BY <1>5, <3>1
  <2> QED BY <1>1, <2>1 DEF VerdictStands, Answered
<1> QED BY <1>7, <1>8, <1>9, <1>10, <1>11, <1>12, <1>13

LEMMA ReadPendingHeard ==
  ASSUME JournalInv, PendingIsExact, Heard, ReadPending
  PROVE  Heard'
<1> USE DEF Heard
<1>1. PICK B \in SUBSET Waiting :
        exporter' = [exporter EXCEPT !.batch = {[id |-> i, state |-> StoredState(i)] : i \in B}]
  BY DEF ReadPending, FirstOf
<1>2. /\ exporter = NoExport /\ up
      /\ UNCHANGED <<journalVars, running, resolver, service, faults>>
      /\ UNCHANGED <<log, acks, ackTail, up, index>>
  BY DEF ReadPending, journalVars, diskVars, processVars
<1>3. /\ exporter'.batch = {[id |-> i, state |-> StoredState(i)] : i \in B}
      /\ exporter'.posted = FALSE
      /\ exporter' = [batch |-> exporter'.batch, posted |-> FALSE]
  BY <1>1, <1>2 DEF NoExport
<1>4. \A i \in B : /\ i \in Ids /\ StoredState(i) \in Outcomes /\ i \notin running
                  /\ Stands(i, StoredState(i))
  BY WaitingTyped DEF WaitingStands
<1>5. HistoryTypeOK'
  <2>1. exporter'.batch \subseteq Receipts
    BY <1>3, <1>4 DEF Receipts
  <2>2. exporter' \in [batch : SUBSET Receipts, posted : BOOLEAN]
    BY <1>3, <2>1
  <2> QED BY <1>2, <2>2 DEF HistoryTypeOK
<1>k. \A i, st : Stands(i, st)' = Stands(i, st)
  BY <1>2 DEF Stands, Decided
<1>6. EntriesStand'
  <2> SUFFICES ASSUME NEW e \in exporter'.batch
               PROVE  up' /\ Stands(e.id, e.state)' /\ (Posted(e)' => Told(e.id)' # Untold)
    BY DEF EntriesStand
  <2>1. PICK i \in B : e = [id |-> i, state |-> StoredState(i)]
    BY <1>3
  <2>2. Stands(e.id, e.state)
    BY <1>4, <2>1
  <2> QED BY <1>2, <1>3, <1>k, <2>2 DEF Posted
<1>7. RunningUnheard'
  <2>1. \A e \in exporter'.batch : e.id \notin running
    BY <1>3, <1>4
  <2> QED BY <1>2, <2>1 DEF RunningUnheard, Told
<1>8. ReceiptsStand' /\ DecidedWasUnknown' /\ VerdictStands'
  BY <1>2, <1>k DEF ReceiptsStand, DecidedWasUnknown, VerdictStands, Told, Decided, AckedIds, Answered
<1>9. WaitingStands'
  <2>1. /\ Waiting' = Waiting
        /\ \A i \in Waiting : StoredState(i)' = StoredState(i) /\ Known(i)' = Known(i)
    BY <1>2 DEF Waiting, StoredState, Known
  <2> QED BY <1>k, <2>1 DEF WaitingStands
<1> QED BY <1>5, <1>6, <1>7, <1>8, <1>9

\* The service takes the next receipt.
LEMMA KeepHeard ==
  ASSUME JournalInv, Heard, NEW e \in exporter.batch, NextReceipt(e), service' = Keep(e),
         UNCHANGED <<journalVars, running, resolver>>, faults' \in 0 .. MaxFaults,
         \/ exporter' = [exporter EXCEPT !.posted = TRUE]
         \/ exporter' = NoExport
  PROVE  Heard'
<1> USE DEF Heard
<1>1. UNCHANGED <<log, acks, ackTail, up, index>>
  BY DEF journalVars, diskVars, processVars
<1>2. /\ service \in [told : [Ids -> Outcomes \cup {Untold}],
                      decided : [Ids -> {Undecided, "rejected", "accepted"}], refused : SUBSET Ids]
      /\ exporter \in [batch : SUBSET Receipts, posted : BOOLEAN]
      /\ e \in Receipts /\ e.id \in Ids /\ e.state \in Outcomes /\ e.state # Untold
  BY DEF HistoryTypeOK, Receipts, Outcomes, Untold
<1>3. /\ service' \in [told : [Ids -> Outcomes \cup {Untold}],
                       decided : [Ids -> {Undecided, "rejected", "accepted"}], refused : SUBSET Ids]
      /\ service'.decided = service.decided
      /\ \A i \in Ids : service'.told[i] = IF i = e.id /\ service.told[i] = Untold
                                           THEN e.state ELSE service.told[i]
  BY <1>2 DEF Keep, Told
<1>4. exporter' \in [batch : SUBSET Receipts, posted : BOOLEAN]
  <2>1. NoExport \in [batch : SUBSET Receipts, posted : BOOLEAN]
    BY DEF NoExport
  <2> QED BY <1>2, <2>1
<1>5. HistoryTypeOK'
  BY <1>3, <1>4 DEF HistoryTypeOK
<1>k. \A i, st : Stands(i, st)' = Stands(i, st)
  BY <1>1, <1>3 DEF Stands, Decided
<1>t. \A i \in Ids : Told(i)' = IF i = e.id /\ Told(i) = Untold THEN e.state ELSE Told(i)
  BY <1>3 DEF Told
<1>6. ReceiptsStand'
  <2>1. Stands(e.id, e.state)
    BY DEF EntriesStand
  <2>2. AckedIds' = AckedIds
    BY <1>1 DEF AckedIds
  <2> QED BY <1>2, <1>k, <1>t, <2>1, <2>2 DEF ReceiptsStand
<1>7. exporter'.batch \subseteq exporter.batch
  BY <1>2 DEF NoExport
<1>8. RunningUnheard'
  <2>1. \A i \in running : i # e.id /\ i \in Ids
    BY DEF RunningUnheard, HistoryTypeOK
  <2> QED BY <1>1, <1>7, <1>t, <2>1 DEF RunningUnheard
<1>9. WaitingStands'
  <2>1. /\ Waiting' = Waiting
        /\ \A i \in Waiting : StoredState(i)' = StoredState(i) /\ Known(i)' = Known(i)
    BY <1>1 DEF Waiting, StoredState, Known
  <2> QED BY <1>k, <2>1 DEF WaitingStands
<1>10. EntriesStand'
  <2> SUFFICES ASSUME NEW f \in exporter'.batch
               PROVE  up' /\ Stands(f.id, f.state)' /\ (Posted(f)' => Told(f.id)' # Untold)
    BY DEF EntriesStand
  <2>1. f \in exporter.batch /\ f.id \in Ids /\ exporter'.batch = exporter.batch
    BY <1>2, <1>7 DEF Receipts, NoExport
  <2>2. Posted(f)' => f.id = e.id
    <3>1. Posted(f)' => IdRank[f.id] <= IdRank[e.id]
      BY <2>1 DEF Posted
    <3>2. IdRank[e.id] <= IdRank[f.id]
      BY <2>1 DEF NextReceipt
    <3> QED BY <1>2, <2>1, <3>1, <3>2, HistoryAssumption
  <2>3. Posted(f)' => Told(f.id)' # Untold
    BY <1>2, <1>t, <2>1, <2>2
  <2> QED BY <1>1, <1>k, <2>1, <2>3 DEF EntriesStand
<1>11. DecidedWasUnknown'
  <2>1. \A i \in Ids : Decided(i)' = Decided(i)
    BY <1>3 DEF Decided
  <2> QED BY <1>t, <2>1 DEF DecidedWasUnknown, Untold
<1>12. VerdictStands'
  BY <1>3 DEF VerdictStands, Answered, Decided
<1> QED BY <1>5, <1>6, <1>8, <1>9, <1>10, <1>11, <1>12

\* A step that changes neither the journal nor what the service holds.
LEMMA QuietHeard ==
  ASSUME JournalInv, Heard, UNCHANGED <<journalVars, running, service>>,
         faults' \in 0 .. MaxFaults,
         \/ exporter' = exporter
         \/ \E B \in SUBSET exporter.batch : exporter' = [batch |-> B, posted |-> FALSE],
         \/ resolver' = resolver
         \/ \E B \in SUBSET Ids : resolver' = [batch |-> B, verdict |-> Undecided]
  PROVE  Heard'
<1>1. UNCHANGED <<log, acks, ackTail, up, index>>
  BY DEF journalVars, diskVars, processVars
<1>2. /\ HistoryTypeOK' /\ ReceiptsStand' /\ EntriesStand' /\ DecidedWasUnknown'
      /\ VerdictStands'
  <2>1. AckedIds' \subseteq AckedIds /\ running' \subseteq Ids
    BY <1>1 DEF AckedIds, Heard, HistoryTypeOK
  <2>2. \A i \in Ids : Moved(i)
    BY <1>1 DEF Moved
  <2>3. up' \/ exporter'.batch = {}
    BY <1>1 DEF Heard, EntriesStand
  <2> QED BY <1>1, <2>1, <2>2, <2>3, Frame
<1>3. RunningUnheard'
  <2>1. exporter'.batch \subseteq exporter.batch
    OBVIOUS
  <2> QED BY <1>1, <2>1 DEF Heard, RunningUnheard, Told
<1>4. WaitingStands'
  <2>1. /\ Waiting' = Waiting
        /\ \A i \in Waiting : StoredState(i)' = StoredState(i) /\ Known(i)' = Known(i)
    BY <1>1 DEF Waiting, StoredState, Known
  <2>2. \A i, st : Stands(i, st)' = Stands(i, st)
    BY <1>1 DEF Stands, Decided
  <2> QED BY <2>1, <2>2 DEF Heard, WaitingStands
<1> QED BY <1>2, <1>3, <1>4 DEF Heard

LEMMA PostHeard ==
  ASSUME JournalInv, Heard, PostTaken \/ PostRefused \/ PostFails
  PROVE  Heard'
<1>f. /\ faults \in 0 .. MaxFaults
      /\ NoExport = [batch |-> {}, posted |-> FALSE] /\ {} \in SUBSET exporter.batch
  BY DEF Heard, HistoryTypeOK, NoExport
<1>1. CASE PostTaken
  <2>1. PICK e \in exporter.batch : NextReceipt(e) /\ service' = Keep(e)
    BY <1>1 DEF PostTaken
  <2>2. /\ UNCHANGED <<journalVars, running, resolver, faults>>
        /\ exporter' = [exporter EXCEPT !.posted = TRUE]
    BY <1>1 DEF PostTaken
  <2> QED BY <1>f, <2>1, <2>2, KeepHeard
<1>2. CASE PostRefused
  <2>1. UNCHANGED <<journalVars, running, resolver, service, faults>> /\ exporter' = NoExport
    BY <1>2 DEF PostRefused
  <2> QED BY <1>f, <2>1, QuietHeard
<1>3. CASE PostFails
  <2>1. /\ UNCHANGED <<journalVars, running, resolver>> /\ exporter' = NoExport
        /\ faults' \in 0 .. MaxFaults
    BY <1>3, <1>f, HistoryAssumption DEF PostFails, Fault
  <2>2. CASE UNCHANGED service
    BY <1>f, <2>1, <2>2, QuietHeard
  <2>3. CASE \E e \in exporter.batch : NextReceipt(e) /\ service' = Keep(e)
    BY <2>1, <2>3, KeepHeard
  <2> QED BY <1>3, <2>2, <2>3 DEF PostFails
<1> QED BY <1>1, <1>2, <1>3

LEMMA AcknowledgeHeard ==
  ASSUME JournalInv, PendingIsExact, Heard, Acknowledge \/ AcknowledgeFails
  PROVE  Heard'
<1>f. /\ faults \in 0 .. MaxFaults
      /\ NoExport = [batch |-> {}, posted |-> FALSE] /\ {} \in SUBSET exporter.batch
      /\ \A e \in exporter.batch : e.id \in Ids
  BY DEF Heard, HistoryTypeOK, NoExport, Receipts
<1>1. CASE UNCHANGED journalVars
  <2>1. /\ exporter' = NoExport /\ UNCHANGED <<running, resolver, service>>
        /\ faults' \in 0 .. MaxFaults
    <3>1. ASSUME Acknowledge PROVE FALSE
      <4>1. PICK e \in exporter.batch : AckHistory(e.id)
        BY <3>1 DEF Acknowledge
      <4>2. index[e.id].exported = FALSE /\ index'[e.id].exported = TRUE
        BY <1>f, <4>1 DEF AckHistory, MarkExported, Ackable, JournalInv, JournalTypeOK, Rows
      <4> QED BY <1>1, <4>2 DEF journalVars, processVars
    <3> QED BY <1>f, <3>1, HistoryAssumption DEF AcknowledgeFails, Fault
  <2> QED BY <1>1, <1>f, <2>1, QuietHeard
<1>2. CASE \E e \in exporter.batch : Posted(e) /\ (AckHistory(e.id) \/ AckHistoryFails(e.id))
  <2>1. PICK e \in exporter.batch : Posted(e) /\ (AckHistory(e.id) \/ AckHistoryFails(e.id))
    BY <1>2
  <2>2. /\ log' = log /\ up /\ up'
        /\ AckedIds' \subseteq AckedIds \cup {e.id}
    BY <1>f, <2>1, IdsAssumption
       DEF AckHistory, AckHistoryFails, AckLine, AckedIds, Ackable, processVars
  <2>3. Told(e.id) # Untold
    BY <2>1 DEF Heard, EntriesStand
  <2>4. /\ UNCHANGED <<running, resolver, service>> /\ faults' \in 0 .. MaxFaults
        /\ \E B \in SUBSET exporter.batch : exporter' = [batch |-> B, posted |-> FALSE]
    BY <1>f, HistoryAssumption DEF Acknowledge, AcknowledgeFails, Fault
  <2>5. /\ HistoryTypeOK' /\ ReceiptsStand' /\ EntriesStand' /\ DecidedWasUnknown'
        /\ VerdictStands'
    <3>1. AckedIds' \subseteq AckedIds \cup {i \in Ids : Told(i) # Untold}
      BY <1>f, <2>2, <2>3
    <3>2. \A i \in Ids : Moved(i)
      BY <2>2 DEF Moved
    <3>3. running' \subseteq Ids
      BY <2>4 DEF Heard, HistoryTypeOK
    <3> QED BY <2>2, <2>4, <3>1, <3>2, <3>3, Frame
  <2>6. /\ \A i \in Ids : /\ index'[i].prep = index[i].prep /\ index'[i].res = index[i].res
                          /\ index'[i].state = index[i].state
        /\ \A i \in Ids : index'[i].pending => index[i].pending
    <3>1. CASE AckHistory(e.id)
      BY <1>f, <3>1 DEF AckHistory, MarkExported, JournalInv, JournalTypeOK, Rows
    <3>2. CASE AckHistoryFails(e.id)
      BY <3>2 DEF AckHistoryFails, processVars
    <3> QED BY <2>1, <3>1, <3>2
  <2>7. RunningUnheard'
    <3>1. exporter'.batch \subseteq exporter.batch
      BY <2>4
    <3> QED BY <2>2, <2>4, <2>6, <3>1 DEF Heard, RunningUnheard, Told, HistoryTypeOK
  <2>8. WaitingStands'
    <3> SUFFICES ASSUME NEW i \in Ids, index'[i].pending
                 PROVE  Known(i)' /\ Stands(i, StoredState(i))'
      BY DEF WaitingStands, Waiting
    <3>1. i \in Waiting /\ Moved(i)
      BY <2>2, <2>6 DEF Waiting, Moved
    <3> QED BY <2>2, <2>4, <2>6, <3>1, WaitingKept
  <2> QED BY <2>5, <2>7, <2>8 DEF Heard
<1> QED BY <1>1, <1>2 DEF Acknowledge, AcknowledgeFails

\* The resolver reads, asks or gives up.
LEMMA AskHeard ==
  ASSUME JournalInv, Heard, ReadUnknown \/ AskUndecided \/ AskDecided \/ AskFails
  PROVE  Heard'
<1>f. /\ faults \in 0 .. MaxFaults
      /\ NoResolve = [batch |-> {}, verdict |-> Undecided] /\ {} \in SUBSET Ids
      /\ resolver \in [batch : SUBSET Ids, verdict : {Undecided, "rejected", "accepted"}]
  BY DEF Heard, HistoryTypeOK, NoResolve
<1>1. CASE ReadUnknown
  <2>1. PICK B \in SUBSET Unknowns : resolver' = [resolver EXCEPT !.batch = B]
    BY <1>1 DEF ReadUnknown, FirstOf
  <2>2. B \in SUBSET Ids /\ resolver' = [batch |-> B, verdict |-> Undecided]
    BY <1>1, <2>1 DEF ReadUnknown, NoResolve, Unknowns
  <2>3. UNCHANGED <<journalVars, running, exporter, service, faults>>
    BY <1>1 DEF ReadUnknown
  <2> QED BY <1>f, <2>2, <2>3, QuietHeard
<1>2. CASE AskUndecided
  <2>1. PICK i \in resolver.batch : /\ resolver.verdict = Undecided
                                   /\ resolver' = [resolver EXCEPT !.batch = @ \ {i}]
    BY <1>2 DEF AskUndecided, NextAsked
  <2>2. /\ resolver.batch \ {i} \in SUBSET Ids
        /\ resolver' = [batch |-> resolver.batch \ {i}, verdict |-> Undecided]
    BY <1>f, <2>1
  <2>3. UNCHANGED <<journalVars, running, exporter, service, faults>>
    BY <1>2 DEF AskUndecided
  <2> QED BY <1>f, <2>2, <2>3, QuietHeard
<1>3. CASE AskDecided
  <2>1. PICK i \in resolver.batch : /\ NextAsked(i) /\ Decided(i) # Undecided
                                   /\ resolver' = [resolver EXCEPT !.verdict = Decided(i)]
    BY <1>3 DEF AskDecided
  <2>2. UNCHANGED <<journalVars, running, exporter, service, faults>>
    BY <1>3 DEF AskDecided
  <2>3. /\ resolver'.batch = resolver.batch /\ resolver'.verdict = Decided(i) /\ i \in Ids
        /\ Decided(i) \in {Undecided, "rejected", "accepted"}
        /\ resolver' \in [batch : SUBSET Ids, verdict : {Undecided, "rejected", "accepted"}]
    BY <1>f, <2>1 DEF Heard, HistoryTypeOK, Decided
  <2>4. VerdictStands'
    <3> SUFFICES ASSUME NEW j \in resolver'.batch, Answered(j)'
                 PROVE  resolver'.verdict = Decided(j)'
      BY DEF VerdictStands
    <3>1. ObservedAt[j] <= ObservedAt[i] /\ ObservedAt[i] <= ObservedAt[j] /\ j \in Ids
      BY <1>f, <2>1, <2>3 DEF Answered, NextAsked
    <3>2. j = i
      BY <2>3, <3>1, HistoryAssumption
    <3> QED BY <2>2, <2>3, <3>2 DEF Decided
  <2>5. UNCHANGED <<log, acks, ackTail, up, index>>
    BY <2>2 DEF journalVars, diskVars, processVars
  <2>6. HistoryTypeOK'
    BY <2>2, <2>3 DEF Heard, HistoryTypeOK
  <2>7. /\ ReceiptsStand' /\ RunningUnheard' /\ EntriesStand' /\ DecidedWasUnknown'
    BY <2>2, <2>5 DEF Heard, ReceiptsStand, RunningUnheard, EntriesStand, DecidedWasUnknown,
       Told, Decided, AckedIds, Stands, Posted
  <2>8. WaitingStands'
    BY <2>2, <2>5 DEF Heard, WaitingStands, Waiting, Known, Stands, StoredState, Decided
  <2> QED BY <2>4, <2>6, <2>7, <2>8 DEF Heard
<1>4. CASE AskFails
  <2>1. /\ UNCHANGED <<journalVars, running, exporter, service>> /\ resolver' = NoResolve
        /\ faults' \in 0 .. MaxFaults
    BY <1>4, <1>f, HistoryAssumption DEF AskFails, Fault
  <2> QED BY <1>f, <2>1, QuietHeard
<1> QED BY <1>1, <1>2, <1>3, <1>4

LEMMA ResolveHeard ==
  ASSUME JournalInv, PendingIsExact, Heard, Resolve \/ ResolveFails
  PROVE  Heard'
<1> USE DEF JournalInv
<1>f. /\ faults \in 0 .. MaxFaults
      /\ NoResolve = [batch |-> {}, verdict |-> Undecided] /\ {} \in SUBSET Ids
      /\ resolver \in [batch : SUBSET Ids, verdict : {Undecided, "rejected", "accepted"}]
  BY DEF Heard, HistoryTypeOK, NoResolve
<1>1. CASE UNCHANGED journalVars /\ ResolveFails
  <2>1. /\ UNCHANGED <<running, exporter, service>> /\ resolver' = NoResolve
        /\ faults' \in 0 .. MaxFaults
    BY <1>1, <1>f, HistoryAssumption DEF ResolveFails, Fault
  <2> QED BY <1>1, <1>f, <2>1, QuietHeard
<1>2. ASSUME NEW j \in resolver.batch, Answered(j), StoredState(j) = "unknown",
             \/ Resolve /\ Finish(j, resolver.verdict)
             \/ /\ ResolveFails
                /\ FinishAppendFails(j, resolver.verdict) \/ FinishIndexFails(j, resolver.verdict)
      PROVE  Heard'
  <2> DEFINE v == resolver.verdict
  <2>1. /\ j \in Ids /\ v \in Outcomes /\ v = Decided(j)
    BY <1>2, <1>f DEF Answered, Heard, VerdictStands, Outcomes
  <2>2. /\ Finishable(j) /\ up /\ up' /\ ~failed
        /\ log' = log \/ log' = Append(log, Result(j, v))
        /\ acks' = acks /\ ackTail' = ackTail
    BY <1>2 DEF Finish, FinishAppendFails, FinishIndexFails, Append1, AppendBroken, Finishable
  <2>3. /\ UNCHANGED <<running, exporter, service>> /\ faults' \in 0 .. MaxFaults
        /\ \E B \in SUBSET Ids : resolver' = [batch |-> B, verdict |-> Undecided]
    BY <1>2, <1>f, HistoryAssumption DEF Resolve, ResolveFails, Fault
  <2> HIDE DEF v
  <2>4. /\ \A i \in Ids \ {j} : RecoveredState(log', i) = RecoveredState(log, i)
        /\ RecoveredState(log', j) \in {RecoveredState(log, j), v}
        /\ log' = Append(log, Result(j, v)) =>
             RecoveredState(log', j) = v /\ log'[Len(log) + 1].state = v
        /\ \A n \in DOMAIN log : log'[n] = log[n]
    BY <2>1, <2>2, RecoveredAfterFinish
  <2>5. index[j].state # "prepared"
    <3>1. index[j].state = "prepared" => index[j].res = 0
      BY <2>1, <2>2, RecoveredTyped DEF IndexMatchesLog, Outcomes
    <3> QED BY <1>2, <3>1 DEF StoredState
  <2>6. RecoveredState(log, j) = "unknown"
    BY <1>2, <2>1, <2>2, <2>5, ReadsWhatItRecovers
  <2>m. \A i \in Ids : Moved(i)
    BY <2>1, <2>4, <2>6 DEF Moved
  <2>7. /\ HistoryTypeOK' /\ ReceiptsStand' /\ EntriesStand' /\ DecidedWasUnknown'
        /\ VerdictStands'
    <3>1. AckedIds' \subseteq AckedIds /\ running' \subseteq Ids
      BY <2>2, <2>3 DEF AckedIds, Heard, HistoryTypeOK
    <3> QED BY <2>2, <2>3, <2>m, <3>1, Frame
  <2>8. \A i \in Ids \ {j} : index'[i] = index[i]
    BY <1>2 DEF Finish, FinishAppendFails, FinishIndexFails, UpdateRow, JournalTypeOK
  <2>9. RunningUnheard'
    <3>1. j \notin running
      BY <2>5 DEF Heard, RunningUnheard
    <3> QED BY <2>2, <2>3, <2>8, <3>1 DEF Heard, RunningUnheard, Told, HistoryTypeOK
  <2>10. WaitingStands'
    <3> SUFFICES ASSUME NEW i \in Ids, index'[i].pending
                 PROVE  Known(i)' /\ Stands(i, StoredState(i))'
      BY DEF WaitingStands, Waiting
    <3>1. CASE index'[i] = index[i]
      <4>1. i \in Waiting
        BY <3>1 DEF Waiting
      <4> QED BY <2>3, <2>4, <2>m, <3>1, <4>1, WaitingKept
    <3>2. CASE index'[i] # index[i]
      <4>1. i = j /\ Finish(j, v)
        BY <1>2, <2>8, <3>2 DEF FinishAppendFails, FinishIndexFails, v
      <4> DEFINE row == [index[j] EXCEPT !.res = length + 1, !.state = v,
                                         !.pending = Pending(j, v) /\ ~index[j].exported]
      <4>2. /\ index' = [index EXCEPT ![j] = row] /\ index \in [Ids -> Rows] /\ length \in Nat
            /\ log' = Append(log, Result(j, v)) /\ length = Len(log)
        BY <2>2, <4>1 DEF Finish, UpdateRow, JournalTypeOK, Append1, IndexMatchesLog
      <4>3. row.prep = index[j].prep /\ row.res = length + 1 /\ row.state = v
        BY <2>1, <4>2 DEF Rows
      <4> HIDE DEF row
      <4>4. index'[j] = row /\ length + 1 # 0
        BY <2>1, <4>2
      <4>5. Known(j)'
        BY <2>2, <4>3, <4>4 DEF Known, Finishable
      <4>6. StoredState(j)' = v
        BY <2>4, <4>2, <4>3, <4>4 DEF StoredState
      <4> QED BY <2>4, <4>1, <4>2, <4>5, <4>6 DEF Stands
    <3> QED BY <3>1, <3>2
  <2> QED BY <2>7, <2>9, <2>10 DEF Heard
<1>3. CASE Resolve
  BY <1>2, <1>3 DEF Resolve
<1>4. CASE ResolveFails
  BY <1>1, <1>2, <1>4 DEF ResolveFails
<1> QED BY <1>3, <1>4

-----------------------------------------------------------------------------
(* The theorems *)

LEMMA HistoryStep ==
  ASSUME HistoryInv, [HistoryNext]_historyVars
  PROVE  HistoryInv'
<1>1. JournalInv /\ PendingIsExact /\ Heard /\ HistoryTypeOK /\ JournalTypeOK
  BY DEF HistoryInv, Heard, JournalInv
<1>2. [JournalNext]_journalVars
  BY <1>1, JournalOps
<1>3. JournalInv' /\ PendingIsExact'
  BY <1>1, <1>2, JournalStep, PendingStep
<1>4. Heard'
  <2>1. CASE HistoryOpen BY <1>1, <2>1, OpenHeard
  <2>2. CASE Dies BY <1>1, <2>2, DiesHeard
  <2>3. ASSUME NEW s \in Signals, Begin(s) \/ BeginFails(s) PROVE Heard'
    BY <1>1, <2>3, BeginHeard
  <2>4. ASSUME NEW i \in Ids, NEW st \in Results, End(i, st) \/ EndFails(i, st) PROVE Heard'
    BY <1>1, <2>4, EndHeard, HistoryAssumption
  <2>5. ASSUME NEW i \in Ids, NEW st \in Outcomes, Decide(i, st) PROVE Heard'
    BY <1>1, <2>5, DecideHeard
  <2>6. CASE ExportStep
    BY <1>1, <2>6, ReadPendingHeard, PostHeard, AcknowledgeHeard DEF ExportStep
  <2>7. CASE ResolveStep
    BY <1>1, <2>7, AskHeard, ResolveHeard DEF ResolveStep
  <2>8. CASE UNCHANGED historyVars
    <3>1. /\ UNCHANGED <<journalVars, running, exporter, resolver, service, faults>>
          /\ faults' \in 0 .. MaxFaults
      BY <1>1, <2>8 DEF historyVars, HistoryTypeOK
    <3> QED BY <1>1, <3>1, QuietHeard
  <2> QED BY <2>1, <2>2, <2>3, <2>4, <2>5, <2>6, <2>7, <2>8 DEF HistoryNext
<1> QED BY <1>3, <1>4 DEF HistoryInv, Heard

LEMMA HistoryStart == HistoryInit => HistoryInv
<1> SUFFICES ASSUME HistoryInit PROVE HistoryInv
  OBVIOUS
<1>1. JournalInit /\ JournalInv
  BY InitInv DEF HistoryInit
<1>2. /\ running = {} /\ exporter = [batch |-> {}, posted |-> FALSE]
      /\ resolver = [batch |-> {}, verdict |-> Undecided] /\ faults = 0
      /\ ~up /\ \A i \in Ids : index[i].pending = FALSE
      /\ AckedIds = {}
  BY IdsAssumption
     DEF HistoryInit, NoExport, NoResolve, JournalInit, NoRow, AckedIds
<1>3. /\ \A i \in Ids : Told(i) = Untold /\ Decided(i) = Undecided
      /\ service \in [told : [Ids -> Outcomes \cup {Untold}],
                      decided : [Ids -> {Undecided, "rejected", "accepted"}], refused : SUBSET Ids]
  BY DEF HistoryInit, Told, Decided
<1>4. HistoryTypeOK
  BY <1>2, <1>3, HistoryAssumption DEF HistoryTypeOK
<1>5. PendingIsExact /\ ReceiptsStand /\ RunningUnheard /\ WaitingStands
  BY <1>2, <1>3 DEF PendingIsExact, ReceiptsStand, RunningUnheard, WaitingStands, Waiting
<1>6. EntriesStand /\ DecidedWasUnknown /\ VerdictStands
  BY <1>2, <1>3 DEF EntriesStand, DecidedWasUnknown, VerdictStands
<1> QED BY <1>1, <1>4, <1>5, <1>6 DEF HistoryInv

\* The invariant: the journal's, and what the tasks, the two loops and the service
\* know of each order agrees with the log.
THEOREM HistoryInvariant == HistorySpec => []HistoryInv
BY HistoryStart, HistoryStep, PTL DEF HistorySpec

\* The locals of the loops and the receipts of the service keep their types.
THEOREM HistoryTypeCorrect == HistorySpec => []HistoryTypeOK
<1>1. HistoryInv => HistoryTypeOK
  BY DEF HistoryInv
<1> QED BY <1>1, HistoryInvariant, PTL

\* The service never holds an outcome of an order the journal does not stand by,
\* and only orders it holds are acknowledged, whatever dies, is lost or is
\* refused between reading a batch and acknowledging it.
THEOREM ReceiptsNeverContradicted == HistorySpec => []ReceiptsStand
<1>1. HistoryInv => ReceiptsStand
  BY DEF HistoryInv
<1> QED BY <1>1, HistoryInvariant, PTL

\* Export and reconciliation use the journal by its operations only, so that all
\* that is proved of the journal holds of the journal they share.
THEOREM HistoryKeepsJournal == HistorySpec => JournalSpec
<1>1. HistoryInit => JournalInit
  BY DEF HistoryInit
<1>2. HistoryInv /\ [HistoryNext]_historyVars => [JournalNext]_journalVars
  BY JournalOps DEF HistoryInv
<1> QED BY <1>1, <1>2, HistoryInvariant, PTL DEF HistorySpec, JournalSpec

=============================================================================
