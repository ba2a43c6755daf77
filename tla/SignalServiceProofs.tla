------------------------ MODULE SignalServiceProofs ------------------------
(***************************************************************************)
(* Proofs about the signal service, for any number of requests, orders,    *)
(* slots and lives of the process.                                         *)
(***************************************************************************)
EXTENDS SignalService, JournalProofs

-----------------------------------------------------------------------------
(* Steps seen from the journal *)

\* An honest answer is classified as what happened to the order.
LEMMA AnswersAreTruthful ==
  ASSUME NEW a \in ResponseSpace(Nat), NEW v, HonestAbout(v, a)
  PROVE  \/ Classify(a) = "unknown"
         \/ Classify(a) = "accepted" /\ v = "placed"
         \/ Classify(a) = "rejected" /\ v = "refused"
<1>1. a.status \in Nat
  BY DEF ResponseSpace
<1>2. Accepts(a) => Claims(a)
  BY DEF Accepts, Claims
<1>3. Rejects(a) => Refuses(a)
  BY <1>1 DEF Rejects, Refuses, NoMatch, Http2xx
<1> QED
  BY <1>2, <1>3 DEF Classify, HonestAbout

\* Every step of the service is a step of the journal or leaves it alone.
LEMMA ServiceStepsJournal ==
  ASSUME ServiceTypeOK, ResultsAreTruthful, [Next]_vars
  PROVE  [JournalNext]_journalVars
<1> USE DEF journalVars, diskVars, processVars
<1>1. \A r \in Requests : sig[r] \in Signals /\ sig[r].id \in Ids
  BY ServiceAssumption DEF ServiceTypeOK, Signals
<1>2. \A r \in Requests : pc[r] = "finish" => result[r] \in Outcomes
  BY DEF ResultsAreTruthful, Truthful, Outcomes
<1>3. CASE UNCHANGED vars
  BY <1>3 DEF vars
<1>4. ASSUME NEW c \in Scopes, Start(c) \/ StartInterrupted(c)
      PROVE  JournalNext
  BY <1>4 DEF Start, StartInterrupted, JournalNext
<1>5. CASE Die
  BY <1>5 DEF Die, JournalNext
<1>6. CASE Stop \/ Receive \/ JoinPanicked
  BY <1>6 DEF Stop, Receive, JoinPanicked
<1>7. ASSUME NEW r \in Requests,
             \/ Submit(r) \/ Panic(r) \/ Lookup(r) \/ Admit(r)
             \/ PrepareDeclined(r) \/ Recheck(r) \/ Post(r) \/ Respond(r)
             \/ TimeOut(r) \/ Halt(r)
      PROVE  UNCHANGED journalVars
  BY <1>7 DEF Submit, Panic, Lookup, Admit, PrepareDeclined, Recheck, Post,
              Respond, TimeOut, Halt
<1>8. ASSUME NEW r \in Requests, Reserve(r) \/ ReserveFails(r)
      PROVE  [JournalNext]_journalVars
  BY <1>1, <1>8 DEF Reserve, ReserveFails, JournalNext
<1>9. ASSUME NEW r \in Requests, Record(r) \/ RecordFails(r)
      PROVE  [JournalNext]_journalVars
  BY <1>1, <1>2, <1>9 DEF Record, RecordFails, JournalNext
<1>10. ASSUME NEW i \in Ids, VenueTakes(i) \/ WireLoses(i)
       PROVE  UNCHANGED journalVars
  BY <1>10 DEF VenueTakes, WireLoses
<1> QED
  BY <1>3, <1>4, <1>5, <1>6, <1>7, <1>8, <1>9, <1>10 DEF Next, Work

\* No journal step leaves a row with a definite state and no result.
LEMMA RowsStep ==
  ASSUME JournalInv, RowsWithoutResult, [JournalNext]_journalVars
  PROVE  RowsWithoutResult'
<1> USE DEF RowsWithoutResult, Known
<1>1. index \in [Ids -> Rows] /\ length \in Nat /\ log \in Seq(Records)
  BY DEF JournalInv, JournalTypeOK
<1>2. ASSUME NEW c \in Scopes, Open(c)
      PROVE  RowsWithoutResult'
  <2> SUFFICES ASSUME NEW i \in Ids, RebuiltRow(i).prep # 0, RebuiltRow(i).res = 0
               PROVE  RebuiltRow(i).state \in {"prepared", "unknown"}
    BY <1>2 DEF Open
  <2>1. Latest(ResultPositions(log, i)) = 0 <=> ResultPositions(log, i) = {}
    BY <1>1, LatestFinds DEF JournalInv, RestartAccepted
  <2> QED
    BY <2>1 DEF RebuiltRow, NoRow, RecoveredState
<1>3. CASE Crash
  BY <1>3 DEF Crash, NoRow
<1>4. ASSUME NEW s \in Signals, Prepare(s)
      PROVE  RowsWithoutResult'
  BY <1>1, <1>4 DEF Prepare, InsertRow, NoRow, Rows, Signals
<1>5. ASSUME NEW i \in Ids, NEW st \in Outcomes, Finish(i, st)
      PROVE  RowsWithoutResult'
  BY <1>1, <1>5 DEF Finish, UpdateRow, Rows
<1>6. ASSUME NEW i \in Ids, AckHistory(i)
      PROVE  RowsWithoutResult'
  BY <1>1, <1>6 DEF AckHistory, MarkExported, Rows
<1>7. CASE index' = index
  BY <1>7
<1>8. ASSUME JournalNext, index' # index
      PROVE  \/ \E c \in Scopes : Open(c)
             \/ Crash
             \/ \E s \in Signals : Prepare(s)
             \/ \E i \in Ids, st \in Outcomes : Finish(i, st)
             \/ \E i \in Ids : AckHistory(i)
  BY <1>8 DEF JournalNext, OpenInterrupted, PrepareAppendFails, PrepareIndexFails,
              FinishAppendFails, FinishIndexFails, AckHistoryFails, processVars
<1> QED
  BY <1>2, <1>3, <1>4, <1>5, <1>6, <1>7, <1>8 DEF journalVars, processVars

-----------------------------------------------------------------------------
(* Steps seen from the orders *)

\* A step that neither appends to the order log nor concerns the exchange keeps
\* the invariant if it only takes jobs out of the reserved section, and gives
\* only replies the file supports.
LEMMA QuietStep ==
  ASSUME OrdersInv, RowsWithoutResult',
         log' = log, UNCHANGED <<wire, venue, posts, sig>>,
         \A r \in Requests :
           pc'[r] \in {"recheck", "post", "await", "finish", "halt"} =>
             pc'[r] = pc[r] /\ result'[r] = result[r],
         \A r \in Requests :
           \/ reply'[r] \notin {"accepted", "rejected"}
           \/ reply'[r] = reply[r]
           \/ \E n \in ResultPositions(log, sig[r].id) : log[n].state = reply'[r]
  PROVE  OrdersInv'
<1> USE DEF OrdersInv
<1>1. \A i \in Ids : \A st : Truthful(i, st)' <=> Truthful(i, st)
  BY DEF Truthful
<1>2. Holding' \subseteq Holding
  BY DEF Holding
<1>3. HoldersOwnOrders'
  BY <1>2 DEF HoldersOwnOrders
<1>4. SubmissionsPrecede' /\ AtMostOneSubmission'
  BY DEF SubmissionsPrecede, AtMostOneSubmission
<1>5. NotYetSubmitted'
  BY DEF NotYetSubmitted
<1>6. ResultsAreTruthful'
  BY DEF ResultsAreTruthful, Truthful
<1>7. RecordsAreTruthful'
  BY <1>1 DEF RecordsAreTruthful
<1>8. RepliesAreRecorded'
  BY DEF RepliesAreRecorded
<1> QED
  BY <1>3, <1>4, <1>5, <1>6, <1>7, <1>8

\* What a job reads of an order with a definite state is in a result of the
\* file, even if the journal is poisoned.
LEMMA KnownStateIsRecorded ==
  ASSUME ServiceInv, NEW i \in Ids, Known(i),
         StoredState(i) \in {"accepted", "rejected"}
  PROVE  \E n \in ResultPositions(log, i) : log[n].state = StoredState(i)
<1>1. index[i].res # 0
  BY DEF ServiceInv, OrdersInv, RowsWithoutResult, StoredState
<1>2. index[i].res \in ResultPositions(log, i)
  BY <1>1 DEF ServiceInv, JournalInv, ReadsOwnRecords
<1> QED
  BY <1>1, <1>2 DEF StoredState

\* Type correctness of one step, with the bounds of the queue and the slots.
LEMMA TypeStep ==
  ASSUME ServiceInv, JournalTypeOK', [Next]_vars
  PROVE  ServiceTypeOK' /\ IsFiniteSet(Active)'
<1> USE DEF ServiceInv, ServiceTypeOK
<1>1. \A r \in Requests : sig[r] \in Signals /\ sig[r].id \in Ids
  BY ServiceAssumption DEF Signals
<1>2. /\ QueueCapacity \in Nat /\ MaxInflight \in Nat
      /\ Cardinality(Active) \in Nat
  BY ServiceAssumption, FS_CardinalityType
<1> DEFINE Fits(A) == IsFiniteSet(A) /\ Cardinality(A) <= MaxInflight
<1>3. ASSUME Active' \subseteq Active PROVE Fits(Active')
  BY <1>2, <1>3, FS_Subset, FS_CardinalityType
<1>4. ASSUME NEW r \in Requests, NEW step \in Steps, Goto(r, step),
             r \in Active \/ step \notin JobSteps
      PROVE  Fits(Active') /\ pc' \in [Requests -> Steps]
  <2>1. Active' \subseteq Active
    BY <1>4 DEF Goto, Active
  <2> QED
    BY <1>3, <1>4, <2>1 DEF Goto
<1>5. CASE UNCHANGED vars
  <2>1. UNCHANGED <<stopped, panicked, queue, pc, sig, result, reply, wire, venue, posts>>
    BY <1>5 DEF vars, serviceVars, exchangeVars
  <2>2. Active' = Active
    BY <2>1 DEF Active
  <2> QED BY <2>1, <2>2, <1>3
<1>6. ASSUME NEW c \in Scopes, Start(c) \/ StartInterrupted(c)
      PROVE  ServiceTypeOK' /\ IsFiniteSet(Active)'
  <2>1. UNCHANGED <<stopped, panicked, queue, pc, sig, result, reply, wire, venue, posts>>
    BY <1>6 DEF Start, StartInterrupted, serviceVars, exchangeVars
  <2>2. Active' = Active
    BY <2>1 DEF Active
  <2> QED BY <2>1, <2>2, <1>3
<1>7. CASE Die
  <2>1. Active' \subseteq Active
    BY <1>7 DEF Die, Active, JobSteps
  <2>2. /\ pc' \in [Requests -> Steps]
        /\ result' \in [Requests -> Outcomes \cup {"none", "prepared"}]
    BY <1>7 DEF Die, Steps
  <2>3. queue' \in Seq(Requests) /\ Len(queue') <= QueueCapacity
    BY <1>2, <1>7 DEF Die
  <2> QED BY <1>3, <1>7, <2>1, <2>2, <2>3 DEF Die, exchangeVars
<1>8. CASE Stop \/ JoinPanicked
  <2>1. UNCHANGED <<queue, pc, sig, result, reply, wire, venue, posts>>
    BY <1>8 DEF Stop, JoinPanicked, exchangeVars
  <2>2. Active' = Active
    BY <2>1 DEF Active
  <2>3. stopped' \in BOOLEAN /\ panicked' \in BOOLEAN
    BY <1>8 DEF Stop, JoinPanicked
  <2> QED BY <2>1, <2>2, <2>3, <1>3
<1>9. CASE Receive
  <2> DEFINE r == Head(queue)
  <2>1. /\ r \in Requests /\ queue' \in Seq(Requests)
        /\ Len(queue') <= QueueCapacity
    BY <1>2, <1>9 DEF Receive
  <2>2. UNCHANGED <<stopped, panicked, sig, result, wire, venue, posts>>
    BY <1>9 DEF Receive, exchangeVars
  <2>3. CASE Cardinality(Active) < MaxInflight /\ Goto(r, "lookup") /\ UNCHANGED reply
    <3>1. Active' \subseteq Active \cup {r}
      BY <2>3 DEF Goto, Active
    <3>2. /\ IsFiniteSet(Active \cup {r})
          /\ Cardinality(Active \cup {r}) <= MaxInflight
      <4>1. /\ IsFiniteSet(Active \cup {r})
            /\ \/ Cardinality(Active \cup {r}) = Cardinality(Active)
               \/ Cardinality(Active \cup {r}) = Cardinality(Active) + 1
        BY FS_AddElement
      <4> QED BY <1>2, <2>3, <4>1
    <3>3. Fits(Active')
      BY <1>2, <3>1, <3>2, FS_Subset, FS_CardinalityType
    <3>4. pc' \in [Requests -> Steps]
      BY <2>1, <2>3 DEF Goto, Steps, JobSteps
    <3> QED BY <2>1, <2>2, <2>3, <3>3, <3>4
  <2>4. CASE Answer(r, "busy")
    <3>1. Fits(Active') /\ pc' \in [Requests -> Steps]
      BY <1>4, <2>1, <2>4 DEF Answer, Steps, JobSteps
    <3>2. reply' \in [Requests -> ReplyStates]
      BY <2>1, <2>4 DEF Answer, ReplyStates
    <3> QED BY <2>1, <2>2, <3>1, <3>2
  <2> QED BY <1>9, <2>3, <2>4 DEF Receive
<1>10. ASSUME NEW r \in Requests, Submit(r)
       PROVE  ServiceTypeOK' /\ IsFiniteSet(Active)'
  <2>1. UNCHANGED <<stopped, panicked, sig, result, wire, venue, posts>>
    BY <1>10 DEF Submit, exchangeVars
  <2>2. queue' \in Seq(Requests) /\ Len(queue') <= QueueCapacity
    <3>1. CASE Len(queue) < QueueCapacity /\ queue' = Append(queue, r)
      <4>1. queue' \in Seq(Requests) /\ Len(queue') = Len(queue) + 1
        BY <3>1, AppendProperties
      <4>2. Len(queue) \in Nat
        OBVIOUS
      <4> QED BY <1>2, <3>1, <4>1, <4>2
    <3>2. CASE queue' = queue
      BY <3>2
    <3> QED BY <1>10, <3>1, <3>2 DEF Submit
  <2>3. reply' \in [Requests -> ReplyStates]
    BY <1>10 DEF Submit, Answer, ReplyStates
  <2>4. Goto(r, "queued") \/ Goto(r, "replied")
    BY <1>10 DEF Submit, Answer
  <2>5. Fits(Active') /\ pc' \in [Requests -> Steps]
    BY <1>4, <2>4 DEF Steps, JobSteps
  <2> QED BY <2>1, <2>2, <2>3, <2>5
\* Every step of a job goes to some step and answers nothing or some state.
<1>11. ASSUME NEW r \in Requests, r \in Active, NEW step \in Steps, Goto(r, step),
              UNCHANGED <<queue, sig>>,
              stopped' \in BOOLEAN, panicked' \in BOOLEAN,
              result' \in [Requests -> Outcomes \cup {"none", "prepared"}],
              reply' \in [Requests -> ReplyStates],
              wire' \subseteq Ids, posts' \in [Ids -> Nat], venue' = venue
       PROVE  ServiceTypeOK' /\ IsFiniteSet(Active)'
  BY <1>4, <1>11
<1>12. ASSUME NEW r \in Requests, Panic(r) \/ Lookup(r) \/ Admit(r)
                                  \/ PrepareDeclined(r) \/ Halt(r)
       PROVE  ServiceTypeOK' /\ IsFiniteSet(Active)'
  <2>1. UNCHANGED <<queue, sig, result, wire, posts, venue>>
    BY <1>12 DEF Panic, Lookup, Admit, PrepareDeclined, Halt, exchangeVars
  <2>2. stopped' \in BOOLEAN /\ panicked' \in BOOLEAN
    BY <1>12 DEF Panic, Lookup, Admit, PrepareDeclined, Halt
  <2>3. r \in Active
    BY <1>12 DEF Panic, Lookup, Admit, PrepareDeclined, Halt, Active, JobSteps
  <2>4. ASSUME AnswerKnown(r) PROVE reply' \in [Requests -> ReplyStates]
    <3>1. index[sig[r].id] \in Rows /\ log \in Seq(Records)
      BY <1>1 DEF JournalTypeOK
    <3>2. StoredState(sig[r].id) \in ReplyStates
      <4>1. CASE index[sig[r].id].res = 0
        BY <1>1, <2>4, <4>1 DEF AnswerKnown, StoredState, OrdersInv,
           RowsWithoutResult, ReplyStates, Outcomes
      <4>2. CASE index[sig[r].id].res # 0
        <5>1. index[sig[r].id].res \in ResultPositions(log, sig[r].id)
          BY <1>1, <2>4, <4>2 DEF JournalInv, ReadsOwnRecords, AnswerKnown
        <5>2. log[index[sig[r].id].res] \in Records
              /\ log[index[sig[r].id].res].kind = "result"
          BY <3>1, <5>1 DEF ResultPositions
        <5>3. log[index[sig[r].id].res].state \in Outcomes
          BY <5>2 DEF Records
        <5> QED BY <4>2, <5>3 DEF StoredState, ReplyStates
      <4> QED BY <4>1, <4>2
    <3> QED BY <2>4, <3>2 DEF AnswerKnown, Answer, ReplyStates
  <2>5. reply' \in [Requests -> ReplyStates]
    <3>1. \A st \in ReplyStates : Answer(r, st) => reply' \in [Requests -> ReplyStates]
      BY DEF Answer
    <3>2. {"blocked", "unknown"} \subseteq ReplyStates
      BY DEF ReplyStates, Outcomes
    <3>3. pc[r] = "halt" => result[r] \in {"blocked", "unknown"}
      BY DEF OrdersInv, ResultsAreTruthful
    <3> QED
      BY <1>12, <2>4, <3>1, <3>2, <3>3 DEF Panic, Lookup, Admit, PrepareDeclined, Halt
  <2>6. Goto(r, "replied") \/ Goto(r, "admit") \/ Goto(r, "prepare")
    BY <1>12 DEF Panic, Lookup, Admit, PrepareDeclined, Halt, AnswerKnown, Answer
  <2> QED BY <1>11, <2>1, <2>2, <2>3, <2>5, <2>6 DEF Steps, JobSteps
<1>13. ASSUME NEW r \in Requests,
              \/ Reserve(r) \/ ReserveFails(r) \/ Recheck(r) \/ Post(r)
              \/ Respond(r) \/ TimeOut(r) \/ Record(r) \/ RecordFails(r)
       PROVE  ServiceTypeOK' /\ IsFiniteSet(Active)'
  <2> USE DEF Reserve, ReserveFails, Recheck, Post, Respond, TimeOut, Record,
              RecordFails, exchangeVars
  <2>1. UNCHANGED <<stopped, panicked, queue, sig, venue>>
    BY <1>13
  <2>2. r \in Active
    BY <1>13 DEF Active, JobSteps
  <2>3. wire' \subseteq Ids /\ posts' \in [Ids -> Nat]
    <3>1. CASE Post(r)
      BY <1>1, <3>1
    <3>2. CASE wire' = wire /\ posts' = posts
      BY <3>2
    <3> QED BY <1>13, <3>1, <3>2
  <2>4. \A a \in Responses : Classify(a) \in Outcomes
    BY DEF Classify, Outcomes
  <2>5. result' \in [Requests -> Outcomes \cup {"none", "prepared"}]
    BY <1>13, <2>4 DEF Outcomes
  <2>6. reply' \in [Requests -> ReplyStates]
    BY <1>13 DEF Answer, ReplyStates, OrdersInv, ResultsAreTruthful, Truthful, Outcomes
  <2>7. \E step \in {"recheck", "post", "await", "finish", "halt", "replied"} : Goto(r, step)
    BY <1>13 DEF Answer
  <2> QED BY <1>11, <2>1, <2>2, <2>3, <2>5, <2>6, <2>7 DEF Steps, JobSteps
<1>14. ASSUME NEW i \in Ids, VenueTakes(i) \/ WireLoses(i)
       PROVE  ServiceTypeOK' /\ IsFiniteSet(Active)'
  <2>1. UNCHANGED <<stopped, panicked, queue, pc, sig, result, reply, posts>>
    BY <1>14 DEF VenueTakes, WireLoses, serviceVars
  <2>2. Active' = Active
    BY <2>1 DEF Active
  <2>3. wire' \subseteq Ids /\ venue' \in [Ids -> {"none", "placed", "refused"}]
    BY <1>14 DEF VenueTakes, WireLoses
  <2> QED BY <2>1, <2>2, <2>3, <1>3
<1> QED
  BY <1>5, <1>6, <1>7, <1>8, <1>9, <1>10, <1>12, <1>13, <1>14 DEF Next, Work

-----------------------------------------------------------------------------
(* Steps that append to the order log *)

\* Where everything is, without the bounds.
LEMMA ServiceFacts ==
  ASSUME ServiceInv
  PROVE  /\ JournalInv /\ OrdersInv
         /\ log \in Seq(Records)
         /\ \A q \in Requests : sig[q] \in Signals /\ sig[q].id \in Ids
         /\ \A i \in Ids : posts[i] \in Nat
         /\ posts \in [Ids -> Nat]
         /\ pc \in [Requests -> Steps]
         /\ result \in [Requests -> Outcomes \cup {"none", "prepared"}]
         /\ reply \in [Requests -> ReplyStates]
         /\ venue \in [Ids -> {"none", "placed", "refused"}]
         /\ \A i \in Ids :
              PrepPositions(log, i) \subseteq DOMAIN log
              /\ ResultPositions(log, i) \subseteq DOMAIN log
<1>1. /\ \A i \in Ids : PrepPositions(log, i) \subseteq DOMAIN log
      /\ \A i \in Ids : ResultPositions(log, i) \subseteq DOMAIN log
  BY DEF PrepPositions, PreparedLines, ResultPositions
<1>2. \A q \in Requests : sig[q] \in Signals /\ sig[q].id \in Ids
  BY ServiceAssumption DEF ServiceInv, ServiceTypeOK, Signals
<1> QED
  BY <1>1, <1>2 DEF ServiceInv, ServiceTypeOK, JournalTypeOK

\* Whoever is about to append a preparation is the first to do anything with
\* its order, and the line, if it gets into the file, changes no other order.
LEMMA ReservationAppended ==
  ASSUME ServiceInv, NEW r \in Requests, Preparable(sig[r]),
         log' = log \/ log' = Append(log, Prepared(sig[r]))
  PROVE  /\ ResultPositions(log, sig[r].id) = {}
         /\ posts[sig[r].id] = 0
         /\ \A q \in Holding : sig[q].id # sig[r].id
         /\ \A i \in Ids : PrepPositions(log, i) \subseteq PrepPositions(log', i)
         /\ \A i \in Ids : ResultPositions(log', i) = ResultPositions(log, i)
         /\ \A n \in DOMAIN log : log'[n] = log[n]
         /\ log' # log => \E n \in PrepPositions(log', sig[r].id) :
                            log'[n].body = sig[r].body
<1>1. /\ sig[r] \in Signals /\ sig[r].id \in Ids /\ log \in Seq(Records)
      /\ JournalInv /\ OrdersInv
  BY ServiceFacts
<1>2. PrepPositions(log, sig[r].id) = {}
  BY <1>1, KnownIsPrepared DEF Preparable
<1>3. ResultPositions(log, sig[r].id) = {}
  BY <1>1, <1>2, RecoveryReads DEF JournalInv, RestartAccepted
<1>4. posts[sig[r].id] = 0
  <2>1. posts[sig[r].id] \in Nat
    BY <1>1, ServiceFacts
  <2>2. ~(posts[sig[r].id] > 0)
    BY <1>1, <1>2 DEF OrdersInv, SubmissionsPrecede
  <2> QED BY <2>1, <2>2
<1>5. \A q \in Holding : sig[q].id # sig[r].id
  BY <1>1, <1>2 DEF OrdersInv, HoldersOwnOrders
<1>6. CASE log' = log
  BY <1>3, <1>4, <1>5, <1>6
<1>7. CASE log' = Append(log, Prepared(sig[r]))
  <2>1. /\ \A i \in Ids : PrepPositions(log, i) \subseteq PrepPositions(log', i)
        /\ \A i \in Ids : ResultPositions(log', i) = ResultPositions(log, i)
        /\ \A n \in DOMAIN log : log'[n] = log[n]
        /\ Len(log) + 1 \in PrepPositions(log', sig[r].id)
        /\ log'[Len(log) + 1] = Prepared(sig[r])
    BY <1>1, <1>7, AppendPrepared
  <2>2. log'[Len(log) + 1].body = sig[r].body
    BY <1>1, <2>1, RecordShapes
  <2> QED BY <1>3, <1>4, <1>5, <2>1, <2>2
<1> QED
  BY <1>6, <1>7

\* Whoever is about to append a result is the only one to do so for its order.
LEMMA ResultAppended ==
  ASSUME ServiceInv, NEW r \in Requests, pc[r] = "finish",
         log' = log \/ log' = Append(log, Result(sig[r].id, result[r]))
  PROVE  /\ ResultPositions(log, sig[r].id) = {}
         /\ \A i \in Ids : PrepPositions(log', i) = PrepPositions(log, i)
         /\ \A n \in DOMAIN log : log'[n] = log[n]
         /\ \A i \in Ids : i # sig[r].id =>
              ResultPositions(log', i) = ResultPositions(log, i)
         /\ \A n \in ResultPositions(log', sig[r].id) :
              n = Len(log) + 1 /\ log'[n].state = result[r]
         /\ log' # log => Len(log) + 1 \in ResultPositions(log', sig[r].id)
<1>1. sig[r].id \in Ids /\ log \in Seq(Records) /\ OrdersInv
  BY ServiceFacts
<1>2. ResultPositions(log, sig[r].id) = {}
  BY <1>1 DEF OrdersInv, HoldersOwnOrders, Holding
<1>3. result[r] \in Outcomes
  BY <1>1 DEF OrdersInv, ResultsAreTruthful, Truthful, Outcomes
<1>4. CASE log' = log
  BY <1>2, <1>4
<1>5. CASE log' = Append(log, Result(sig[r].id, result[r]))
  <2>1. /\ \A i \in Ids : PrepPositions(log', i) = PrepPositions(log, i)
        /\ \A n \in DOMAIN log : log'[n] = log[n]
        /\ \A i \in Ids : i # sig[r].id =>
             ResultPositions(log', i) = ResultPositions(log, i)
        /\ ResultPositions(log', sig[r].id) = {Len(log) + 1}
        /\ log'[Len(log) + 1] = Result(sig[r].id, result[r])
    BY <1>1, <1>2, <1>3, <1>5, AppendResult
  <2>2. log'[Len(log) + 1].state = result[r]
    BY <1>1, <1>3, <2>1, RecordShapes
  <2> QED BY <1>2, <2>1, <2>2
<1> QED
  BY <1>4, <1>5

\* `prepare` succeeded or failed.
LEMMA ReserveStep ==
  ASSUME ServiceInv, RowsWithoutResult', NEW r \in Requests,
         Reserve(r) \/ ReserveFails(r)
  PROVE  OrdersInv'
<1>1. /\ sig[r] \in Signals /\ sig[r].id \in Ids /\ log \in Seq(Records)
      /\ OrdersInv
      /\ \A q \in Requests : sig[q].id \in Ids
      /\ pc \in [Requests -> Steps]
      /\ result \in [Requests -> Outcomes \cup {"none", "prepared"}]
      /\ \A i \in Ids : PrepPositions(log, i) \subseteq DOMAIN log
                       /\ ResultPositions(log, i) \subseteq DOMAIN log
  BY ServiceFacts
<1>2. UNCHANGED <<sig, reply, wire, venue, posts>>
  BY DEF Reserve, ReserveFails, exchangeVars
<1>3. CASE UNCHANGED journalVars /\ ReserveFails(r)
  <2>1. \A q \in Requests : q # r => pc'[q] = pc[q] /\ result'[q] = result[q]
    BY <1>1, <1>3 DEF ReserveFails, Goto
  <2>2. pc'[r] = "halt" /\ result'[r] = "blocked"
    BY <1>1, <1>3 DEF ReserveFails, Goto
  <2>3. log' = log
    BY <1>3 DEF journalVars, diskVars
  <2>4. \A i, st : Truthful(i, st)' <=> Truthful(i, st)
    BY <1>2 DEF Truthful
  <2>5. Holding' \subseteq Holding
    BY <2>1, <2>2 DEF Holding
  <2>6. HoldersOwnOrders' /\ SubmissionsPrecede' /\ AtMostOneSubmission'
    BY <1>1, <1>2, <2>3, <2>5 DEF OrdersInv, HoldersOwnOrders,
       SubmissionsPrecede, AtMostOneSubmission
  <2>7. NotYetSubmitted' /\ ResultsAreTruthful'
    BY <1>1, <1>2, <2>1, <2>2, <2>4 DEF OrdersInv, NotYetSubmitted, ResultsAreTruthful
  <2>8. RecordsAreTruthful' /\ RepliesAreRecorded'
    BY <1>1, <1>2, <2>3, <2>4 DEF OrdersInv, RecordsAreTruthful, RepliesAreRecorded
  <2> QED
    BY <2>6, <2>7, <2>8 DEF OrdersInv
<1>4. CASE Preparable(sig[r])
           /\ (log' = log \/ log' = Append(log, Prepared(sig[r])))
           /\ (pc'[r] = "recheck" => log' # log)
  <2>1. /\ ResultPositions(log, sig[r].id) = {}
        /\ posts[sig[r].id] = 0
        /\ \A q \in Holding : sig[q].id # sig[r].id
        /\ \A i \in Ids : PrepPositions(log, i) \subseteq PrepPositions(log', i)
        /\ \A i \in Ids : ResultPositions(log', i) = ResultPositions(log, i)
        /\ \A n \in DOMAIN log : log'[n] = log[n]
        /\ log' # log => \E n \in PrepPositions(log', sig[r].id) :
                            log'[n].body = sig[r].body
    BY <1>4, ReservationAppended
  <2>2. \A q \in Requests : q # r => pc'[q] = pc[q] /\ result'[q] = result[q]
    BY <1>1 DEF Reserve, ReserveFails, Goto
  <2>3. pc'[r] = "recheck" \/ (pc'[r] = "halt" /\ result'[r] = "blocked")
    <3>1. CASE Reserve(r)
      BY <1>1, <3>1 DEF Reserve, Goto
    <3>2. CASE ReserveFails(r)
      BY <1>1, <3>2 DEF ReserveFails, Goto
    <3> QED BY <3>1, <3>2
  <2>4. \A i, st : Truthful(i, st)' <=> Truthful(i, st)
    BY <1>2 DEF Truthful
  <2>5. Holding' \subseteq Holding \cup {r}
    BY <2>2 DEF Holding
  <2>8. HoldersOwnOrders'
    <3>1. \A p, q \in Holding' : sig[p].id = sig[q].id => p = q
      BY <1>1, <2>1, <2>5 DEF OrdersInv, HoldersOwnOrders
    <3>2. ASSUME NEW q \in Holding'
          PROVE  /\ \E n \in PrepPositions(log', sig[q].id) : log'[n].body = sig[q].body
                 /\ ResultPositions(log', sig[q].id) = {}
      <4>1. CASE q = r
        BY <1>1, <1>4, <2>1, <2>3, <3>2, <4>1 DEF Holding
      <4>2. CASE q # r
        <5>1. q \in Holding /\ q \in Requests
          BY <2>5, <3>2, <4>2 DEF Holding
        <5>2. PICK n \in PrepPositions(log, sig[q].id) : log[n].body = sig[q].body
          BY <1>1, <5>1 DEF OrdersInv, HoldersOwnOrders
        <5>3. n \in PrepPositions(log', sig[q].id) /\ log'[n] = log[n]
          BY <2>1, <1>1, <5>1, <5>2
        <5> QED
          BY <1>1, <2>1, <5>1, <5>2, <5>3 DEF OrdersInv, HoldersOwnOrders
      <4> QED BY <4>1, <4>2
    <3> QED BY <1>2, <3>1, <3>2 DEF HoldersOwnOrders
  <2>9. SubmissionsPrecede' /\ AtMostOneSubmission'
    BY <1>1, <1>2, <2>1 DEF OrdersInv, SubmissionsPrecede, AtMostOneSubmission
  <2>10. NotYetSubmitted'
    BY <1>1, <1>2, <2>1, <2>2 DEF OrdersInv, NotYetSubmitted
  <2>11. ResultsAreTruthful'
    BY <1>1, <1>2, <2>2, <2>3, <2>4 DEF OrdersInv, ResultsAreTruthful
  <2>12. RecordsAreTruthful'
    BY <1>1, <2>1, <2>4 DEF OrdersInv, RecordsAreTruthful
  <2>13. RepliesAreRecorded'
    BY <1>1, <1>2, <2>1 DEF OrdersInv, RepliesAreRecorded
  <2> QED
    BY <2>8, <2>9, <2>10, <2>11, <2>12, <2>13 DEF OrdersInv
<1>5. ASSUME Prepare(sig[r]) PROVE log' = Append(log, Prepared(sig[r])) /\ log' # log
  <2>2. log' = Append(log, Prepared(sig[r]))
    BY <1>5 DEF Prepare, Append1
  <2>3. Len(log') = Len(log) + 1 /\ Len(log) \in Nat
    BY <1>1, <2>2, AppendPrepared
  <2> QED BY <2>2, <2>3
<1>6. pc'[r] = "recheck" => ~ReserveFails(r)
  BY <1>1 DEF ReserveFails, Goto
<1> QED
  BY <1>3, <1>4, <1>5, <1>6 DEF Reserve, ReserveFails, Prepare, PrepareAppendFails,
     PrepareIndexFails, AppendBroken, Append1

\* The outcome was recorded, or it could not be.
LEMMA RecordStep ==
  ASSUME ServiceInv, RowsWithoutResult', NEW r \in Requests,
         Record(r) \/ RecordFails(r)
  PROVE  OrdersInv'
<1>1. /\ sig[r] \in Signals /\ sig[r].id \in Ids /\ log \in Seq(Records)
      /\ OrdersInv
      /\ \A q \in Requests : sig[q].id \in Ids
      /\ pc \in [Requests -> Steps]
      /\ result \in [Requests -> Outcomes \cup {"none", "prepared"}]
      /\ reply \in [Requests -> ReplyStates]
      /\ \A i \in Ids : PrepPositions(log, i) \subseteq DOMAIN log
                       /\ ResultPositions(log, i) \subseteq DOMAIN log
  BY ServiceFacts
<1>2. UNCHANGED <<sig, wire, venue, posts>> /\ pc[r] = "finish" /\ r \in Holding
  BY DEF Record, RecordFails, exchangeVars, Holding
<1>3. \A i, st : Truthful(i, st)' <=> Truthful(i, st)
  BY <1>2 DEF Truthful
<1>4. log' = log \/ log' = Append(log, Result(sig[r].id, result[r]))
  BY DEF Record, RecordFails, Finish, FinishAppendFails, FinishIndexFails, Append1,
     AppendBroken, journalVars, diskVars
<1>5. /\ ResultPositions(log, sig[r].id) = {}
      /\ \A i \in Ids : PrepPositions(log', i) = PrepPositions(log, i)
      /\ \A n \in DOMAIN log : log'[n] = log[n]
      /\ \A i \in Ids : i # sig[r].id =>
           ResultPositions(log', i) = ResultPositions(log, i)
      /\ \A n \in ResultPositions(log', sig[r].id) :
           n = Len(log) + 1 /\ log'[n].state = result[r]
      /\ log' # log => Len(log) + 1 \in ResultPositions(log', sig[r].id)
  BY <1>2, <1>4, ResultAppended
<1>6. /\ \A q \in Requests : q # r => /\ pc'[q] = pc[q] /\ result'[q] = result[q]
                                     /\ reply'[q] = reply[q]
      /\ \/ pc'[r] = "replied" /\ reply'[r] = result[r] /\ log' # log
         \/ pc'[r] = "halt" /\ result'[r] = "unknown" /\ reply'[r] = reply[r]
  <2>1. CASE Record(r)
    <3>1. log' = Append(log, Result(sig[r].id, result[r]))
      BY <2>1 DEF Record, Finish, Append1
    <3>2. log' # log
      <4>1. Len(log') = Len(log) + 1 /\ Len(log) \in Nat
        BY <1>1, <3>1
      <4> QED BY <4>1
    <3> QED BY <1>1, <2>1, <3>2 DEF Record, Answer, Goto
  <2>2. CASE RecordFails(r)
    BY <1>1, <2>2 DEF RecordFails, Goto
  <2> QED BY <2>1, <2>2
<1>7. Holding' \subseteq Holding \ {r}
  BY <1>6 DEF Holding
<1>8. \A q \in Holding' : sig[q].id # sig[r].id
  BY <1>1, <1>2, <1>7 DEF OrdersInv, HoldersOwnOrders
<1>9. HoldersOwnOrders'
  <2>1. \A p, q \in Holding' : sig[p].id = sig[q].id => p = q
    BY <1>1, <1>7 DEF OrdersInv, HoldersOwnOrders
  <2>2. ASSUME NEW q \in Holding'
        PROVE  /\ \E n \in PrepPositions(log', sig[q].id) : log'[n].body = sig[q].body
               /\ ResultPositions(log', sig[q].id) = {}
    <3>1. q \in Holding /\ q \in Requests
      BY <1>7, <2>2 DEF Holding
    <3>2. PICK n \in PrepPositions(log, sig[q].id) : log[n].body = sig[q].body
      BY <1>1, <3>1 DEF OrdersInv, HoldersOwnOrders
    <3>3. n \in PrepPositions(log', sig[q].id) /\ log'[n] = log[n]
      BY <1>1, <1>5, <3>1, <3>2
    <3>4. ResultPositions(log', sig[q].id) = {}
      BY <1>1, <1>5, <1>8, <2>2, <3>1 DEF OrdersInv, HoldersOwnOrders
    <3> QED BY <3>2, <3>3, <3>4
  <2> QED BY <1>2, <2>1, <2>2 DEF HoldersOwnOrders
<1>10. SubmissionsPrecede' /\ AtMostOneSubmission'
  BY <1>1, <1>2, <1>5 DEF OrdersInv, SubmissionsPrecede, AtMostOneSubmission
<1>11. NotYetSubmitted' /\ ResultsAreTruthful'
  BY <1>1, <1>2, <1>3, <1>6 DEF OrdersInv, NotYetSubmitted, ResultsAreTruthful
<1>12. Truthful(sig[r].id, result[r])
  BY <1>1, <1>2 DEF OrdersInv, ResultsAreTruthful
<1>13. RecordsAreTruthful'
  <2> SUFFICES ASSUME NEW i \in Ids
               PROVE  /\ \A m, n \in ResultPositions(log', i) : m = n
                      /\ \A n \in ResultPositions(log', i) : Truthful(i, log'[n].state)
    BY <1>3 DEF RecordsAreTruthful
  <2>1. CASE i = sig[r].id
    BY <1>5, <1>12, <2>1
  <2>2. CASE i # sig[r].id
    BY <1>1, <1>5, <2>2 DEF OrdersInv, RecordsAreTruthful
  <2> QED BY <2>1, <2>2
<1>14. RepliesAreRecorded'
  <2> SUFFICES ASSUME NEW q \in Requests, reply'[q] \in {"accepted", "rejected"}
               PROVE  \E n \in ResultPositions(log', sig[q].id) : log'[n].state = reply'[q]
    BY <1>2 DEF RepliesAreRecorded
  <2>1. CASE reply'[q] = reply[q]
    <3>1. PICK n \in ResultPositions(log, sig[q].id) : log[n].state = reply[q]
      BY <1>1, <2>1 DEF OrdersInv, RepliesAreRecorded
    <3>2. sig[q].id # sig[r].id /\ n \in DOMAIN log
      BY <1>1, <1>5, <3>1
    <3> QED BY <1>1, <1>5, <2>1, <3>1, <3>2
  <2>2. CASE q = r /\ reply'[r] = result[r] /\ log' # log
    BY <1>5, <2>2
  <2> QED BY <1>6, <2>1, <2>2
<1> QED
  BY <1>9, <1>10, <1>11, <1>13, <1>14 DEF OrdersInv

-----------------------------------------------------------------------------
(* Steps towards and at the exchange *)

\* The last check, the submission and its answer; the network and the exchange.
LEMMA DispatchStep ==
  ASSUME ServiceInv, RowsWithoutResult', NEW r \in Requests,
         Recheck(r) \/ Respond(r) \/ TimeOut(r)
  PROVE  OrdersInv'
<1>1. /\ sig[r].id \in Ids /\ OrdersInv
      /\ pc \in [Requests -> Steps]
      /\ result \in [Requests -> Outcomes \cup {"none", "prepared"}]
  BY ServiceFacts
<1>2. UNCHANGED <<log, sig, reply, wire, venue, posts>>
  BY DEF Recheck, Respond, TimeOut, exchangeVars, journalVars, diskVars
<1>3. \A i, st : Truthful(i, st)' <=> Truthful(i, st)
  BY <1>2 DEF Truthful
<1>4. \A q \in Requests : q # r => pc'[q] = pc[q] /\ result'[q] = result[q]
  BY <1>1 DEF Recheck, Respond, TimeOut, Goto
<1>5. /\ pc[r] \in {"recheck", "await"}
      /\ \/ pc'[r] = "post" /\ pc[r] = "recheck" /\ result'[r] = "unknown"
         \/ pc'[r] = "finish" /\ Truthful(sig[r].id, result'[r])
  <2>1. CASE Recheck(r)
    <3>1. posts[sig[r].id] = 0
      BY <1>1, <2>1 DEF Recheck, OrdersInv, NotYetSubmitted
    <3> QED BY <1>1, <2>1, <3>1 DEF Recheck, Goto, Truthful
  <2>2. CASE Respond(r)
    <3>1. PICK a \in Responses : HonestAbout(venue[sig[r].id], a)
                                 /\ result' = [result EXCEPT ![r] = Classify(a)]
      BY <2>2 DEF Respond
    <3>2. a \in ResponseSpace(Nat)
      BY ServiceAssumption DEF ResponseSpace
    <3>3. Truthful(sig[r].id, Classify(a))
      BY <3>1, <3>2, AnswersAreTruthful DEF Truthful
    <3> QED BY <1>1, <2>2, <3>1, <3>3 DEF Respond, Goto
  <2>3. CASE TimeOut(r)
    BY <1>1, <2>3 DEF TimeOut, Goto, OrdersInv, ResultsAreTruthful, Truthful
  <2> QED BY <2>1, <2>2, <2>3
<1>6. Holding' = Holding
  BY <1>4, <1>5 DEF Holding
<1>7. HoldersOwnOrders' /\ SubmissionsPrecede' /\ AtMostOneSubmission'
  BY <1>1, <1>2, <1>6 DEF OrdersInv, HoldersOwnOrders, SubmissionsPrecede,
     AtMostOneSubmission
<1>8. NotYetSubmitted'
  BY <1>1, <1>2, <1>4, <1>5 DEF OrdersInv, NotYetSubmitted
<1>9. ResultsAreTruthful'
  BY <1>1, <1>2, <1>3, <1>4, <1>5 DEF OrdersInv, ResultsAreTruthful
<1>10. RecordsAreTruthful' /\ RepliesAreRecorded'
  BY <1>1, <1>2, <1>3 DEF OrdersInv, RecordsAreTruthful, RepliesAreRecorded
<1> QED
  BY <1>7, <1>8, <1>9, <1>10 DEF OrdersInv

\* The one submission of an order.
LEMMA PostStep ==
  ASSUME ServiceInv, RowsWithoutResult', NEW r \in Requests, Post(r)
  PROVE  OrdersInv'
<1>1. /\ sig[r].id \in Ids /\ OrdersInv
      /\ pc \in [Requests -> Steps] /\ posts \in [Ids -> Nat]
      /\ \A q \in Requests : sig[q].id \in Ids
  BY ServiceFacts
<1>2. UNCHANGED <<log, sig, reply, result, venue>>
  BY DEF Post, journalVars, diskVars
<1>3. /\ pc[r] = "post" /\ pc'[r] = "await" /\ r \in Holding
      /\ \A q \in Requests : q # r => pc'[q] = pc[q]
      /\ wire' = wire \cup {sig[r].id}
      /\ posts[sig[r].id] = 0
      /\ posts'[sig[r].id] = 1
      /\ \A i \in Ids : i # sig[r].id => posts'[i] = posts[i]
  BY <1>1 DEF Post, Goto, Holding, OrdersInv, NotYetSubmitted
<1>4. /\ venue[sig[r].id] = "none"
      /\ PrepPositions(log, sig[r].id) # {}
      /\ ResultPositions(log, sig[r].id) = {}
  BY <1>1, <1>3 DEF OrdersInv, SubmissionsPrecede, HoldersOwnOrders
<1>5. \A q \in Holding : sig[q].id = sig[r].id => q = r
  BY <1>1, <1>3 DEF OrdersInv, HoldersOwnOrders
<1>6. Holding' = Holding
  BY <1>3 DEF Holding
<1>7. HoldersOwnOrders'
  BY <1>1, <1>2, <1>6 DEF OrdersInv, HoldersOwnOrders
<1>8. SubmissionsPrecede' /\ AtMostOneSubmission'
  BY <1>1, <1>2, <1>3, <1>4 DEF OrdersInv, SubmissionsPrecede, AtMostOneSubmission
<1>9. NotYetSubmitted'
  BY <1>1, <1>2, <1>3, <1>5 DEF OrdersInv, NotYetSubmitted, Holding
<1>10. \A i \in Ids : \A st : i # sig[r].id => (Truthful(i, st)' <=> Truthful(i, st))
  BY <1>2, <1>3 DEF Truthful
<1>11. ResultsAreTruthful'
  <2> SUFFICES ASSUME NEW q \in Requests
               PROVE  /\ pc'[q] = "finish" => Truthful(sig[q].id, result[q])'
                      /\ pc'[q] \in {"post", "await"} => result[q] = "unknown"
                      /\ pc'[q] = "halt" => result[q] \in {"unknown", "blocked"}
    BY <1>2 DEF ResultsAreTruthful
  <2>1. pc'[q] = "finish" => Truthful(sig[q].id, result[q])'
    <3> SUFFICES ASSUME pc'[q] = "finish" PROVE Truthful(sig[q].id, result[q])'
      OBVIOUS
    <3>1. q # r /\ pc[q] = "finish" /\ q \in Holding
      BY <1>3 DEF Holding
    <3>2. sig[q].id # sig[r].id /\ sig'[q] = sig[q] /\ result'[q] = result[q]
      BY <1>2, <1>5, <3>1
    <3>3. Truthful(sig[q].id, result[q])
      BY <1>1, <3>1 DEF OrdersInv, ResultsAreTruthful
    <3> QED BY <1>1, <1>2, <1>3, <3>2, <3>3 DEF Truthful
  <2> QED BY <1>1, <1>3, <2>1 DEF OrdersInv, ResultsAreTruthful
<1>12. RecordsAreTruthful'
  BY <1>1, <1>2, <1>4, <1>10 DEF OrdersInv, RecordsAreTruthful
<1>13. RepliesAreRecorded'
  BY <1>1, <1>2 DEF OrdersInv, RepliesAreRecorded
<1> QED
  BY <1>7, <1>8, <1>9, <1>11, <1>12, <1>13 DEF OrdersInv

\* What has been refused or placed stays so.
LEMMA NetworkStep ==
  ASSUME ServiceInv, RowsWithoutResult', NEW i \in Ids, VenueTakes(i) \/ WireLoses(i)
  PROVE  OrdersInv'
<1>1. OrdersInv /\ venue \in [Ids -> {"none", "placed", "refused"}]
      /\ \A q \in Requests : sig[q].id \in Ids
  BY ServiceFacts
<1>2. UNCHANGED <<log, pc, sig, reply, result, posts>> /\ i \in wire /\ wire' = wire \ {i}
  BY DEF VenueTakes, WireLoses, journalVars, diskVars, serviceVars
<1>3. /\ venue[i] = "none" /\ posts[i] > 0
      /\ \A j \in Ids : j # i => venue'[j] = venue[j]
  BY <1>1, <1>2 DEF OrdersInv, SubmissionsPrecede, VenueTakes, WireLoses
<1>4. \A j \in Ids : \A st : Truthful(j, st) => Truthful(j, st)'
  BY <1>2, <1>3 DEF Truthful
<1>5. HoldersOwnOrders' /\ NotYetSubmitted' /\ AtMostOneSubmission'
  BY <1>1, <1>2 DEF OrdersInv, HoldersOwnOrders, NotYetSubmitted,
     AtMostOneSubmission, Holding
<1>6. SubmissionsPrecede'
  BY <1>1, <1>2, <1>3 DEF OrdersInv, SubmissionsPrecede
<1>7. ResultsAreTruthful' /\ RecordsAreTruthful' /\ RepliesAreRecorded'
  BY <1>1, <1>2, <1>4 DEF OrdersInv, ResultsAreTruthful, RecordsAreTruthful,
     RepliesAreRecorded
<1> QED
  BY <1>5, <1>6, <1>7 DEF OrdersInv

-----------------------------------------------------------------------------
(* The invariant *)

LEMMA ServiceInit == Init => ServiceInv
<1> SUFFICES ASSUME Init PROVE ServiceInv
  OBVIOUS
<1>1. JournalInv /\ JournalTypeOK
  BY InitInv DEF Init, JournalInv
<1>2. Active = {} /\ Holding = {}
  BY DEF Init, Active, Holding, JobSteps
<1>3. IsFiniteSet(Active) /\ Cardinality(Active) = 0
  BY <1>2, FS_EmptySet
<1>4. ServiceTypeOK
  <2>1. QueueCapacity \in Nat /\ MaxInflight \in Nat
    BY ServiceAssumption
  <2>2. queue \in Seq(Requests) /\ Len(queue) = 0
    BY DEF Init
  <2>3. Len(queue) <= QueueCapacity /\ Cardinality(Active) <= MaxInflight
    BY <1>3, <2>1, <2>2
  <2>4. /\ stopped \in BOOLEAN /\ panicked \in BOOLEAN
        /\ pc \in [Requests -> Steps] /\ sig \in [Requests -> Inputs]
        /\ result \in [Requests -> Outcomes \cup {"none", "prepared"}]
        /\ reply \in [Requests -> ReplyStates]
        /\ wire \subseteq Ids
        /\ venue \in [Ids -> {"none", "placed", "refused"}]
        /\ posts \in [Ids -> Nat]
    BY DEF Init, Steps, ReplyStates
  <2> QED
    BY <1>1, <2>2, <2>3, <2>4 DEF ServiceTypeOK
<1>5. log = <<>> /\ \A i \in Ids : PrepPositions(log, i) = {} /\ ResultPositions(log, i) = {}
  BY DEF Init, JournalInit, PrepPositions, PreparedLines, ResultPositions
<1>6. OrdersInv
  <2>1. HoldersOwnOrders
    BY <1>2 DEF HoldersOwnOrders
  <2>2. SubmissionsPrecede /\ AtMostOneSubmission
    BY DEF Init, SubmissionsPrecede, AtMostOneSubmission
  <2>3. NotYetSubmitted /\ ResultsAreTruthful
    BY DEF Init, NotYetSubmitted, ResultsAreTruthful
  <2>4. RecordsAreTruthful
    BY <1>5 DEF RecordsAreTruthful
  <2>5. RepliesAreRecorded
    BY DEF Init, RepliesAreRecorded
  <2>6. RowsWithoutResult
    BY DEF Init, JournalInit, RowsWithoutResult, Known, NoRow
  <2> QED
    BY <2>1, <2>2, <2>3, <2>4, <2>5, <2>6 DEF OrdersInv
<1> QED
  BY <1>1, <1>3, <1>4, <1>6 DEF ServiceInv

\* Steps that touch neither the order log nor the exchange: the process comes
\* and goes, requests arrive, jobs start, end, and read the journal.
LEMMA OtherSteps ==
  ASSUME ServiceInv, RowsWithoutResult',
         \/ UNCHANGED vars
         \/ \E c \in Scopes : Start(c) \/ StartInterrupted(c)
         \/ Die \/ Stop \/ Receive \/ JoinPanicked
         \/ \E r \in Requests : \/ Submit(r) \/ Panic(r) \/ Lookup(r) \/ Admit(r)
                               \/ PrepareDeclined(r) \/ Halt(r)
  PROVE  OrdersInv'
<1>1. /\ OrdersInv
      /\ pc \in [Requests -> Steps] /\ reply \in [Requests -> ReplyStates]
      /\ \A q \in Requests : sig[q].id \in Ids
  BY ServiceFacts
<1>2. CASE \/ UNCHANGED vars
           \/ \E c \in Scopes : Start(c) \/ StartInterrupted(c)
           \/ Stop \/ JoinPanicked
  <2>1. UNCHANGED <<log, wire, venue, posts, sig, pc, result, reply>>
    BY <1>2 DEF vars, journalVars, diskVars, serviceVars, exchangeVars, Start,
       StartInterrupted, Stop, JoinPanicked, Open, OpenInterrupted
  <2> QED BY <1>1, <2>1, QuietStep
<1>3. CASE Die
  <2>1. UNCHANGED <<log, wire, venue, posts, sig, reply>>
    BY <1>3 DEF Die, Crash, diskVars, exchangeVars
  <2>2. \A q \in Requests : pc'[q] \notin {"recheck", "post", "await", "finish", "halt"}
    BY <1>3 DEF Die, Active, JobSteps
  <2> QED BY <1>1, <2>1, <2>2, QuietStep
\* What remains moves one request, and ends or starts a job.
<1>4. ASSUME NEW r \in Requests, NEW step \in {"queued", "lookup", "admit", "prepare", "replied"},
             Goto(r, step), UNCHANGED <<log, wire, venue, posts, sig, result>>,
             \/ reply' = reply
             \/ \E st : /\ Answer(r, st)
                        /\ st \in {"accepted", "rejected"} =>
                             \E n \in ResultPositions(log, sig[r].id) : log[n].state = st
      PROVE  OrdersInv'
  <2>1. \A q \in Requests :
          pc'[q] \in {"recheck", "post", "await", "finish", "halt"} =>
            pc'[q] = pc[q] /\ result'[q] = result[q]
    BY <1>1, <1>4 DEF Goto
  <2>2. \A q \in Requests :
          \/ reply'[q] \notin {"accepted", "rejected"}
          \/ reply'[q] = reply[q]
          \/ \E n \in ResultPositions(log, sig[q].id) : log[n].state = reply'[q]
    BY <1>1, <1>4 DEF Answer
  <2> QED BY <1>1, <1>4, <2>1, <2>2, QuietStep
<1>5. CASE Receive
  <2> DEFINE r == Head(queue)
  <2>1. r \in Requests
    BY <1>5 DEF Receive, ServiceInv, ServiceTypeOK
  <2>2. UNCHANGED <<log, wire, venue, posts, sig, result>>
    BY <1>5 DEF Receive, journalVars, diskVars, exchangeVars
  <2>3. CASE Goto(r, "lookup") /\ reply' = reply
    BY <1>4, <2>1, <2>2, <2>3
  <2>4. CASE Answer(r, "busy")
    <3>1. Goto(r, "replied")
      BY <2>4 DEF Answer
    <3> QED BY <1>4, <2>1, <2>2, <2>4, <3>1
  <2> QED BY <1>5, <2>3, <2>4 DEF Receive
<1>6. ASSUME NEW r \in Requests, Submit(r)
      PROVE  OrdersInv'
  <2>1. UNCHANGED <<log, wire, venue, posts, sig, result>>
    BY <1>6 DEF Submit, journalVars, diskVars, exchangeVars
  <2>2. CASE Goto(r, "queued") /\ reply' = reply
    BY <1>4, <2>1, <2>2
  <2>3. CASE Answer(r, "busy")
    <3>1. Goto(r, "replied")
      BY <2>3 DEF Answer
    <3> QED BY <1>4, <2>1, <2>3, <3>1
  <2> QED BY <1>6, <2>2, <2>3 DEF Submit
<1>7. ASSUME NEW r \in Requests, Panic(r) \/ Lookup(r) \/ Admit(r)
                                 \/ PrepareDeclined(r) \/ Halt(r)
      PROVE  OrdersInv'
  <2>1. UNCHANGED <<log, wire, venue, posts, sig, result>>
    BY <1>7 DEF Panic, Lookup, Admit, PrepareDeclined, Halt, journalVars, diskVars,
       exchangeVars
  <2>2. ASSUME AnswerKnown(r) PROVE OrdersInv'
    <3>1. PICK st : Answer(r, st) /\ st \in {StoredState(sig[r].id), "conflict"}
      BY <2>2 DEF AnswerKnown
    <3>2. st \in {"accepted", "rejected"} =>
            \E n \in ResultPositions(log, sig[r].id) : log[n].state = st
      BY <1>1, <2>2, <3>1, KnownStateIsRecorded DEF AnswerKnown
    <3>3. Goto(r, "replied")
      BY <3>1 DEF Answer
    <3> QED BY <1>4, <2>1, <3>1, <3>2, <3>3
  <2>3. ASSUME NEW st \in {"blocked", "unknown"}, Answer(r, st) PROVE OrdersInv'
    <3>1. Goto(r, "replied")
      BY <2>3 DEF Answer
    <3> QED BY <1>4, <2>1, <2>3, <3>1
  <2>4. CASE reply' = reply /\ (Goto(r, "admit") \/ Goto(r, "prepare"))
    BY <1>4, <2>1, <2>4
  <2>5. pc[r] = "halt" => result[r] \in {"blocked", "unknown"}
    BY <1>1 DEF OrdersInv, ResultsAreTruthful
  <2> QED
    BY <1>7, <2>2, <2>3, <2>4, <2>5 DEF Panic, Lookup, Admit, PrepareDeclined, Halt
<1> QED
  BY <1>2, <1>3, <1>5, <1>6, <1>7

LEMMA ServiceStep == ServiceInv /\ [Next]_vars => ServiceInv'
<1> SUFFICES ASSUME ServiceInv, [Next]_vars PROVE ServiceInv'
  OBVIOUS
<1>1. JournalInv /\ ServiceTypeOK /\ ResultsAreTruthful /\ RowsWithoutResult
  BY DEF ServiceInv, OrdersInv
<1>2. [JournalNext]_journalVars
  BY <1>1, ServiceStepsJournal
<1>3. JournalInv' /\ JournalTypeOK'
  BY <1>1, <1>2, JournalStep DEF JournalInv
<1>4. RowsWithoutResult'
  BY <1>1, <1>2, RowsStep
<1>5. ServiceTypeOK' /\ IsFiniteSet(Active)'
  BY <1>3, TypeStep
<1>6. OrdersInv'
  <2>1. ASSUME NEW r \in Requests, Work(r) \/ Submit(r) \/ Respond(r) \/ Panic(r)
        PROVE  OrdersInv'
    BY <1>4, <2>1, OtherSteps, ReserveStep, RecordStep, DispatchStep, PostStep DEF Work
  <2>2. ASSUME NEW i \in Ids, VenueTakes(i) \/ WireLoses(i)
        PROVE  OrdersInv'
    BY <1>4, <2>2, NetworkStep
  <2>3. CASE \/ UNCHANGED vars
             \/ \E c \in Scopes : Start(c) \/ StartInterrupted(c)
             \/ Die \/ Stop \/ Receive \/ JoinPanicked
    BY <1>4, <2>3, OtherSteps
  <2> QED BY <2>1, <2>2, <2>3 DEF Next
<1> QED
  BY <1>3, <1>5, <1>6 DEF ServiceInv

-----------------------------------------------------------------------------
(* Theorems *)

\* The invariant holds in every reachable state of the service.
THEOREM ServiceInvariant == Spec => []ServiceInv
BY ServiceInit, ServiceStep, PTL DEF Spec

\* Type correctness, with the two bounds of the admission path: the channel
\* holds at most queue_capacity requests, and at most max_inflight jobs run
\* (src/lib.rs, serve and worker).
THEOREM ServiceTypeCorrect == Spec => []ServiceTypeOK
<1>1. ServiceInv => ServiceTypeOK
  BY DEF ServiceInv
<1> QED
  BY <1>1, ServiceInvariant, PTL

\* However many clients repeat an order concurrently, however often the process
\* dies and restarts, whichever write fails: `process` posts it at most once.
THEOREM OrdersAreSubmittedOnce == Spec => []AtMostOneSubmission
<1>1. ServiceInv => AtMostOneSubmission
  BY DEF ServiceInv, OrdersInv
<1> QED
  BY <1>1, ServiceInvariant, PTL

\* Journal first: `process` posts nothing whose preparation is not in the file.
THEOREM SubmissionsAreDurable == Spec => []SubmissionIsDurable
<1>1. ServiceInv => SubmissionIsDurable
  BY DEF ServiceInv, OrdersInv, SubmissionsPrecede, HoldersOwnOrders, Holding,
     SubmissionIsDurable
<1> QED
  BY <1>1, ServiceInvariant, PTL

\* An order the exchange holds is recovered as accepted or unknown after any
\* crash: a failed answer or record never turns it into a definite refusal.
THEOREM PlacedOrdersAreRecovered == Spec => []PlacedOrdersStayOpen
<1>1. ASSUME ServiceInv, NEW i \in Ids, venue[i] = "placed"
      PROVE  RecoveredState(log, i) \in {"accepted", "unknown"}
  <2>1. OrdersInv /\ log \in Seq(Records) /\ posts[i] \in Nat
    BY <1>1, ServiceFacts
  <2>2. PrepPositions(log, i) # {} /\ posts[i] > 0
    BY <1>1, <2>1 DEF OrdersInv, SubmissionsPrecede
  <2>3. CASE ResultPositions(log, i) = {}
    BY <2>2, <2>3 DEF RecoveredState
  <2>4. CASE ResultPositions(log, i) # {}
    <3> DEFINE n == Latest(ResultPositions(log, i))
    <3>1. n \in ResultPositions(log, i)
      BY <1>1, <2>1, <2>4, LatestFinds DEF ServiceInv, JournalInv, RestartAccepted
    <3>2. Truthful(i, log[n].state)
      BY <2>1, <3>1 DEF OrdersInv, RecordsAreTruthful
    <3>3. log[n].state \in {"accepted", "unknown"}
      BY <1>1, <2>1, <2>2, <3>2 DEF Truthful
    <3> QED BY <2>2, <2>4, <3>3 DEF RecoveredState
  <2> QED BY <2>3, <2>4
<1>2. ServiceInv => PlacedOrdersStayOpen
  BY <1>1 DEF PlacedOrdersStayOpen
<1> QED
  BY <1>2, ServiceInvariant, PTL

\* "accepted" and "rejected" are final: what a client was told is true, and it
\* is what the journal says from then on, in every later life of the process.
THEOREM DefiniteRepliesAreFinal == Spec => []DefiniteRepliesHold
<1>1. ASSUME ServiceInv, NEW r \in Requests, reply[r] \in {"accepted", "rejected"}
      PROVE  /\ Truthful(sig[r].id, reply[r])
             /\ RecoveredState(log, sig[r].id) = reply[r]
  <2>1. OrdersInv /\ log \in Seq(Records) /\ sig[r].id \in Ids
    BY <1>1, ServiceFacts
  <2>2. PICK n \in ResultPositions(log, sig[r].id) : log[n].state = reply[r]
    BY <1>1, <2>1 DEF OrdersInv, RepliesAreRecorded
  <2>3. Truthful(sig[r].id, reply[r])
    BY <2>1, <2>2 DEF OrdersInv, RecordsAreTruthful
  <2>4. Replayable(log) /\ LatestExists(log)
    BY <1>1 DEF ServiceInv, JournalInv, RestartAccepted
  <2>5. Latest(ResultPositions(log, sig[r].id)) \in ResultPositions(log, sig[r].id)
    BY <2>1, <2>2, <2>4, LatestFinds
  <2>6. Latest(ResultPositions(log, sig[r].id)) = n
    BY <2>1, <2>2, <2>5 DEF OrdersInv, RecordsAreTruthful
  <2>7. PrepPositions(log, sig[r].id) # {}
    BY <2>1, <2>2, <2>4, RecoveryReads
  <2> QED BY <2>2, <2>3, <2>6, <2>7 DEF RecoveredState
<1>2. ServiceInv => DefiniteRepliesHold
  <2> SUFFICES ASSUME ServiceInv, NEW r \in Requests
               PROVE  /\ reply[r] = "accepted" =>
                           /\ venue[sig[r].id] = "placed"
                           /\ RecoveredState(log, sig[r].id) = "accepted"
                      /\ reply[r] = "rejected" =>
                           /\ venue[sig[r].id] # "placed"
                           /\ RecoveredState(log, sig[r].id) = "rejected"
    BY DEF DefiniteRepliesHold
  <2> QED BY <1>1 DEF Truthful
<1> QED
  BY <1>2, ServiceInvariant, PTL

\* Distinct submitted orders have distinct prepared lines, so what all lives of
\* the process have submitted together is within the journal's total budget.
THEOREM SubmissionsFitTheBudget == Spec => []SubmissionsWithinBudget
<1>1. ASSUME ServiceInv PROVE SubmissionsWithinBudget
  <2> DEFINE S == {i \in Ids : posts[i] > 0}
             P == PreparedLines(log)
             f == [i \in S |-> CHOOSE n \in PrepPositions(log, i) : TRUE]
  <2>1. log \in Seq(Records) /\ OrdersInv
    BY <1>1, ServiceFacts
  <2>2. IsFiniteSet(P) /\ Cardinality(P) \in Nat
    BY <2>1, PreparedLinesFinite
  <2>3. \A i \in S : f[i] \in PrepPositions(log, i)
    BY <2>1 DEF OrdersInv, SubmissionsPrecede
  <2>4. f \in Injection(S, P)
    <3>1. \A i \in S : f[i] \in P /\ log[f[i]].id = i
      BY <2>3 DEF PrepPositions
    <3>2. f \in [S -> P]
      BY <3>1
    <3>3. \A i, j \in S : f[i] = f[j] => i = j
      BY <3>1
    <3> HIDE DEF f, S, P
    <3> QED BY <3>2, <3>3 DEF Injection, IsInjective
  <2>5. IsFiniteSet(S) /\ Cardinality(S) <= Cardinality(P)
    <3> HIDE DEF f, S, P
    <3> QED BY <2>2, <2>4, FS_Injection
  <2>6. Cardinality(S) \in Nat
    BY <2>5, FS_CardinalityType
  <2>7. OrderBudget * Cardinality(P) <= TotalBudget
    BY <1>1 DEF ServiceInv, JournalInv, BudgetCoversLog
  <2> HIDE DEF S, P
  <2>8. OrderBudget * Cardinality(S) <= OrderBudget * Cardinality(P)
    BY <2>2, <2>5, <2>6, LimitsAssumption
  <2>9. OrderBudget * Cardinality(S) <= TotalBudget
    BY <2>2, <2>6, <2>7, <2>8, LimitsAssumption
  <2> QED BY <2>9 DEF SubmissionsWithinBudget, S
<1> QED
  BY <1>1, ServiceInvariant, PTL

\* Once stopped, and with no job past the last check, no job gets past it until
\* the process has been restarted (POST /stop).
THEOREM StoppedStaysQuiet == Spec => DrainedStaysQuiet
<1>1. ASSUME ServiceInv, Next, stopped, up, Dispatched = {}
      PROVE  Dispatched' = {}
  <2>1. pc \in [Requests -> Steps] /\ \A r \in Requests : pc[r] # "post"
    BY <1>1, ServiceFacts DEF Dispatched
  <2>2. ASSUME NEW r, NEW step, Goto(r, step), step # "post"
        PROVE  Dispatched' = {}
    BY <2>1, <2>2 DEF Goto, Dispatched
  <2>3. ASSUME pc' = pc
        PROVE  Dispatched' = {}
    BY <2>1, <2>3 DEF Dispatched
  <2>4. CASE \/ \E c \in Scopes : Start(c) \/ StartInterrupted(c)
             \/ Stop \/ JoinPanicked
             \/ \E i \in Ids : VenueTakes(i) \/ WireLoses(i)
    BY <2>3, <2>4 DEF Start, StartInterrupted, serviceVars, Stop, JoinPanicked,
       VenueTakes, WireLoses
  <2>5. CASE Die
    BY <2>1, <2>5 DEF Die, Dispatched
  <2>6. CASE Receive
    BY <2>2, <2>6 DEF Receive, Answer
  <2>7. ASSUME NEW r \in Requests, Submit(r) \/ Respond(r) \/ Panic(r) \/ Work(r)
        PROVE  Dispatched' = {}
    <3> DEFINE GoesTo(S) == \E step \in S : Goto(r, step)
    <3>1. ASSUME GoesTo(Steps \ {"post"})
          PROVE  Dispatched' = {}
      BY <2>2, <3>1
    <3>2. CASE Submit(r) \/ Respond(r) \/ Panic(r) \/ TimeOut(r) \/ Record(r)
               \/ RecordFails(r) \/ Halt(r)
      <4>1. GoesTo({"queued", "replied", "finish", "halt"})
        BY <3>2 DEF Submit, Respond, Panic, TimeOut, Record, RecordFails, Halt, Answer
      <4> QED BY <3>1, <4>1 DEF Steps, JobSteps
    <3>3. CASE Lookup(r) \/ Admit(r) \/ PrepareDeclined(r) \/ Reserve(r) \/ ReserveFails(r)
      <4>1. GoesTo({"replied", "admit", "prepare", "recheck", "halt"})
        BY <3>3 DEF Lookup, Admit, PrepareDeclined, AnswerKnown, Reserve,
           ReserveFails, Answer
      <4> QED BY <3>1, <4>1 DEF Steps, JobSteps
    <3>4. CASE Recheck(r)
      BY <1>1, <2>2, <3>4 DEF Recheck
    <3>5. CASE Post(r)
      BY <2>1, <3>5 DEF Post
    <3> QED BY <2>7, <3>2, <3>3, <3>4, <3>5 DEF Work
  <2> QED BY <1>1, <2>4, <2>5, <2>6, <2>7 DEF Next
<1>2. ServiceInv /\ [Next]_vars =>
        [stopped /\ up /\ Dispatched = {} => Dispatched' = {}]_vars
  BY <1>1
<1> QED
  BY <1>2, ServiceInvariant, PTL DEF Spec, DrainedStaysQuiet

-----------------------------------------------------------------------------
(* The order path: the service implements Submissions *)

\* Only an order that was sent is ever recorded as unknown.
AskedWasSent ==
  \A r \in Requests :
    pc[r] = "await" \/ (pc[r] = "finish" /\ result[r] = "unknown") => posts[sig[r].id] > 0

\* A step that takes no job to the exchange or back keeps that.
LEMMA AskedKept ==
  ASSUME ServiceInv, AskedWasSent, UNCHANGED <<sig, posts>>,
         \A r \in Requests :
           pc'[r] \in {"await", "finish"} =>
             \/ pc'[r] = pc[r] /\ result'[r] = result[r]
             \/ pc'[r] = "finish" /\ pc[r] = "await"
             \/ pc'[r] = "finish" /\ result'[r] = "blocked"
  PROVE  AskedWasSent'
BY DEF AskedWasSent

LEMMA AskedStep ==
  ASSUME ServiceInv, AskedWasSent, [Next]_vars
  PROVE  AskedWasSent'
<1>1. /\ pc \in [Requests -> Steps] /\ posts \in [Ids -> Nat]
      /\ result \in [Requests -> Outcomes \cup {"none", "prepared"}]
      /\ \A q \in Requests : sig[q].id \in Ids
  BY ServiceFacts
<1>2. ASSUME NEW r \in Requests, NEW step, Goto(r, step), step \notin {"await", "finish"},
             UNCHANGED <<sig, posts>>, \A q \in Requests : q # r => result'[q] = result[q]
      PROVE  AskedWasSent'
  BY <1>1, <1>2, AskedKept DEF Goto
<1>3. CASE \/ UNCHANGED vars
           \/ \E c \in Scopes : Start(c) \/ StartInterrupted(c)
           \/ Stop \/ JoinPanicked
           \/ \E i \in Ids : VenueTakes(i) \/ WireLoses(i)
  <2>1. UNCHANGED <<sig, posts, pc, result>>
    BY <1>3 DEF vars, serviceVars, exchangeVars, Start, StartInterrupted, Stop,
       JoinPanicked, VenueTakes, WireLoses
  <2> QED
    BY <2>1, AskedKept
<1>4. CASE Die
  <2>1. UNCHANGED <<sig, posts>> /\ \A q \in Requests : pc'[q] \notin {"await", "finish"}
    BY <1>4 DEF Die, Active, JobSteps, exchangeVars
  <2> QED
    BY <2>1, AskedKept
<1>5. CASE Receive
  <2>1. Head(queue) \in Requests
    BY <1>5 DEF Receive, ServiceInv, ServiceTypeOK
  <2> QED
    BY <1>2, <1>5, <2>1 DEF Receive, Answer, exchangeVars
<1>6. ASSUME NEW r \in Requests,
             \/ Submit(r) \/ Panic(r) \/ Lookup(r) \/ Admit(r) \/ PrepareDeclined(r)
             \/ Halt(r) \/ Record(r)
      PROVE  AskedWasSent'
  <2>1. UNCHANGED <<sig, posts, result>>
    BY <1>6 DEF Submit, Panic, Lookup, Admit, PrepareDeclined, Halt, Record, exchangeVars
  <2>2. \E step \in {"queued", "replied", "admit", "prepare"} : Goto(r, step)
    BY <1>6 DEF Submit, Panic, Lookup, Admit, PrepareDeclined, AnswerKnown, Halt,
       Record, Answer
  <2> QED
    BY <1>2, <2>1, <2>2
<1>7. ASSUME NEW r \in Requests, Reserve(r) \/ ReserveFails(r) \/ RecordFails(r)
      PROVE  AskedWasSent'
  <2>1. UNCHANGED <<sig, posts>> /\ \A q \in Requests : q # r => result'[q] = result[q]
    BY <1>1, <1>7 DEF Reserve, ReserveFails, RecordFails, exchangeVars
  <2>2. \E step \in {"recheck", "halt"} : Goto(r, step)
    BY <1>7 DEF Reserve, ReserveFails, RecordFails
  <2> QED
    BY <1>2, <2>1, <2>2
<1>8. ASSUME NEW r \in Requests, Recheck(r) \/ Respond(r) \/ TimeOut(r)
      PROVE  AskedWasSent'
  <2>1. UNCHANGED <<sig, posts>>
    BY <1>8 DEF Recheck, Respond, TimeOut, exchangeVars
  <2>2. \A q \in Requests : q # r => pc'[q] = pc[q] /\ result'[q] = result[q]
    BY <1>1, <1>8 DEF Recheck, Respond, TimeOut, Goto
  <2>3. \/ pc'[r] = "post"
        \/ pc'[r] = "finish" /\ result'[r] = "blocked"
        \/ pc'[r] = "finish" /\ pc[r] = "await"
    BY <1>1, <1>8 DEF Recheck, Respond, TimeOut, Goto
  <2> QED
    BY <2>1, <2>2, <2>3, AskedKept
<1>9. ASSUME NEW r \in Requests, Post(r)
      PROVE  AskedWasSent'
  <2>1. UNCHANGED <<sig, result>> /\ \A q \in Requests : q # r => pc'[q] = pc[q]
    BY <1>1, <1>9 DEF Post, Goto
  <2>2. /\ pc'[r] = "await" /\ posts'[sig[r].id] > 0
        /\ \A i \in Ids : posts'[i] >= posts[i]
    BY <1>1, <1>9 DEF Post, Goto
  <2>3. \A i \in Ids : posts[i] > 0 => posts'[i] > 0
    BY <1>1, <1>9, <2>2 DEF Post
  <2> QED
    BY <1>1, <2>1, <2>2, <2>3 DEF AskedWasSent
<1> QED
  BY <1>3, <1>4, <1>5, <1>6, <1>7, <1>8, <1>9 DEF Next, Work

\* What the file says of an order changes with its own lines only.
LEMMA OnRecordKept ==
  log' = log => \A i \in Ids : OnRecord(i)' = OnRecord(i)
BY DEF OnRecord, PrepPositions, PreparedLines, ResultPositions

LEMMA OnRecordReserved ==
  ASSUME JournalInv, NEW s \in Signals, Preparable(s),
         log' = Append(log, Prepared(s))
  PROVE  /\ OnRecord(s.id) = "none"
         /\ \A i \in Ids : OnRecord(i)' = IF i = s.id THEN "prepared" ELSE OnRecord(i)
<1>1. /\ s.id \in Ids /\ log \in Seq(Records)
      /\ PrepPositions(log, s.id) = {}
      /\ Replayable(log) /\ LatestExists(log)
  BY KnownIsPrepared DEF JournalInv, Preparable, Signals, JournalTypeOK, RestartAccepted
<1>2. /\ log' \in Seq(Records)
      /\ \A n \in DOMAIN log : log'[n] = log[n]
      /\ \A i \in Ids : PrepPositions(log', i) =
           IF i = s.id THEN PrepPositions(log, i) \cup {Len(log) + 1}
                       ELSE PrepPositions(log, i)
      /\ \A i \in Ids : ResultPositions(log', i) = ResultPositions(log, i)
  BY <1>1, AppendPrepared
<1>3. ResultPositions(log, s.id) = {}
  BY <1>1, RecoveryReads
<1>4. OnRecord(s.id) = "none" /\ OnRecord(s.id)' = "prepared"
  BY <1>1, <1>2, <1>3 DEF OnRecord
<1>5. ASSUME NEW i \in Ids, i # s.id
      PROVE  OnRecord(i)' = OnRecord(i)
  <2>1. /\ PrepPositions(log', i) = PrepPositions(log, i)
        /\ ResultPositions(log', i) = ResultPositions(log, i)
    BY <1>2, <1>5
  <2>2. CASE PrepPositions(log, i) = {} \/ ResultPositions(log, i) = {}
    BY <2>1, <2>2 DEF OnRecord
  <2>3. CASE PrepPositions(log, i) # {} /\ ResultPositions(log, i) # {}
    <3>1. RecoveredState(log', i) = RecoveredState(log, i)
      BY <1>1, <1>2, <2>1, <2>3, RecoveryKept
    <3> QED
      BY <2>1, <2>3, <3>1 DEF OnRecord, RecoveredState
  <2> QED
    BY <2>2, <2>3
<1> QED
  BY <1>4, <1>5

LEMMA OnRecordSettled ==
  ASSUME JournalInv, NEW j \in Ids, NEW st \in Outcomes, Finishable(j),
         log' = Append(log, Result(j, st))
  PROVE  \A i \in Ids : OnRecord(i)' = IF i = j THEN st ELSE OnRecord(i)
<1>1. /\ log \in Seq(Records) /\ PrepPositions(log, j) # {}
      /\ Replayable(log) /\ LatestExists(log)
  BY KnownIsPrepared DEF JournalInv, Finishable, JournalTypeOK, RestartAccepted
<1>2. /\ log' \in Seq(Records)
      /\ \A n \in DOMAIN log : log'[n] = log[n]
      /\ log'[Len(log) + 1] = Result(j, st)
      /\ \A i \in Ids : PrepPositions(log', i) = PrepPositions(log, i)
      /\ \A i \in Ids : ResultPositions(log', i) =
              IF i = j THEN ResultPositions(log, i) \cup {Len(log) + 1}
                       ELSE ResultPositions(log, i)
      /\ Latest(ResultPositions(log', j)) = Len(log) + 1
  BY <1>1, AppendResult, ResultKeepsReplayable
<1>3. OnRecord(j)' = st
  <2>1. log'[Len(log) + 1].state = st
    BY <1>2, RecordShapes
  <2>2. PrepPositions(log', j) # {} /\ ResultPositions(log', j) # {}
    BY <1>1, <1>2
  <2> QED
    BY <1>2, <2>1, <2>2 DEF OnRecord
<1>4. ASSUME NEW i \in Ids, i # j
      PROVE  OnRecord(i)' = OnRecord(i)
  <2>1. /\ PrepPositions(log', i) = PrepPositions(log, i)
        /\ ResultPositions(log', i) = ResultPositions(log, i)
    BY <1>2, <1>4
  <2>2. CASE PrepPositions(log, i) = {} \/ ResultPositions(log, i) = {}
    BY <2>1, <2>2 DEF OnRecord
  <2>3. CASE PrepPositions(log, i) # {} /\ ResultPositions(log, i) # {}
    <3>1. RecoveredState(log', i) = RecoveredState(log, i)
      BY <1>1, <1>2, <2>1, <2>3, RecoveryKept
    <3> QED
      BY <2>1, <2>3, <3>1 DEF OnRecord, RecoveredState
  <2> QED
    BY <2>2, <2>3
<1> QED
  BY <1>3, <1>4

\* The preparation of an order, whether it was reported or not.
LEMMA PathReserves ==
  ASSUME ServiceInv, NEW s \in Signals, Preparable(s), UNCHANGED posts,
         log' = log \/ log' = Append(log, Prepared(s))
  PROVE  [Path!OrderStep]_<<[i \in Ids |-> OnRecord(i)], posts>>
<1>1. CASE log' = log
  BY <1>1, OnRecordKept
<1>2. CASE log' = Append(log, Prepared(s))
  <2>1. s.id \in Ids /\ JournalInv
    BY DEF Signals, ServiceInv
  <2>2. /\ OnRecord(s.id) = "none"
        /\ \A i \in Ids : OnRecord(i)' = IF i = s.id THEN "prepared" ELSE OnRecord(i)
    BY <1>2, <2>1, OnRecordReserved
  <2>3. Path!Reserve(s.id)
    BY <2>1, <2>2 DEF Path!Reserve
  <2> QED
    BY <2>1, <2>3 DEF Path!OrderStep
<1> QED
  BY <1>1, <1>2

\* The outcome of an order, by the job that holds it.
LEMMA PathSettles ==
  ASSUME ServiceInv, AskedWasSent, NEW r \in Requests, pc[r] = "finish",
         UNCHANGED posts,
         \/ log' = log
         \/ Finishable(sig[r].id) /\ log' = Append(log, Result(sig[r].id, result[r]))
  PROVE  [Path!OrderStep]_<<[i \in Ids |-> OnRecord(i)], posts>>
<1>1. CASE log' = log
  BY <1>1, OnRecordKept
<1>2. CASE Finishable(sig[r].id) /\ log' = Append(log, Result(sig[r].id, result[r]))
  <2> DEFINE i == sig[r].id
             st == result[r]
  <2>1. /\ i \in Ids /\ JournalInv /\ OrdersInv /\ r \in Holding
        /\ posts[i] \in Nat /\ posts[i] <= 1
    BY ServiceFacts DEF ServiceInv, OrdersInv, AtMostOneSubmission, Holding, ServiceTypeOK
  <2>2. PrepPositions(log, i) # {} /\ ResultPositions(log, i) = {}
    BY <2>1 DEF OrdersInv, HoldersOwnOrders
  <2>3. OnRecord(i) = "prepared"
    BY <2>2 DEF OnRecord
  <2>4. Truthful(i, st)
    BY <2>1 DEF OrdersInv, ResultsAreTruthful
  <2>5. venue[i] # "none" => posts[i] > 0
    BY <2>1 DEF OrdersInv, SubmissionsPrecede
  <2>6. st \in {"accepted", "rejected", "unknown"} => posts[i] = 1
    <3>1. st \in {"accepted", "rejected", "unknown"} => posts[i] > 0
      BY <2>4, <2>5 DEF Truthful, AskedWasSent
    <3> QED
      BY <2>1, <3>1
  <2>7. \/ st \in {"accepted", "rejected", "unknown"}
        \/ st = "blocked" /\ posts[i] = 0
    BY <2>4 DEF Truthful
  <2>8. st \in Outcomes
    BY <2>7 DEF Outcomes
  <2>9. \A k \in Ids : OnRecord(k)' = IF k = i THEN st ELSE OnRecord(k)
    BY <1>2, <2>1, <2>8, OnRecordSettled
  <2>10. st \in (IF posts[i] = 1 THEN Path!Answers ELSE Path!Refusals)
    BY <2>6, <2>7 DEF Path!Answers, Path!Refusals
  <2> HIDE DEF i, st
  <2>11. Path!Settle(i, st)
    BY <2>1, <2>3, <2>9, <2>10 DEF Path!Settle
  <2>12. st \in Path!Answers \cup Path!Refusals
    BY <2>10
  <2> QED
    BY <2>1, <2>11, <2>12 DEF Path!OrderStep
<1> QED
  BY <1>1, <1>2

\* Every step of the service is a step of one order on its path, or none.
LEMMA PathStep ==
  ASSUME ServiceInv, AskedWasSent, [Next]_vars
  PROVE  [Path!OrderStep]_<<[i \in Ids |-> OnRecord(i)], posts>>
<1>1. /\ pc \in [Requests -> Steps] /\ posts \in [Ids -> Nat]
      /\ \A q \in Requests : sig[q] \in Signals /\ sig[q].id \in Ids
  BY ServiceFacts
<1>2. ASSUME UNCHANGED <<log, posts>>
      PROVE  UNCHANGED <<[i \in Ids |-> OnRecord(i)], posts>>
  BY <1>2, OnRecordKept
<1>3. CASE \/ UNCHANGED vars
           \/ \E c \in Scopes : Start(c) \/ StartInterrupted(c)
           \/ Die \/ Stop \/ JoinPanicked \/ Receive
           \/ \E i \in Ids : VenueTakes(i) \/ WireLoses(i)
  BY <1>2, <1>3 DEF vars, journalVars, diskVars, exchangeVars, Start, StartInterrupted,
     Open, OpenInterrupted, Die, Crash, Stop, JoinPanicked, Receive, VenueTakes, WireLoses
<1>4. ASSUME NEW r \in Requests,
             \/ Submit(r) \/ Panic(r) \/ Lookup(r) \/ Admit(r) \/ PrepareDeclined(r)
             \/ Halt(r) \/ Recheck(r) \/ Respond(r) \/ TimeOut(r)
      PROVE  UNCHANGED <<log, posts>>
  BY <1>4 DEF Submit, Panic, Lookup, Admit, PrepareDeclined, Halt, Recheck, Respond,
     TimeOut, journalVars, diskVars, exchangeVars
<1>5. ASSUME NEW r \in Requests, Reserve(r) \/ ReserveFails(r)
      PROVE  [Path!OrderStep]_<<[i \in Ids |-> OnRecord(i)], posts>>
  <2>1. UNCHANGED posts
    BY <1>5 DEF Reserve, ReserveFails, exchangeVars
  <2>2. \/ log' = log
        \/ /\ Preparable(sig[r])
           /\ log' = log \/ log' = Append(log, Prepared(sig[r]))
    BY <1>5 DEF Reserve, ReserveFails, Prepare, PrepareAppendFails, PrepareIndexFails,
       Append1, AppendBroken, journalVars, diskVars
  <2> QED
    BY <1>1, <1>2, <2>1, <2>2, PathReserves
<1>6. ASSUME NEW r \in Requests, Record(r) \/ RecordFails(r)
      PROVE  [Path!OrderStep]_<<[i \in Ids |-> OnRecord(i)], posts>>
  <2>1. UNCHANGED posts /\ pc[r] = "finish"
    BY <1>6 DEF Record, RecordFails, exchangeVars
  <2>2. \/ log' = log
        \/ Finishable(sig[r].id) /\ log' = Append(log, Result(sig[r].id, result[r]))
    BY <1>6 DEF Record, RecordFails, Finish, FinishAppendFails, FinishIndexFails,
       Append1, AppendBroken, journalVars, diskVars
  <2> QED
    BY <2>1, <2>2, PathSettles
<1>7. ASSUME NEW r \in Requests, Post(r)
      PROVE  [Path!OrderStep]_<<[i \in Ids |-> OnRecord(i)], posts>>
  <2> DEFINE i == sig[r].id
  <2>1. i \in Ids /\ OrdersInv /\ r \in Holding /\ pc[r] = "post"
    BY <1>1, <1>7 DEF Post, Holding, ServiceInv
  <2>2. PrepPositions(log, i) # {} /\ ResultPositions(log, i) = {} /\ posts[i] = 0
    BY <2>1 DEF OrdersInv, HoldersOwnOrders, NotYetSubmitted
  <2>3. OnRecord(i) = "prepared"
    BY <2>2 DEF OnRecord
  <2>4. log' = log /\ posts' = [posts EXCEPT ![i] = 1]
    BY <1>1, <1>7, <2>1, <2>2 DEF Post, journalVars, diskVars
  <2> HIDE DEF i
  <2>5. Path!Send(i)
    BY <2>1, <2>2, <2>3, <2>4, OnRecordKept DEF Path!Send
  <2> QED
    BY <2>1, <2>5 DEF Path!OrderStep
<1> QED
  BY <1>2, <1>3, <1>4, <1>5, <1>6, <1>7 DEF Next, Work

\* The service implements what an order path promises, for any requests, answers,
\* failures and lives of the process: `process` reserves before it sends, sends
\* once, and records once what the exchange said, or why nothing was sent.
THEOREM ServiceImplementsSubmissions == Spec => ImplementsSubmissions
<1>1. Init => AskedWasSent
  BY DEF Init, AskedWasSent
<1>2. Init => Path!Init
  <2> SUFFICES ASSUME Init PROVE Path!Init
    OBVIOUS
  <2>1. log = <<>> /\ posts = [i \in Ids |-> 0]
    BY DEF Init, JournalInit
  <2>2. \A i \in Ids : OnRecord(i) = "none"
    BY <2>1 DEF OnRecord, PrepPositions, PreparedLines
  <2> QED
    BY <2>1, <2>2 DEF Path!Init
<1>3. ServiceInv /\ AskedWasSent /\ [Next]_vars => AskedWasSent'
  BY AskedStep
<1>4. ServiceInv /\ AskedWasSent /\ [Next]_vars
        => [Path!OrderStep]_<<[i \in Ids |-> OnRecord(i)], posts>>
  BY PathStep
<1> QED
  BY <1>1, <1>2, <1>3, <1>4, ServiceInvariant, PTL
     DEF Spec, ImplementsSubmissions, Path!FinalSpec

-----------------------------------------------------------------------------
(* The journal under the service *)

\* The service is a user of the journal like any other: what is proved of the
\* journal alone holds under it.
THEOREM ServiceKeepsJournal == Spec => JournalSpec
<1>1. Init => JournalInit
  BY DEF Init
<1>2. ServiceInv /\ [Next]_vars => [JournalNext]_journalVars
  BY ServiceStepsJournal DEF ServiceInv, OrdersInv
<1> QED
  BY <1>1, <1>2, ServiceInvariant, PTL DEF Spec, JournalSpec

-----------------------------------------------------------------------------
(* The classification of the exchange's answers *)

\* Whatever status code and body an answer has (a proxy's included), a definite
\* verdict rests on matching evidence about our own order, and an answer that
\* reports execution, a server error or another order never rejects it
\* (apply_exchange_response in src/lib.rs).
THEOREM VerdictsAreSound ==
  ASSUME NEW codes \in SUBSET Nat, NEW r \in ResponseSpace(codes)
  PROVE  VerdictFollowsEvidence(r) /\ ExecutionIsNeverRejected(r)
<1>1. /\ r.status \in Nat
      /\ r.success \in {"true", "false", "none"}
      /\ r.orderID \in {"ours", "other", "empty", "none"}
      /\ r.exStatus \in {"none", "accepting", "other"}
      /\ r.filled \in BOOLEAN /\ r.trades \in BOOLEAN
  BY DEF ResponseSpace
<1>2. ASSUME Accepts(r)
      PROVE  Claims(r) /\ ~Refuses(r) /\ ~Rejects(r) /\ r.status < 500
  BY <1>2 DEF Accepts, Claims, Refuses, Rejects, NoMatch, Nameless, Http2xx
<1>3. ASSUME Rejects(r)
      PROVE  /\ Refuses(r) /\ ~Claims(r)
             /\ r.status < 500 /\ r.success # "true"
             /\ r.orderID # "other"
             /\ r.orderID = "ours" => ~r.filled /\ ~r.trades /\ r.exStatus = "none"
  BY <1>1, <1>3 DEF Claims, Refuses, Rejects, NoMatch, Nameless, Http2xx
<1>4. /\ Classify(r) = "accepted" <=> Accepts(r)
      /\ Classify(r) = "rejected" <=> ~Accepts(r) /\ Rejects(r)
      /\ Classify(r) \in {"accepted", "rejected", "unknown"}
  BY DEF Classify
<1>5. Accepts(r) => r.orderID = "ours"
  BY DEF Accepts
<1>6. VerdictFollowsEvidence(r)
  BY <1>2, <1>3, <1>4 DEF VerdictFollowsEvidence, HonestAbout
<1>7. ExecutionIsNeverRejected(r)
  <2>1. r.status >= 500 \/ r.orderID = "other" => ~Accepts(r) /\ ~Rejects(r)
    BY <1>1, <1>2, <1>3, <1>5
  <2> QED
    BY <1>3, <1>4, <2>1 DEF ExecutionIsNeverRejected
<1> QED
  BY <1>6, <1>7

\* So it is for any answer a posted order may get.
THEOREM VerdictsHold == Spec => []Verdict
<1>1. Verdict
  BY VerdictsAreSound, ServiceAssumption DEF Verdict, EveryVerdict
<1> QED BY <1>1, PTL

=============================================================================
