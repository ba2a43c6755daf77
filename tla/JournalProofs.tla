--------------------------- MODULE JournalProofs ---------------------------
(***************************************************************************)
(* Proofs about the journal, for every set of identifiers and contents and *)
(* every capacity and budget.                                              *)
(***************************************************************************)
EXTENDS Journal, FiniteSetTheorems, SequenceTheorems, TLAPS

-----------------------------------------------------------------------------
(* Lines *)

\* Every line of the order log is a preparation or a result of a known shape.
LEMMA RecordShapes ==
  /\ \A s \in Signals : Prepared(s) \in Records
  /\ \A i \in Ids, st \in Outcomes : Result(i, st) \in Records
  /\ \A s \in Signals : Prepared(s).kind = "prepared" /\ Prepared(s).id = s.id
                          /\ Prepared(s).body = s.body
  /\ \A i \in Ids, st \in Outcomes :
       /\ Result(i, st).kind = "result"
       /\ Result(i, st).id = i
       /\ Result(i, st).state = st
BY DEF Signals, Records, Prepared, Result, Outcomes

\* Appending a preparation adds its position to those of its order.
LEMMA AppendPrepared ==
  ASSUME NEW l \in Seq(Records), NEW s \in Signals
  PROVE  LET k == Append(l, Prepared(s)) IN
         /\ k \in Seq(Records)
         /\ Len(k) = Len(l) + 1
         /\ \A n \in DOMAIN l : k[n] = l[n]
         /\ k[Len(l) + 1] = Prepared(s)
         /\ PreparedLines(k) = PreparedLines(l) \cup {Len(l) + 1}
         /\ \A i \in Ids : PrepPositions(k, i) =
              IF i = s.id THEN PrepPositions(l, i) \cup {Len(l) + 1}
                          ELSE PrepPositions(l, i)
         /\ \A i \in Ids : ResultPositions(k, i) = ResultPositions(l, i)
<1> DEFINE k == Append(l, Prepared(s))
<1>1. /\ k \in Seq(Records)
      /\ Len(k) = Len(l) + 1
      /\ DOMAIN k = DOMAIN l \cup {Len(l) + 1}
      /\ \A n \in DOMAIN l : k[n] = l[n]
      /\ k[Len(l) + 1] = Prepared(s)
      /\ Len(l) + 1 \notin DOMAIN l
  BY RecordShapes, AppendProperties
<1>2. k[Len(l) + 1].kind = "prepared" /\ k[Len(l) + 1].id = s.id
  BY <1>1, RecordShapes
<1> HIDE DEF k
<1>3. PreparedLines(k) = PreparedLines(l) \cup {Len(l) + 1}
  BY <1>1, <1>2 DEF PreparedLines
<1>4. \A i \in Ids : PrepPositions(k, i) =
        IF i = s.id THEN PrepPositions(l, i) \cup {Len(l) + 1}
                    ELSE PrepPositions(l, i)
  BY <1>1, <1>2, <1>3 DEF PrepPositions, PreparedLines
<1>5. \A i \in Ids : ResultPositions(k, i) = ResultPositions(l, i)
  BY <1>1, <1>2 DEF ResultPositions
<1> QED
  BY <1>1, <1>3, <1>4, <1>5 DEF k

\* Appending a result adds its position to the results of its order.
LEMMA AppendResult ==
  ASSUME NEW l \in Seq(Records), NEW j \in Ids, NEW st \in Outcomes
  PROVE  LET k == Append(l, Result(j, st)) IN
         /\ k \in Seq(Records)
         /\ Len(k) = Len(l) + 1
         /\ \A n \in DOMAIN l : k[n] = l[n]
         /\ k[Len(l) + 1] = Result(j, st)
         /\ PreparedLines(k) = PreparedLines(l)
         /\ \A i \in Ids : PrepPositions(k, i) = PrepPositions(l, i)
         /\ \A i \in Ids : ResultPositions(k, i) =
              IF i = j THEN ResultPositions(l, i) \cup {Len(l) + 1}
                       ELSE ResultPositions(l, i)
<1> DEFINE k == Append(l, Result(j, st))
<1>1. /\ k \in Seq(Records)
      /\ Len(k) = Len(l) + 1
      /\ DOMAIN k = DOMAIN l \cup {Len(l) + 1}
      /\ \A n \in DOMAIN l : k[n] = l[n]
      /\ k[Len(l) + 1] = Result(j, st)
      /\ Len(l) + 1 \notin DOMAIN l
  BY RecordShapes, AppendProperties
<1>2. k[Len(l) + 1].kind = "result" /\ k[Len(l) + 1].id = j
  BY <1>1, RecordShapes
<1> HIDE DEF k
<1>3. PreparedLines(k) = PreparedLines(l)
  BY <1>1, <1>2 DEF PreparedLines
<1>4. \A i \in Ids : PrepPositions(k, i) = PrepPositions(l, i)
  BY <1>1, <1>2, <1>3 DEF PrepPositions, PreparedLines
<1>5. \A i \in Ids : ResultPositions(k, i) =
              IF i = j THEN ResultPositions(l, i) \cup {Len(l) + 1}
                       ELSE ResultPositions(l, i)
  BY <1>1, <1>2 DEF ResultPositions
<1> QED
  BY <1>1, <1>3, <1>4, <1>5 DEF k

-----------------------------------------------------------------------------
(* Latest *)

\* Without results the position of the last one is 0 (a NULL result_offset).
LEMMA LatestOfEmpty == Latest({}) = 0
BY DEF Latest

\* The latest of a set with a greatest element is that element.
LEMMA LatestIsGreatest ==
  ASSUME NEW S \in SUBSET Nat, NEW m \in S, \A n \in S : n <= m
  PROVE  Latest(S) = m
<1>1. m \in S /\ \A y \in S : m >= y
  OBVIOUS
<1>2. \A x \in S : (\A y \in S : x >= y) => x = m
  OBVIOUS
<1>3. Max(S) = m
  BY <1>1, <1>2 DEF Max
<1> QED BY <1>3 DEF Latest

\* The preparations of a log are finitely many, so they can be counted.
LEMMA PreparedLinesFinite ==
  ASSUME NEW l \in Seq(Records)
  PROVE  /\ PreparedLines(l) \subseteq 1 .. Len(l)
         /\ IsFiniteSet(PreparedLines(l))
         /\ Cardinality(PreparedLines(l)) \in Nat
<1>1. DOMAIN l = 1 .. Len(l) /\ Len(l) \in Nat
  OBVIOUS
<1>2. PreparedLines(l) \subseteq 1 .. Len(l)
  BY <1>1 DEF PreparedLines
<1>3. IsFiniteSet(PreparedLines(l))
  <2>1. IsFiniteSet(1 .. Len(l))
    BY <1>1, FS_Interval
  <2> QED
    BY <1>2, <2>1, FS_Subset
<1> QED
  BY <1>2, <1>3, FS_CardinalityType

\* The positions of an order's records are lines of the log.
LEMMA PositionsAreLines ==
  ASSUME NEW l \in Seq(Records), NEW i \in Ids
  PROVE  /\ PreparedLines(l) \subseteq 1 .. Len(l)
         /\ PrepPositions(l, i) \subseteq 1 .. Len(l)
         /\ ResultPositions(l, i) \subseteq 1 .. Len(l)
         /\ IsFiniteSet(PreparedLines(l))
         /\ Cardinality(PreparedLines(l)) \in Nat
<1>1. DOMAIN l = 1 .. Len(l)
  OBVIOUS
<1> QED
  BY <1>1, PreparedLinesFinite DEF PreparedLines, PrepPositions, ResultPositions

\* The one preparation and the last result of an order are found by Latest.
LEMMA LatestFinds ==
  ASSUME NEW l \in Seq(Records), NEW i \in Ids,
         Replayable(l), LatestExists(l)
  PROVE  /\ PrepPositions(l, i) # {} =>
              Latest(PrepPositions(l, i)) \in PrepPositions(l, i)
         /\ ResultPositions(l, i) # {} =>
              Latest(ResultPositions(l, i)) \in ResultPositions(l, i)
         /\ Latest(PrepPositions(l, i)) = 0 <=> PrepPositions(l, i) = {}
         /\ Latest(ResultPositions(l, i)) = 0 <=> ResultPositions(l, i) = {}
         /\ Latest(PrepPositions(l, i)) \in Nat
         /\ Latest(ResultPositions(l, i)) \in Nat
<1>1. /\ PrepPositions(l, i) \subseteq 1 .. Len(l)
      /\ ResultPositions(l, i) \subseteq 1 .. Len(l)
      /\ PrepPositions(l, i) \in SUBSET Nat
      /\ ResultPositions(l, i) \in SUBSET Nat
  BY PositionsAreLines
<1>2. ASSUME PrepPositions(l, i) # {}
      PROVE  Latest(PrepPositions(l, i)) \in PrepPositions(l, i)
  <2>1. PICK m \in PrepPositions(l, i) : TRUE
    BY <1>2
  <2>2. \A n \in PrepPositions(l, i) : n <= m
    BY <1>1, <2>1 DEF Replayable, PrepPositions
  <2> QED
    BY <1>1, <2>1, <2>2, LatestIsGreatest
<1>3. ASSUME ResultPositions(l, i) # {}
      PROVE  Latest(ResultPositions(l, i)) \in ResultPositions(l, i)
  <2>1. PICK m \in ResultPositions(l, i) :
               \A n \in ResultPositions(l, i) : n <= m
    BY <1>3 DEF LatestExists
  <2> QED
    BY <1>1, <2>1, LatestIsGreatest
<1>4. PrepPositions(l, i) = {} => Latest(PrepPositions(l, i)) = 0
  BY LatestOfEmpty
<1>5. ResultPositions(l, i) = {} => Latest(ResultPositions(l, i)) = 0
  BY LatestOfEmpty
<1>6. 0 \notin PrepPositions(l, i) /\ 0 \notin ResultPositions(l, i)
  BY <1>1
<1> HIDE DEF Latest
<1> QED
  BY <1>1, <1>2, <1>3, <1>4, <1>5, <1>6

\* A preparation of a new order, below the capacity, leaves a log that the
\* replay of Journal::open accepts.
LEMMA PrepareKeepsReplayable ==
  ASSUME NEW l \in Seq(Records), NEW s \in Signals,
         Replayable(l), LatestExists(l),
         PrepPositions(l, s.id) = {},
         Cardinality(PreparedLines(l)) < OrderCapacity
  PROVE  LET k == Append(l, Prepared(s)) IN
         /\ Replayable(k)
         /\ LatestExists(k)
         /\ Cardinality(PreparedLines(k)) = Cardinality(PreparedLines(l)) + 1
<1> DEFINE k == Append(l, Prepared(s))
<1>1. /\ k \in Seq(Records)
      /\ Len(k) = Len(l) + 1
      /\ \A n \in DOMAIN l : k[n] = l[n]
      /\ k[Len(l) + 1] = Prepared(s)
      /\ PreparedLines(k) = PreparedLines(l) \cup {Len(l) + 1}
      /\ \A i \in Ids : PrepPositions(k, i) =
           IF i = s.id THEN PrepPositions(l, i) \cup {Len(l) + 1}
                       ELSE PrepPositions(l, i)
      /\ \A i \in Ids : ResultPositions(k, i) = ResultPositions(l, i)
  BY AppendPrepared
<1>2. s.id \in Ids /\ k[Len(l) + 1].id = s.id /\ k[Len(l) + 1].kind = "prepared"
  BY <1>1, RecordShapes DEF Signals
<1> HIDE DEF k
<1>a. PreparedLines(l) \subseteq DOMAIN l
  BY DEF PreparedLines
<1>3. /\ DOMAIN l = 1 .. Len(l) /\ DOMAIN k = 1 .. Len(k) /\ Len(l) \in Nat
      /\ PreparedLines(l) \subseteq DOMAIN l
      /\ IsFiniteSet(PreparedLines(l))
      /\ Cardinality(PreparedLines(l)) \in Nat
  BY <1>1, <1>2, <1>a, PositionsAreLines
<1>4. \A n \in PreparedLines(l) : k[n].id # s.id
  BY <1>1, <1>3 DEF PrepPositions
<1>5. \A m, n \in PreparedLines(k) : k[m].id = k[n].id => m = n
  BY <1>1, <1>2, <1>3, <1>4 DEF Replayable
<1>6. ASSUME NEW n \in DOMAIN k, k[n].kind = "result"
      PROVE  \E m \in PrepPositions(k, k[n].id) : m < n
  <2>1. n \in DOMAIN l /\ l[n].kind = "result" /\ k[n] = l[n]
    BY <1>1, <1>2, <1>3, <1>6
  <2>2. k[n].id \in Ids
    BY <1>1, <1>6 DEF Records
  <2> QED
    BY <1>1, <2>1, <2>2 DEF Replayable
<1>7. Len(l) + 1 \notin PreparedLines(l)
  BY <1>3
<1>8. Cardinality(PreparedLines(k)) = Cardinality(PreparedLines(l)) + 1
  BY <1>1, <1>3, <1>7, FS_AddElement
<1>9. Replayable(k)
  BY <1>3, <1>5, <1>6, <1>8, LimitsAssumption DEF Replayable
<1>10. LatestExists(k)
  BY <1>1 DEF LatestExists
<1> QED
  BY <1>8, <1>9, <1>10 DEF k

\* A result of a prepared order leaves a log that the replay accepts.
LEMMA ResultKeepsReplayable ==
  ASSUME NEW l \in Seq(Records), NEW j \in Ids, NEW st \in Outcomes,
         Replayable(l), LatestExists(l),
         PrepPositions(l, j) # {}
  PROVE  LET k == Append(l, Result(j, st)) IN
         /\ Replayable(k)
         /\ LatestExists(k)
         /\ Latest(ResultPositions(k, j)) = Len(l) + 1
<1> DEFINE k == Append(l, Result(j, st))
<1>1. /\ k \in Seq(Records)
      /\ Len(k) = Len(l) + 1
      /\ \A n \in DOMAIN l : k[n] = l[n]
      /\ k[Len(l) + 1] = Result(j, st)
      /\ PreparedLines(k) = PreparedLines(l)
      /\ \A i \in Ids : PrepPositions(k, i) = PrepPositions(l, i)
      /\ \A i \in Ids : ResultPositions(k, i) =
              IF i = j THEN ResultPositions(l, i) \cup {Len(l) + 1}
                       ELSE ResultPositions(l, i)
  BY AppendResult
<1>2. k[Len(l) + 1].kind = "result" /\ k[Len(l) + 1].id = j
  BY <1>1, RecordShapes
<1> HIDE DEF k
<1>a. PreparedLines(l) \subseteq DOMAIN l
  BY DEF PreparedLines
<1>3. /\ DOMAIN l = 1 .. Len(l) /\ DOMAIN k = 1 .. Len(k) /\ Len(l) \in Nat
      /\ PreparedLines(l) \subseteq DOMAIN l
      /\ PrepPositions(l, j) \subseteq 1 .. Len(l)
      /\ ResultPositions(l, j) \subseteq 1 .. Len(l)
  BY <1>1, <1>a, PositionsAreLines
<1>4. \A m, n \in PreparedLines(k) : k[m].id = k[n].id => m = n
  BY <1>1, <1>3 DEF Replayable
<1>5. ASSUME NEW n \in DOMAIN k, k[n].kind = "result"
      PROVE  \E m \in PrepPositions(k, k[n].id) : m < n
  <2>1. k[n].id \in Ids
    BY <1>1, <1>5 DEF Records
  <2>2. CASE n = Len(l) + 1
    <3>1. PICK m \in PrepPositions(l, j) : m \in 1 .. Len(l)
      BY <1>3
    <3>2. k[n].id = j /\ m < n /\ m \in PrepPositions(k, j)
      BY <1>1, <1>2, <1>3, <2>2, <3>1
    <3> QED
      BY <3>2
  <2>3. CASE n \in DOMAIN l
    BY <1>1, <1>5, <2>1, <2>3 DEF Replayable
  <2> QED
    BY <1>1, <1>3, <2>2, <2>3
<1>6. Replayable(k)
  BY <1>1, <1>4, <1>5 DEF Replayable
<1>7. /\ Len(l) + 1 \in ResultPositions(k, j)
      /\ \A n \in ResultPositions(k, j) : n <= Len(l) + 1
      /\ ResultPositions(k, j) \in SUBSET Nat
  BY <1>1, <1>3
<1>8. LatestExists(k)
  BY <1>1, <1>7 DEF LatestExists
<1>9. Latest(ResultPositions(k, j)) = Len(l) + 1
  BY <1>7, LatestIsGreatest
<1> QED
  BY <1>6, <1>8, <1>9 DEF k


-----------------------------------------------------------------------------
(* The inductive invariant *)

\* In a healthy journal a row exists exactly for the orders of the file.
LEMMA KnownIsPrepared ==
  ASSUME JournalInv, up, ~failed, NEW i \in Ids
  PROVE  Known(i) <=> PrepPositions(log, i) # {}
<1>1. index[i].prep = Latest(PrepPositions(log, i))
  BY DEF JournalInv, IndexMatchesLog
<1> QED
  BY <1>1, LatestFinds DEF Known, JournalInv, JournalTypeOK, RestartAccepted

\* Facts about the order log after each way an append can end.
LEMMA LogAfterPrepare ==
  ASSUME JournalInv, NEW s \in Signals, Preparable(s),
         log' = log \/ log' = Append(log, Prepared(s)),
         acks' = acks, ackTail' = ackTail
  PROVE  /\ log' \in Seq(Records)
         /\ RestartAccepted' /\ LatestExists(log)'
         /\ BudgetCoversLog'
         /\ \A i \in Ids : PrepPositions(log, i) \subseteq PrepPositions(log', i)
         /\ \A i \in Ids : ResultPositions(log', i) = ResultPositions(log, i)
<1> USE DEF JournalInv
<1>1. CASE log' = log
  BY <1>1 DEF RestartAccepted, AcksReplayable, AckedIds, BudgetCoversLog,
              JournalTypeOK, LatestExists, PrepPositions, ResultPositions
<1>2. CASE log' = Append(log, Prepared(s))
  <2>1. /\ s.id \in Ids /\ log \in Seq(Records)
        /\ PrepPositions(log, s.id) = {}
        /\ count = Cardinality(PreparedLines(log))
        /\ used = OrderBudget * count
    BY KnownIsPrepared DEF Preparable, Signals, JournalTypeOK, CountsMatchLog
  <2>2. /\ Replayable(log') /\ LatestExists(log')
        /\ Cardinality(PreparedLines(log')) = Cardinality(PreparedLines(log)) + 1
    BY <1>2, <2>1, PrepareKeepsReplayable DEF Preparable, RestartAccepted
  <2>3. /\ log' \in Seq(Records)
        /\ \A i \in Ids : PrepPositions(log, i) \subseteq PrepPositions(log', i)
        /\ \A i \in Ids : ResultPositions(log', i) = ResultPositions(log, i)
    BY <1>2, <2>1, AppendPrepared
  <2>4. AcksReplayable'
    BY <2>3 DEF RestartAccepted, AcksReplayable, AckedIds
  <2>5. BudgetCoversLog'
    <3>1. count \in Nat /\ OrderBudget \in Nat
      BY LimitsAssumption DEF JournalTypeOK
    <3>2. OrderBudget * (count + 1) = OrderBudget * count + OrderBudget
      BY <3>1
    <3> QED
      BY <2>1, <2>2, <3>2 DEF Preparable, BudgetCoversLog
  <2> QED
    BY <2>2, <2>3, <2>4, <2>5 DEF RestartAccepted, LatestExists
<1> QED
  BY <1>1, <1>2

\* What a log with one more result says: the same preparations, and the new
\* result as the latest of its order.
LEMMA LogAfterFinish ==
  ASSUME JournalInv, NEW j \in Ids, NEW st \in Outcomes, Finishable(j),
         log' = log \/ log' = Append(log, Result(j, st)),
         acks' = acks, ackTail' = ackTail
  PROVE  /\ log' \in Seq(Records)
         /\ RestartAccepted' /\ LatestExists(log)'
         /\ BudgetCoversLog'
         /\ PreparedLines(log') = PreparedLines(log)
         /\ \A i \in Ids : PrepPositions(log', i) = PrepPositions(log, i)
         /\ \A i \in Ids : ResultPositions(log, i) \subseteq ResultPositions(log', i)
<1> USE DEF JournalInv
<1>1. CASE log' = log
  BY <1>1 DEF RestartAccepted, AcksReplayable, AckedIds, BudgetCoversLog,
              JournalTypeOK, LatestExists, PrepPositions, ResultPositions
<1>2. CASE log' = Append(log, Result(j, st))
  <2>1. log \in Seq(Records) /\ PrepPositions(log, j) # {}
    BY KnownIsPrepared DEF Finishable, JournalTypeOK
  <2>2. Replayable(log') /\ LatestExists(log')
    BY <1>2, <2>1, ResultKeepsReplayable DEF RestartAccepted
  <2>3. /\ log' \in Seq(Records)
        /\ PreparedLines(log') = PreparedLines(log)
        /\ \A i \in Ids : PrepPositions(log', i) = PrepPositions(log, i)
        /\ \A i \in Ids : ResultPositions(log, i) \subseteq ResultPositions(log', i)
    BY <1>2, <2>1, AppendResult
  <2>4. AcksReplayable' /\ BudgetCoversLog'
    BY <2>3 DEF RestartAccepted, AcksReplayable, AckedIds, BudgetCoversLog
  <2> QED
    BY <2>2, <2>3, <2>4 DEF RestartAccepted, LatestExists
<1> QED
  BY <1>1, <1>2


\* Recovery reads a state some record holds; a result implies a preparation.
LEMMA RecoveryReads ==
  ASSUME NEW l \in Seq(Records), NEW i \in Ids, Replayable(l), LatestExists(l)
  PROVE  /\ RecoveredState(l, i) \in Outcomes \cup {"absent"}
         /\ ResultPositions(l, i) # {} => PrepPositions(l, i) # {}
<1>1. ASSUME ResultPositions(l, i) # {}
      PROVE  /\ l[Latest(ResultPositions(l, i))].state \in Outcomes
             /\ PrepPositions(l, i) # {}
  <2> DEFINE n == Latest(ResultPositions(l, i))
  <2>1. n \in DOMAIN l /\ l[n].kind = "result" /\ l[n].id = i
    BY <1>1, LatestFinds DEF ResultPositions
  <2>2. l[n] \in Records
    BY <2>1
  <2>3. l[n].state \in Outcomes
    BY <2>1, <2>2 DEF Records
  <2>4. PrepPositions(l, i) # {}
    BY <2>1 DEF Replayable
  <2> QED
    BY <2>3, <2>4
<1> QED
  BY <1>1 DEF RecoveredState, Outcomes

\* Lines added for other orders change nothing an order recovers to.
LEMMA RecoverySame ==
  ASSUME NEW l \in Seq(Records), NEW i \in Ids, Replayable(l), LatestExists(l),
         NEW k, \A n \in DOMAIN l : k[n] = l[n],
         PrepPositions(k, i) = {} <=> PrepPositions(l, i) = {},
         ResultPositions(k, i) = ResultPositions(l, i)
  PROVE  RecoveredState(k, i) = RecoveredState(l, i)
<1>1. CASE ResultPositions(l, i) = {}
  BY <1>1 DEF RecoveredState
<1>2. CASE ResultPositions(l, i) # {}
  <2>1. Latest(ResultPositions(l, i)) \in DOMAIN l
    BY <1>2, LatestFinds DEF ResultPositions
  <2>2. k[Latest(ResultPositions(l, i))] = l[Latest(ResultPositions(l, i))]
    BY <2>1
  <2> QED
    BY <1>2, <2>2 DEF RecoveredState
<1> QED
  BY <1>1, <1>2

\* The invariant holds of the empty journal.
LEMMA InitInv == JournalInit => JournalInv
<1> SUFFICES ASSUME JournalInit PROVE JournalInv
  OBVIOUS
<1> USE DEF JournalInit
<1>1. PreparedLines(log) = {}
  BY DEF PreparedLines
<1>2. \A i \in Ids : PrepPositions(log, i) = {} /\ ResultPositions(log, i) = {}
  BY <1>1 DEF PrepPositions, ResultPositions
<1>3. Cardinality(PreparedLines(log)) = 0
  BY <1>1, FS_EmptySet
<1>4. NoRow \in Rows
  BY DEF NoRow, Rows
<1>5. JournalTypeOK
  <2>1. log \in Seq(Records) /\ index \in [Ids -> Rows]
    BY <1>4
  <2> QED
    BY <2>1 DEF JournalTypeOK, AckTails
<1>6. RestartAccepted
  <2>1. Replayable(log)
    BY <1>1, <1>3, LimitsAssumption DEF Replayable
  <2>2. AckedIds = {}
    BY IdsAssumption DEF AckedIds
  <2> QED
    BY <2>1, <2>2 DEF RestartAccepted, AcksReplayable
<1>7. BudgetCoversLog
  BY <1>3, LimitsAssumption DEF BudgetCoversLog
<1> QED
  BY <1>2, <1>5, <1>6, <1>7
     DEF JournalInv, LatestExists, IndexMatchesLog, CountsMatchLog,
         ReadsOwnRecords, DeadKnowsNothing, Known, NoRow

\* Journal::open establishes the invariant from the files alone.
LEMMA OpenInv ==
  ASSUME JournalInv, NEW scope \in Scopes, Open(scope)
  PROVE  JournalInv'
<1> USE DEF JournalInv
<1>1. /\ log' = log /\ acks' = acks /\ ackTail' = ackTail
      /\ log \in Seq(Records) /\ Replayable(log) /\ LatestExists(log)
  BY DEF Open, JournalTypeOK, RestartAccepted
<1>2. ASSUME NEW i \in Ids
      PROVE  /\ index'[i] = RebuiltRow(i)
             /\ RebuiltRow(i) \in Rows
             /\ RebuiltRow(i).prep = Latest(PrepPositions(log, i))
             /\ RebuiltRow(i).res = Latest(ResultPositions(log, i))
             /\ RebuiltRow(i).state = RecoveredState(log, i)
  <2>1. index'[i] = RebuiltRow(i)
    BY DEF Open
  <2>2. CASE PrepPositions(log, i) = {}
    <3>1. ResultPositions(log, i) = {} /\ RecoveredState(log, i) = "absent"
      BY <1>1, <2>2, RecoveryReads DEF RecoveredState
    <3>2. RebuiltRow(i) = NoRow
      BY <2>2 DEF RebuiltRow
    <3> QED
      BY <2>1, <2>2, <3>1, <3>2, LatestOfEmpty DEF NoRow, Rows
  <2>3. CASE PrepPositions(log, i) # {}
    <3>1. /\ Latest(PrepPositions(log, i)) \in Nat
          /\ Latest(ResultPositions(log, i)) \in Nat
          /\ RecoveredState(log, i) \in Outcomes \cup {"absent"}
      BY <1>1, LatestFinds, RecoveryReads
    <3>2. (i \in AckedIds) \in BOOLEAN
          /\ (Pending(i, RecoveredState(log, i)) /\ i \notin AckedIds) \in BOOLEAN
      OBVIOUS
    <3> QED
      BY <2>1, <2>3, <3>1, <3>2 DEF RebuiltRow, Rows
  <2> QED
    BY <2>2, <2>3
<1>3. JournalTypeOK'
  <2>1. index' \in [Ids -> Rows]
    BY <1>2 DEF Open
  <2>2. /\ length' \in Nat /\ count' \in Nat /\ used' \in Nat
    <3>1. count' \in Nat /\ Len(log) \in Nat
      BY <1>1, PreparedLinesFinite DEF Open
    <3> QED
      BY <3>1, LimitsAssumption DEF Open
  <2> QED
    BY <1>1, <2>1, <2>2 DEF JournalTypeOK, Open
<1>4. RestartAccepted' /\ LatestExists(log)' /\ BudgetCoversLog'
  BY <1>1 DEF RestartAccepted, AcksReplayable, AckedIds, BudgetCoversLog
<1>5. IndexMatchesLog'
  BY <1>1, <1>2 DEF IndexMatchesLog, Open
<1>6. CountsMatchLog'
  BY <1>1 DEF CountsMatchLog, Open
<1>7. ReadsOwnRecords'
  BY <1>1, <1>2, LatestFinds DEF ReadsOwnRecords, Known
<1>8. DeadKnowsNothing'
  BY DEF DeadKnowsNothing, Open
<1> QED
  BY <1>3, <1>4, <1>5, <1>6, <1>7, <1>8

\* A successful Journal::prepare keeps the invariant.
LEMMA PrepareInv ==
  ASSUME JournalInv, NEW s \in Signals, Prepare(s)
  PROVE  JournalInv'
<1> USE DEF JournalInv
<1>1. /\ Preparable(s)
      /\ log' = Append(log, Prepared(s))
      /\ length' = length + 1 /\ length = Len(log)
      /\ acks' = acks /\ ackTail' = ackTail
      /\ s.id \in Ids /\ log \in Seq(Records)
      /\ PrepPositions(log, s.id) = {}
      /\ up /\ ~failed
      /\ index \in [Ids -> Rows]
  BY KnownIsPrepared DEF Prepare, Preparable, Append1, IndexMatchesLog, Signals,
     JournalTypeOK
<1>2. /\ log' \in Seq(Records)
      /\ RestartAccepted' /\ LatestExists(log)'
      /\ BudgetCoversLog'
      /\ \A i \in Ids : ResultPositions(log', i) = ResultPositions(log, i)
  BY <1>1, LogAfterPrepare
<1>3. /\ Len(log') = Len(log) + 1
      /\ \A n \in DOMAIN log : log'[n] = log[n]
      /\ \A i \in Ids : PrepPositions(log', i) =
              IF i = s.id THEN {Len(log) + 1} ELSE PrepPositions(log, i)
      /\ Len(log) + 1 \in Nat /\ Len(log) \in Nat
  <2>1. Len(log) \in Nat
    BY <1>1
  <2>2. /\ Len(log') = Len(log) + 1
        /\ \A n \in DOMAIN log : log'[n] = log[n]
        /\ \A i \in Ids : PrepPositions(log', i) =
              IF i = s.id THEN PrepPositions(log, i) \cup {Len(log) + 1}
                          ELSE PrepPositions(log, i)
    BY <1>1, AppendPrepared
  <2> QED
    BY <1>1, <2>1, <2>2
<1>4. /\ Cardinality(PreparedLines(log')) = Cardinality(PreparedLines(log)) + 1
  BY <1>1, PrepareKeepsReplayable DEF RestartAccepted, Preparable, CountsMatchLog
<1>5. ResultPositions(log, s.id) = {}
  BY <1>1, RecoveryReads DEF RestartAccepted
<1>6. /\ index' \in [Ids -> Rows]
      /\ index'[s.id].prep = Len(log) + 1
      /\ index'[s.id].res = 0
      /\ index'[s.id].state = "prepared"
      /\ \A i \in Ids \ {s.id} : index'[i] = index[i]
  <2> DEFINE row == [NoRow EXCEPT !.prep = length + 1, !.state = "prepared",
                                  !.pending = Pending(s.id, "prepared")]
  <2>1. /\ row \in Rows /\ row.prep = length + 1 /\ row.res = 0
        /\ row.state = "prepared"
    BY <1>1, <1>3 DEF NoRow, Rows, Pending
  <2>2. index' = [index EXCEPT ![s.id] = row]
    BY DEF Prepare, InsertRow
  <2> QED
    BY <1>1, <2>1, <2>2
<1>7. JournalTypeOK'
  BY <1>1, <1>2, <1>6, LimitsAssumption DEF JournalTypeOK, Prepare, Append1
<1>8. IndexMatchesLog'
  <2>1. ASSUME NEW i \in Ids
        PROVE  /\ index'[i].prep = Latest(PrepPositions(log', i))
               /\ index'[i].res = Latest(ResultPositions(log', i))
               /\ \/ index'[i].state = RecoveredState(log', i)
                  \/ /\ index'[i].state = "prepared"
                     /\ Known(i)' /\ index'[i].res = 0
    <3>1. CASE i = s.id
      <4>1. Latest({Len(log) + 1}) = Len(log) + 1
        BY <1>3, LatestIsGreatest
      <4>2. /\ PrepPositions(log', i) = {Len(log) + 1}
            /\ ResultPositions(log', i) = {}
        BY <1>2, <1>3, <1>5, <3>1
      <4>3. Len(log) + 1 # 0 /\ Known(i)'
        BY <1>3, <1>6, <3>1 DEF Known
      <4> QED
        BY <1>6, <3>1, <4>1, <4>2, <4>3, LatestOfEmpty
    <3>2. CASE i # s.id
      <4>1. /\ PrepPositions(log', i) = PrepPositions(log, i)
            /\ ResultPositions(log', i) = ResultPositions(log, i)
            /\ index'[i] = index[i]
        BY <1>2, <1>3, <1>6, <3>2
      <4>2. RecoveredState(log', i) = RecoveredState(log, i)
        BY <1>1, <1>3, <4>1, RecoverySame DEF RestartAccepted
      <4> QED
        BY <1>1, <4>1, <4>2 DEF IndexMatchesLog, Known
    <3> QED
      BY <3>1, <3>2
  <2> QED
    BY <1>1, <1>3, <2>1 DEF IndexMatchesLog
<1>9. CountsMatchLog'
  <2>1. /\ count' = count + 1 /\ used' = used + OrderBudget
        /\ count = Cardinality(PreparedLines(log)) /\ used = OrderBudget * count
        /\ count \in Nat
    BY <1>1 DEF Prepare, CountsMatchLog, JournalTypeOK
  <2>2. OrderBudget * (count + 1) = OrderBudget * count + OrderBudget
    BY <2>1, LimitsAssumption
  <2> QED
    BY <1>4, <2>1, <2>2 DEF CountsMatchLog
<1>10. ReadsOwnRecords'
  <2>1. ASSUME NEW i \in Ids, Known(i)'
        PROVE  /\ index'[i].prep \in PrepPositions(log', i)
               /\ index'[i].res # 0 => index'[i].res \in ResultPositions(log', i)
    <3>1. CASE i = s.id
      BY <1>3, <1>6, <3>1
    <3>2. CASE i # s.id
      BY <1>2, <1>3, <1>6, <2>1, <3>2 DEF ReadsOwnRecords, Known
    <3> QED
      BY <3>1, <3>2
  <2> QED
    BY <2>1 DEF ReadsOwnRecords
<1>11. DeadKnowsNothing'
  BY <1>1 DEF DeadKnowsNothing, Prepare
<1> QED
  BY <1>2, <1>7, <1>8, <1>9, <1>10, <1>11


\* A failed preparation poisons the process: only the file may have changed.
LEMMA PrepareFailsInv ==
  ASSUME JournalInv, NEW s \in Signals,
         PrepareAppendFails(s) \/ PrepareIndexFails(s)
  PROVE  JournalInv'
<1> USE DEF JournalInv
<1>1. /\ Preparable(s)
      /\ log' = log \/ log' = Append(log, Prepared(s))
      /\ acks' = acks /\ ackTail' = ackTail
      /\ header' = header /\ up' = up /\ failed' = TRUE
      /\ index' = index /\ used' = used /\ count' = count
      /\ length' = length \/ length' = length + 1
      /\ torn' = torn \/ torn' = TRUE
  BY DEF PrepareAppendFails, PrepareIndexFails, AppendBroken, Append1, Poison
<1>2. /\ log' \in Seq(Records)
      /\ RestartAccepted' /\ LatestExists(log)' /\ BudgetCoversLog'
      /\ \A i \in Ids : PrepPositions(log, i) \subseteq PrepPositions(log', i)
      /\ \A i \in Ids : ResultPositions(log', i) = ResultPositions(log, i)
  BY <1>1, LogAfterPrepare
<1>3. JournalTypeOK'
  <2>0. torn \in BOOLEAN /\ length \in Nat
    BY DEF JournalTypeOK
  <2>1. length' \in Nat
    BY <1>1, <2>0
  <2>2. torn' \in BOOLEAN
    BY <1>1, <2>0, Zenon
  <2> QED
    BY <1>1, <1>2, <2>1, <2>2 DEF JournalTypeOK
<1>4. ReadsOwnRecords'
  BY <1>1, <1>2 DEF ReadsOwnRecords, Known
<1>5. up
  BY <1>1 DEF Preparable
<1> QED
  BY <1>1, <1>2, <1>3, <1>4, <1>5
     DEF IndexMatchesLog, CountsMatchLog, DeadKnowsNothing

\* So does a Journal::finish whose append or index statement fails.
LEMMA FinishFailsInv ==
  ASSUME JournalInv, NEW j \in Ids, NEW st \in Outcomes,
         FinishAppendFails(j, st) \/ FinishIndexFails(j, st)
  PROVE  JournalInv'
<1> USE DEF JournalInv
<1>1. /\ Finishable(j)
      /\ log' = log \/ log' = Append(log, Result(j, st))
      /\ acks' = acks /\ ackTail' = ackTail
      /\ header' = header /\ up' = up /\ failed' = TRUE
      /\ index' = index /\ used' = used /\ count' = count
      /\ length' = length \/ length' = length + 1
      /\ torn' = torn \/ torn' = TRUE
  BY DEF FinishAppendFails, FinishIndexFails, AppendBroken, Append1, Poison
<1>2. /\ log' \in Seq(Records)
      /\ RestartAccepted' /\ LatestExists(log)' /\ BudgetCoversLog'
      /\ \A i \in Ids : PrepPositions(log', i) = PrepPositions(log, i)
      /\ \A i \in Ids : ResultPositions(log, i) \subseteq ResultPositions(log', i)
  BY <1>1, LogAfterFinish
<1>3. JournalTypeOK'
  <2>0. torn \in BOOLEAN /\ length \in Nat
    BY DEF JournalTypeOK
  <2>1. length' \in Nat
    BY <1>1, <2>0
  <2>2. torn' \in BOOLEAN
    BY <1>1, <2>0, Zenon
  <2> QED
    BY <1>1, <1>2, <2>1, <2>2 DEF JournalTypeOK
<1>4. ReadsOwnRecords'
  BY <1>1, <1>2 DEF ReadsOwnRecords, Known
<1>5. up
  BY <1>1 DEF Finishable
<1> QED
  BY <1>1, <1>2, <1>3, <1>4, <1>5
     DEF IndexMatchesLog, CountsMatchLog, DeadKnowsNothing

\* A successful Journal::finish keeps the invariant.
LEMMA FinishInv ==
  ASSUME JournalInv, NEW j \in Ids, NEW st \in Outcomes, Finish(j, st)
  PROVE  JournalInv'
<1> USE DEF JournalInv
<1>1. /\ Finishable(j) /\ up /\ ~failed /\ Known(j)
      /\ log' = Append(log, Result(j, st))
      /\ length' = length + 1 /\ length = Len(log)
      /\ acks' = acks /\ ackTail' = ackTail
      /\ header' = header /\ torn' = torn /\ up' = up /\ failed' = failed
      /\ used' = used /\ count' = count
      /\ log \in Seq(Records) /\ index \in [Ids -> Rows]
      /\ Replayable(log) /\ LatestExists(log)
  BY DEF Finish, Finishable, Append1, IndexMatchesLog, JournalTypeOK,
         RestartAccepted
<1>2. /\ log' \in Seq(Records)
      /\ RestartAccepted' /\ LatestExists(log)' /\ BudgetCoversLog'
      /\ PreparedLines(log') = PreparedLines(log)
      /\ \A i \in Ids : PrepPositions(log', i) = PrepPositions(log, i)
  BY <1>1, LogAfterFinish
<1>3. /\ Len(log') = Len(log) + 1
      /\ \A n \in DOMAIN log : log'[n] = log[n]
      /\ log'[Len(log) + 1] = Result(j, st)
      /\ \A i \in Ids : ResultPositions(log', i) =
           IF i = j THEN ResultPositions(log, i) \cup {Len(log) + 1}
                    ELSE ResultPositions(log, i)
      /\ Len(log) \in Nat
  <2>1. Len(log) \in Nat
    BY <1>1
  <2> QED
    BY <1>1, <2>1, AppendResult
<1>4. /\ index' \in [Ids -> Rows]
      /\ index'[j].prep = index[j].prep
      /\ index'[j].res = Len(log) + 1
      /\ index'[j].state = st
      /\ \A i \in Ids \ {j} : index'[i] = index[i]
  <2>1. index[j] \in Rows /\ length + 1 \in Nat
    BY <1>1, <1>3
  <2>2. PICK waits \in BOOLEAN :
          index' = [index EXCEPT ![j] =
                      [@ EXCEPT !.res = length + 1, !.state = st,
                                !.pending = waits]]
    BY Zenon DEF Finish, UpdateRow, Pending
  <2> DEFINE row == [index[j] EXCEPT !.res = length + 1, !.state = st,
                                     !.pending = waits]
  <2>3. /\ row \in Rows /\ row.prep = index[j].prep
        /\ row.res = length + 1 /\ row.state = st
    BY <2>1 DEF Rows
  <2>4. index' = [index EXCEPT ![j] = row]
    BY <2>2
  <2> QED
    BY <1>1, <2>3, <2>4
<1>5. JournalTypeOK'
  BY <1>1, <1>2, <1>4 DEF JournalTypeOK
<1>6. PrepPositions(log, j) # {}
  BY <1>1, KnownIsPrepared
<1>7. Latest(ResultPositions(log', j)) = Len(log) + 1
  BY <1>1, <1>6, ResultKeepsReplayable
<1>8. IndexMatchesLog'
  <2>1. ASSUME NEW i \in Ids
        PROVE  /\ index'[i].prep = Latest(PrepPositions(log', i))
               /\ index'[i].res = Latest(ResultPositions(log', i))
               /\ \/ index'[i].state = RecoveredState(log', i)
                  \/ /\ index'[i].state = "prepared"
                     /\ Known(i)' /\ index'[i].res = 0
    <3>1. CASE i = j
      <4>1. /\ PrepPositions(log', j) # {} /\ ResultPositions(log', j) # {}
        BY <1>2, <1>3, <1>6
      <4>2. log'[Len(log) + 1].state = st
        BY <1>3, RecordShapes
      <4>3. RecoveredState(log', j) = st
        BY <1>7, <4>1, <4>2 DEF RecoveredState
      <4>4. index[j].prep = Latest(PrepPositions(log, j))
        BY <1>1 DEF IndexMatchesLog
      <4> QED
        BY <1>2, <1>4, <1>7, <3>1, <4>3, <4>4
    <3>2. CASE i # j
      <4>1. /\ PrepPositions(log', i) = PrepPositions(log, i)
            /\ ResultPositions(log', i) = ResultPositions(log, i)
            /\ index'[i] = index[i]
        BY <1>2, <1>3, <1>4, <3>2
      <4>2. RecoveredState(log', i) = RecoveredState(log, i)
        BY <1>1, <1>3, <4>1, RecoverySame
      <4> QED
        BY <1>1, <4>1, <4>2 DEF IndexMatchesLog, Known
    <3> QED
      BY <3>1, <3>2
  <2> QED
    BY <1>1, <1>3, <2>1 DEF IndexMatchesLog
<1>9. CountsMatchLog'
  BY <1>1, <1>2 DEF CountsMatchLog
<1>10. ReadsOwnRecords'
  <2>1. ASSUME NEW i \in Ids, Known(i)'
        PROVE  /\ index'[i].prep \in PrepPositions(log', i)
               /\ index'[i].res # 0 => index'[i].res \in ResultPositions(log', i)
    <3>1. CASE i = j
      BY <1>1, <1>2, <1>3, <1>4, <2>1, <3>1 DEF ReadsOwnRecords, Known
    <3>2. CASE i # j
      BY <1>2, <1>3, <1>4, <2>1, <3>2 DEF ReadsOwnRecords, Known
    <3> QED
      BY <3>1, <3>2
  <2> QED
    BY <2>1 DEF ReadsOwnRecords
<1>11. DeadKnowsNothing'
  BY <1>1 DEF DeadKnowsNothing
<1> QED
  BY <1>2, <1>5, <1>8, <1>9, <1>10, <1>11

\* An acknowledgement touches the other file and two columns of one row.
LEMMA AckInv ==
  ASSUME JournalInv, NEW j \in Ids, AckHistory(j) \/ AckHistoryFails(j)
  PROVE  JournalInv'
<1> USE DEF JournalInv
<1>1. /\ Ackable(j) /\ up /\ ~failed
      /\ log' = log /\ header' = header /\ torn' = torn
      /\ up' = up /\ failed' = failed /\ length' = length
      /\ used' = used /\ count' = count
      /\ index \in [Ids -> Rows]
  BY DEF AckHistory, AckHistoryFails, Ackable, processVars, JournalTypeOK
<1>2. /\ acks' \subseteq acks \cup {j}
      /\ ackTail' \in {NoTail, Fragment, j}
      /\ acks \subseteq Ids
  BY DEF AckHistory, AckHistoryFails, AckLine, JournalTypeOK
<1>3. /\ index' \in [Ids -> Rows]
      /\ \A i \in Ids : /\ index'[i].prep = index[i].prep
                        /\ index'[i].res = index[i].res
                        /\ index'[i].state = index[i].state
  <2>1. CASE AckHistory(j)
    <3> DEFINE row == [index[j] EXCEPT !.exported = TRUE, !.pending = FALSE]
    <3>1. /\ row \in Rows /\ row.prep = index[j].prep
          /\ row.res = index[j].res /\ row.state = index[j].state
      BY <1>1 DEF Rows
    <3>2. index' = [index EXCEPT ![j] = row]
      BY <2>1 DEF AckHistory, MarkExported
    <3> QED
      BY <1>1, <3>1, <3>2
  <2>2. CASE AckHistoryFails(j)
    BY <1>1, <2>2 DEF AckHistoryFails, processVars
  <2> QED
    BY <2>1, <2>2
<1>4. JournalTypeOK'
  BY <1>1, <1>2, <1>3 DEF JournalTypeOK, AckTails
<1>5. PrepPositions(log, j) # {}
  BY <1>1, KnownIsPrepared DEF Ackable
<1>6. AckedIds' \subseteq AckedIds \cup {j}
  BY <1>2, IdsAssumption DEF AckedIds
<1>7. RestartAccepted'
  BY <1>1, <1>5, <1>6 DEF RestartAccepted, AcksReplayable
<1>8. IndexMatchesLog' /\ ReadsOwnRecords'
  BY <1>1, <1>3 DEF IndexMatchesLog, ReadsOwnRecords, Known
<1> QED
  BY <1>1, <1>4, <1>7, <1>8
     DEF CountsMatchLog, DeadKnowsNothing, BudgetCoversLog

\* Without a process only the files matter.
LEMMA ProcessLossInv ==
  ASSUME JournalInv,
         Crash \/ \E scope \in Scopes : OpenInterrupted(scope)
  PROVE  JournalInv'
<1> USE DEF JournalInv
<1>1. /\ log' = log /\ acks' = acks /\ ackTail' = ackTail
      /\ up' = FALSE
      /\ \A i \in Ids : index'[i] = NoRow
      /\ JournalTypeOK'
  <2>1. CASE Crash
    <3>1. NoRow \in Rows
      BY DEF NoRow, Rows
    <3> QED
      BY <2>1, <3>1 DEF Crash, diskVars, JournalTypeOK
  <2>2. CASE \E scope \in Scopes : OpenInterrupted(scope)
    BY <2>2 DEF OpenInterrupted, processVars, JournalTypeOK, DeadKnowsNothing
  <2> QED
    BY <2>1, <2>2
<1>2. RestartAccepted' /\ LatestExists(log)' /\ BudgetCoversLog'
  BY <1>1 DEF RestartAccepted, AcksReplayable, AckedIds, BudgetCoversLog
<1> QED
  BY <1>1, <1>2 DEF IndexMatchesLog, CountsMatchLog, ReadsOwnRecords,
                    DeadKnowsNothing, Known, NoRow

\* JournalInv is inductive.
LEMMA JournalStep == JournalInv /\ [JournalNext]_journalVars => JournalInv'
<1> SUFFICES ASSUME JournalInv, [JournalNext]_journalVars
             PROVE  JournalInv'
  OBVIOUS
<1>1. ASSUME NEW scope \in Scopes, Open(scope)
      PROVE  JournalInv'
  BY <1>1, OpenInv
<1>2. CASE Crash \/ \E scope \in Scopes : OpenInterrupted(scope)
  BY <1>2, ProcessLossInv
<1>3. ASSUME NEW s \in Signals,
             Prepare(s) \/ PrepareAppendFails(s) \/ PrepareIndexFails(s)
      PROVE  JournalInv'
  BY <1>3, PrepareInv, PrepareFailsInv
<1>4. ASSUME NEW i \in Ids, NEW st \in Outcomes,
             Finish(i, st) \/ FinishAppendFails(i, st) \/ FinishIndexFails(i, st)
      PROVE  JournalInv'
  BY <1>4, FinishInv, FinishFailsInv
<1>5. ASSUME NEW i \in Ids, AckHistory(i) \/ AckHistoryFails(i)
      PROVE  JournalInv'
  BY <1>5, AckInv
<1>6. CASE UNCHANGED journalVars
  BY <1>6 DEF journalVars, diskVars, processVars, JournalInv, JournalTypeOK,
              RestartAccepted, AcksReplayable, AckedIds, IndexMatchesLog,
              CountsMatchLog, ReadsOwnRecords, BudgetCoversLog,
              DeadKnowsNothing, Known
<1> QED
  BY <1>1, <1>2, <1>3, <1>4, <1>5, <1>6 DEF JournalNext

\* The inductive invariant holds in every state of the journal, over all lives
\* of its process.
THEOREM JournalInvariant == JournalSpec => []JournalInv
BY InitInv, JournalStep, PTL DEF JournalSpec

\* Type correctness of the journal (src/journal.rs, struct Journal).
THEOREM JournalTypeCorrect == JournalSpec => []JournalTypeOK
<1>1. JournalInv => JournalTypeOK
  BY DEF JournalInv
<1> QED
  BY <1>1, JournalInvariant, PTL

\* Journal::open accepts what this code wrote, for any number of orders, any
\* capacity and any sequence of failures: only a torn last line or a foreign
\* scope keeps a journal from being recovered.
THEOREM RestartIsAccepted == JournalSpec => []RestartAccepted
<1>1. JournalInv => RestartAccepted
  BY DEF JournalInv
<1> QED
  BY <1>1, JournalInvariant, PTL

\* The disposable index of a healthy journal is what a replay would rebuild.
THEOREM IndexIsFaithful == JournalSpec => []IndexMatchesLog
<1>1. JournalInv => IndexMatchesLog
  BY DEF JournalInv
<1> QED
  BY <1>1, JournalInvariant, PTL

\* Journal::get only ever reads records of the order it was asked for.
THEOREM ReadsAreOwn == JournalSpec => []ReadsOwnRecords
<1>1. JournalInv => ReadsOwnRecords
  BY DEF JournalInv
<1> QED
  BY <1>1, JournalInvariant, PTL

\* The reservations in the file, over all lives of the process, fit the budget.
THEOREM BudgetIsKept == JournalSpec => []BudgetCoversLog
<1>1. JournalInv => BudgetCoversLog
  BY DEF JournalInv
<1> QED
  BY <1>1, JournalInvariant, PTL

\* Every operation that writes a row keeps its columns in agreement.
LEMMA PendingStep ==
  ASSUME JournalTypeOK, PendingIsExact, [JournalNext]_journalVars
  PROVE  PendingIsExact'
<1>t. index \in [Ids -> Rows] /\ up \in BOOLEAN
  BY DEF JournalTypeOK
<1>1. CASE UNCHANGED <<up, index>>
  BY <1>1 DEF PendingIsExact
<1>2. ASSUME NEW c \in Scopes, Open(c) PROVE PendingIsExact'
  <2>1. ASSUME NEW i \in Ids
        PROVE  RebuiltRow(i).pending = (Pending(i, RebuiltRow(i).state) /\ ~RebuiltRow(i).exported)
    BY DEF RebuiltRow, NoRow, Pending
  <2>2. index' = [i \in Ids |-> RebuiltRow(i)]
    BY <1>2 DEF Open
  <2> QED BY <2>1, <2>2 DEF PendingIsExact
<1>3. ASSUME Crash PROVE PendingIsExact'
  BY <1>3 DEF Crash, PendingIsExact
<1>4. ASSUME NEW s \in Signals, Prepare(s) PROVE PendingIsExact'
  <2> DEFINE row == [NoRow EXCEPT !.prep = length + 1, !.state = "prepared",
                                  !.pending = Pending(s.id, "prepared")]
  <2>1. index' = [index EXCEPT ![s.id] = row] /\ up /\ s.id \in Ids
    BY <1>4 DEF Prepare, InsertRow, Preparable, Signals
  <2>3. Pending(s.id, "prepared") = FALSE
    BY DEF Pending
  <2>4. row.pending = FALSE /\ row.state = "prepared"
    BY <2>3 DEF NoRow
  <2>2. row.pending = (Pending(s.id, row.state) /\ ~row.exported)
    BY <2>3, <2>4
  <2> HIDE DEF row
  <2> QED BY <2>1, <2>2, <1>t DEF PendingIsExact
<1>5. ASSUME NEW i \in Ids, NEW st \in Outcomes, Finish(i, st) PROVE PendingIsExact'
  <2> DEFINE row == [index[i] EXCEPT !.res = length + 1, !.state = st,
                                     !.pending = Pending(i, st) /\ ~index[i].exported]
  <2>1. index' = [index EXCEPT ![i] = row] /\ up
    BY <1>5, <1>t DEF Finish, UpdateRow, Finishable
  <2>2. row.pending = (Pending(i, row.state) /\ ~row.exported)
    BY <1>t DEF Rows
  <2> HIDE DEF row
  <2> QED BY <2>1, <2>2, <1>t DEF PendingIsExact
<1>6. ASSUME NEW i \in Ids, AckHistory(i) PROVE PendingIsExact'
  <2> DEFINE row == [index[i] EXCEPT !.exported = TRUE, !.pending = FALSE]
  <2>1. index' = [index EXCEPT ![i] = row] /\ up
    BY <1>6, <1>t DEF AckHistory, MarkExported, Ackable
  <2>2. row.pending = (Pending(i, row.state) /\ ~row.exported)
    BY <1>t DEF Rows
  <2> HIDE DEF row
  <2> QED BY <2>1, <2>2, <1>t DEF PendingIsExact
<1>7. ASSUME \/ \E c \in Scopes : OpenInterrupted(c)
             \/ \E s \in Signals : PrepareAppendFails(s) \/ PrepareIndexFails(s)
             \/ \E i \in Ids, st \in Outcomes : FinishAppendFails(i, st) \/ FinishIndexFails(i, st)
             \/ \E i \in Ids : AckHistoryFails(i)
             \/ UNCHANGED journalVars
      PROVE  UNCHANGED <<up, index>>
  BY <1>7 DEF OpenInterrupted, PrepareAppendFails, PrepareIndexFails, FinishAppendFails,
              FinishIndexFails, AckHistoryFails, journalVars, processVars
<1> QED BY <1>1, <1>2, <1>3, <1>4, <1>5, <1>6, <1>7 DEF JournalNext

\* An order waits for the export exactly when its state asks for it and no
\* acknowledgement is on record, whatever touched its row last.
THEOREM PendingCorrect == JournalSpec => []PendingIsExact
<1>1. JournalInit => PendingIsExact
  BY DEF JournalInit, PendingIsExact
<1>2. JournalInv => JournalTypeOK
  BY DEF JournalInv
<1> QED BY <1>1, <1>2, PendingStep, JournalInvariant, PTL DEF JournalSpec

-----------------------------------------------------------------------------
(* The register of orders that the journal implements *)

\* What the register holds of the preparation at a position, and all of it.
EntryAt(l, n) ==
  [id |-> l[n].id, body |-> l[n].body, state |-> RecoveredState(l, l[n].id)]
EntriesOf(l) == {EntryAt(l, n) : n \in PreparedLines(l)}

\* A preparation is a record with an identifier, a content and one position.
LEMMA EntryIds ==
  ASSUME NEW l \in Seq(Records), NEW n \in PreparedLines(l)
  PROVE  /\ l[n].id \in Ids /\ l[n].body \in Bodies
         /\ n \in PrepPositions(l, l[n].id)
         /\ EntryAt(l, n).id = l[n].id
<1>1. n \in DOMAIN l /\ l[n].kind = "prepared"
  BY DEF PreparedLines
<1>2. l[n] \in Records
  BY <1>1
<1>3. l[n] \in [kind : {"prepared"}, id : Ids, body : Bodies]
  BY <1>1, <1>2 DEF Records
<1>4. n \in PrepPositions(l, l[n].id)
  BY DEF PrepPositions
<1> QED
  BY <1>3, <1>4 DEF EntryAt

\* One entry per preparation: the register is as large as the file says.
LEMMA EntriesCount ==
  ASSUME NEW l \in Seq(Records), Replayable(l)
  PROVE  Cardinality(EntriesOf(l)) = Cardinality(PreparedLines(l))
<1> DEFINE f == [n \in PreparedLines(l) |-> EntryAt(l, n)]
<1>1. \A m, n \in PreparedLines(l) : EntryAt(l, m) = EntryAt(l, n) => m = n
  <2> SUFFICES ASSUME NEW m \in PreparedLines(l), NEW n \in PreparedLines(l),
                      EntryAt(l, m) = EntryAt(l, n)
               PROVE  m = n
    OBVIOUS
  <2>1. l[m].id = l[n].id
    BY EntryIds
  <2> QED
    BY <2>1 DEF Replayable
<1>2. f \in Bijection(PreparedLines(l), EntriesOf(l))
  <2>1. f \in [PreparedLines(l) -> EntriesOf(l)]
    BY DEF EntriesOf
  <2>2. \A m, n \in PreparedLines(l) : f[m] = f[n] => m = n
    BY <1>1
  <2>3. \A e \in EntriesOf(l) : \E n \in PreparedLines(l) : f[n] = e
    BY DEF EntriesOf
  <2> HIDE DEF f
  <2> QED
    BY <2>1, <2>2, <2>3 DEF Bijection, Injection, Surjection, IsInjective
<1>3. ExistsBijection(PreparedLines(l), EntriesOf(l))
  BY <1>2 DEF ExistsBijection
<1> QED
  BY <1>3, PreparedLinesFinite, FS_Bijection

\* Appending leaves what an order was recovered as, unless it is its own result.
LEMMA RecoveryKept ==
  ASSUME NEW l \in Seq(Records), NEW k \in Seq(Records), NEW i \in Ids,
         Replayable(l), LatestExists(l),
         \A n \in DOMAIN l : k[n] = l[n],
         PrepPositions(l, i) # {}, PrepPositions(k, i) # {},
         ResultPositions(k, i) = ResultPositions(l, i)
  PROVE  RecoveredState(k, i) = RecoveredState(l, i)
<1>1. CASE ResultPositions(l, i) = {}
  BY <1>1 DEF RecoveredState
<1>2. CASE ResultPositions(l, i) # {}
  <2>1. Latest(ResultPositions(l, i)) \in DOMAIN l
    BY <1>2, LatestFinds DEF ResultPositions
  <2> QED
    BY <1>2, <2>1 DEF RecoveredState
<1> QED
  BY <1>1, <1>2

\* A preparation of a new identifier adds its entry and changes no other.
LEMMA EntriesAfterPrepare ==
  ASSUME NEW l \in Seq(Records), NEW s \in Signals,
         Replayable(l), LatestExists(l), PrepPositions(l, s.id) = {}
  PROVE  /\ EntriesOf(Append(l, Prepared(s))) =
              EntriesOf(l) \cup {[id |-> s.id, body |-> s.body, state |-> "unknown"]}
         /\ \A e \in EntriesOf(l) : e.id # s.id
<1> DEFINE k == Append(l, Prepared(s))
           p == Len(l) + 1
<1>1. /\ k \in Seq(Records)
      /\ \A n \in DOMAIN l : k[n] = l[n]
      /\ k[p] = Prepared(s)
      /\ PreparedLines(k) = PreparedLines(l) \cup {p}
      /\ \A i \in Ids : PrepPositions(k, i) =
           IF i = s.id THEN PrepPositions(l, i) \cup {p} ELSE PrepPositions(l, i)
      /\ \A i \in Ids : ResultPositions(k, i) = ResultPositions(l, i)
  BY AppendPrepared
<1>2. s.id \in Ids /\ k[p].id = s.id /\ k[p].body = s.body
  BY <1>1, RecordShapes DEF Signals
<1> HIDE DEF k, p
<1>3. \A n \in PreparedLines(l) : l[n].id # s.id
  BY DEF PrepPositions
<1>4. \A n \in PreparedLines(l) : EntryAt(k, n) = EntryAt(l, n)
  <2> SUFFICES ASSUME NEW n \in PreparedLines(l)
               PROVE  EntryAt(k, n) = EntryAt(l, n)
    OBVIOUS
  <2>1. n \in DOMAIN l /\ k[n] = l[n]
    BY <1>1 DEF PreparedLines
  <2>2. l[n].id \in Ids /\ PrepPositions(l, l[n].id) # {} /\ l[n].id # s.id
    BY <1>3, EntryIds
  <2>3. RecoveredState(k, l[n].id) = RecoveredState(l, l[n].id)
    BY <1>1, <2>2, RecoveryKept
  <2> QED
    BY <2>1, <2>3 DEF EntryAt
<1>5. EntryAt(k, p) = [id |-> s.id, body |-> s.body, state |-> "unknown"]
  <2>1. PrepPositions(k, s.id) # {}
    BY <1>1, <1>2
  <2>2. ResultPositions(k, s.id) = {}
    BY <1>1, <1>2, RecoveryReads
  <2>3. RecoveredState(k, s.id) = "unknown"
    BY <2>1, <2>2 DEF RecoveredState
  <2> QED
    BY <1>2, <2>3 DEF EntryAt
<1>6. EntriesOf(k) = EntriesOf(l) \cup {EntryAt(k, p)}
  BY <1>1, <1>4 DEF EntriesOf
<1>7. \A e \in EntriesOf(l) : e.id # s.id
  BY <1>3, EntryIds DEF EntriesOf
<1> QED
  BY <1>5, <1>6, <1>7 DEF k

\* A result of a prepared order settles its entry and changes no other.
LEMMA EntriesAfterResult ==
  ASSUME NEW l \in Seq(Records), NEW j \in Ids, NEW st \in Outcomes,
         Replayable(l), LatestExists(l), PrepPositions(l, j) # {}
  PROVE  \E e \in EntriesOf(l) :
           EntriesOf(Append(l, Result(j, st))) =
             (EntriesOf(l) \ {e}) \cup {[e EXCEPT !.state = st]}
<1> DEFINE k == Append(l, Result(j, st))
           r == Len(l) + 1
<1>1. /\ k \in Seq(Records)
      /\ \A n \in DOMAIN l : k[n] = l[n]
      /\ k[r] = Result(j, st)
      /\ PreparedLines(k) = PreparedLines(l)
      /\ \A i \in Ids : PrepPositions(k, i) = PrepPositions(l, i)
      /\ \A i \in Ids : ResultPositions(k, i) =
              IF i = j THEN ResultPositions(l, i) \cup {r}
                       ELSE ResultPositions(l, i)
      /\ Latest(ResultPositions(k, j)) = r
  BY AppendResult, ResultKeepsReplayable
<1>2. k[r].state = st
  BY <1>1, RecordShapes
<1> HIDE DEF k, r
<1>3. PICK p \in PrepPositions(l, j) : TRUE
  OBVIOUS
<1>4. p \in PreparedLines(l) /\ l[p].id = j
  BY <1>3 DEF PrepPositions
<1>5. \A n \in PreparedLines(l) : n # p => l[n].id # j
  BY <1>4 DEF Replayable
<1>6. ASSUME NEW n \in PreparedLines(l), n # p
      PROVE  EntryAt(k, n) = EntryAt(l, n) /\ EntryAt(l, n) # EntryAt(l, p)
  <2>1. n \in DOMAIN l /\ k[n] = l[n]
    BY <1>1 DEF PreparedLines
  <2>2. l[n].id \in Ids /\ PrepPositions(l, l[n].id) # {} /\ l[n].id # j
    BY <1>5, <1>6, EntryIds
  <2>3. RecoveredState(k, l[n].id) = RecoveredState(l, l[n].id)
    BY <1>1, <2>2, RecoveryKept
  <2>4. EntryAt(l, n).id # EntryAt(l, p).id
    BY <1>4, <2>2, EntryIds
  <2> QED
    BY <2>1, <2>3, <2>4 DEF EntryAt
<1>7. EntryAt(k, p) = [EntryAt(l, p) EXCEPT !.state = st]
  <2>1. p \in DOMAIN l /\ k[p] = l[p]
    BY <1>1, <1>4 DEF PreparedLines
  <2>2. RecoveredState(k, j) = st
    BY <1>1, <1>2 DEF RecoveredState
  <2> QED
    BY <1>4, <2>1, <2>2 DEF EntryAt
<1>8. EntriesOf(k) = (EntriesOf(l) \ {EntryAt(l, p)}) \cup {EntryAt(k, p)}
  <2> HIDE DEF EntryAt
  <2> QED
    BY <1>1, <1>4, <1>6 DEF EntriesOf
<1>9. EntryAt(l, p) \in EntriesOf(l)
  BY <1>4 DEF EntriesOf
<1> QED
  BY <1>7, <1>8, <1>9 DEF k

\* The empty file is the empty register.
LEMMA RegisterInit == JournalInit => Register!Init
<1> SUFFICES ASSUME JournalInit PROVE DurableEntries = {}
  BY DEF Register!Init
<1>1. log = <<>>
  BY DEF JournalInit
<1>2. PreparedLines(log) = {}
  BY <1>1 DEF PreparedLines
<1> QED
  BY <1>2 DEF DurableEntries

\* Only lines matter: while the log stays, so does the register.
LEMMA RegisterKept == log' = log => DurableEntries' = DurableEntries
BY DEF DurableEntries, PreparedLines, RecoveredState, PrepPositions, ResultPositions

\* The preparation of an order, reported as failed or not, reserves it or
\* leaves the register alone.
LEMMA RegisterReserves ==
  ASSUME JournalInv, NEW s \in Signals, Preparable(s),
         log' = Append(log, Prepared(s))
  PROVE  Register!Next
<1>1. /\ s.id \in Ids /\ s.body \in Bodies /\ log \in Seq(Records)
      /\ PrepPositions(log, s.id) = {}
      /\ Replayable(log) /\ LatestExists(log)
      /\ count = Cardinality(PreparedLines(log))
      /\ used = OrderBudget * count
      /\ count \in Nat
  BY KnownIsPrepared
     DEF JournalInv, Preparable, Signals, JournalTypeOK, CountsMatchLog, RestartAccepted
<1>2. /\ DurableEntries = EntriesOf(log)
      /\ DurableEntries' = EntriesOf(log')
  BY DEF DurableEntries, EntriesOf, EntryAt
<1>3. Cardinality(DurableEntries) = count
  BY <1>1, <1>2, EntriesCount
<1>4. /\ DurableEntries' = DurableEntries
                     \cup {[id |-> s.id, body |-> s.body, state |-> "unknown"]}
      /\ \A e \in DurableEntries : e.id # s.id
  BY <1>1, <1>2, EntriesAfterPrepare
<1>5. count < OrderCapacity /\ OrderBudget * (count + 1) <= TotalBudget
  <2>1. OrderBudget * (count + 1) = OrderBudget * count + OrderBudget
    BY <1>1, LimitsAssumption
  <2> QED
    BY <1>1, <2>1 DEF Preparable
<1>6. Register!Reserve(s.id, s.body)
  <2>1. Register!Cardinality(DurableEntries) = count
    <3>1. Register!Cardinality(DurableEntries) = Cardinality(DurableEntries)
      BY Zenon DEF Register!Cardinality, Cardinality, Register!IsFiniteSet, IsFiniteSet
    <3> QED
      BY <1>3, <3>1
  <2> QED
    BY <1>4, <1>5, <2>1 DEF Register!Reserve
<1> QED
  BY <1>1, <1>6 DEF Register!Next

\* A result settles an entry of the register.
LEMMA RegisterSettles ==
  ASSUME JournalInv, NEW j \in Ids, NEW st \in Outcomes, Finishable(j),
         log' = Append(log, Result(j, st))
  PROVE  Register!Next
<1>1. /\ log \in Seq(Records) /\ PrepPositions(log, j) # {}
      /\ Replayable(log) /\ LatestExists(log)
  BY KnownIsPrepared DEF JournalInv, Finishable, JournalTypeOK, RestartAccepted
<1>2. /\ DurableEntries = EntriesOf(log)
      /\ DurableEntries' = EntriesOf(log')
  BY DEF DurableEntries, EntriesOf, EntryAt
<1>3. \E e \in DurableEntries :
        DurableEntries' = (DurableEntries \ {e}) \cup {[e EXCEPT !.state = st]}
  BY <1>1, <1>2, EntriesAfterResult
<1>4. \E e \in DurableEntries : Register!Settle(e, st)
  BY <1>3 DEF Register!Settle
<1> QED
  BY <1>4 DEF Register!Next

\* Every operation of the journal is an operation of the register or none.
LEMMA RegisterStep ==
  ASSUME JournalInv, [JournalNext]_journalVars
  PROVE  Register!Next \/ UNCHANGED DurableEntries
<1>1. ASSUME NEW s \in Signals,
             Prepare(s) \/ PrepareAppendFails(s) \/ PrepareIndexFails(s)
      PROVE  Register!Next \/ UNCHANGED DurableEntries
  <2>1. Preparable(s) /\ (log' = log \/ log' = Append(log, Prepared(s)))
    BY <1>1 DEF Prepare, PrepareAppendFails, PrepareIndexFails, Append1, AppendBroken
  <2> QED
    BY <2>1, RegisterReserves, RegisterKept
<1>2. ASSUME NEW j \in Ids, NEW st \in Outcomes,
             Finish(j, st) \/ FinishAppendFails(j, st) \/ FinishIndexFails(j, st)
      PROVE  Register!Next \/ UNCHANGED DurableEntries
  <2>1. Finishable(j) /\ (log' = log \/ log' = Append(log, Result(j, st)))
    BY <1>2 DEF Finish, FinishAppendFails, FinishIndexFails, Append1, AppendBroken
  <2> QED
    BY <2>1, RegisterSettles, RegisterKept
<1>3. ASSUME \/ \E c \in Scopes : Open(c) \/ OpenInterrupted(c)
             \/ Crash
             \/ \E i \in Ids : AckHistory(i) \/ AckHistoryFails(i)
             \/ UNCHANGED journalVars
      PROVE  log' = log
  BY <1>3 DEF Open, OpenInterrupted, Crash, AckHistory, AckHistoryFails,
              journalVars, diskVars
<1> QED
  BY <1>1, <1>2, <1>3, RegisterKept DEF JournalNext

\* The journal implements the register of orders, for every set of identifiers,
\* capacity and budget: whatever is torn, fails or dies, the file is a register
\* that admits an identifier once and within its limits and forgets no order.
THEOREM JournalImplementsLedger == JournalSpec => ImplementsLedger
<1>1. JournalInv /\ [JournalNext]_journalVars => [Register!Next]_DurableEntries
  BY RegisterStep
<1> QED
  BY <1>1, RegisterInit, JournalInvariant, PTL
     DEF JournalSpec, ImplementsLedger, Register!Spec

=============================================================================
