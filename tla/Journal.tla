------------------------------ MODULE Journal ------------------------------
(***************************************************************************)
(* The durable order journal (src/journal.rs).                             *)
(*                                                                         *)
(* Two append-only files are authoritative: the order log, whose first     *)
(* line names the account scope, and the file of history acknowledgements. *)
(* An SQLite index of offsets into the log is thrown away and rebuilt by   *)
(* every `open`.  Each public operation of `Journal` runs under one mutex  *)
(* (both services wrap it in Mutex<Journal>), so an operation is a step;   *)
(* what can go wrong inside it (a torn write, a failed fsync, a failed     *)
(* index statement, the death of the process) is a choice of that step.    *)
(*                                                                         *)
(* Order budgets are uniform, as in lib.rs where every entry reserves      *)
(* config.order_budget_pusd.                                               *)
(***************************************************************************)
EXTENDS Integers, Sequences, FiniteSets, FiniteSetsExt

CONSTANTS
  Ids,            \* signal identifiers
  LiveIds,        \* those with prefix "live-"
  ShadowIds,      \* those with prefix "shadow-"
  Bodies,         \* everything a signal says besides its identifier
  Scopes,         \* account and mode names a journal can be opened for
  NoScope,        \* the first line has not been written
  NoTail,         \* the acknowledgement file ends in a newline
  Fragment,       \* it ends in a fragment that no parser accepts
  OrderCapacity,  \* ORDER_CAPACITY
  OrderBudget,    \* what one preparation reserves
  TotalBudget,    \* the limit `prepare` is called with
  MaxRecords      \* bound of the model: lines in the order log

ASSUME IdsAssumption ==
  /\ LiveIds \subseteq Ids
  /\ ShadowIds \subseteq Ids
  /\ LiveIds \cap ShadowIds = {}
  /\ NoScope \notin Scopes
  /\ {NoTail, Fragment} \cap Ids = {}
  /\ NoTail # Fragment
ASSUME LimitsAssumption ==
  /\ OrderCapacity \in Nat
  /\ OrderBudget \in Nat \ {0}
  /\ TotalBudget \in Nat
  /\ MaxRecords \in Nat

VARIABLES
  \* the disk
  header,   \* the Scope line of the order log, or NoScope
  log,      \* the complete lines after it
  torn,     \* the order log ends in an incomplete line
  acks,     \* orders with a parsable acknowledgement line
  ackTail,  \* an unterminated last acknowledgement line (see AckTails)
  \* the process
  up,       \* a process holds the journal open
  index,    \* the SQLite table `orders`
  length,   \* the position the process believes it has appended up to
  used,     \* budget reserved by the preparations it knows of
  count,    \* number of those preparations
  failed    \* poisoned by a write or index error

diskVars    == <<header, log, torn, acks, ackTail>>
processVars == <<up, index, length, used, count, failed>>
journalVars == <<diskVars, processVars>>

-----------------------------------------------------------------------------
(* Data *)

Signals  == [id : Ids, body : Bodies]

\* Reply.state in a Result record.
Outcomes == {"accepted", "rejected", "unknown", "blocked", "dry_run"}

Prepared(s)   == [kind |-> "prepared", id |-> s.id, body |-> s.body]
Result(i, st) == [kind |-> "result", id |-> i, state |-> st]
Records ==
  [kind : {"prepared"}, id : Ids, body : Bodies]
    \cup [kind : {"result"}, id : Ids, state : Outcomes]

\* A row of `orders`: positions of its two records (0: none) and the columns.
Rows  == [prep : Nat, res : Nat, state : Outcomes \cup {"prepared", "absent"},
          exported : BOOLEAN, pending : BOOLEAN]
NoRow == [prep |-> 0, res |-> 0, state |-> "absent",
          exported |-> FALSE, pending |-> FALSE]

\* An unterminated acknowledgement that only lacks its newline is the
\* identifier itself: `lines()` still accepts it.
AckTails == {NoTail, Fragment} \cup Ids

\* Which states of an order the history export still has to deliver.
Pending(i, st) ==
  \/ i \in LiveIds   /\ st \in {"accepted", "unknown", "rejected"}
  \/ i \in ShadowIds /\ st \in {"accepted", "unknown"}

-----------------------------------------------------------------------------
(* What the files say *)

PreparedLines(l)     == {n \in DOMAIN l : l[n].kind = "prepared"}
PrepPositions(l, i)  == {n \in PreparedLines(l) : l[n].id = i}
ResultPositions(l, i) == {n \in DOMAIN l : l[n].kind = "result" /\ l[n].id = i}
Latest(S)            == IF S = {} THEN 0 ELSE Max(S)

\* The acknowledgements the next `open` will count.
AckedIds == {i \in Ids : i \in acks \/ i = ackTail}

\* The checks `open` makes line by line: the primary key of `orders`, the
\* capacity, "result without preparation".
Replayable(l) ==
  /\ \A m, n \in PreparedLines(l) : l[m].id = l[n].id => m = n
  /\ \A n \in DOMAIN l : l[n].kind = "result" =>
       \E m \in PrepPositions(l, l[n].id) : m < n
  /\ Cardinality(PreparedLines(l)) <= OrderCapacity

\* "history acknowledgement without order"
AcksReplayable == \A i \in AckedIds : PrepPositions(log, i) # {}

\* What an order is after recovery: a preparation without a result is unknown.
RecoveredState(l, i) ==
  IF PrepPositions(l, i) = {} THEN "absent"
  ELSE IF ResultPositions(l, i) = {} THEN "unknown"
  ELSE l[Latest(ResultPositions(l, i))].state

\* The row that replaying both files leaves.
RebuiltRow(i) ==
  IF PrepPositions(log, i) = {} THEN NoRow
  ELSE [prep     |-> Latest(PrepPositions(log, i)),
        res      |-> Latest(ResultPositions(log, i)),
        state    |-> RecoveredState(log, i),
        exported |-> i \in AckedIds,
        pending  |-> Pending(i, RecoveredState(log, i)) /\ i \notin AckedIds]

\* `get`: the row's offsets decide which records are read.
Known(i)     == index[i].prep # 0
StoredBody(i) == log[index[i].prep].body
StoredState(i) ==
  IF index[i].res # 0 THEN log[index[i].res].state ELSE index[i].state

-----------------------------------------------------------------------------
(* Opening and losing the process *)

\* An empty journal on disk; no process.
JournalInit ==
  /\ header = NoScope /\ log = <<>> /\ torn = FALSE
  /\ acks = {} /\ ackTail = NoTail
  /\ up = FALSE
  /\ index = [i \in Ids |-> NoRow]
  /\ length = 0 /\ used = 0 /\ count = 0 /\ failed = FALSE

\* `open` refuses an incomplete last line, another scope, and whatever the
\* replay finds invalid.
MayOpen(scope) ==
  /\ ~torn
  /\ header \in {NoScope, scope}
  /\ Replayable(log)
  /\ AcksReplayable

\* Mutant: earlier lives of the process have spent nothing.
OpenUnspent(scope) ==
  /\ ~up
  /\ MayOpen(scope)
  /\ header' = scope
  /\ up' = TRUE
  /\ index' = [i \in Ids |-> RebuiltRow(i)]
  /\ length' = Len(log)
  /\ count' = Cardinality(PreparedLines(log))
  /\ used' = 0
  /\ failed' = FALSE
  /\ UNCHANGED <<log, torn, acks, ackTail>>

Open(scope) ==
  /\ ~up
  /\ MayOpen(scope)
  /\ header' = scope
  /\ up' = TRUE
  /\ index' = [i \in Ids |-> RebuiltRow(i)]
  /\ length' = Len(log)
  /\ count' = Cardinality(PreparedLines(log))
  /\ used' = OrderBudget * count'
  /\ failed' = FALSE
  /\ UNCHANGED <<log, torn, acks, ackTail>>

\* The first open dies while it writes the scope line.
OpenInterrupted(scope) ==
  /\ ~up /\ ~torn /\ header = NoScope
  /\ \/ header' = scope /\ UNCHANGED torn
     \/ torn' = TRUE /\ UNCHANGED header
  /\ UNCHANGED <<log, acks, ackTail, processVars>>

\* The process ends between two operations; the next one rebuilds the index.
Crash ==
  /\ up
  /\ up' = FALSE
  /\ index' = [i \in Ids |-> NoRow]
  /\ length' = 0 /\ used' = 0 /\ count' = 0 /\ failed' = FALSE
  /\ UNCHANGED diskVars

-----------------------------------------------------------------------------
(* Appending to the order log *)

\* write_all and sync_all returned: the line is durable.
Append1(r) ==
  /\ Len(log) < MaxRecords
  /\ log' = Append(log, r)
  /\ length' = length + 1
  /\ UNCHANGED <<header, torn>>

\* One of them failed (or the process died before they returned): nothing,
\* part of the line, or all of it is in the file.
AppendBroken(r) ==
  /\ Len(log) < MaxRecords
  /\ \/ UNCHANGED <<log, torn>>
     \/ torn' = TRUE /\ UNCHANGED log
     \/ log' = Append(log, r) /\ UNCHANGED torn
  /\ UNCHANGED <<header, length>>

\* Mutant: a failed write is forgotten.
PoisonForgotten == UNCHANGED failed

Poison == failed' = TRUE

-----------------------------------------------------------------------------
(* prepare *)

\* Mutant: a known identifier is prepared again.
PreparableAgain(s) ==
  /\ up /\ ~failed
  /\ count < OrderCapacity
  /\ used + OrderBudget <= TotalBudget

\* The checks that stand before the append.
Preparable(s) ==
  /\ up /\ ~failed /\ ~Known(s.id)
  /\ count < OrderCapacity
  /\ used + OrderBudget <= TotalBudget

\* Mutant: the offset of the line before.
InsertRowBefore(s) ==
  index' = [index EXCEPT ![s.id] =
              [NoRow EXCEPT !.prep = length, !.state = "prepared",
                            !.pending = Pending(s.id, "prepared")]]

InsertRow(s) ==
  index' = [index EXCEPT ![s.id] =
              [NoRow EXCEPT !.prep = length + 1, !.state = "prepared",
                            !.pending = Pending(s.id, "prepared")]]

Prepare(s) ==
  /\ Preparable(s)
  /\ Append1(Prepared(s))
  /\ InsertRow(s)
  /\ used' = used + OrderBudget
  /\ count' = count + 1
  /\ UNCHANGED <<acks, ackTail, up, failed>>

PrepareAppendFails(s) ==
  /\ Preparable(s)
  /\ AppendBroken(Prepared(s))
  /\ Poison
  /\ UNCHANGED <<acks, ackTail, up, index, used, count>>

\* The line is durable, the INSERT failed.
PrepareIndexFails(s) ==
  /\ Preparable(s)
  /\ Append1(Prepared(s))
  /\ Poison
  /\ UNCHANGED <<acks, ackTail, up, index, used, count>>

-----------------------------------------------------------------------------
(* finish *)

Finishable(i) == up /\ ~failed /\ Known(i)

\* Mutant: the first result keeps its place.
UpdateRowOnce(i, st) ==
  index' = [index EXCEPT ![i] =
              [@ EXCEPT !.res = IF @ = 0 THEN length + 1 ELSE @, !.state = st,
                        !.pending = Pending(i, st) /\ ~index[i].exported]]

\* Mutant: an acknowledged order becomes pending again.
UpdateRowReexports(i, st) ==
  index' = [index EXCEPT ![i] =
              [@ EXCEPT !.res = length + 1, !.state = st,
                        !.pending = Pending(i, st)]]

UpdateRow(i, st) ==
  index' = [index EXCEPT ![i] =
              [@ EXCEPT !.res = length + 1, !.state = st,
                        !.pending = Pending(i, st) /\ ~index[i].exported]]

Finish(i, st) ==
  /\ Finishable(i)
  /\ Append1(Result(i, st))
  /\ UpdateRow(i, st)
  /\ UNCHANGED <<acks, ackTail, up, used, count, failed>>

FinishAppendFails(i, st) ==
  /\ Finishable(i)
  /\ AppendBroken(Result(i, st))
  /\ Poison
  /\ UNCHANGED <<acks, ackTail, up, index, used, count>>

FinishIndexFails(i, st) ==
  /\ Finishable(i)
  /\ Append1(Result(i, st))
  /\ Poison
  /\ UNCHANGED <<acks, ackTail, up, index, used, count>>

-----------------------------------------------------------------------------
(* ack_history *)

Ackable(i) == up /\ ~failed /\ Known(i) /\ ~index[i].exported

\* A whole line is written.  Behind an unterminated one it is glued to it and
\* the two become one line that does not parse.
AckLine(i) ==
  /\ acks' = IF ackTail = NoTail THEN acks \cup {i} ELSE acks
  /\ ackTail' = NoTail

MarkExported(i) ==
  index' = [index EXCEPT ![i] = [@ EXCEPT !.exported = TRUE, !.pending = FALSE]]

AckHistory(i) ==
  /\ Ackable(i)
  /\ AckLine(i)
  /\ MarkExported(i)
  /\ UNCHANGED <<header, log, torn, up, length, used, count, failed>>

\* A failed write, fsync or UPDATE: the caller gets an error and the order
\* stays pending, but nothing is poisoned.
AckHistoryFails(i) ==
  /\ Ackable(i)
  /\ \/ AckLine(i)
     \/ /\ ackTail' = IF ackTail = NoTail THEN i ELSE Fragment
        /\ UNCHANGED acks
     \/ ackTail' = Fragment /\ UNCHANGED acks
  /\ UNCHANGED <<header, log, torn, processVars>>

-----------------------------------------------------------------------------

JournalNext ==
  \/ \E c \in Scopes : Open(c) \/ OpenInterrupted(c)
  \/ Crash
  \/ \E s \in Signals :
       Prepare(s) \/ PrepareAppendFails(s) \/ PrepareIndexFails(s)
  \/ \E i \in Ids, st \in Outcomes :
       Finish(i, st) \/ FinishAppendFails(i, st) \/ FinishIndexFails(i, st)
  \/ \E i \in Ids : AckHistory(i) \/ AckHistoryFails(i)

JournalSpec == JournalInit /\ [][JournalNext]_journalVars


-----------------------------------------------------------------------------
(* Properties *)

JournalTypeOK ==
  /\ header \in Scopes \cup {NoScope}
  /\ log \in Seq(Records)
  /\ torn \in BOOLEAN
  /\ acks \subseteq Ids
  /\ ackTail \in AckTails
  /\ up \in BOOLEAN
  /\ index \in [Ids -> Rows]
  /\ length \in Nat /\ used \in Nat /\ count \in Nat
  /\ failed \in BOOLEAN

\* The replay at the next start accepts every complete line this code ever
\* wrote: no duplicate preparation, no result or acknowledgement without its
\* order, no more orders than the capacity.  Only an incomplete last line or
\* another scope can refuse a restart (the ensure!s of Journal::open).
RestartAccepted == Replayable(log) /\ AcksReplayable

\* While the journal is healthy, its index says of every order what a replay of
\* the log would say, at the same positions; only an order that is still in
\* progress reads "prepared" where the replay would read "unknown".
IndexMatchesLog ==
  up /\ ~failed =>
    /\ length = Len(log)
    /\ \A i \in Ids :
         /\ index[i].prep = Latest(PrepPositions(log, i))
         /\ index[i].res = Latest(ResultPositions(log, i))
         /\ \/ index[i].state = RecoveredState(log, i)
            \/ /\ index[i].state = "prepared"
               /\ Known(i) /\ index[i].res = 0

\* `get` never meets "journal index identity mismatch", not even on a poisoned
\* journal: the offsets of a row lead to the records of that row's order.
ReadsOwnRecords ==
  \A i \in Ids : Known(i) =>
    /\ index[i].prep \in PrepPositions(log, i)
    /\ index[i].res # 0 => index[i].res \in ResultPositions(log, i)

\* The budget covers every preparation in the file, the ones whose append was
\* reported as failed included.
BudgetCoversLog == OrderBudget * Cardinality(PreparedLines(log)) <= TotalBudget

\* An order waits for the history export exactly when its state is exportable
\* and it has not been acknowledged, whichever of insertion, result,
\* acknowledgement or recovery touched its row last.
PendingIsExact ==
  up => \A i \in Ids :
          index[i].pending = (Pending(i, index[i].state) /\ ~index[i].exported)

\* Strengthening of the above into an inductive invariant: a healthy process
\* knows how many orders the file holds, a dead one knows nothing, and every
\* order with results has a latest one.
CountsMatchLog ==
  up /\ ~failed => /\ count = Cardinality(PreparedLines(log))
                   /\ used = OrderBudget * count
DeadKnowsNothing == ~up => \A i \in Ids : index[i] = NoRow
LatestExists(l) ==
  \A i \in Ids : ResultPositions(l, i) # {} =>
    \E m \in ResultPositions(l, i) : \A n \in ResultPositions(l, i) : n <= m

JournalInv ==
  /\ JournalTypeOK
  /\ RestartAccepted
  /\ LatestExists(log)
  /\ IndexMatchesLog
  /\ CountsMatchLog
  /\ ReadsOwnRecords
  /\ BudgetCoversLog
  /\ DeadKnowsNothing

\* The journal implements the register of orders: the orders are the prepared
\* lines of the file, a crash, a failed write and a restart change nothing.
DurableEntries ==
  {[id |-> log[n].id, body |-> log[n].body,
    state |-> RecoveredState(log, log[n].id)] : n \in PreparedLines(log)}

Register == INSTANCE Ledger WITH entries <- DurableEntries
ImplementsLedger == Register!Spec

=============================================================================
