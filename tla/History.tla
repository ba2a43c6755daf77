------------------------------ MODULE History -------------------------------
(***************************************************************************)
(* What follows an order's execution (src/shadow_history.rs and the loops  *)
(* of src/shadow.rs that call it): one loop tells the history service what *)
(* became of the orders and acknowledges them in the journal, another asks *)
(* it about orders whose outcome is unknown and records what it decided.   *)
(* Both work on batches read from the journal some time ago; a request or  *)
(* a record that fails ends the batch.                                     *)
(*                                                                         *)
(* The five minutes before an order is asked about are left out: younger   *)
(* orders come last in a batch and may be undecided.                       *)
(***************************************************************************)
EXTENDS Journal

CONSTANTS
  IdRank,        \* the order of the identifiers
  ObservedAt,    \* when the signal of an order was seen, ties in the order of the batch
  ExportBatch,   \* 25 orders of `pending_batch`
  UnknownBatch,  \* 50 orders of `unknown_batch`
  Results,       \* outcomes the tasks record: one of each kind the loops tell apart
  MaxFaults      \* bound on deaths, failed requests and failed writes

ASSUME HistoryAssumption ==
  /\ LiveIds = Ids
  /\ IdRank \in [Ids -> Nat] /\ \A i, j \in Ids : IdRank[i] = IdRank[j] => i = j
  /\ ObservedAt \in [Ids -> Nat]
  /\ \A i, j \in Ids : ObservedAt[i] = ObservedAt[j] => i = j
  /\ IsFiniteSet(Ids)
  /\ ExportBatch \in Nat \ {0} /\ UnknownBatch \in Nat \ {0}
  /\ Results \subseteq Outcomes
  /\ MaxFaults \in Nat

VARIABLES
  running,   \* orders whose task has prepared them and not recorded an outcome
  exporter,  \* the locals of `export`
  resolver,  \* the locals of `resolve_unknown_once`
  service,   \* the history service, external
  faults

historyVars == <<journalVars, running, exporter, resolver, service, faults>>

Undecided == "undecided"
Untold    == "untold"

\* The entries of a batch with the state they were read in; posted: the service
\* took the next one.
NoExport  == [batch |-> {}, posted |-> FALSE]
\* The orders of a batch; verdict: the answer for the next one.
NoResolve == [batch |-> {}, verdict |-> Undecided]

HistoryInit ==
  /\ JournalInit
  /\ running = {} /\ exporter = NoExport /\ resolver = NoResolve /\ faults = 0
  /\ \E refused \in SUBSET Ids :
       service = [told    |-> [i \in Ids |-> Untold],
                  decided |-> [i \in Ids |-> Undecided],
                  refused |-> refused]

Fault == faults < MaxFaults /\ faults' = faults + 1

-----------------------------------------------------------------------------
(* The process and its orders *)

HistoryOpen ==
  /\ \E c \in Scopes : Open(c)
  /\ UNCHANGED <<running, exporter, resolver, service, faults>>

Dies ==
  /\ Fault
  /\ Crash
  /\ running' = {} /\ exporter' = NoExport /\ resolver' = NoResolve
  /\ UNCHANGED service

\* The journal's side of App::execute: an order is prepared, and later its only
\* result is recorded.
Begin(s) ==
  /\ Prepare(s)
  /\ running' = running \cup {s.id}
  /\ UNCHANGED <<exporter, resolver, service, faults>>

BeginFails(s) ==
  /\ Fault
  /\ PrepareAppendFails(s) \/ PrepareIndexFails(s)
  /\ UNCHANGED <<running, exporter, resolver, service>>

End(i, st) ==
  /\ i \in running
  /\ Finish(i, st)
  /\ running' = running \ {i}
  /\ UNCHANGED <<exporter, resolver, service, faults>>

EndFails(i, st) ==
  /\ Fault
  /\ i \in running
  /\ FinishAppendFails(i, st) \/ FinishIndexFails(i, st)
  /\ running' = running \ {i}
  /\ UNCHANGED <<exporter, resolver, service>>

-----------------------------------------------------------------------------
(* The history service, external: it keeps the first receipt of an order and *)
(* decides in its own time what became of one that is unknown.               *)

Told(i)    == service.told[i]
Decided(i) == service.decided[i]

Keep(e) == IF Told(e.id) = Untold THEN [service EXCEPT !.told[e.id] = e.state] ELSE service

Decide(i, st) ==
  /\ Told(i) = "unknown" /\ Decided(i) = Undecided
  /\ st \in {"rejected", "accepted"}
  /\ service' = [service EXCEPT !.decided[i] = st]
  /\ UNCHANGED <<journalVars, running, exporter, resolver, faults>>

-----------------------------------------------------------------------------
(* export *)

Fewer(m, n) == IF m <= n THEN m ELSE n

\* The first n of the set by rank, in one of the orders that leaves open.
FirstOf(S, n, rank) ==
  {B \in SUBSET S : /\ Cardinality(B) = Fewer(n, Cardinality(S))
                    /\ \A b \in B, c \in S \ B : rank[b] <= rank[c]}

Waiting  == {i \in Ids : index[i].pending}
Unknowns == {i \in Ids : index[i].state = "unknown"}

\* Mutant: the orders that have not been exported, finished or not.
ReadPendingUnfinished ==
  /\ up /\ exporter = NoExport
  /\ \E B \in FirstOf({i \in Ids : Known(i) /\ ~index[i].exported}, ExportBatch, IdRank) :
       /\ B # {}
       /\ exporter' = [exporter EXCEPT !.batch = {[id |-> i, state |-> StoredState(i)] : i \in B}]
  /\ UNCHANGED <<journalVars, running, resolver, service, faults>>

\* pending_batch: the journal is locked for the reading only.
ReadPending ==
  /\ up /\ exporter = NoExport
  /\ \E B \in FirstOf(Waiting, ExportBatch, IdRank) :
       /\ B # {}
       /\ exporter' = [exporter EXCEPT !.batch = {[id |-> i, state |-> StoredState(i)] : i \in B}]
  /\ UNCHANGED <<journalVars, running, resolver, service, faults>>

NextReceipt(e) ==
  /\ e \in exporter.batch /\ \A f \in exporter.batch : IdRank[e.id] <= IdRank[f.id]
  /\ ~exporter.posted

\* What the service may refuse: an order it never takes, and a receipt that
\* differs from the one it holds ("receipt retry digest").
Differs(e) == Told(e.id) \notin {Untold, e.state}

PostTaken ==
  /\ \E e \in exporter.batch : /\ NextReceipt(e) /\ e.id \notin service.refused
                               /\ service' = Keep(e)
  /\ exporter' = [exporter EXCEPT !.posted = TRUE]
  /\ UNCHANGED <<journalVars, running, resolver, faults>>

\* Mutant: the status of the answer is not looked at.
PostRefusedUnseen ==
  /\ \E e \in exporter.batch :
       NextReceipt(e) /\ (e.id \in service.refused \/ Differs(e))
  /\ exporter' = [exporter EXCEPT !.posted = TRUE]
  /\ UNCHANGED <<journalVars, running, resolver, service, faults>>

PostRefused ==
  /\ \E e \in exporter.batch :
       NextReceipt(e) /\ (e.id \in service.refused \/ Differs(e))
  /\ exporter' = NoExport
  /\ UNCHANGED <<journalVars, running, resolver, service, faults>>

\* The request, or only its answer, is lost.
PostFails ==
  /\ Fault
  /\ \E e \in exporter.batch :
       /\ NextReceipt(e)
       /\ \/ UNCHANGED service
          \/ e.id \notin service.refused /\ service' = Keep(e)
  /\ exporter' = NoExport
  /\ UNCHANGED <<journalVars, running, resolver>>

Posted(e) == /\ e \in exporter.batch /\ \A f \in exporter.batch : IdRank[e.id] <= IdRank[f.id]
             /\ exporter.posted

\* Nobody else acknowledges: the order is not exported yet.
Acknowledge ==
  /\ \E e \in exporter.batch :
       /\ Posted(e)
       /\ AckHistory(e.id)
       /\ exporter' = [batch |-> exporter.batch \ {e}, posted |-> FALSE]
  /\ UNCHANGED <<running, resolver, service, faults>>

AcknowledgeFails ==
  /\ \/ Fault /\ \E e \in exporter.batch : Posted(e) /\ AckHistoryFails(e.id)
     \/ /\ up /\ failed /\ exporter.posted
        /\ UNCHANGED <<journalVars, faults>>
  /\ exporter' = NoExport
  /\ UNCHANGED <<running, resolver, service>>

ExportStep == \/ ReadPending \/ PostTaken \/ PostRefused \/ PostFails
              \/ Acknowledge \/ AcknowledgeFails

-----------------------------------------------------------------------------
(* resolve_unknown_once *)

\* Mutant: the youngest first.
ReadUnknownYoungest ==
  /\ up /\ resolver = NoResolve
  /\ \E B \in FirstOf(Unknowns, UnknownBatch, [i \in Ids |-> -ObservedAt[i]]) :
       B # {} /\ resolver' = [resolver EXCEPT !.batch = B]
  /\ UNCHANGED <<journalVars, running, exporter, service, faults>>

\* unknown_batch
ReadUnknown ==
  /\ up /\ resolver = NoResolve
  /\ \E B \in FirstOf(Unknowns, UnknownBatch, ObservedAt) :
       B # {} /\ resolver' = [resolver EXCEPT !.batch = B]
  /\ UNCHANGED <<journalVars, running, exporter, service, faults>>

NextAsked(i) ==
  /\ i \in resolver.batch /\ \A j \in resolver.batch : ObservedAt[i] <= ObservedAt[j]
  /\ resolver.verdict = Undecided

AskUndecided ==
  /\ \E i \in resolver.batch : /\ NextAsked(i) /\ Told(i) # Untold /\ Decided(i) = Undecided
                               /\ resolver' = [resolver EXCEPT !.batch = @ \ {i}]
  /\ UNCHANGED <<journalVars, running, exporter, service, faults>>

AskDecided ==
  /\ \E i \in resolver.batch : /\ NextAsked(i) /\ Decided(i) # Undecided
                               /\ resolver' = [resolver EXCEPT !.verdict = Decided(i)]
  /\ UNCHANGED <<journalVars, running, exporter, service, faults>>

\* The service has no answer for an order it holds no receipt of, or the request
\* fails: the batch ends.
AskFails ==
  /\ \/ Fault
     \/ (\E i \in resolver.batch : NextAsked(i) /\ Told(i) = Untold) /\ UNCHANGED faults
  /\ resolver.batch # {} /\ resolver.verdict = Undecided
  /\ resolver' = NoResolve
  /\ UNCHANGED <<journalVars, running, exporter, service>>

Answered(i) == /\ i \in resolver.batch /\ \A j \in resolver.batch : ObservedAt[i] <= ObservedAt[j]
               /\ resolver.verdict # Undecided

\* Under the journal's lock the order is read again; it is still unknown, for
\* nobody else settles unknown orders.
Resolve ==
  /\ \E i \in resolver.batch :
       /\ Answered(i)
       /\ StoredState(i) = "unknown" /\ Finish(i, resolver.verdict)
       /\ resolver' = [batch |-> resolver.batch \ {i}, verdict |-> Undecided]
  /\ UNCHANGED <<running, exporter, service, faults>>

ResolveFails ==
  /\ \/ /\ Fault
        /\ \E i \in resolver.batch :
             /\ Answered(i) /\ StoredState(i) = "unknown"
             /\ FinishAppendFails(i, resolver.verdict) \/ FinishIndexFails(i, resolver.verdict)
     \/ /\ up /\ failed /\ resolver.verdict # Undecided
        /\ UNCHANGED <<journalVars, faults>>
  /\ resolver' = NoResolve
  /\ UNCHANGED <<running, exporter, service>>

ResolveStep == \/ ReadUnknown \/ AskUndecided \/ AskDecided \/ AskFails \/ Resolve \/ ResolveFails

-----------------------------------------------------------------------------
HistoryNext ==
  \/ HistoryOpen \/ Dies
  \/ \E s \in Signals : Begin(s) \/ BeginFails(s)
  \/ \E i \in Ids, st \in Results : End(i, st) \/ EndFails(i, st)
  \/ \E i \in Ids, st \in Outcomes : Decide(i, st)
  \/ ExportStep
  \/ ResolveStep

HistorySpec == HistoryInit /\ [][HistoryNext]_historyVars

\* The two loops go on for ever: one sleeps two seconds, the other thirty.
HistoryFairSpec == HistorySpec /\ WF_historyVars(ExportStep) /\ WF_historyVars(ResolveStep)

-----------------------------------------------------------------------------
Receipts == [id : Ids, state : Outcomes]

HistoryTypeOK ==
  /\ running \subseteq Ids
  /\ exporter \in [batch : SUBSET Receipts, posted : BOOLEAN]
  /\ resolver \in [batch : SUBSET Ids, verdict : {Undecided, "rejected", "accepted"}]
  /\ service \in [told : [Ids -> Outcomes \cup {Untold}],
                  decided : [Ids -> {Undecided, "rejected", "accepted"}], refused : SUBSET Ids]
  /\ faults \in 0 .. MaxFaults

\* A state the service was or may be told: what the journal says of the order at
\* the next start, or "unknown" when that is what the service itself decided.
Stands(i, st) ==
  st = RecoveredState(log, i) \/ (st = "unknown" /\ RecoveredState(log, i) = Decided(i))

\* A receipt is never contradicted, nor a definite outcome changed: of every order
\* the service holds what stands.  And only an order it holds is taken off the
\* export.
ReceiptsStand ==
  \A i \in Ids : IF Told(i) = Untold THEN i \notin AckedIds ELSE Stands(i, Told(i))

Healthy == up /\ ~failed

\* What can keep a finished order from the service: an order, itself or one
\* before it, that the service refuses, because it always does or because the
\* outcome was resolved after the service took it and before that was recorded.
Obstructed(i) ==
  \E j \in Waiting : /\ IdRank[j] <= IdRank[i]
                     /\ j \in service.refused \/ Told(j) \notin {Untold, StoredState(j)}

\* What can keep a decided order open: an older one the service holds no receipt
\* of, or a whole batch of older ones it cannot decide.
Starved(i) ==
  LET older == {j \in Unknowns \ {i} : ObservedAt[j] <= ObservedAt[i]}
  IN  \/ \E j \in older : Told(j) = Untold
      \/ Cardinality({j \in older : Decided(j) = Undecided}) >= UnknownBatch

\* In a process that lives on with a healthy journal every finished order is
\* exported and every decided one resolved, but for these obstacles.
Exported == \A i \in Ids : <>[](Healthy /\ ~Obstructed(i)) => []<>(i \notin Waiting)
Resolved == \A i \in Ids : <>[](Healthy /\ ~Starved(i))
                             => []<>(Decided(i) = Undecided \/ i \notin Unknowns)
CatchesUp == Exported /\ Resolved

\* Strengthening of ReceiptsStand: what is on its way to the service or back stands
\* too, and nobody has heard of an order whose task still runs.
RunningUnheard ==
  \A i \in running : /\ up /\ index[i].prep # 0 /\ index[i].res = 0 /\ index[i].state = "prepared"
                     /\ Told(i) = Untold
                     /\ \A e \in exporter.batch : e.id # i
WaitingStands == \A i \in Waiting : Known(i) /\ Stands(i, StoredState(i))
EntriesStand ==
  \A e \in exporter.batch :
    /\ up /\ Stands(e.id, e.state)
    /\ Posted(e) => Told(e.id) # Untold
DecidedWasUnknown == \A i \in Ids : Decided(i) # Undecided => Told(i) = "unknown"
VerdictStands == \A i \in resolver.batch : Answered(i) => resolver.verdict = Decided(i)

HistoryInv ==
  /\ JournalInv
  /\ PendingIsExact
  /\ HistoryTypeOK
  /\ ReceiptsStand
  /\ RunningUnheard
  /\ WaitingStands
  /\ EntriesStand
  /\ DecidedWasUnknown
  /\ VerdictStands

=============================================================================
