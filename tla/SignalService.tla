--------------------------- MODULE SignalService ---------------------------
(***************************************************************************)
(* The signal service of src/lib.rs: POST /signal puts work into a bounded *)
(* queue, one worker starts at most MaxInflight jobs, and every job runs   *)
(* `process`: look the signal up, admit it, reserve it in the journal,     *)
(* check once more, submit the order, record the outcome, answer.          *)
(*                                                                         *)
(* A job is cut where it awaits (the journal's mutex, the exchange, the    *)
(* signer) and where another thread can see the flags it reads.  The       *)
(* process may die at any point and a new one opens the same journal.      *)
(***************************************************************************)
EXTENDS Journal, ExchangeResponse

CONSTANTS
  Requests,       \* POST /signal calls, each made once, at any time
  Inputs,         \* the signals clients send
  Codes,          \* HTTP status codes an answer may have
  Responses,      \* shapes of the answers the exchange gives
  QueueCapacity,  \* config.queue_capacity
  MaxInflight     \* config.max_inflight

ASSUME ServiceAssumption ==
  /\ Inputs \subseteq Signals
  /\ Codes \subseteq Nat
  /\ Responses \subseteq ResponseSpace(Codes)
  /\ QueueCapacity \in Nat \ {0}
  /\ MaxInflight \in Nat \ {0}

VARIABLES
  \* the process
  stopped,   \* the AtomicBool
  panicked,  \* a job ended in a panic the worker has not joined yet
  queue,     \* the mpsc channel
  pc,        \* where each request is
  sig,       \* the signal it carries
  result,    \* result.state of its job
  \* the clients
  reply,     \* the state each request was answered with
  \* the exchange
  wire,      \* orders sent and neither received nor lost
  venue,     \* what became of each order there
  posts      \* how often an order was submitted for each identifier

serviceVars  == <<stopped, panicked, queue, pc, sig, result, reply>>
exchangeVars == <<wire, venue, posts>>
vars         == <<journalVars, serviceVars, exchangeVars>>

JobSteps   == {"lookup", "admit", "prepare", "recheck", "post", "await",
               "finish", "halt"}
Steps      == {"new", "queued", "replied", "lost"} \cup JobSteps
ReplyStates == Outcomes \cup {"none", "busy", "conflict", "prepared"}

Active     == {r \in Requests : pc[r] \in JobSteps}   \* JoinSet and permits
Dispatched == {r \in Requests : pc[r] = "post"}       \* past the last check

Goto(r, step) == pc' = [pc EXCEPT ![r] = step]
Answer(r, st) ==
  /\ Goto(r, "replied")
  /\ reply' = [reply EXCEPT ![r] = st]

Init ==
  /\ JournalInit
  /\ stopped = FALSE /\ panicked = FALSE /\ queue = <<>>
  /\ pc = [r \in Requests |-> "new"]
  /\ sig \in [Requests -> Inputs]
  /\ result = [r \in Requests |-> "none"]
  /\ reply = [r \in Requests |-> "none"]
  /\ wire = {}
  /\ venue = [i \in Ids |-> "none"]
  /\ posts = [i \in Ids |-> 0]

-----------------------------------------------------------------------------
(* Process *)

\* Service::start: open the journal, refuse one beyond the budget.
Start(scope) ==
  /\ Open(scope)
  /\ used' <= TotalBudget
  /\ UNCHANGED <<serviceVars, exchangeVars>>

\* A first start dies while the journal writes its scope line.
StartInterrupted(scope) ==
  /\ OpenInterrupted(scope)
  /\ UNCHANGED <<serviceVars, exchangeVars>>

\* The process dies, or the operator ends it: whatever was in memory is gone,
\* connected clients get no answer, what is on the wire stays there.
Die ==
  /\ Crash
  /\ stopped' = FALSE /\ panicked' = FALSE /\ queue' = <<>>
  /\ pc' = [r \in Requests |->
              IF pc[r] = "queued" \/ r \in Active THEN "lost" ELSE pc[r]]
  /\ result' = [r \in Requests |-> "none"]
  /\ UNCHANGED <<sig, reply, exchangeVars>>

\* POST /stop, SIGTERM, or a failing journal read of GET /orders/{id}.
Stop ==
  /\ up
  /\ stopped' = TRUE
  /\ UNCHANGED <<journalVars, panicked, queue, pc, sig, result, reply,
                 exchangeVars>>

-----------------------------------------------------------------------------
(* Handler and worker *)

\* POST /signal: a full queue is answered at once.
Submit(r) ==
  /\ up /\ pc[r] = "new"
  /\ \/ /\ Len(queue) < QueueCapacity
        /\ queue' = Append(queue, r)
        /\ Goto(r, "queued")
        /\ UNCHANGED reply
     \/ /\ Len(queue) = QueueCapacity
        /\ Answer(r, "busy")
        /\ UNCHANGED queue
  /\ UNCHANGED <<journalVars, stopped, panicked, sig, result, exchangeVars>>

\* Mutant: one job too many.
ReceiveOneMore ==
  /\ up /\ queue # <<>>
  /\ queue' = Tail(queue)
  /\ LET r == Head(queue) IN
       \/ /\ Cardinality(Active) <= MaxInflight
          /\ Goto(r, "lookup")
          /\ UNCHANGED reply
       \/ /\ Cardinality(Active) > MaxInflight
          /\ Answer(r, "busy")
  /\ UNCHANGED <<journalVars, stopped, panicked, sig, result, exchangeVars>>

\* The worker receives: with a free slot the job starts, without it is refused.
Receive ==
  /\ up /\ queue # <<>>
  /\ queue' = Tail(queue)
  /\ LET r == Head(queue) IN
       \/ /\ Cardinality(Active) < MaxInflight
          /\ Goto(r, "lookup")
          /\ UNCHANGED reply
       \/ /\ Cardinality(Active) >= MaxInflight
          /\ Answer(r, "busy")
  /\ UNCHANGED <<journalVars, stopped, panicked, sig, result, exchangeVars>>

\* The worker joins a job that panicked.
JoinPanicked ==
  /\ up /\ panicked
  /\ panicked' = FALSE
  /\ stopped' = TRUE
  /\ UNCHANGED <<journalVars, queue, pc, sig, result, reply, exchangeVars>>

\* A job panics: its permit and its oneshot sender are dropped, the handler
\* answers "worker_stopped".
Panic(r) ==
  /\ r \in Active
  /\ panicked' = TRUE
  /\ Answer(r, "blocked")
  /\ UNCHANGED <<journalVars, stopped, queue, sig, result, exchangeVars>>

-----------------------------------------------------------------------------
(* process *)

\* An order the journal knows is answered from it; another signal under the
\* same identifier is a conflict.
AnswerKnown(r) ==
  /\ Known(sig[r].id)
  /\ Answer(r, IF StoredBody(sig[r].id) = sig[r].body
               THEN StoredState(sig[r].id) ELSE "conflict")

Lookup(r) ==
  /\ pc[r] = "lookup"
  /\ \/ AnswerKnown(r) /\ UNCHANGED stopped
     \/ /\ ~Known(sig[r].id)
        /\ Goto(r, "admit")
        /\ UNCHANGED <<reply, stopped>>
     \/ stopped' = TRUE /\ Answer(r, "blocked")         \* journal_read_failed
  /\ UNCHANGED <<journalVars, panicked, queue, sig, result, exchangeVars>>

\* The stop flag, the token list, the policy and the signature.
Admit(r) ==
  /\ pc[r] = "admit"
  /\ \/ ~stopped /\ Goto(r, "prepare") /\ UNCHANGED reply
     \/ Answer(r, "blocked")   \* stopped, policy, or the signer failed
  /\ UNCHANGED <<journalVars, stopped, panicked, queue, sig, result,
                 exchangeVars>>

\* Mutant: an order that `prepare` found is treated like a new one.
PrepareTwice(r) ==
  /\ pc[r] = "prepare" /\ ~failed
  /\ Known(sig[r].id)
  /\ Goto(r, "recheck")
  /\ UNCHANGED <<journalVars, stopped, panicked, queue, sig, result, reply,
                 exchangeVars>>

\* `prepare` returned without a reservation: another job of the same signal
\* was first, or the budget or the capacity is exhausted.
PrepareDeclined(r) ==
  /\ pc[r] = "prepare" /\ ~failed
  /\ \/ AnswerKnown(r)
     \/ /\ ~Known(sig[r].id)
        /\ count >= OrderCapacity \/ used + OrderBudget > TotalBudget
        /\ Answer(r, "blocked")
  /\ UNCHANGED <<journalVars, stopped, panicked, queue, sig, result,
                 exchangeVars>>

\* The reservation is durable.
Reserve(r) ==
  /\ pc[r] = "prepare"
  /\ Prepare(sig[r])
  /\ Goto(r, "recheck")
  /\ result' = [result EXCEPT ![r] = "prepared"]
  /\ UNCHANGED <<stopped, panicked, queue, sig, reply, exchangeVars>>

\* Mutant: the order goes on without its reservation.
ReserveFailsOpen(r) ==
  /\ pc[r] = "prepare"
  /\ \/ UNCHANGED journalVars
     \/ PrepareAppendFails(sig[r])
     \/ PrepareIndexFails(sig[r])
  /\ Goto(r, "recheck")
  /\ UNCHANGED <<stopped, panicked, queue, sig, result, reply, exchangeVars>>

\* Any other error of `prepare` (a read, write or index error, or "journal is
\* poisoned") stops the service; between the error and the store others run.
ReserveFails(r) ==
  /\ pc[r] = "prepare"
  /\ \/ UNCHANGED journalVars
     \/ PrepareAppendFails(sig[r])
     \/ PrepareIndexFails(sig[r])
  /\ Goto(r, "halt")
  /\ result' = [result EXCEPT ![r] = "blocked"]
  /\ UNCHANGED <<stopped, panicked, queue, sig, reply, exchangeVars>>

\* Mutant: the stop flag is not read again.
RecheckNothing(r) ==
  /\ pc[r] = "recheck"
  /\ Goto(r, "post")
  /\ result' = [result EXCEPT ![r] = "unknown"]
  /\ UNCHANGED <<journalVars, stopped, panicked, queue, sig, reply,
                 exchangeVars>>

\* The last check before dispatch: the stop flag, and the policy again, whose
\* age limits signing and journalling may have used up.
Recheck(r) ==
  /\ pc[r] = "recheck"
  /\ \/ /\ ~stopped
        /\ Goto(r, "post")
        /\ result' = [result EXCEPT ![r] = "unknown"]
     \/ /\ Goto(r, "finish")           \* stopped_or_expired_before_dispatch
        /\ result' = [result EXCEPT ![r] = "blocked"]
  /\ UNCHANGED <<journalVars, stopped, panicked, queue, sig, reply,
                 exchangeVars>>

Post(r) ==
  /\ pc[r] = "post"
  /\ Goto(r, "await")
  /\ wire' = wire \cup {sig[r].id}
  /\ posts' = [posts EXCEPT ![sig[r].id] = @ + 1]
  /\ UNCHANGED <<journalVars, stopped, panicked, queue, sig, result, reply,
                 venue>>

\* An answer arrives in time and is classified.
Respond(r) ==
  /\ pc[r] = "await"
  /\ \E a \in Responses :
       /\ HonestAbout(venue[sig[r].id], a)
       /\ result' = [result EXCEPT ![r] = Classify(a)]
  /\ Goto(r, "finish")
  /\ UNCHANGED <<journalVars, stopped, panicked, queue, sig, reply,
                 exchangeVars>>

\* Mutant: silence is taken for a refusal.
TimeOutRejects(r) ==
  /\ pc[r] = "await"
  /\ Goto(r, "finish")
  /\ result' = [result EXCEPT ![r] = "rejected"]
  /\ UNCHANGED <<journalVars, stopped, panicked, queue, sig, reply,
                 exchangeVars>>

\* Mutant: an order without an answer was not sent.
TimeOutBlocks(r) ==
  /\ pc[r] = "await"
  /\ Goto(r, "finish")
  /\ result' = [result EXCEPT ![r] = "blocked"]
  /\ UNCHANGED <<journalVars, stopped, panicked, queue, sig, reply,
                 exchangeVars>>

\* No answer within request_timeout_ms, or a transport error.
TimeOut(r) ==
  /\ pc[r] = "await"
  /\ Goto(r, "finish")
  /\ UNCHANGED <<journalVars, stopped, panicked, queue, sig, result, reply,
                 exchangeVars>>

\* The outcome is recorded, then the client learns it.
Record(r) ==
  /\ pc[r] = "finish"
  /\ Finish(sig[r].id, result[r])
  /\ Answer(r, result[r])
  /\ UNCHANGED <<stopped, panicked, queue, sig, result, exchangeVars>>

\* Mutant: the client is told what could not be recorded.
RecordFailsTells(r) ==
  /\ pc[r] = "finish"
  /\ \/ UNCHANGED journalVars
     \/ FinishAppendFails(sig[r].id, result[r])
     \/ FinishIndexFails(sig[r].id, result[r])
  /\ Goto(r, "halt")
  /\ UNCHANGED <<stopped, panicked, queue, sig, result, reply, exchangeVars>>

\* It could not be recorded, or not even looked up: the client is told "unknown".
RecordFails(r) ==
  /\ pc[r] = "finish"
  /\ \/ UNCHANGED journalVars
     \/ FinishAppendFails(sig[r].id, result[r])
     \/ FinishIndexFails(sig[r].id, result[r])
  /\ Goto(r, "halt")
  /\ result' = [result EXCEPT ![r] = "unknown"]
  /\ UNCHANGED <<stopped, panicked, queue, sig, reply, exchangeVars>>

\* Mutant: the error is answered and nothing else.
HaltQuietly(r) ==
  /\ pc[r] = "halt"
  /\ Answer(r, result[r])
  /\ UNCHANGED <<journalVars, stopped, panicked, queue, sig, result,
                 exchangeVars>>

\* ctx.stopped.store(true) and the answer, after a journal error.
Halt(r) ==
  /\ pc[r] = "halt"
  /\ stopped' = TRUE
  /\ Answer(r, result[r])
  /\ UNCHANGED <<journalVars, panicked, queue, sig, result, exchangeVars>>

-----------------------------------------------------------------------------
(* External: the network and the exchange *)

VenueTakes(i) ==
  /\ i \in wire
  /\ wire' = wire \ {i}
  /\ \E st \in {"placed", "refused"} : venue' = [venue EXCEPT ![i] = st]
  /\ UNCHANGED <<journalVars, serviceVars, posts>>

WireLoses(i) ==
  /\ i \in wire
  /\ wire' = wire \ {i}
  /\ UNCHANGED <<journalVars, serviceVars, venue, posts>>

-----------------------------------------------------------------------------

\* Mutant: the exchange call has no timeout.
WorkUntimed(r) ==
  \/ Lookup(r) \/ Admit(r) \/ PrepareDeclined(r) \/ Reserve(r)
  \/ ReserveFails(r) \/ Recheck(r) \/ Post(r)
  \/ Record(r) \/ RecordFails(r) \/ Halt(r)

Work(r) ==
  \/ Lookup(r) \/ Admit(r) \/ PrepareDeclined(r) \/ Reserve(r)
  \/ ReserveFails(r) \/ Recheck(r) \/ Post(r) \/ TimeOut(r)
  \/ Record(r) \/ RecordFails(r) \/ Halt(r)

Next ==
  \/ \E c \in Scopes : Start(c) \/ StartInterrupted(c)
  \/ Die
  \/ Stop
  \/ Receive
  \/ JoinPanicked
  \/ \E r \in Requests : Submit(r) \/ Work(r) \/ Respond(r) \/ Panic(r)
  \/ \E i \in Ids : VenueTakes(i) \/ WireLoses(i)

Spec == Init /\ [][Next]_vars

\* The runtime keeps polling the worker and every job, an awaited mutex, file
\* operation or signature completes, and the exchange call has a timeout.
\* Nothing is assumed of the exchange, of clients, or of a process that died.
Fairness ==
  /\ WF_vars(Receive)
  /\ WF_vars(JoinPanicked)
  /\ \A r \in Requests : WF_vars(Work(r))

FairSpec == Spec /\ Fairness

-----------------------------------------------------------------------------
(* Properties *)

ServiceTypeOK ==
  /\ JournalTypeOK
  /\ stopped \in BOOLEAN /\ panicked \in BOOLEAN
  /\ queue \in Seq(Requests) /\ Len(queue) <= QueueCapacity
  /\ Cardinality(Active) <= MaxInflight
  /\ pc \in [Requests -> Steps]
  /\ sig \in [Requests -> Inputs]
  /\ result \in [Requests -> Outcomes \cup {"none", "prepared"}]
  /\ reply \in [Requests -> ReplyStates]
  /\ wire \subseteq Ids
  /\ venue \in [Ids -> {"none", "placed", "refused"}]
  /\ posts \in [Ids -> Nat]

\* An identifier is submitted to the exchange at most once, whatever its
\* clients repeat concurrently, however often the process dies and reopens the
\* journal, and whatever writes fail (README "recorded identical signals return
\* the existing state without signing or sending again").
AtMostOneSubmission == \A i \in Ids : posts[i] <= 1

\* Everything ever submitted was durably reserved first: after a crash at any
\* point its order is in the file, with the body of the signal the sender had.
SubmissionIsDurable ==
  /\ \A i \in Ids : posts[i] > 0 => PrepPositions(log, i) # {}
  /\ \A r \in Requests : pc[r] \in {"post", "await"} =>
       \E n \in PrepPositions(log, sig[r].id) : log[n].body = sig[r].body

\* All submissions of all lives of the process together fit the total budget.
SubmissionsWithinBudget ==
  OrderBudget * Cardinality({i \in Ids : posts[i] > 0}) <= TotalBudget

\* An order the exchange holds is never on record as rejected, blocked or
\* absent, even if the answer, the record or the process was lost.
PlacedOrdersStayOpen ==
  \A i \in Ids : venue[i] = "placed" =>
    RecoveredState(log, i) \in {"accepted", "unknown"}

\* A client that was told a definite outcome was told the truth, and every
\* later recovery of the journal says the same.
DefiniteRepliesHold ==
  \A r \in Requests :
    /\ reply[r] = "accepted" =>
         venue[sig[r].id] = "placed" /\ RecoveredState(log, sig[r].id) = "accepted"
    /\ reply[r] = "rejected" =>
         venue[sig[r].id] # "placed" /\ RecoveredState(log, sig[r].id) = "rejected"

\* What the file says of an order, which recovery would not know better.
OnRecord(i) ==
  IF PrepPositions(log, i) = {} THEN "none"
  ELSE IF ResultPositions(log, i) = {} THEN "prepared"
  ELSE log[Latest(ResultPositions(log, i))].state

\* Whatever requests race, repeat or die, and whichever write is half done, the
\* orders do what an order path promises: each is on record before its one
\* submission, and its one outcome says whether it was sent, and stays (README
\* "recorded identical signals return the existing state without signing or
\* sending again").
Path == INSTANCE Submissions
          WITH Orders <- Ids, record <- [i \in Ids |-> OnRecord(i)], sent <- posts
ImplementsSubmissions == Path!FinalSpec

\* The verdicts on all answers there are; without variables, TLC evaluates it once.
EveryVerdict == \A r \in ResponseSpace(Codes) :
                  VerdictFollowsEvidence(r) /\ ExecutionIsNeverRejected(r)

\* Whatever answer a posted order gets: acceptance and rejection never rest on
\* anything but evidence, and evidence of execution never turns into a rejection
\* (apply_exchange_response in src/lib.rs).
Verdict == \A q \in Requests : pc[q] = "await" => EveryVerdict

\* After a stop only the jobs that had passed the last check may still submit:
\* once they have, nothing reaches dispatch until the process is restarted
\* (README, POST /stop).
DrainedStaysQuiet ==
  [][stopped /\ up /\ Dispatched = {} => Dispatched' = {}]_vars

\* README.md:176: unknown orders keep the service stopped across restarts.  The
\* code does not do this (nor does README.md:113 ask for it): `start` leaves the
\* flag down whatever it recovers, and an uncertain answer does not raise it.
UnknownKeepsStopped ==
  up /\ (\E i \in Ids : index[i].state = "unknown") => stopped

\* A journal that cannot be written stops the service.
PoisonStops == failed ~> stopped \/ ~up

\* Work that was queued is answered, unless the process dies.
QueuedIsAnswered ==
  \A r \in Requests : pc[r] = "queued" ~> pc[r] \in {"replied", "lost"}

-----------------------------------------------------------------------------
(* Strengthening of the safety properties into an inductive invariant       *)

\* Jobs that hold the reservation they made.
Holding == {r \in Requests : pc[r] \in {"recheck", "post", "await", "finish"}}

\* At most one of them per order; it has its preparation in the file, and
\* nobody has recorded a result of the order yet.
HoldersOwnOrders ==
  /\ \A q, r \in Holding : sig[q].id = sig[r].id => q = r
  /\ \A r \in Holding :
       /\ \E n \in PrepPositions(log, sig[r].id) : log[n].body = sig[r].body
       /\ ResultPositions(log, sig[r].id) = {}

\* An order is on its way, or somewhere, only after a submission; and it is in
\* one place only.
SubmissionsPrecede ==
  \A i \in Ids :
    /\ posts[i] > 0 => PrepPositions(log, i) # {}
    /\ i \in wire \/ venue[i] # "none" => posts[i] > 0
    /\ i \in wire => venue[i] = "none"
NotYetSubmitted ==
  \A r \in Requests : pc[r] \in {"recheck", "post"} => posts[sig[r].id] = 0

\* What may be claimed of an order, given what happened to it.
Truthful(i, st) ==
  \/ st = "unknown"
  \/ st = "accepted" /\ venue[i] = "placed"
  \/ st = "rejected" /\ venue[i] = "refused"
  \/ st = "blocked" /\ posts[i] = 0

ResultsAreTruthful ==
  \A r \in Requests :
    /\ pc[r] = "finish" => Truthful(sig[r].id, result[r])
    /\ pc[r] \in {"post", "await"} => result[r] = "unknown"
    /\ pc[r] = "halt" => result[r] \in {"unknown", "blocked"}
RecordsAreTruthful ==
  \A i \in Ids :
    /\ \A m, n \in ResultPositions(log, i) : m = n
    /\ \A n \in ResultPositions(log, i) : Truthful(i, log[n].state)

\* A definite reply was read from, or written to, the file; and an index row
\* without a result says nothing definite.
RepliesAreRecorded ==
  \A r \in Requests : reply[r] \in {"accepted", "rejected"} =>
    \E n \in ResultPositions(log, sig[r].id) : log[n].state = reply[r]
RowsWithoutResult ==
  \A i \in Ids : Known(i) /\ index[i].res = 0 =>
    index[i].state \in {"prepared", "unknown"}

OrdersInv ==
  /\ HoldersOwnOrders
  /\ SubmissionsPrecede
  /\ NotYetSubmitted
  /\ AtMostOneSubmission
  /\ ResultsAreTruthful
  /\ RecordsAreTruthful
  /\ RepliesAreRecorded
  /\ RowsWithoutResult

ServiceInv ==
  /\ JournalInv
  /\ ServiceTypeOK
  /\ IsFiniteSet(Active)
  /\ OrdersInv

=============================================================================
