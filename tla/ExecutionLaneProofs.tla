------------------------ MODULE ExecutionLaneProofs -------------------------
(***************************************************************************)
(* Proofs about the execution lane, for any number of tasks and slots, any *)
(* chain consistent with the oracle's protocol and any length of run.      *)
(***************************************************************************)
EXTENDS ExecutionLane, LifecycleCacheProofs, FiniteSetTheorems

-----------------------------------------------------------------------------
(* The inductive invariant *)

\* Tasks that hold the reservation they made in the journal.
Owners == {j \in Jobs : job[j].pc \in Started}

\* A task has a proposal, one of its own since it reserved it; a process that
\* is not there has no tasks.
TasksHaveOrders ==
  /\ \A j \in Jobs : /\ job[j].pc # "idle" => job[j].ev \in Orders
                     /\ job[j].pc = "record" => job[j].result # "none"
  /\ phase \in {"down", "exited"} => \A j \in Jobs : job[j] = IdleJob

OwnersAreAlone ==
  /\ \A i, j \in Owners : job[i].ev = job[j].ev => i = j
  /\ \A j \in Owners : register[job[j].ev] = "prepared"

\* Whoever may still submit, or may say that it did not, has not.
NotYetSubmitted ==
  /\ \A i \in Orders : register[i] \in {"none", "blocked", "dry_run"} => posts[i] = 0
  /\ \A j \in Jobs : /\ job[j].pc \in {"check", "submit"} => posts[job[j].ev] = 0
                     /\ job[j].pc = "record" /\ job[j].result \in {"blocked", "dry_run"}
                          => posts[job[j].ev] = 0

\* An order without an outcome is somebody's, or its record failed.
OpenOrdersAreOwned ==
  phase # "down" => \A i \in Orders : register[i] = "prepared" =>
                      i \in broken \/ \E j \in Owners : job[j].ev = i

\* Beyond the decision a task has read that the strategy is on.
DecidedReadOn ==
  \A j \in Jobs : job[j].pc \in {"sign", "check", "submit"} => job[j].policy = "on"

\* While the session of its dispatch lasts, a task's proposal is the mark, or
\* the mark has moved on; it has if the feed contradicted the proposal.
Current(j) == job[j].pc \notin {"idle", "submit", "await", "record"}
              /\ job[j].epoch = epoch
MovedOn(ev) == \E e \in Chain : life.mark = MarkOf(e) /\ Before(ev.at, e.at)
TriggersAreTracked ==
  \A j \in Jobs : Current(j) =>
    /\ up
    /\ \/ MovedOn(job[j].ev)
       \/ /\ life.mark = MarkOf(job[j].ev)
          /\ ~Proven(life, job[j].ev.round)
          /\ ~job[j].touched
EpochsGrow == \A j \in Jobs : job[j].epoch <= epoch

LaneInv ==
  /\ LaneTypeOK
  /\ TasksHaveOrders
  /\ OwnersAreAlone /\ NotYetSubmitted /\ OpenOrdersAreOwned /\ AtMostOneSubmission
  /\ DecidedReadOn
  /\ EpochsGrow /\ TriggersAreTracked

-----------------------------------------------------------------------------
(* Types *)

LEMMA OrderFields ==
  ASSUME NEW e \in Orders
  PROVE  /\ e \in Chain /\ e.status = "proposed" /\ e.round \in Rounds
         /\ e.at \in Nat \X Nat /\ e # NoOrder
  BY ChainAssumption DEF Orders, NoOrder, Positions

LEMMA IdleJobType == IdleJob \in JobSpace
  BY DEF IdleJob, JobSpace, NoOrder

\* What a step of a task does to the tasks.
LEMMA TaskSteps ==
  ASSUME LaneTypeOK, NEW j \in Jobs, Work(j) \/ Respond(j)
  PROVE  /\ job' \in [Jobs -> JobSpace]
         /\ \A i \in Jobs \ {j} : job'[i] = job[i]
         /\ \/ job'[j] = IdleJob
            \/ /\ job'[j].ev = job[j].ev
               /\ job'[j].pc # "idle" /\ job[j].pc # "idle"
               /\ job[j].pc = "queued" => Admit(j)
<1> USE IdleJobType
<1>a. job \in [Jobs -> JobSpace] /\ operator \in {"on", "off"}
  BY DEF LaneTypeOK
<1>1. CASE \/ Reject(j) \/ InputsFail(j) \/ Refuse(j) \/ SignFails(j) \/ AnswerKnown(j)
           \/ PrepareFails(j) \/ Record(j) \/ RecordFails(j)
  <2>1. GoIdle(j)
    BY <1>1 DEF Reject, InputsFail, Refuse, SignFails, Abandon, AnswerKnown,
                PrepareFails, Record, RecordFails
  <2> QED BY <1>a, <2>1 DEF GoIdle
<1>2. CASE Admit(j) \/ Decide(j) \/ Prepare(j)
  BY <1>2, <1>a DEF Admit, Decide, Prepare, Step, JobSpace, Started
<1>3. CASE Submit(j)
  BY <1>3, <1>a DEF Submit, Step, JobSpace, Started
<1>4. CASE Fetch(j)
  <2>1. PICK rows \in Prefixes :
          job' = [job EXCEPT ![j].pc = "books", ![j].rows = rows, ![j].policy = operator]
    BY <1>4 DEF Fetch
  <2>2. rows \in SUBSET Chain
    BY DEF Prefixes, UpTo
  <2>3. job[j].pc = "inputs"
    BY <1>4 DEF Fetch
  <2> DEFINE new == [job[j] EXCEPT !.pc = "books", !.rows = rows, !.policy = operator]
  <2>4. new \in JobSpace /\ new.ev = job[j].ev /\ new.pc = "books"
    BY <1>a, <2>2 DEF JobSpace
  <2>5. job' = [job EXCEPT ![j] = new]
    BY <1>a, <2>1
  <2> QED BY <1>a, <2>3, <2>4, <2>5
<1>5. CASE StoreInputs(j)
  <2>1. PICK ctx \in Rounds \cup {NoRound} :
          job' = [job EXCEPT ![j].pc = "decide", ![j].rows = {}, ![j].ctx = ctx]
    BY <1>5 DEF StoreInputs
  <2>2. job[j].pc = "books"
    BY <1>5 DEF StoreInputs
  <2> DEFINE new == [job[j] EXCEPT !.pc = "decide", !.rows = {}, !.ctx = ctx]
  <2>3. new \in JobSpace /\ new.ev = job[j].ev /\ new.pc = "decide"
    BY <1>a DEF JobSpace
  <2>4. job' = [job EXCEPT ![j] = new]
    BY <1>a, <2>1
  <2> QED BY <1>a, <2>2, <2>3, <2>4
<1>6. ASSUME NEW pc \in {"submit", "record"}, NEW st \in Outcomes \cup {"none"},
             job[j].pc # "idle", Past(j, pc, st)
      PROVE  /\ job' \in [Jobs -> JobSpace]
             /\ \A i \in Jobs \ {j} : job'[i] = job[i]
             /\ job'[j].ev = job[j].ev /\ job'[j].pc # "idle"
  BY <1>6, <1>a DEF Past, IdleJob, JobSpace, Started
<1>7. CASE FinalCheck(j)
  BY <1>6, <1>7 DEF FinalCheck, Outcomes
<1>8. CASE DryRun(j) \/ TimeOut(j) \/ Respond(j)
  BY <1>6, <1>8 DEF DryRun, TimeOut, Respond, Outcomes
<1> QED
  BY <1>1, <1>2, <1>3, <1>4, <1>5, <1>7, <1>8 DEF Work

Queued(e) == [IdleJob EXCEPT !.pc = "queued", !.ev = e, !.epoch = epoch]

\* What an event of the feed does to the tasks.
LEMMA FeedSteps ==
  ASSUME LaneTypeOK, NEW e \in Chain, FeedEvent(e)
  PROVE  /\ job' \in [Jobs -> JobSpace]
         /\ \A j \in Jobs :
              \/ /\ job[j].pc # "idle" /\ Disturbs(e, job[j].ev)
                 /\ job'[j] = [job[j] EXCEPT !.touched = TRUE]
              \/ /\ job[j].pc = "idle" \/ ~Disturbs(e, job[j].ev)
                 /\ job'[j] = job[j]
              \/ /\ job[j].pc = "idle" /\ e \in Orders /\ Changes(life, e)
                 /\ job'[j] = Queued(e)
<1>1. job \in [Jobs -> JobSpace] /\ epoch \in Nat
  BY DEF LaneTypeOK
<1>2. \A j \in Jobs : [job[j] EXCEPT !.touched = TRUE] \in JobSpace
  BY <1>1 DEF JobSpace
<1>3. Disturbed(e) \in [Jobs -> JobSpace]
  BY <1>1, <1>2 DEF Disturbed
<1>4. CASE job' = Disturbed(e)
  BY <1>3, <1>4 DEF Disturbed
<1>5. CASE \E j \in Jobs : /\ job[j].pc = "idle" /\ job' = [Disturbed(e) EXCEPT ![j] = Queued(e)]
                          /\ e \in Orders /\ Changes(life, e)
  <2>1. PICK j \in Jobs : /\ job[j].pc = "idle" /\ job' = [Disturbed(e) EXCEPT ![j] = Queued(e)]
    BY <1>5
  <2>2. Queued(e) \in JobSpace
    BY <1>1, <1>5 DEF Queued, JobSpace, IdleJob
  <2> QED BY <1>3, <1>5, <2>1, <2>2 DEF Disturbed
<1> QED
  BY <1>4, <1>5 DEF FeedEvent, Queued, Orders

LEMMA LostSteps ==
  ASSUME LaneTypeOK, FeedLost
  PROVE  /\ job' \in [Jobs -> JobSpace]
         /\ \A j \in Jobs : \/ job[j].pc = "idle" /\ job'[j] = job[j]
                            \/ /\ job[j].pc # "idle"
                               /\ job'[j] = [job[j] EXCEPT !.touched = TRUE]
<1>1. job \in [Jobs -> JobSpace]
  BY DEF LaneTypeOK
<1>2. \A j \in Jobs : [job[j] EXCEPT !.touched = TRUE] \in JobSpace
  BY <1>1 DEF JobSpace
<1> QED BY <1>1, <1>2 DEF FeedLost

\* What a new process, or none, has for tasks.
LEMMA FreshSteps ==
  ASSUME Fresh
  PROVE  job' \in [Jobs -> JobSpace] /\ \A j \in Jobs : job'[j] = IdleJob
  BY IdleJobType DEF Fresh

LEMMA FewHolders ==
  ASSUME LaneTypeOK,
         \/ Holding' \subseteq Holding
         \/ \E j \in Jobs : /\ Holding' \subseteq Holding \cup {j}
                            /\ Cardinality(Holding) < MaxInflight
  PROVE  Cardinality(Holding') <= MaxInflight
<1>1. IsFiniteSet(Holding)
  BY LaneAssumption, FS_Subset DEF Holding
<1>2. Cardinality(Holding) \in Nat /\ Cardinality(Holding) <= MaxInflight /\ MaxInflight \in Nat
  BY <1>1, FS_CardinalityType, LaneAssumption DEF LaneTypeOK
<1>3. CASE Holding' \subseteq Holding
  BY <1>1, <1>2, <1>3, FS_Subset, FS_CardinalityType
<1>4. ASSUME NEW j \in Jobs, Holding' \subseteq Holding \cup {j},
             Cardinality(Holding) < MaxInflight
      PROVE  Cardinality(Holding') <= MaxInflight
  <2>1. /\ IsFiniteSet(Holding \cup {j})
        /\ Cardinality(Holding \cup {j}) <= Cardinality(Holding) + 1
    BY <1>1, <1>2, FS_AddElement
  <2>2. IsFiniteSet(Holding') /\ Cardinality(Holding') <= Cardinality(Holding \cup {j})
    BY <1>4, <2>1, FS_Subset
  <2> QED BY <1>2, <1>4, <2>1, <2>2, FS_CardinalityType
<1> QED BY <1>3, <1>4

\* What a step does to the cache.
Settles ==
  life'.mark = life.mark /\ \A k \in Rounds : Proven(life', k) <=> Proven(life, k)

LEMMA UnlistedFields ==
  ASSUME NEW l \in Caches
  PROVE  /\ Unlisted(l) \in Caches
         /\ Unlisted(l).mark = l.mark /\ Unlisted(l).terminals = l.terminals
  BY DEF Caches, Unlisted

LEMMA StoreSettles ==
  ASSUME LaneTypeOK, NEW j \in Jobs, StoreInputs(j)
  PROVE  life' \in Caches /\ Settles
<1>1. PICK settles \in SettledBlocks(job[j].rows) : life' = ReconcileSettles(life, settles)
  BY DEF StoreInputs
<1>2. job[j].rows \subseteq Chain /\ life \in Caches
  BY DEF LaneTypeOK, JobSpace
<1>3. settles \in [Requests -> Nat]
  <2>1. settles \in [Requests -> {0} \cup {e.at[1] : e \in job[j].rows}]
    BY <1>1 DEF SettledBlocks
  <2>2. \A e \in job[j].rows : e.at[1] \in Nat
    BY <1>2, EventFields
  <2> QED BY <2>1, <2>2
<1> QED BY <1>1, <1>2, <1>3, ReconcileFields DEF Settles

LEMMA CacheStep ==
  ASSUME LaneTypeOK, [Next]_vars
  PROVE  /\ life' \in Caches
         /\ \/ Settles
            \/ \E e \in Chain : FeedEvent(e)
            \/ \E events \in Prefixes : Snapshot(events)
            \/ Fresh
<1>a. life \in Caches
  BY DEF LaneTypeOK
<1>1. ASSUME NEW e \in Chain, FeedEvent(e)
      PROVE  life' \in Caches
  BY <1>a, <1>1, ApplyIsCache, UnlistedFields DEF FeedEvent
<1>2. ASSUME NEW events \in Prefixes, Snapshot(events)
      PROVE  life' \in Caches
  BY <1>2, ReplayAssumption, UnlistedFields DEF Snapshot
<1>3. ASSUME NEW j \in Jobs, StoreInputs(j)
      PROVE  life' \in Caches /\ Settles
  BY <1>3, StoreSettles
<1>4. CASE Start \/ Crash \/ Exit
  <2>1. Fresh
    BY <1>4 DEF Start, Crash, Exit
  <2>2. Empty \in Caches
    BY DEF Empty, Caches, Statuses, NoMark, NoProof
  <2> QED BY <2>1, <2>2 DEF Fresh
<1>5. CASE life' = life
  BY <1>a, <1>5 DEF Settles
<1>6. ASSUME NEW j \in Jobs, Work(j) \/ Respond(j)
      PROVE  StoreInputs(j) \/ life' = life
  BY <1>6 DEF Work, Reject, Abandon, Admit, Fetch, InputsFail, Refuse, Decide, SignFails,
              Prepare, AnswerKnown, PrepareFails, FinalCheck, DryRun, Submit, TimeOut,
              Record, RecordFails, Respond
<1>7. CASE \/ FeedLost \/ Stop \/ Terminate \/ AbortLoops \/ SwitchStrategy
           \/ (\E i \in Orders : Resolve(i)) \/ UNCHANGED vars
  <2>1. life' = life
    BY <1>7 DEF FeedLost, Stop, Terminate, AbortLoops, SwitchStrategy, Resolve, vars,
                processVars
  <2> QED BY <1>5, <2>1
<1> QED
  BY <1>1, <1>2, <1>3, <1>4, <1>5, <1>6, <1>7 DEF Next

LEMMA TypeStep ==
  ASSUME LaneTypeOK, TasksHaveOrders, [Next]_vars
  PROVE  LaneTypeOK'
<1>a. life' \in Caches
  BY CacheStep
<1>1. ASSUME NEW j \in Jobs, Work(j) \/ Respond(j)
      PROVE  LaneTypeOK'
  <2>1. /\ job' \in [Jobs -> JobSpace]
        /\ \/ Holding' \subseteq Holding
           \/ Admit(j) /\ Holding' \subseteq Holding \cup {j}
    BY <1>1, TaskSteps DEF Holding, IdleJob
  <2>2. Cardinality(Holding') <= MaxInflight
    BY <2>1, FewHolders DEF Admit
  <2>3. job[j].pc # "idle" => job[j].ev \in Orders
    BY DEF TasksHaveOrders
  <2>4. job[j].pc = "record" => job[j].result \in Outcomes
    BY DEF TasksHaveOrders, LaneTypeOK, JobSpace
  <2>5. /\ phase' = phase /\ up' = up /\ epoch' = epoch /\ operator' = operator
        /\ stopped' \in BOOLEAN /\ policy' \in {"none", "on", "off"}
    BY <1>1 DEF Work, Reject, Abandon, Admit, Fetch, InputsFail, StoreInputs, Refuse,
                Decide, SignFails, Prepare, AnswerKnown, PrepareFails, FinalCheck,
                DryRun, Submit, TimeOut, Record, RecordFails, Respond, outsideVars,
                LaneTypeOK, JobSpace
  <2>6. /\ register' \in [Orders -> Outcomes \cup {"none", "prepared"}]
        /\ posts' \in [Orders -> Nat] /\ broken' \subseteq Orders
    <3> USE DEF LaneTypeOK, outsideVars
    <3>1. CASE Prepare(j) \/ PrepareFails(j)
      BY <2>3, <3>1 DEF Prepare, PrepareFails, Reserve
    <3>2. CASE Submit(j)
      BY <2>3, <3>2 DEF Submit
    <3>3. CASE Record(j) \/ RecordFails(j)
      BY <2>3, <2>4, <3>3 DEF Record, RecordFails, RecordIn
    <3> QED
      BY <1>1, <3>1, <3>2, <3>3
         DEF Work, Reject, Abandon, Admit, Fetch, InputsFail, StoreInputs, Refuse,
             Decide, SignFails, AnswerKnown, FinalCheck, DryRun, TimeOut, Respond
  <2> QED BY <1>a, <2>1, <2>2, <2>5, <2>6 DEF LaneTypeOK
<1>2. ASSUME NEW e \in Chain, FeedEvent(e)
      PROVE  LaneTypeOK'
  <2>1. job' \in [Jobs -> JobSpace] /\ Holding' \subseteq Holding
    <3>1. job' \in [Jobs -> JobSpace]
      BY <1>2, FeedSteps
    <3>2. ASSUME NEW j \in Jobs, job'[j].pc \notin {"idle", "queued"}
          PROVE  job[j].pc \notin {"idle", "queued"}
      <4>1. [job[j] EXCEPT !.touched = TRUE].pc = job[j].pc
        BY DEF LaneTypeOK, JobSpace
      <4>2. Queued(e).pc = "queued"
        BY DEF Queued, IdleJob
      <4> QED BY <1>2, <3>2, <4>1, <4>2, FeedSteps
    <3> QED BY <3>1, <3>2 DEF Holding
  <2> QED BY <1>a, <1>2, <2>1, FewHolders DEF FeedEvent, LaneTypeOK, outsideVars
<1>3. CASE FeedLost
  <2>1. job' \in [Jobs -> JobSpace] /\ Holding' \subseteq Holding
    <3>1. job' \in [Jobs -> JobSpace]
      BY <1>3, LostSteps
    <3>2. ASSUME NEW j \in Jobs, job'[j].pc \notin {"idle", "queued"}
          PROVE  job[j].pc \notin {"idle", "queued"}
      <4>1. [job[j] EXCEPT !.touched = TRUE].pc = job[j].pc
        BY DEF LaneTypeOK, JobSpace
      <4> QED BY <1>3, <3>2, <4>1, LostSteps
    <3> QED BY <3>1, <3>2 DEF Holding
  <2>2. epoch' \in Nat /\ up' \in BOOLEAN
    <3>1. epoch \in Nat
      BY DEF LaneTypeOK
    <3>2. epoch' = epoch + 1 /\ up' = FALSE
      BY <1>3 DEF FeedLost
    <3>3. epoch' \in Nat
      BY <3>1, <3>2
    <3> QED BY <3>2, <3>3, Zenon
  <2> QED BY <1>a, <1>3, <2>1, <2>2, FewHolders DEF FeedLost, LaneTypeOK, outsideVars
<1>4. CASE Start \/ Crash \/ Exit
  <2>1. Fresh /\ phase' \in {"up", "down", "exited"}
    BY <1>4 DEF Start, Crash, Exit
  <2>2. job' \in [Jobs -> JobSpace] /\ Holding' \subseteq Holding
    BY <2>1, FreshSteps DEF Holding, IdleJob
  <2>3. /\ register' \in [Orders -> Outcomes \cup {"none", "prepared"}]
        /\ posts' = posts /\ operator' = operator /\ broken' \subseteq Orders
    BY <1>4 DEF Start, Crash, Exit, LaneTypeOK, outsideVars, Outcomes
  <2> QED BY <1>a, <2>1, <2>2, <2>3, FewHolders DEF Fresh, LaneTypeOK
<1>5. CASE \/ \E events \in Prefixes : Snapshot(events)
           \/ Stop \/ Terminate \/ AbortLoops \/ SwitchStrategy \/ UNCHANGED vars
  <2>1. UNCHANGED <<job, policy, register, posts, broken>>
    BY <1>5 DEF Snapshot, Stop, Terminate, AbortLoops, SwitchStrategy, vars,
                processVars, outsideVars
  <2>2. /\ phase' \in {"up", "stopping", "draining", "exited", "down"}
        /\ stopped' \in BOOLEAN /\ up' \in BOOLEAN /\ epoch' \in Nat
        /\ operator' \in {"on", "off"}
    <3>1. CASE \E events \in Prefixes : Snapshot(events)
      BY <3>1 DEF Snapshot, LaneTypeOK, outsideVars
    <3>2. CASE Stop \/ Terminate \/ AbortLoops
      BY <3>2 DEF Stop, Terminate, AbortLoops, LaneTypeOK, outsideVars
    <3>3. CASE SwitchStrategy \/ UNCHANGED vars
      BY <3>3 DEF SwitchStrategy, vars, processVars, outsideVars, LaneTypeOK
    <3> QED BY <1>5, <3>1, <3>2, <3>3
  <2> QED BY <1>a, <2>1, <2>2 DEF LaneTypeOK, Holding
<1>6. ASSUME NEW i \in Orders, Resolve(i)
      PROVE  LaneTypeOK'
  <2>1. UNCHANGED <<phase, stopped, up, epoch, life, policy, job, posts, operator, broken>>
    BY <1>6 DEF Resolve, processVars
  <2>2. register' \in [Orders -> Outcomes \cup {"none", "prepared"}]
    BY <1>6 DEF Resolve, LaneTypeOK, Outcomes
  <2>3. Holding' = Holding
    BY <2>1 DEF Holding
  <2> QED BY <2>1, <2>2, <2>3 DEF LaneTypeOK
<1> QED
  BY <1>1, <1>2, <1>3, <1>4, <1>5, <1>6 DEF Next

-----------------------------------------------------------------------------
(* What the tasks carry *)

\* A task after a step that only moves it, and after one past the final check.
LEMMA StepEffect ==
  ASSUME LaneTypeOK, NEW j \in Jobs, NEW pc, Step(j, pc)
  PROVE  /\ job'[j].pc = pc /\ job'[j].ev = job[j].ev /\ job'[j].epoch = job[j].epoch
         /\ job'[j].policy = job[j].policy /\ job'[j].result = job[j].result
         /\ job'[j].touched = job[j].touched
         /\ \A i \in Jobs \ {j} : job'[i] = job[i]
  BY DEF LaneTypeOK, JobSpace, Step

LEMMA PastEffect ==
  ASSUME LaneTypeOK, NEW j \in Jobs, NEW pc, NEW st, Past(j, pc, st)
  PROVE  /\ job'[j].pc = pc /\ job'[j].ev = job[j].ev
         /\ job'[j].policy = job[j].policy /\ job'[j].result = st
         /\ \A i \in Jobs \ {j} : job'[i] = job[i]
  BY DEF LaneTypeOK, JobSpace, Past, IdleJob

LEMMA IdleEffect ==
  ASSUME LaneTypeOK, NEW j \in Jobs, GoIdle(j)
  PROVE  job'[j] = IdleJob /\ \A i \in Jobs \ {j} : job'[i] = job[i]
  BY DEF LaneTypeOK, GoIdle

LEMMA InputsEffect ==
  ASSUME LaneTypeOK, NEW j \in Jobs, Fetch(j) \/ StoreInputs(j)
  PROVE  /\ job'[j].pc \in {"books", "decide"} /\ job'[j].ev = job[j].ev
         /\ job'[j].epoch = job[j].epoch /\ job'[j].touched = job[j].touched
         /\ \A i \in Jobs \ {j} : job'[i] = job[i]
<1>a. job \in [Jobs -> JobSpace]
  BY DEF LaneTypeOK
<1>1. CASE Fetch(j)
  <2>1. PICK rows \in Prefixes :
          job' = [job EXCEPT ![j].pc = "books", ![j].rows = rows, ![j].policy = operator]
    BY <1>1 DEF Fetch
  <2>2. job' = [job EXCEPT ![j] = [job[j] EXCEPT !.pc = "books", !.rows = rows,
                                                 !.policy = operator]]
    BY <1>a, <2>1
  <2> QED BY <1>a, <2>2 DEF JobSpace
<1>2. CASE StoreInputs(j)
  <2>1. PICK ctx \in Rounds \cup {NoRound} :
          job' = [job EXCEPT ![j].pc = "decide", ![j].rows = {}, ![j].ctx = ctx]
    BY <1>2 DEF StoreInputs
  <2>2. job' = [job EXCEPT ![j] = [job[j] EXCEPT !.pc = "decide", !.rows = {}, !.ctx = ctx]]
    BY <1>a, <2>1
  <2> QED BY <1>a, <2>2 DEF JobSpace
<1> QED BY <1>1, <1>2

\* The feed leaves pc, event, policy and result of a task alone.
LEMMA FeedEffect ==
  ASSUME LaneTypeOK, FeedLost \/ \E e \in Chain : FeedEvent(e), NEW j \in Jobs
  PROVE  \/ /\ job'[j].pc = job[j].pc /\ job'[j].ev = job[j].ev
            /\ job'[j].epoch = job[j].epoch
            /\ job'[j].policy = job[j].policy /\ job'[j].result = job[j].result
         \/ /\ job[j].pc = "idle" /\ job'[j].pc = "queued"
            /\ job'[j].ev \in Orders /\ job'[j].epoch = epoch
<1>1. LET touched == [job[j] EXCEPT !.touched = TRUE]
      IN /\ touched.pc = job[j].pc /\ touched.ev = job[j].ev /\ touched.epoch = job[j].epoch
         /\ touched.policy = job[j].policy /\ touched.result = job[j].result
  BY DEF LaneTypeOK, JobSpace
<1>2. \A e : Queued(e).pc = "queued" /\ Queued(e).ev = e /\ Queued(e).epoch = epoch
  BY DEF Queued, IdleJob
<1>3. CASE FeedLost
  <2>1. job'[j] \in {job[j], [job[j] EXCEPT !.touched = TRUE]}
    BY <1>3, LostSteps
  <2> QED BY <1>1, <2>1
<1>4. ASSUME NEW e \in Chain, FeedEvent(e)
      PROVE  \/ job'[j] \in {job[j], [job[j] EXCEPT !.touched = TRUE]}
             \/ job[j].pc = "idle" /\ e \in Orders /\ job'[j] = Queued(e)
  BY <1>4, FeedSteps
<1>5. ASSUME NEW e \in Chain, FeedEvent(e), job[j].pc = "idle", e \in Orders,
             job'[j] = Queued(e)
      PROVE  /\ job'[j].pc = "queued" /\ job'[j].ev \in Orders
             /\ job'[j].epoch = epoch
  BY <1>2, <1>5
<1>6. ASSUME job'[j] \in {job[j], [job[j] EXCEPT !.touched = TRUE]}
      PROVE  /\ job'[j].pc = job[j].pc /\ job'[j].ev = job[j].ev
             /\ job'[j].epoch = job[j].epoch
             /\ job'[j].policy = job[j].policy /\ job'[j].result = job[j].result
  BY <1>1, <1>6
<1> QED BY <1>3, <1>4, <1>5, <1>6

LEMMA TasksStep ==
  ASSUME LaneTypeOK, TasksHaveOrders, DecidedReadOn, EpochsGrow, [Next]_vars
  PROVE  TasksHaveOrders' /\ DecidedReadOn' /\ EpochsGrow'
<1>a. /\ IdleJob.pc = "idle" /\ IdleJob.epoch = 0 /\ epoch \in Nat
      /\ \A j \in Jobs : job[j].epoch \in Nat
  BY DEF IdleJob, LaneTypeOK, JobSpace
<1>1. ASSUME NEW j \in Jobs, Work(j) \/ Respond(j)
      PROVE  TasksHaveOrders' /\ DecidedReadOn' /\ EpochsGrow'
  <2>1. /\ phase \notin {"down", "exited"} /\ phase' = phase /\ epoch' = epoch
    <3>1. job[j].pc # "idle" /\ phase' = phase /\ epoch' = epoch
      BY <1>1 DEF Work, Reject, Abandon, Admit, Fetch, InputsFail, StoreInputs, Refuse,
                  Decide, SignFails, Prepare, AnswerKnown, PrepareFails, FinalCheck,
                  DryRun, Submit, TimeOut, Record, RecordFails, Respond
    <3> QED BY <1>a, <3>1 DEF TasksHaveOrders
  <2>2. /\ \A i \in Jobs \ {j} : job'[i] = job[i]
        /\ \/ job'[j] = IdleJob
           \/ job'[j].ev = job[j].ev /\ job[j].pc # "idle"
    BY <1>1, TaskSteps
  <2>3. /\ job'[j].pc = "record" => job'[j].result # "none"
        /\ job'[j].pc \in {"sign", "check", "submit"} => job'[j].policy = "on"
        /\ job'[j].epoch <= epoch
    <3> USE <1>a DEF EpochsGrow, DecidedReadOn
    <3>1. CASE job'[j] = IdleJob
      BY <3>1
    <3>2. CASE Admit(j) \/ Decide(j) \/ Prepare(j) \/ Submit(j)
      BY <3>2, StepEffect DEF Admit, Decide, Prepare, Submit
    <3>3. CASE Fetch(j) \/ StoreInputs(j)
      BY <3>3, InputsEffect
    <3>4. CASE FinalCheck(j) \/ DryRun(j) \/ TimeOut(j) \/ Respond(j)
      <4>1. ASSUME NEW pc, NEW st, Past(j, pc, st)
            PROVE  job'[j].epoch = 0
        BY <4>1 DEF Past, IdleJob, LaneTypeOK
      <4> QED BY <3>4, <4>1, PastEffect DEF FinalCheck, DryRun, TimeOut, Respond
    <3>5. CASE Reject(j) \/ InputsFail(j) \/ Refuse(j) \/ SignFails(j) \/ AnswerKnown(j)
               \/ PrepareFails(j) \/ Record(j) \/ RecordFails(j)
      BY <3>1, <3>5, IdleEffect DEF Reject, InputsFail, Refuse, SignFails, Abandon,
                                    AnswerKnown, PrepareFails, Record, RecordFails
    <3> QED BY <1>1, <3>2, <3>3, <3>4, <3>5 DEF Work
  <2> QED BY <1>a, <2>1, <2>2, <2>3 DEF TasksHaveOrders, DecidedReadOn, EpochsGrow
<1>2. CASE FeedLost \/ \E e \in Chain : FeedEvent(e)
  <2>1. phase' = phase /\ phase \notin {"down", "exited"} /\ epoch' \in {epoch, epoch + 1}
    BY <1>2 DEF FeedLost, FeedEvent, Running
  <2> QED BY <1>2, <1>a, <2>1, FeedEffect DEF TasksHaveOrders, DecidedReadOn, EpochsGrow
<1>3. CASE Start \/ Crash \/ Exit
  <2>1. (\A j \in Jobs : job'[j] = IdleJob) /\ epoch' = 0
    BY <1>3, FreshSteps DEF Start, Crash, Exit, Fresh
  <2> QED BY <1>a, <2>1 DEF TasksHaveOrders, DecidedReadOn, EpochsGrow
<1>4. CASE \E events \in Prefixes : Snapshot(events)
  <2>1. job' = job /\ phase' = phase /\ epoch' = epoch + 1
    BY <1>4 DEF Snapshot
  <2> QED BY <1>a, <2>1 DEF TasksHaveOrders, DecidedReadOn, EpochsGrow
<1>5. CASE \/ Stop \/ Terminate \/ AbortLoops \/ SwitchStrategy
           \/ (\E i \in Orders : Resolve(i)) \/ UNCHANGED vars
  <2>1. /\ job' = job /\ epoch' = epoch
        /\ phase' \in {"down", "exited"} => phase' = phase
    BY <1>5 DEF Stop, Terminate, AbortLoops, SwitchStrategy, Resolve, vars, processVars
  <2> QED BY <2>1 DEF TasksHaveOrders, DecidedReadOn, EpochsGrow
<1> QED
  BY <1>1, <1>2, <1>3, <1>4, <1>5 DEF Next

-----------------------------------------------------------------------------
(* What becomes of the orders *)

OrdersInv ==
  OwnersAreAlone /\ NotYetSubmitted /\ OpenOrdersAreOwned /\ AtMostOneSubmission

\* A step that reserves, submits and records nothing.
LEMMA OrdersKept ==
  ASSUME TasksHaveOrders, OrdersInv,
         UNCHANGED <<register, posts, broken>>,
         phase' # "down" => phase # "down",
         \A j \in Jobs :
           /\ job'[j].pc \in Started <=> job[j].pc \in Started
           /\ job'[j].pc \in Started => job'[j].ev = job[j].ev
           /\ job'[j].pc \in {"check", "submit"} => job[j].pc \in {"check", "submit"}
           /\ job'[j].pc = "record" /\ job'[j].result \in {"blocked", "dry_run"} =>
                \/ job[j].pc \in {"check", "submit"}
                \/ job[j].pc = "record" /\ job[j].result = job'[j].result
  PROVE  OrdersInv'
<1>1. Owners' = Owners /\ \A j \in Owners : job'[j].ev = job[j].ev
  BY DEF Owners
<1>2. OwnersAreAlone'
  BY <1>1 DEF OrdersInv, OwnersAreAlone
<1>3. NotYetSubmitted'
  BY DEF OrdersInv, NotYetSubmitted, Started
<1>4. OpenOrdersAreOwned'
  BY <1>1 DEF OrdersInv, OpenOrdersAreOwned
<1> QED BY <1>2, <1>3, <1>4 DEF OrdersInv, AtMostOneSubmission

LEMMA OrdersStep ==
  ASSUME LaneTypeOK, TasksHaveOrders, OrdersInv, [Next]_vars
  PROVE  OrdersInv'
<1>a. IdleJob.pc = "idle"
  BY DEF IdleJob
<1>1. ASSUME NEW j \in Jobs,
             \/ Reject(j) \/ InputsFail(j) \/ Refuse(j) \/ SignFails(j) \/ AnswerKnown(j)
             \/ Admit(j) \/ Fetch(j) \/ StoreInputs(j) \/ Decide(j)
      PROVE  OrdersInv'
  <2>1. /\ UNCHANGED <<register, posts, broken, phase>>
        /\ job[j].pc \notin Started
    BY <1>1 DEF Reject, InputsFail, Refuse, SignFails, Abandon, AnswerKnown, Admit,
                Fetch, StoreInputs, Decide, outsideVars, Started
  <2>2. job'[j].pc \notin Started /\ \A i \in Jobs \ {j} : job'[i] = job[i]
    <3>1. CASE Admit(j) \/ Decide(j)
      BY <3>1, StepEffect DEF Admit, Decide, Started
    <3>2. CASE Fetch(j) \/ StoreInputs(j)
      BY <3>2, InputsEffect DEF Started
    <3>3. CASE ~Admit(j) /\ ~Decide(j) /\ ~Fetch(j) /\ ~StoreInputs(j)
      BY <1>1, <1>a, <3>3, IdleEffect
         DEF Reject, InputsFail, Refuse, SignFails, Abandon, AnswerKnown, Started
    <3> QED BY <3>1, <3>2, <3>3
  <2> QED BY <2>1, <2>2, OrdersKept DEF Started
<1>2. ASSUME NEW j \in Jobs, FinalCheck(j) \/ DryRun(j) \/ TimeOut(j) \/ Respond(j)
      PROVE  OrdersInv'
  <2>1. /\ UNCHANGED <<register, posts, broken, phase>>
        /\ job[j].pc \in {"check", "submit", "await"}
    BY <1>2 DEF FinalCheck, DryRun, TimeOut, Respond, outsideVars
  <2>2. /\ job'[j].pc \in {"submit", "record"} /\ job'[j].ev = job[j].ev
        /\ job'[j].pc = "submit" => job[j].pc = "check"
        /\ job[j].pc = "await" => job'[j].result \in {"accepted", "rejected", "unknown"}
        /\ \A i \in Jobs \ {j} : job'[i] = job[i]
    BY <1>2, PastEffect DEF FinalCheck, DryRun, TimeOut, Respond
  <2> QED BY <2>1, <2>2, OrdersKept DEF Started
<1>3. ASSUME NEW j \in Jobs, Prepare(j)
      PROVE  OrdersInv'
  <2>1. /\ job[j].pc = "sign" /\ job[j].ev \in Orders /\ register[job[j].ev] = "none"
        /\ register' = [register EXCEPT ![job[j].ev] = "prepared"]
        /\ UNCHANGED <<posts, broken, phase>>
    BY <1>3 DEF Prepare, Reserve, TasksHaveOrders
  <2>2. /\ job'[j].pc = "check" /\ job'[j].ev = job[j].ev
        /\ \A i \in Jobs \ {j} : job'[i] = job[i]
    BY <1>3, StepEffect DEF Prepare
  <2>3. Owners' = Owners \cup {j} /\ j \notin Owners /\ posts[job[j].ev] = 0
    BY <2>1, <2>2 DEF Owners, Started, OrdersInv, NotYetSubmitted
  <2>4. \A i \in Owners : job[i].ev # job[j].ev
    BY <2>1 DEF OrdersInv, OwnersAreAlone
  <2>5. /\ register'[job[j].ev] = "prepared"
        /\ \A i \in Orders \ {job[j].ev} : register'[i] = register[i]
    BY <2>1 DEF LaneTypeOK
  <2>6. OwnersAreAlone'
    BY <2>2, <2>3, <2>4, <2>5 DEF OrdersInv, OwnersAreAlone, Owners, Started, TasksHaveOrders
  <2>7. NotYetSubmitted'
    BY <2>1, <2>2, <2>3, <2>5 DEF OrdersInv, NotYetSubmitted
  <2>8. OpenOrdersAreOwned'
    BY <2>1, <2>2, <2>3, <2>5 DEF OrdersInv, OpenOrdersAreOwned, Owners
  <2> QED BY <2>1, <2>6, <2>7, <2>8 DEF OrdersInv, AtMostOneSubmission
<1>4. ASSUME NEW j \in Jobs, PrepareFails(j)
      PROVE  OrdersInv'
  <2>1. /\ job[j].pc = "sign" /\ job[j].ev \in Orders
        /\ UNCHANGED <<posts, phase>>
        /\ job'[j].pc = "idle" /\ \A i \in Jobs \ {j} : job'[i] = job[i]
    BY <1>4, <1>a, IdleEffect DEF PrepareFails, TasksHaveOrders
  <2>2. /\ \A i \in Orders \ {job[j].ev} : register'[i] = register[i]
        /\ \/ register'[job[j].ev] = register[job[j].ev] /\ broken' = broken
           \/ /\ register[job[j].ev] = "none" /\ register'[job[j].ev] = "prepared"
              /\ broken' = broken \cup {job[j].ev}
    BY <1>4, <2>1 DEF PrepareFails, Reserve, LaneTypeOK
  <2>3. Owners' = Owners /\ \A i \in Owners : job'[i] = job[i]
    BY <2>1 DEF Owners, Started
  <2>4. \A i \in Owners : job[i].ev \in Orders /\ register'[job[i].ev] = "prepared"
    BY <2>2 DEF OrdersInv, OwnersAreAlone, Owners, Started, TasksHaveOrders
  <2>5. OwnersAreAlone'
    BY <2>3, <2>4 DEF OrdersInv, OwnersAreAlone
  <2>6. NotYetSubmitted'
    BY <2>1, <2>2 DEF OrdersInv, NotYetSubmitted
  <2>7. OpenOrdersAreOwned'
    BY <2>1, <2>2, <2>3 DEF OrdersInv, OpenOrdersAreOwned
  <2> QED BY <2>1, <2>5, <2>6, <2>7 DEF OrdersInv, AtMostOneSubmission
<1>5. ASSUME NEW j \in Jobs, Submit(j)
      PROVE  OrdersInv'
  <2>1. /\ job[j].pc = "submit" /\ job[j].ev \in Orders /\ posts[job[j].ev] = 0
        /\ posts' = [posts EXCEPT ![job[j].ev] = posts[job[j].ev] + 1]
        /\ UNCHANGED <<register, broken, phase>>
        /\ job'[j].pc = "await" /\ job'[j].ev = job[j].ev
        /\ \A i \in Jobs \ {j} : job'[i] = job[i]
    BY <1>5, StepEffect DEF Submit, TasksHaveOrders, OrdersInv, NotYetSubmitted
  <2>2. /\ posts'[job[j].ev] = 1
        /\ \A i \in Orders \ {job[j].ev} : posts'[i] = posts[i]
    BY <2>1 DEF LaneTypeOK
  <2>3. Owners' = Owners /\ j \in Owners /\ \A i \in Owners : job'[i].ev = job[i].ev
    BY <2>1 DEF Owners, Started
  <2>4. OwnersAreAlone' /\ OpenOrdersAreOwned'
    BY <2>1, <2>3 DEF OrdersInv, OwnersAreAlone, OpenOrdersAreOwned
  <2>5. NotYetSubmitted'
    BY <2>1, <2>2, <2>3
       DEF OrdersInv, NotYetSubmitted, OwnersAreAlone, Owners, Started, TasksHaveOrders
  <2> QED BY <2>2, <2>4, <2>5 DEF OrdersInv, AtMostOneSubmission
<1>6. ASSUME NEW j \in Jobs, Record(j) \/ RecordFails(j)
      PROVE  OrdersInv'
  <2>1. /\ job[j].pc = "record" /\ job[j].ev \in Orders
        /\ job[j].result \in Outcomes
        /\ UNCHANGED <<posts, phase>>
        /\ job'[j].pc = "idle" /\ \A i \in Jobs \ {j} : job'[i] = job[i]
    BY <1>6, <1>a, IdleEffect DEF Record, RecordFails, TasksHaveOrders, LaneTypeOK, JobSpace
  <2>2. /\ \A i \in Orders \ {job[j].ev} : register'[i] = register[i]
        /\ \/ register'[job[j].ev] = job[j].result /\ broken' = broken
           \/ /\ register'[job[j].ev] \in {job[j].result, register[job[j].ev]}
              /\ broken' = broken \cup {job[j].ev}
    BY <1>6, <2>1 DEF Record, RecordFails, RecordIn, LaneTypeOK
  <2>3. /\ Owners' = Owners \ {j} /\ j \in Owners /\ \A i \in Owners' : job'[i] = job[i]
        /\ \A i \in Owners' : job[i].ev \in Orders \ {job[j].ev}
    BY <2>1 DEF Owners, Started, OrdersInv, OwnersAreAlone, TasksHaveOrders
  <2>4. OwnersAreAlone'
    BY <2>2, <2>3 DEF OrdersInv, OwnersAreAlone
  <2>5. NotYetSubmitted'
    <3>1. /\ posts' = posts
          /\ \A i \in Orders : register[i] \in {"none", "blocked", "dry_run"} => posts[i] = 0
          /\ job[j].result \in {"blocked", "dry_run"} => posts[job[j].ev] = 0
      BY <2>1 DEF OrdersInv, NotYetSubmitted
    <3>2. ASSUME NEW i \in Orders, register'[i] \in {"none", "blocked", "dry_run"}
          PROVE  posts[i] = 0
      <4>1. CASE register'[i] = register[i]
        BY <3>1, <3>2, <4>1
      <4>2. CASE i = job[j].ev /\ register'[i] = job[j].result
        <5>1. job[j].result \in {"blocked", "dry_run"}
          BY <2>1, <3>2, <4>2 DEF Outcomes
        <5> QED BY <3>1, <4>2, <5>1
      <4> QED BY <2>2, <4>1, <4>2
    <3>3. \A i \in Jobs : /\ job'[i].pc \in {"check", "submit"} => posts[job'[i].ev] = 0
                          /\ job'[i].pc = "record" /\ job'[i].result \in {"blocked", "dry_run"}
                               => posts[job'[i].ev] = 0
      BY <2>1 DEF OrdersInv, NotYetSubmitted
    <3> QED BY <3>1, <3>2, <3>3 DEF NotYetSubmitted
  <2>6. OpenOrdersAreOwned'
    BY <2>1, <2>2, <2>3 DEF OrdersInv, OpenOrdersAreOwned, Outcomes
  <2> QED BY <2>1, <2>4, <2>5, <2>6 DEF OrdersInv, AtMostOneSubmission
<1>7. CASE FeedLost \/ \E e \in Chain : FeedEvent(e)
  <2>1. UNCHANGED <<register, posts, broken, phase>>
    BY <1>7 DEF FeedLost, FeedEvent, outsideVars
  <2> QED BY <1>7, <2>1, FeedEffect, OrdersKept DEF Started
<1>8. CASE Start \/ Crash \/ Exit
  <2>1. (\A j \in Jobs : job'[j].pc = "idle") /\ posts' = posts /\ Owners' = {}
    BY <1>8, <1>a, FreshSteps DEF Start, Crash, Exit, outsideVars, Owners, Started
  <2>2. /\ \A i \in Orders : \/ register'[i] = register[i]
                             \/ register'[i] = "unknown"
        /\ phase' # "down" => \A i \in Orders : register'[i] = "prepared" => i \in broken'
    <3>1. CASE Start
      BY <3>1 DEF Start
    <3>2. CASE Crash
      BY <3>2 DEF Crash, outsideVars
    <3>3. CASE Exit
      BY <3>3 DEF Exit, outsideVars, OrdersInv, OpenOrdersAreOwned, Owners, Holding, Started
    <3> QED BY <1>8, <3>1, <3>2, <3>3
  <2> QED BY <2>1, <2>2 DEF OrdersInv, OwnersAreAlone, NotYetSubmitted, OpenOrdersAreOwned,
                            AtMostOneSubmission
<1>9. CASE \/ \E events \in Prefixes : Snapshot(events)
           \/ Stop \/ Terminate \/ AbortLoops \/ SwitchStrategy \/ UNCHANGED vars
  <2>1. /\ UNCHANGED <<job, register, posts, broken>>
        /\ phase' # "down" => phase # "down"
    BY <1>9 DEF Snapshot, Stop, Terminate, AbortLoops, SwitchStrategy, vars,
                processVars, outsideVars
  <2> QED BY <2>1, OrdersKept
<1>10. ASSUME NEW i \in Orders, Resolve(i)
       PROVE  OrdersInv'
  <2>1. UNCHANGED <<job, posts, broken, phase>> /\ register[i] = "unknown"
    BY <1>10 DEF Resolve, processVars
  <2>2. /\ register'[i] \in {"accepted", "rejected"}
        /\ \A k \in Orders \ {i} : register'[k] = register[k]
    BY <1>10 DEF Resolve, LaneTypeOK
  <2>3. Owners' = Owners
    BY <2>1 DEF Owners
  <2>4. OwnersAreAlone'
    BY <2>1, <2>2, <2>3 DEF OrdersInv, OwnersAreAlone, Owners, Started, TasksHaveOrders
  <2>5. NotYetSubmitted' /\ OpenOrdersAreOwned'
    BY <2>1, <2>2, <2>3 DEF OrdersInv, NotYetSubmitted, OpenOrdersAreOwned
  <2> QED BY <2>1, <2>4, <2>5 DEF OrdersInv, AtMostOneSubmission
<1> QED
  BY <1>1, <1>2, <1>3, <1>4, <1>5, <1>6, <1>7, <1>8, <1>9, <1>10 DEF Next, Work

-----------------------------------------------------------------------------
(* What the cache keeps of a task's proposal *)

Tracked(j) ==
  \/ MovedOn(job[j].ev)
  \/ /\ life.mark = MarkOf(job[j].ev)
     /\ ~Proven(life, job[j].ev.round)
     /\ ~job[j].touched

\* What an event of the feed changes in the cache.
LEMMA FeedCache ==
  ASSUME LaneTypeOK, NEW e \in Chain, FeedEvent(e)
  PROVE  /\ Changes(life, e) => life'.mark = MarkOf(e)
         /\ ~Changes(life, e) => life'.mark = life.mark
         /\ \A k \in Rounds : Proven(life', k) =>
              Proven(life, k) \/ (Ends(life, e) /\ k = e.round)
<1>1. life \in Caches /\ Apply(life, e) \in Caches
  BY ApplyIsCache DEF LaneTypeOK
<1>2. /\ life'.mark = Apply(life, e).mark
      /\ life'.terminals = Apply(life, e).terminals
  BY <1>1, UnlistedFields DEF FeedEvent
<1>3. Apply(life, e).mark = IF Changes(life, e) THEN MarkOf(e) ELSE life.mark
  BY <1>1, ApplyFields
<1>4. life'.terminals = IF Ends(life, e)
                        THEN [life.terminals EXCEPT
                                ![e.round] = [status |-> e.status, at |-> e.at]]
                        ELSE life.terminals
  BY <1>1, <1>2, ApplyFields
<1>5. \A k \in Rounds : life'.terminals[k] # life.terminals[k] => Ends(life, e) /\ k = e.round
  BY <1>1, <1>4 DEF Caches
<1> QED
  BY <1>2, <1>3, <1>5 DEF Proven

\* A task whose proposal was the mark, or that the mark has passed, stays one.
LEMMA FeedTracks ==
  ASSUME LaneTypeOK, NEW e \in Chain, FeedEvent(e),
         NEW j \in Jobs, job[j].pc # "idle", job[j].ev \in Orders, Tracked(j)
  PROVE  Tracked(j)'
<1> DEFINE ev == job[j].ev
<1>1. /\ ev \in Chain /\ ev.status = "proposed" /\ ev.round \in Rounds
      /\ ev.at \in Nat \X Nat /\ e.at \in Nat \X Nat
  BY OrderFields, EventFields
<1>2. /\ \/ job'[j] = job[j] /\ ~Disturbs(e, ev)
         \/ Disturbs(e, ev)
      /\ job'[j].ev = ev
  <2>1. [job[j] EXCEPT !.touched = TRUE].ev = ev
    BY DEF LaneTypeOK, JobSpace
  <2> QED BY <2>1, FeedSteps
<1> HIDE DEF ev
<1>3. CASE Changes(life, e) /\ (life.mark = MarkOf(ev) \/ MovedOn(ev))
  <2>1. life'.mark = MarkOf(e) /\ Supersedes(e, life.mark)
    BY <1>3, FeedCache DEF Changes
  <2>2. CASE life.mark = MarkOf(ev)
    BY <1>1, <1>2, <2>1, <2>2 DEF Tracked, MovedOn, Supersedes, MarkOf
  <2>3. CASE MovedOn(ev)
    <3>1. PICK f \in Chain : life.mark = MarkOf(f) /\ Before(ev.at, f.at)
      BY <2>3 DEF MovedOn
    <3>2. f.at \in Nat \X Nat /\ Before(f.at, e.at)
      BY <2>1, <3>1, EventFields DEF Supersedes, MarkOf
    <3>3. Before(ev.at, e.at)
      BY <1>1, <3>1, <3>2, OrderOfPositions
    <3> QED BY <1>2, <2>1, <3>3 DEF Tracked, MovedOn
  <2> QED BY <1>3, <2>2, <2>3
<1>4. CASE ~Changes(life, e) /\ MovedOn(ev)
  BY <1>2, <1>4, FeedCache DEF Tracked, MovedOn
<1>5. CASE /\ ~Changes(life, e)
           /\ life.mark = MarkOf(ev) /\ ~Proven(life, ev.round) /\ ~job[j].touched
  <2>1. ASSUME e.status # "proposed", e.round = ev.round
        PROVE  FALSE
    <3>1. Before(ev.at, e.at)
      BY <1>1, <2>1, ChainAssumption DEF ChainIsConsistent
    <3>2. Supersedes(e, life.mark)
      BY <1>1, <1>5, <2>1, <3>1 DEF Supersedes, MarkOf
    <3>3. ~Outdated(life, e)
      BY <1>5, <2>1 DEF Outdated
    <3> QED BY <1>5, <2>1, <3>2, <3>3 DEF Changes
  <2>2. ASSUME e.status = "proposed", Before(ev.at, e.at), ~Proven(life, e.round)
        PROVE  FALSE
    <3>1. Supersedes(e, life.mark)
      BY <1>1, <1>5, <2>2 DEF Supersedes, MarkOf
    <3> QED BY <1>5, <2>2, <3>1 DEF Changes, Outdated
  <2>3. ~Disturbs(e, ev)
    BY <2>1, <2>2 DEF Disturbs
  <2>4. ~Proven(life', ev.round)
    BY <1>1, <1>5, <2>1, FeedCache DEF Ends
  <2>5. life'.mark = MarkOf(ev) /\ job'[j] = job[j]
    BY <1>2, <1>5, <2>3, FeedCache
  <2> QED BY <1>2, <1>5, <2>4, <2>5 DEF Tracked, Proven
<1> QED
  BY <1>3, <1>4, <1>5 DEF Tracked, ev

LEMMA TriggersStep ==
  ASSUME LaneTypeOK, TasksHaveOrders, EpochsGrow, TriggersAreTracked, [Next]_vars
  PROVE  TriggersAreTracked'
<1>a. \A j \in Jobs : Current(j) => up /\ Tracked(j)
  BY DEF TriggersAreTracked, Tracked
<1>b. SUFFICES ASSUME NEW j \in Jobs, Current(j)'
               PROVE  up' /\ Tracked(j)'
  BY DEF TriggersAreTracked, Tracked
<1>c. epoch \in Nat /\ job[j].epoch \in Nat /\ job[j].epoch <= epoch
  BY DEF LaneTypeOK, JobSpace, EpochsGrow
<1>d. /\ job'[j].pc \notin {"idle", "submit", "await", "record"} /\ job'[j].epoch = epoch'
      /\ IdleJob.pc = "idle"
  BY <1>b DEF Current, IdleJob
<1>1. ASSUME up' = up, epoch' = epoch, Settles,
             /\ job'[j].pc # "idle" => job[j].pc # "idle"
             /\ job[j].pc \notin {"submit", "await", "record"}
             /\ job'[j].ev = job[j].ev /\ job'[j].epoch = job[j].epoch
             /\ job'[j].touched = job[j].touched
      PROVE  up' /\ Tracked(j)'
  <2>1. up /\ Tracked(j) /\ job[j].ev.round \in Rounds
    BY <1>a, <1>d, <1>1, OrderFields DEF Current, TasksHaveOrders
  <2>2. MovedOn(job[j].ev) => MovedOn(job[j].ev)'
    BY <1>1 DEF Settles, MovedOn
  <2>3. ~Proven(life, job[j].ev.round) => ~Proven(life', job[j].ev.round)
    BY <1>1, <2>1 DEF Settles
  <2>4. life'.mark = life.mark
    BY <1>1 DEF Settles
  <2> QED BY <1>1, <2>1, <2>2, <2>3, <2>4 DEF Tracked, MovedOn, Proven
<1>2. ASSUME NEW i \in Jobs, Work(i) \/ Respond(i)
      PROVE  up' /\ Tracked(j)'
  <2>1. up' = up /\ epoch' = epoch /\ Settles
    <3>1. up' = up /\ epoch' = epoch /\ (StoreInputs(i) \/ life' = life)
      BY <1>2 DEF Work, Reject, Abandon, Admit, Fetch, InputsFail, StoreInputs, Refuse,
                  Decide, SignFails, Prepare, AnswerKnown, PrepareFails, FinalCheck,
                  DryRun, Submit, TimeOut, Record, RecordFails, Respond
    <3> QED BY <3>1, StoreSettles DEF Settles
  <2>2. CASE i # j
    <3>1. job'[j] = job[j]
      BY <1>2, <2>2, TaskSteps
    <3> QED BY <1>1, <1>d, <2>1, <3>1
  <2>3. CASE i = j
    <3>1. \/ Admit(j) \/ Fetch(j) \/ StoreInputs(j) \/ Decide(j) \/ Prepare(j)
      <4>1. ASSUME NEW pc \in {"submit", "record"}, NEW st, Past(j, pc, st)
            PROVE  FALSE
        BY <1>d, <4>1, PastEffect
      <4>2. ~FinalCheck(j) /\ ~DryRun(j) /\ ~TimeOut(j) /\ ~Respond(j)
        BY <4>1 DEF FinalCheck, DryRun, TimeOut, Respond
      <4>3. ~Submit(j)
        BY <1>d, StepEffect DEF Submit
      <4>4. ~GoIdle(j)
        BY <1>d, IdleEffect
      <4> QED
        BY <1>2, <2>3, <4>2, <4>3, <4>4
           DEF Work, Reject, InputsFail, Refuse, SignFails, Abandon, AnswerKnown,
               PrepareFails, Record, RecordFails
    <3>2. CASE Admit(j) \/ Decide(j) \/ Prepare(j)
      <4>1. /\ job[j].pc \in {"queued", "decide", "sign"}
            /\ job'[j].ev = job[j].ev /\ job'[j].epoch = job[j].epoch
            /\ job'[j].touched = job[j].touched
        BY <3>2, StepEffect DEF Admit, Decide, Prepare
      <4> QED BY <1>1, <2>1, <4>1
    <3>3. CASE Fetch(j) \/ StoreInputs(j)
      <4>1. /\ job[j].pc \in {"inputs", "books"}
            /\ job'[j].ev = job[j].ev /\ job'[j].epoch = job[j].epoch
            /\ job'[j].touched = job[j].touched
        BY <3>3, InputsEffect DEF Fetch, StoreInputs
      <4> QED BY <1>1, <2>1, <4>1
    <3> QED BY <3>1, <3>2, <3>3
  <2> QED BY <2>2, <2>3
<1>3. ASSUME NEW e \in Chain, FeedEvent(e)
      PROVE  up' /\ Tracked(j)'
  <2>1. up' /\ epoch' = epoch
    BY <1>3 DEF FeedEvent
  <2>2. CASE job[j].pc # "idle"
    <3>1. job'[j].pc = job[j].pc /\ job'[j].epoch = job[j].epoch
      BY <1>3, <2>2, FeedEffect
    <3>2. Tracked(j) /\ job[j].ev \in Orders
      BY <1>a, <1>d, <2>1, <2>2, <3>1 DEF Current, TasksHaveOrders
    <3> QED BY <1>3, <2>1, <2>2, <3>2, FeedTracks
  <2>3. CASE job[j].pc = "idle"
    <3>1. e \in Orders /\ Changes(life, e) /\ job'[j] = Queued(e)
      BY <1>3, <1>d, <2>3, FeedSteps
    <3>2. job'[j].ev = e /\ job'[j].touched = FALSE
      BY <3>1 DEF Queued, IdleJob
    <3>3. e.status = "proposed" /\ e.round \in Rounds /\ ~Proven(life, e.round)
      BY <3>1, OrderFields DEF Changes
    <3>4. life'.mark = MarkOf(e) /\ ~Proven(life', e.round)
      BY <1>3, <3>1, <3>3, FeedCache DEF Ends
    <3> QED BY <2>1, <3>2, <3>4 DEF Tracked, Proven
  <2> QED BY <2>2, <2>3
<1>4. CASE FeedLost \/ \E events \in Prefixes : Snapshot(events)
  <2>1. epoch' = epoch + 1 /\ job'[j].epoch = job[j].epoch
    <3>1. CASE FeedLost
      BY <1>d, <3>1, FeedEffect, Zenon DEF FeedLost
    <3>2. CASE \E events \in Prefixes : Snapshot(events)
      BY <3>2 DEF Snapshot
    <3> QED BY <1>4, <3>1, <3>2
  <2> QED BY <1>c, <1>d, <2>1
<1>5. CASE Start \/ Crash \/ Exit
  <2>1. job'[j] = IdleJob
    BY <1>5, FreshSteps DEF Start, Crash, Exit
  <2> QED BY <1>d, <2>1
<1>6. CASE \/ Stop \/ Terminate \/ AbortLoops \/ SwitchStrategy
           \/ (\E i \in Orders : Resolve(i)) \/ UNCHANGED vars
  <2>1. UNCHANGED <<job, up, epoch, life>>
    BY <1>6 DEF Stop, Terminate, AbortLoops, SwitchStrategy, Resolve, vars, processVars
  <2>2. Settles
    BY <2>1 DEF Settles
  <2> QED BY <1>1, <1>d, <2>1, <2>2
<1> QED
  BY <1>2, <1>3, <1>4, <1>5, <1>6 DEF Next

-----------------------------------------------------------------------------
(* The invariant *)

LEMMA LaneInit == Init => LaneInv
<1> SUFFICES ASSUME Init PROVE LaneInv
  OBVIOUS
<1>1. /\ \A j \in Jobs : job[j] = IdleJob
      /\ IdleJob.pc = "idle" /\ IdleJob.epoch = 0 /\ epoch = 0
  BY DEF Init, IdleJob
<1>2. LaneTypeOK
  <2>1. Holding = {} /\ Cardinality({}) = 0
    BY <1>1, FS_EmptySet DEF Holding
  <2>2. Empty \in Caches
    BY DEF Empty, Caches, Statuses, NoMark, NoProof
  <2>3. job \in [Jobs -> JobSpace]
    BY IdleJobType DEF Init
  <2>4. /\ register \in [Orders -> Outcomes \cup {"none", "prepared"}]
        /\ posts \in [Orders -> Nat]
    BY DEF Init
  <2>5. /\ phase = "down" /\ stopped = FALSE /\ up = FALSE /\ epoch = 0
        /\ policy = "none" /\ life = Empty /\ operator = "on" /\ broken = {}
    BY DEF Init
  <2>6. Cardinality(Holding) <= MaxInflight
    BY <2>1, LaneAssumption
  <2> QED BY <2>2, <2>3, <2>4, <2>5, <2>6 DEF LaneTypeOK
<1>3. Owners = {}
  BY <1>1 DEF Owners, Started
<1>4. NotYetSubmitted /\ AtMostOneSubmission /\ OpenOrdersAreOwned
  BY <1>1 DEF Init, NotYetSubmitted, AtMostOneSubmission, OpenOrdersAreOwned
<1>5. TasksHaveOrders /\ OwnersAreAlone /\ DecidedReadOn
  BY <1>1, <1>3 DEF TasksHaveOrders, OwnersAreAlone, DecidedReadOn
<1>6. EpochsGrow /\ TriggersAreTracked
  BY <1>1 DEF EpochsGrow, TriggersAreTracked, Current
<1> QED BY <1>2, <1>4, <1>5, <1>6 DEF LaneInv

LEMMA LaneStep == LaneInv /\ [Next]_vars => LaneInv'
<1> SUFFICES ASSUME LaneInv, [Next]_vars PROVE LaneInv'
  OBVIOUS
<1> USE DEF LaneInv
<1>1. LaneTypeOK'
  BY TypeStep
<1>2. TasksHaveOrders' /\ DecidedReadOn' /\ EpochsGrow'
  BY TasksStep
<1>3. OrdersInv'
  BY OrdersStep DEF OrdersInv
<1>4. TriggersAreTracked'
  BY TriggersStep
<1> QED BY <1>1, <1>2, <1>3, <1>4 DEF OrdersInv

-----------------------------------------------------------------------------
(* Theorems *)

\* The invariant holds in every reachable state.
THEOREM LaneInvariant == Spec => []LaneInv
BY LaneInit, LaneStep, PTL DEF Spec

\* The state keeps its shape, and the semaphore its bound.
THEOREM LaneTypeCorrect == Spec => []LaneTypeOK
<1>1. LaneInv => LaneTypeOK
  BY DEF LaneInv
<1> QED
  BY <1>1, LaneInvariant, PTL

\* No restart, reconnect or repeated dispatch submits a proposal's order again.
THEOREM OneSubmission == Spec => []AtMostOneSubmission
<1>1. LaneInv => AtMostOneSubmission
  BY DEF LaneInv
<1> QED
  BY <1>1, LaneInvariant, PTL

\* Whatever was submitted is on record.
THEOREM SubmissionsAreDurable == Spec => []SubmissionIsDurable
<1>1. LaneInv => SubmissionIsDurable
  BY DEF LaneInv, LaneTypeOK, NotYetSubmitted, SubmissionIsDurable
<1> QED
  BY <1>1, LaneInvariant, PTL

\* What the record says was not sent, was not.
THEOREM UnsentIsTrue == Spec => []UnsentIsUnsent
<1>1. LaneInv => UnsentIsUnsent
  BY DEF LaneInv, NotYetSubmitted, UnsentIsUnsent
<1> QED
  BY <1>1, LaneInvariant, PTL

\* An orderly exit closes every order whose record did not fail.
THEOREM ExitIsClosed == Spec => []DrainedIsClosed
<1>1. LaneInv => DrainedIsClosed
  BY DEF LaneInv, TasksHaveOrders, OpenOrdersAreOwned, Owners, Started, IdleJob,
         DrainedIsClosed
<1> QED
  BY <1>1, LaneInvariant, PTL

\* No order is submitted on a policy that only some other task has read.
THEOREM QuietAfterSwitch == Spec => QuietOnceOff
<1>1. ASSUME LaneInv, [Next]_vars, \A j \in Jobs : job[j].policy # "on"
      PROVE  \A i \in Orders : posts'[i] <= posts[i]
  <2>1. \A j \in Jobs : ~Submit(j)
    BY <1>1 DEF LaneInv, DecidedReadOn, Submit
  <2>2. posts' = posts
    BY <1>1, <2>1
       DEF Next, Work, Reject, Abandon, Admit, Fetch, InputsFail, StoreInputs, Refuse,
           Decide, SignFails, Prepare, AnswerKnown, PrepareFails, FinalCheck, DryRun,
           TimeOut, Record, RecordFails, Respond, FeedEvent, Snapshot, FeedLost, Start,
           Crash, Stop, Terminate, AbortLoops, Exit, Resolve, SwitchStrategy, vars, processVars,
           outsideVars
  <2>3. \A i \in Orders : posts[i] \in Nat
    BY <1>1 DEF LaneInv, LaneTypeOK
  <2> QED BY <2>2, <2>3
<1> DEFINE Quiet == operator = "off" /\ (\A j \in Jobs : job[j].policy # "on")
                      => \A i \in Orders : posts'[i] <= posts[i]
<1>2. LaneInv /\ [Next]_vars => [Quiet]_vars
  BY <1>1
<1> QED
  BY <1>2, LaneInvariant, PTL DEF Spec, QuietOnceOff

\* The final check sees every contradiction the feed brought since the dispatch.
THEOREM TriggersUndisturbed == Spec => UndisturbedTrigger
<1>1. ASSUME LaneInv, Next, NEW j \in Jobs, job[j].pc = "check", job'[j].pc = "submit"
      PROVE  ~job[j].touched
  <2>1. StillValid(j)
    <3>1. \E i \in Jobs : Work(i) \/ Respond(i)
      <4>1. CASE FeedLost \/ \E e \in Chain : FeedEvent(e)
        BY <1>1, <4>1, FeedEffect DEF LaneInv
      <4>2. CASE Start \/ Crash \/ Exit
        BY <1>1, <4>2, FreshSteps DEF Start, Crash, Exit, IdleJob
      <4>3. CASE \/ \E events \in Prefixes : Snapshot(events)
                 \/ Stop \/ Terminate \/ AbortLoops \/ SwitchStrategy
                 \/ (\E o \in Orders : Resolve(o))
        BY <1>1, <4>3 DEF Snapshot, Stop, Terminate, AbortLoops, SwitchStrategy, Resolve,
                          processVars
      <4> QED BY <1>1, <4>1, <4>2, <4>3 DEF Next
    <3>2. PICK i \in Jobs : Work(i) \/ Respond(i)
      BY <3>1
    <3>3. i = j
      BY <1>1, <3>2, TaskSteps DEF LaneInv
    <3>4. ~GoIdle(j)
      BY <1>1, IdleEffect DEF LaneInv, IdleJob
    <3>5. FinalCheck(j)
      BY <1>1, <3>2, <3>3, <3>4
         DEF Work, Reject, Admit, Fetch, InputsFail, StoreInputs, Refuse, Decide,
             SignFails, Prepare, AnswerKnown, PrepareFails, DryRun, Submit, TimeOut,
             Record, RecordFails, Respond
    <3>6. ~Past(j, "record", "blocked")
      BY <1>1, PastEffect DEF LaneInv
    <3> QED BY <3>5, <3>6 DEF FinalCheck
  <2>2. job[j].ev \in Orders
    BY <1>1 DEF LaneInv, TasksHaveOrders
  <2>3. \/ MovedOn(job[j].ev) \/ ~job[j].touched
    BY <1>1, <2>1 DEF LaneInv, TriggersAreTracked, Current, StillValid
  <2>4. ASSUME NEW e \in Chain, life.mark = MarkOf(e), Before(job[j].ev.at, e.at)
        PROVE  FALSE
    <3>1. e.status = "proposed" /\ e.round = job[j].ev.round
      BY <2>1, <2>4 DEF StillValid, Matches, MarkOf
    <3>2. e = job[j].ev
      BY <2>2, <3>1, OrderFields, ChainAssumption DEF ChainIsConsistent
    <3> QED BY <2>4, <3>2, OrderFields, EventFields, OrderOfPositions
  <2> QED BY <2>3, <2>4 DEF MovedOn
<1> DEFINE Undisturbed == \A j \in Jobs : job[j].pc = "check" /\ job'[j].pc = "submit"
                                            => ~job[j].touched
<1>2. LaneInv /\ [Next]_vars => [Undisturbed]_vars
  BY <1>1
<1> QED
  BY <1>2, LaneInvariant, PTL DEF Spec, UndisturbedTrigger

-----------------------------------------------------------------------------
(* The lane implements Submissions *)

\* A task that waits for an answer, or has one, sent its order.
AnsweredWasSent ==
  \A j \in Jobs :
    \/ job[j].pc = "await"
    \/ job[j].pc = "record" /\ job[j].result \in {"accepted", "rejected", "unknown"}
    => posts[job[j].ev] = 1

\* A step that neither sends nor answers.
LEMMA AnswersKept ==
  ASSUME AnsweredWasSent, posts' = posts,
         \A j \in Jobs :
           \/ job'[j].pc \notin {"await", "record"}
           \/ job'[j].pc = "record" /\ job'[j].result \in {"blocked", "dry_run"}
           \/ /\ job[j].pc = "await" /\ job'[j].ev = job[j].ev
           \/ /\ job'[j].pc = job[j].pc /\ job'[j].ev = job[j].ev
              /\ job'[j].result = job[j].result
  PROVE  AnsweredWasSent'
  BY DEF AnsweredWasSent

LEMMA AnswersStep ==
  ASSUME LaneInv, AnsweredWasSent, [Next]_vars
  PROVE  AnsweredWasSent'
<1>a. IdleJob.pc = "idle" /\ LaneTypeOK
  BY DEF IdleJob, LaneInv
<1>1. ASSUME NEW j \in Jobs,
             \/ Reject(j) \/ InputsFail(j) \/ Refuse(j) \/ SignFails(j) \/ AnswerKnown(j)
             \/ PrepareFails(j) \/ Record(j) \/ RecordFails(j)
      PROVE  AnsweredWasSent'
  <2>1. posts' = posts /\ GoIdle(j)
    BY <1>1 DEF Reject, InputsFail, Refuse, SignFails, Abandon, AnswerKnown, PrepareFails,
                Record, RecordFails, outsideVars
  <2>2. job'[j].pc = "idle" /\ \A i \in Jobs \ {j} : job'[i] = job[i]
    BY <1>a, <2>1, IdleEffect
  <2> QED BY <2>1, <2>2, AnswersKept
<1>2. ASSUME NEW j \in Jobs, Admit(j) \/ Decide(j) \/ Prepare(j) \/ Fetch(j) \/ StoreInputs(j)
      PROVE  AnsweredWasSent'
  <2>1. posts' = posts
    BY <1>2 DEF Admit, Decide, Prepare, Fetch, StoreInputs, outsideVars
  <2>2. job'[j].pc \notin {"await", "record"} /\ \A i \in Jobs \ {j} : job'[i] = job[i]
    <3>1. CASE Admit(j) \/ Decide(j) \/ Prepare(j)
      BY <1>a, <3>1, StepEffect DEF Admit, Decide, Prepare
    <3>2. CASE Fetch(j) \/ StoreInputs(j)
      BY <1>a, <3>2, InputsEffect
    <3> QED BY <1>2, <3>1, <3>2
  <2> QED BY <2>1, <2>2, AnswersKept
<1>3. ASSUME NEW j \in Jobs, FinalCheck(j) \/ DryRun(j) \/ TimeOut(j) \/ Respond(j)
      PROVE  AnsweredWasSent'
  <2>1. posts' = posts
    BY <1>3 DEF FinalCheck, DryRun, TimeOut, Respond, outsideVars
  <2>2. /\ \/ job'[j].pc = "submit"
           \/ job'[j].pc = "record" /\ job'[j].result \in {"blocked", "dry_run"}
           \/ job[j].pc = "await" /\ job'[j].ev = job[j].ev
        /\ \A i \in Jobs \ {j} : job'[i] = job[i]
    BY <1>a, <1>3, PastEffect DEF FinalCheck, DryRun, TimeOut, Respond
  <2> QED BY <2>1, <2>2, AnswersKept
<1>4. ASSUME NEW j \in Jobs, Submit(j)
      PROVE  AnsweredWasSent'
  <2>1. /\ job[j].pc = "submit" /\ job[j].ev \in Orders /\ posts[job[j].ev] = 0
        /\ posts' = [posts EXCEPT ![job[j].ev] = posts[job[j].ev] + 1]
        /\ job'[j].pc = "await" /\ job'[j].ev = job[j].ev
        /\ \A i \in Jobs \ {j} : job'[i] = job[i]
    BY <1>a, <1>4, StepEffect DEF Submit, LaneInv, TasksHaveOrders, NotYetSubmitted
  <2>2. /\ posts'[job[j].ev] = 1
        /\ \A i \in Orders \ {job[j].ev} : posts'[i] = posts[i]
    BY <1>a, <2>1 DEF LaneTypeOK
  <2>3. \A i \in Jobs : job[i].pc \in {"await", "record"} => job[i].ev \in Orders
    BY DEF LaneInv, TasksHaveOrders
  <2> QED BY <2>1, <2>2, <2>3 DEF AnsweredWasSent
<1>5. CASE FeedLost \/ \E e \in Chain : FeedEvent(e)
  <2>1. posts' = posts
    BY <1>5 DEF FeedLost, FeedEvent, outsideVars
  <2> QED BY <1>a, <1>5, <2>1, FeedEffect, AnswersKept
<1>6. CASE Start \/ Crash \/ Exit
  <2>1. (\A j \in Jobs : job'[j].pc = "idle") /\ posts' = posts
    BY <1>6, <1>a, FreshSteps DEF Start, Crash, Exit, outsideVars
  <2> QED BY <2>1, AnswersKept
<1>7. CASE \/ \E events \in Prefixes : Snapshot(events)
           \/ Stop \/ Terminate \/ AbortLoops \/ SwitchStrategy
           \/ (\E i \in Orders : Resolve(i)) \/ UNCHANGED vars
  <2>1. UNCHANGED <<job, posts>>
    BY <1>7 DEF Snapshot, Stop, Terminate, AbortLoops, SwitchStrategy, Resolve, vars,
                processVars, outsideVars
  <2> QED BY <2>1, AnswersKept
<1> QED
  BY <1>1, <1>2, <1>3, <1>4, <1>5, <1>6, <1>7 DEF Next, Work

\* What a step means for the orders: an operation on one of them, the recovery of
\* all, what an inquiry found of one, or nothing.
LEMMA OrdersAreOperated ==
  ASSUME LaneInv, AnsweredWasSent, [Next]_vars
  PROVE  [Path!Next]_<<register, posts>>
<1> SUFFICES ASSUME ~UNCHANGED <<register, posts>>
             PROVE  Path!Next
  OBVIOUS
<1>1. ASSUME NEW j \in Jobs, Prepare(j) \/ PrepareFails(j)
      PROVE  Path!Next
  <2>1. /\ job[j].ev \in Orders /\ register[job[j].ev] = "none"
        /\ register' = [register EXCEPT ![job[j].ev] = "prepared"] /\ posts' = posts
    BY <1>1 DEF Prepare, PrepareFails, Reserve, LaneInv, TasksHaveOrders
  <2>2. Path!Reserve(job[j].ev)
    BY <2>1 DEF Path!Reserve
  <2> QED BY <2>1, <2>2 DEF Path!Next, Path!OrderStep
<1>2. ASSUME NEW j \in Jobs, Submit(j)
      PROVE  Path!Next
  <2>1. /\ job[j].pc = "submit" /\ job[j].ev \in Orders /\ posts[job[j].ev] = 0
        /\ posts' = [posts EXCEPT ![job[j].ev] = posts[job[j].ev] + 1] /\ register' = register
    BY <1>2 DEF Submit, LaneInv, TasksHaveOrders, NotYetSubmitted
  <2>2. register[job[j].ev] = "prepared"
    BY <2>1 DEF LaneInv, OwnersAreAlone, Owners, Started
  <2>3. Path!Send(job[j].ev)
    BY <2>1, <2>2 DEF Path!Send
  <2> QED BY <2>1, <2>3 DEF Path!Next, Path!OrderStep
<1>3. ASSUME NEW j \in Jobs, Record(j) \/ RecordFails(j)
      PROVE  Path!Next
  <2> DEFINE i == job[j].ev
             st == job[j].result
  <2>1. /\ job[j].pc = "record" /\ i \in Orders
        /\ register' = [register EXCEPT ![i] = st] /\ posts' = posts
        /\ st \in Outcomes
    BY <1>3 DEF Record, RecordFails, RecordIn, LaneInv, TasksHaveOrders, LaneTypeOK, JobSpace
  <2>2. register[i] = "prepared"
    BY <2>1 DEF LaneInv, OwnersAreAlone, Owners, Started
  <2>3. /\ st \in Path!Answers => posts[i] = 1
        /\ st \in Path!Refusals => posts[i] = 0
        /\ st \in Path!Answers \cup Path!Refusals
    BY <2>1 DEF AnsweredWasSent, LaneInv, NotYetSubmitted, Path!Answers, Path!Refusals, Outcomes
  <2> HIDE DEF i, st
  <2>4. st \in (IF posts[i] = 1 THEN Path!Answers ELSE Path!Refusals)
    BY <2>3
  <2>5. Path!Settle(i, st)
    BY <2>1, <2>2, <2>4 DEF Path!Settle
  <2> QED BY <2>1, <2>3, <2>5 DEF Path!Next, Path!OrderStep
<1>4. CASE Start
  <2>1. Path!GiveUp
    BY <1>4 DEF Start, Path!GiveUp
  <2> QED BY <2>1 DEF Path!Next
<1>5. ASSUME NEW i \in Orders, Resolve(i)
      PROVE  Path!Next
  <2>1. posts[i] <= 1 /\ posts[i] \in Nat
    BY DEF LaneInv, AtMostOneSubmission, LaneTypeOK
  <2>2. PICK st \in {"accepted", "rejected"} :
          /\ st = "accepted" => posts[i] > 0
          /\ register' = [register EXCEPT ![i] = st]
    BY <1>5 DEF Resolve
  <2>3. register[i] = "unknown" /\ posts' = posts
    BY <1>5 DEF Resolve
  <2>4. st = "accepted" => posts[i] = 1
    BY <2>1, <2>2
  <2>5. Path!Resolve(i, st)
    BY <2>2, <2>3, <2>4 DEF Path!Resolve
  <2> QED BY <2>5 DEF Path!Next, Path!Answers
<1>6. CASE \E j \in Jobs : Prepare(j) \/ PrepareFails(j) \/ Submit(j) \/ Record(j) \/ RecordFails(j)
  BY <1>1, <1>2, <1>3, <1>6
<1>7. ASSUME ~Start, \A i \in Orders : ~Resolve(i),
             \A j \in Jobs : ~(Prepare(j) \/ PrepareFails(j) \/ Submit(j) \/ Record(j) \/ RecordFails(j))
      PROVE  FALSE
  BY <1>7 DEF Next, Work, Reject, Abandon, Admit, Fetch, InputsFail, StoreInputs, Refuse,
         Decide, SignFails, AnswerKnown, FinalCheck, DryRun, TimeOut, Respond, FeedEvent,
         Snapshot, FeedLost, Crash, Stop, Terminate, AbortLoops, Exit, SwitchStrategy,
         vars, processVars, outsideVars
<1> QED BY <1>4, <1>5, <1>6, <1>7

\* Every step of the lane is one of an order path, or none of its business: the
\* orders are sent and settled as `execute` promises, whatever else happens, and
\* reconciliation changes only what is unknown.
THEOREM LaneImplementsSubmissions == Spec => ImplementsSubmissions
<1>1. Init => AnsweredWasSent /\ Path!Init
  BY DEF Init, AnsweredWasSent, IdleJob, Path!Init
<1>2. LaneInv /\ AnsweredWasSent /\ [Next]_vars
        => AnsweredWasSent' /\ [Path!Next]_<<register, posts>>
  BY AnswersStep, OrdersAreOperated
<1> QED
  BY <1>1, <1>2, LaneInvariant, PTL DEF Spec, ImplementsSubmissions, Path!Spec

=============================================================================
