-------------------------------- MODULE Quota --------------------------------
(***************************************************************************)
(* How many orders the lane may send for one market, and how soon after    *)
(* one another (Reservations in src/shadow_state.rs, their restoration in  *)
(* src/shadow.rs).                                                         *)
(*                                                                         *)
(* A decision takes a slot of its market at once, under the lock of the    *)
(* shared data; the order is signed, recorded, checked again and submitted *)
(* afterwards, or fails on the way and leaves the slot taken.  The slots   *)
(* are memory only: a restart rebuilds them from the journal, market by    *)
(* market, as the markets become known again, from the time of the message *)
(* an order answered and not from the time of the decision.                *)
(***************************************************************************)
EXTENDS Integers, Sequences, FiniteSets, Functions

CONSTANTS
  Markets,
  Tasks,       \* dispatched proposals (receive_uma) at work at one time
  MaxOrders,   \* policy.max_orders_per_market
  Window,      \* the three hours a slot is held
  Cooldown,    \* the minute between two orders of a market
  MaxAge,      \* settings.max_signal_age_ms
  MaxClock, MaxRows, MaxRuns   \* bounds of the model

ASSUME QuotaAssumption ==
  /\ {MaxOrders, Window, Cooldown, MaxAge} \subseteq Nat \ {0}
  /\ MaxAge < Cooldown /\ Cooldown <= Window
  /\ {MaxClock, MaxRows, MaxRuns} \subseteq Nat

VARIABLES
  now,      \* now_ms(); survives the process
  journal,  \* the recorded orders (a market's are told apart by their times)
  sent,     \* history: those that were submitted
  run,      \* lives of the process so far
  up,       \* a process is running
  known,    \* markets that own a token in data.tokens
  restore,  \* data.restore: times of recorded orders, by market not known yet
  slots,    \* reservations.slots, by market
  last,     \* reservations.last_order, by market
  task      \* the order a decision made, until its outcome is recorded

memory    == <<known, restore, slots, last>>
quotaVars == <<now, journal, sent, run, up, memory, task>>

\* The market an order's token belongs to, the time of the message it answers,
\* the time and the life of its decision.
Decisions == [market : Markets, at : Nat, decided : Nat, run : Nat]
Idle == [pc |-> "idle"]

Never == -Window   \* no order of the market is remembered

Latest(S) == CHOOSE at \in S : \A other \in S : other <= at

-----------------------------------------------------------------------------
(* Restoration *)

Lapsed(at) == now - at >= Window

\* Times without those that lapsed at the front.
Purged(s) ==
  LET Gone == {n \in 0 .. Len(s) : \A k \in 1 .. n : Lapsed(s[k])}
  IN  SubSeq(s, Latest(Gone) + 1, Len(s))

\* The orders of a market in the Window, each once.
Recent(m) == {o \in journal : o.market = m /\ o.at >= now - Window}
Listings(S) == {r \in [1 .. Cardinality(S) -> S] : Range(r) = S}

\* Mutant: the youngest first.
RecentYoungestFirst(m) ==
  {[k \in DOMAIN r |-> r[k].at] : r \in
     {r \in Listings(Recent(m)) : \A j, k \in DOMAIN r : j < k => r[j].at >= r[k].at}}

\* Journal::recent_orders: SELECT token, observed ... ORDER BY observed, of which
\* a market's share matters; rows with equal times come in any order.
RecentOrders(m) ==
  {[k \in DOMAIN r |-> r[k].at] : r \in
     {r \in Listings(Recent(m)) : \A j, k \in DOMAIN r : j < k => r[j].at <= r[k].at}}

\* Mutant: what cannot be placed now is forgotten.
RestoreOnce(S) ==
  LET Times(m) == IF m \in S THEN Purged(restore[m]) ELSE <<>>
  IN  /\ restore' = [m \in Markets |-> <<>>]
      /\ slots' = [m \in Markets |-> slots[m] \o Times(m)]
      /\ last' = [m \in Markets |-> Latest({last[m]} \cup Range(Times(m)))]

\* restore_orders: the waiting orders of known markets take their slots.  What
\* lapsed while it waited is dropped; in the order of times that is the front.
RestoreOrders(S) ==
  LET Times(m) == IF m \in S THEN Purged(restore[m]) ELSE <<>>
  IN  /\ restore' = [m \in Markets |-> IF m \in S THEN <<>> ELSE Purged(restore[m])]
      /\ slots' = [m \in Markets |-> slots[m] \o Times(m)]
      /\ last' = [m \in Markets |-> Latest({last[m]} \cup Range(Times(m)))]

\* uma_inputs: a market's context and tokens arrive, before any decision about
\* it.  That its tokens may be dropped again changes nothing: nothing of a market
\* that was known once is left in `restore`.
Fetch(m) ==
  /\ up
  /\ known' = known \cup {m}
  /\ RestoreOrders(known')
  /\ UNCHANGED <<now, journal, sent, run, up, task>>

-----------------------------------------------------------------------------
(* Deciding *)

\* Mutant: off by one.
FullBeyond(m) == Len(Purged(slots[m])) > MaxOrders

Full(m)    == Len(Purged(slots[m])) >= MaxOrders
Cooling(m) == now - last[m] < Cooldown

\* "max_orders_per_market" or "market_cooldown".  The other refusals of `decide`
\* come before and leave the slots alone.
Refuse(m) ==
  /\ up /\ m \in known
  /\ Full(m) \/ Cooling(m)
  /\ slots' = [slots EXCEPT ![m] = Purged(@)]
  /\ UNCHANGED <<now, journal, sent, run, up, known, restore, last, task>>

\* Mutant: the time of the last order is not touched.
TakeSlotOnly(m) ==
  /\ slots' = [slots EXCEPT ![m] = Append(Purged(@), now)]
  /\ UNCHANGED last

TakeSlot(m) ==
  /\ slots' = [slots EXCEPT ![m] = Append(Purged(@), now)]
  /\ last' = [last EXCEPT ![m] = now]

\* A decision on a message of the given age (an older one is refused while its
\* inputs are fetched) takes the slot before anything is signed or recorded.
Decide(t, m, age) ==
  /\ up /\ m \in known /\ task[t] = Idle
  /\ ~Full(m) /\ ~Cooling(m)
  /\ TakeSlot(m)
  /\ task' = [task EXCEPT ![t] =
                [pc |-> "sign", order |-> [market |-> m, at |-> now - age,
                                           decided |-> now, run |-> run]]]
  /\ UNCHANGED <<now, journal, sent, run, up, known, restore>>

-----------------------------------------------------------------------------
(* From the decision to the submission *)

Leave(t) == task' = [task EXCEPT ![t] = Idle]

\* Signing failed, the journal refused, or it knew the order: no new row, and
\* the slot stays taken.
Abandon(t) ==
  /\ task[t].pc = "sign"
  /\ Leave(t)
  /\ UNCHANGED <<now, journal, sent, run, up, memory>>

Record(t) ==
  /\ task[t].pc = "sign" /\ Cardinality(journal) < MaxRows
  /\ journal' = journal \cup {task[t].order}
  /\ task' = [task EXCEPT ![t] = [@ EXCEPT !.pc = "check"]]
  /\ UNCHANGED <<now, sent, run, up, memory>>

\* The row is durable, but `prepare` reported a failure (and stopped the lane;
\* the decisions the model still allows then are more than the code's).
RecordFails(t) ==
  /\ task[t].pc = "sign" /\ Cardinality(journal) < MaxRows
  /\ journal' = journal \cup {task[t].order}
  /\ Leave(t)
  /\ UNCHANGED <<now, sent, run, up, memory>>

\* The last check refuses what is too old by now, and may refuse for its other
\* reasons.
Submit(t) ==
  /\ task[t].pc = "check" /\ now - task[t].order.at <= MaxAge
  /\ sent' = sent \cup {task[t].order}
  /\ Leave(t)
  /\ UNCHANGED <<now, journal, run, up, memory>>

Block(t) ==
  /\ task[t].pc = "check"
  /\ Leave(t)
  /\ UNCHANGED <<now, journal, sent, run, up, memory>>

-----------------------------------------------------------------------------
(* The process and the clock *)

Forget ==
  /\ known' = {}
  /\ slots' = [m \in Markets |-> <<>>]
  /\ last' = [m \in Markets |-> Never]

\* `serve_inner`: Journal::open, recent_orders, a new App.
Start ==
  /\ ~up
  /\ up' = TRUE /\ run' = run + 1
  /\ restore' \in [Markets -> UNION {RecentOrders(m) : m \in Markets}]
  /\ \A m \in Markets : restore'[m] \in RecentOrders(m)
  /\ Forget
  /\ UNCHANGED <<now, journal, sent, task>>

Crash ==
  /\ up /\ run < MaxRuns
  /\ up' = FALSE
  /\ task' = [t \in Tasks |-> Idle]
  /\ restore' = [m \in Markets |-> <<>>]
  /\ Forget
  /\ UNCHANGED <<now, journal, sent, run>>

Tick ==
  /\ now < MaxClock
  /\ now' = now + 1
  /\ UNCHANGED <<journal, sent, run, up, memory, task>>

QuotaInit ==
  /\ now = 0 /\ journal = {} /\ sent = {} /\ run = 1 /\ up = TRUE
  /\ known = {} /\ restore = [m \in Markets |-> <<>>]
  /\ slots = [m \in Markets |-> <<>>]
  /\ last = [m \in Markets |-> Never]
  /\ task = [t \in Tasks |-> Idle]

Work(t) ==
  \/ \E m \in Markets, age \in 0 .. MaxAge : age <= now /\ Decide(t, m, age)
  \/ Abandon(t) \/ Record(t) \/ RecordFails(t)
  \/ Submit(t) \/ Block(t)

QuotaNext ==
  \/ \E m \in Markets : Fetch(m) \/ Refuse(m)
  \/ \E t \in Tasks : Work(t)
  \/ Start \/ Crash \/ Tick

QuotaSpec == QuotaInit /\ [][QuotaNext]_quotaVars

-----------------------------------------------------------------------------
(* Properties *)

\* The shape of the state; no market has more slots than the policy allows,
\* whatever was restored or taken.
QuotaTypeOK ==
  /\ now \in Nat /\ run \in Nat /\ up \in BOOLEAN
  /\ sent \subseteq journal /\ journal \subseteq Decisions
  /\ known \subseteq Markets
  /\ restore \in [Markets -> Seq(0 .. now)]
  /\ slots \in [Markets -> Seq(0 .. now)]
  /\ \A m \in Markets : Len(slots[m]) <= MaxOrders
  /\ last \in [Markets -> {Never} \cup 0 .. now]
  /\ task \in [Tasks -> {Idle} \cup [pc : {"sign", "check"}, order : Decisions]]

Submitted(m) == {o \in sent : o.market = m}

\* What a restart may shorten: the slots it restores count from the message of
\* an order, which is at most MaxAge older than its decision.
Loss(o, p) == IF o.run = p.run THEN 0 ELSE MaxAge

\* When an order is decided, fewer than MaxOrders of its market were submitted
\* in the Window before it, over all lives of the process; of another life,
\* those of the first MaxAge of the Window may be missed (docs/rust_uma.md "A
\* recovered journal restores market quotas").
QuotaKept ==
  \A m \in Markets : \A o \in Submitted(m) :
    LET Counted == {p \in Submitted(m) :
                      /\ p.decided <= o.decided
                      /\ o.decided - p.decided < Window - Loss(o, p)}
    IN  Cardinality(Counted) <= MaxOrders

\* Two submitted orders of a market were decided Cooldown apart, less at most
\* MaxAge if a restart came between.
CooldownKept ==
  \A m \in Markets : \A o, p \in Submitted(m) :
    o # p /\ o.decided >= p.decided
      => o.decided - p.decided >= Cooldown - Loss(o, p)

\* No order counts longer than the Window: whatever order the slots were taken
\* and restored in, no lapsed slot hides behind a younger one.
SlotsLapse ==
  \A m \in Markets : \A k \in DOMAIN Purged(slots[m]) : ~Lapsed(Purged(slots[m])[k])

-----------------------------------------------------------------------------
(* Strengthening: what the slots know of the orders that were decided. *)

Ascending(s) == \A j, k \in DOMAIN s : j < k => s[j] <= s[k]

\* Orders on record, or on their way to it.
Working    == {t \in Tasks : task[t] # Idle}
Decided(m) == {o \in journal \cup {task[t].order : t \in Working} : o.market = m}

\* From when a life of the process counts an order: what it decided itself from
\* the decision, what it restored from the message.
CountsFrom(o, life) == IF o.run = life THEN o.decided ELSE o.at

Earlier(p, o) == p.run <= o.run /\ o.decided - CountsFrom(p, o.run) >= Cooldown

\* The orders of the market that counted when o was decided, and o.
Counted(m, o) ==
  {p \in Decided(m) : /\ p = o \/ Earlier(p, o)
                      /\ o.decided - CountsFrom(p, o.run) < Window}

OrdersOfTheirTime ==
  /\ IsFiniteSet(journal)
  /\ \A m \in Markets : \A o \in Decided(m) :
       o.at <= o.decided /\ o.decided <= o.at + MaxAge /\ o.decided <= now /\ o.run <= run
  /\ ~up => Working = {} /\ known = {}
  /\ \A t \in Working : task[t].pc = "check" => task[t].order \in journal

Spaced == \A m \in Markets : \A o, p \in Decided(m) : o # p => Earlier(o, p) \/ Earlier(p, o)

WithinQuota ==
  \A m \in Markets : \A o \in Decided(m) :
    IsFiniteSet(Counted(m, o)) /\ Cardinality(Counted(m, o)) <= MaxOrders

\* Whatever still counts has its slot, or waits for its market to become known.
Remembered ==
  up => \A m \in Markets : \A o \in Decided(m) :
          ~Lapsed(CountsFrom(o, run)) =>
            IF m \in known
            THEN /\ \E k \in DOMAIN slots[m] : slots[m][k] = CountsFrom(o, run)
                 /\ CountsFrom(o, run) <= last[m]
            ELSE \E k \in DOMAIN restore[m] : restore[m][k] = CountsFrom(o, run)

\* What waits are recorded orders of earlier lives, each once and in order.
WaitingIsRecorded ==
  \A m \in Markets :
    /\ \A j, k \in DOMAIN restore[m] : j < k => restore[m][j] < restore[m][k]
    /\ \A k \in DOMAIN restore[m] :
         \E o \in journal : o.market = m /\ o.run < run /\ o.at = restore[m][k]
    /\ m \in known => restore[m] = <<>>

\* A market that is not known yet has had no decision in this life.
UnknownIsUntouched ==
  up => \A m \in Markets \ known :
          /\ slots[m] = <<>>
          /\ \A o \in Decided(m) : o.run < run

QuotaInv ==
  /\ QuotaTypeOK /\ OrdersOfTheirTime
  /\ Spaced /\ WithinQuota
  /\ Remembered /\ WaitingIsRecorded /\ UnknownIsUntouched
  /\ \A m \in Markets : Ascending(slots[m])

=============================================================================
