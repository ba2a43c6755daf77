-------------------------- MODULE ShadowStateProofs --------------------------
(***************************************************************************)
(* Proofs about the memory the lane decides from (src/shadow_state.rs):    *)
(* the proposal cache, for any rounds of any requests and any chain        *)
(* consistent with the oracle's protocol, and the reservations of a market *)
(* over all lives of the process.                                          *)
(***************************************************************************)
EXTENDS Lifecycle, LifecycleCacheProofs,
        Quota, FiniteSetTheorems, SequenceTheorems, WellFoundedInduction

(* The reservations *)

\* A set of integers with an upper bound has a latest one.
LEMMA LatestOf ==
  ASSUME NEW S \in SUBSET Int, S # {}, NEW b \in Int, \A x \in S : x <= b
  PROVE  Latest(S) \in S /\ \A y \in S : y <= Latest(S)
<1> DEFINE T == {b - x : x \in S}
<1>1. T \subseteq Nat /\ T # {}
  <2>1. \A x \in S : x \in Int /\ b - x \in Nat
    OBVIOUS
  <2> QED BY <2>1
<1>2. PICK n \in T : \A k \in T : ~(<<k, n>> \in OpToRel(<, Nat))
  BY <1>1, NatLessThanWellFounded, WFMin
<1>3. PICK x \in S : n = b - x
  OBVIOUS
<1>4. \A y \in S : y <= x
  <2> SUFFICES ASSUME NEW y \in S, y > x PROVE FALSE
    OBVIOUS
  <2>1. b - y \in T /\ n \in T /\ b - y < n
    BY <1>3
  <2>2. <<b - y, n>> \in OpToRel(<, Nat)
    BY <1>1, <2>1 DEF OpToRel
  <2> QED BY <1>2, <2>1, <2>2
<1> QED BY <1>4 DEF Latest

\* What is purged is the front of what lapsed, up to the first that has not.
LEMMA PurgedOf ==
  ASSUME NEW U \in SUBSET Int, NEW s \in Seq(U)
  PROVE  \E g \in 0 .. Len(s) :
           /\ Purged(s) \in Seq(U)
           /\ Len(Purged(s)) = Len(s) - g
           /\ \A k \in 1 .. Len(s) - g : Purged(s)[k] = s[k + g]
           /\ \A k \in 1 .. g : Lapsed(s[k])
           /\ g < Len(s) => ~Lapsed(s[g + 1])
<1> DEFINE Gone == {n \in 0 .. Len(s) : \A k \in 1 .. n : Lapsed(s[k])}
           g == Latest(Gone)
<1>1. Len(s) \in Nat /\ \A k \in 1 .. Len(s) : s[k] \in U
  OBVIOUS
<1>2. 0 \in Gone
  BY <1>1
<1>3. g \in Gone /\ \A n \in Gone : n <= g
  <2>1. Gone \in SUBSET Int /\ Gone # {} /\ \A n \in Gone : n <= Len(s)
    BY <1>1, <1>2
  <2>2. Len(s) \in Int
    BY <1>1
  <2> HIDE DEF Gone
  <2>3. Latest(Gone) \in Gone /\ \A n \in Gone : n <= Latest(Gone)
    BY <2>1, <2>2, LatestOf
  <2> QED BY <2>3 DEF g
<1>4. g < Len(s) => ~Lapsed(s[g + 1])
  <2> SUFFICES ASSUME g < Len(s), Lapsed(s[g + 1]) PROVE FALSE
    OBVIOUS
  <2>1. g + 1 \in Gone
    BY <1>1, <1>3
  <2> QED BY <1>1, <1>3, <2>1
<1>5. Purged(s) = SubSeq(s, g + 1, Len(s))
  BY DEF Purged
<1> HIDE DEF g
<1>6. g \in 0 .. Len(s) /\ \A k \in 1 .. g : Lapsed(s[k])
  BY <1>3
<1>7. \A i \in g + 1 .. Len(s) : s[i] \in U
  BY <1>1, <1>6
<1>8. /\ Purged(s) \in Seq(U)
      /\ Len(Purged(s)) = IF g + 1 <= Len(s) THEN Len(s) - (g + 1) + 1 ELSE 0
      /\ \A i \in 1 .. Len(s) - (g + 1) + 1 : Purged(s)[i] = s[g + 1 + i - 1]
  BY <1>1, <1>5, <1>6, <1>7, SubSeqProperties
<1>9. /\ Len(Purged(s)) = Len(s) - g
      /\ \A k \in 1 .. Len(s) - g : Purged(s)[k] = s[k + g]
  <2>1. Len(s) - (g + 1) + 1 = Len(s) - g
    BY <1>1, <1>6
  <2>2. ASSUME NEW k \in 1 .. Len(s) - g PROVE Purged(s)[k] = s[k + g]
    <3>1. k \in 1 .. Len(s) - (g + 1) + 1 /\ g + 1 + k - 1 = k + g
      BY <1>1, <1>6
    <3> QED BY <1>8, <3>1
  <2>3. Len(Purged(s)) = Len(s) - g
    BY <1>1, <1>6, <1>8
  <2> QED BY <2>2, <2>3
<1> QED BY <1>4, <1>6, <1>8, <1>9

\* In order of times nothing that lapsed is left, and nothing else is gone.
LEMMA PurgedAscending ==
  ASSUME now \in Nat, NEW U \in SUBSET Int, NEW s \in Seq(U), Ascending(s)
  PROVE  /\ Purged(s) \in Seq(U) /\ Ascending(Purged(s))
         /\ Len(Purged(s)) <= Len(s)
         /\ \A k \in DOMAIN Purged(s) : ~Lapsed(Purged(s)[k]) /\ \E j \in DOMAIN s : s[j] = Purged(s)[k]
         /\ \A j \in DOMAIN s : ~Lapsed(s[j]) => \E k \in DOMAIN Purged(s) : Purged(s)[k] = s[j]
         /\ (\A j, k \in DOMAIN s : j < k => s[j] < s[k])
              => \A j, k \in DOMAIN Purged(s) : j < k => Purged(s)[j] < Purged(s)[k]
<1>1. PICK g \in 0 .. Len(s) :
           /\ Purged(s) \in Seq(U)
           /\ Len(Purged(s)) = Len(s) - g
           /\ \A k \in 1 .. Len(s) - g : Purged(s)[k] = s[k + g]
           /\ \A k \in 1 .. g : Lapsed(s[k])
           /\ g < Len(s) => ~Lapsed(s[g + 1])
  BY PurgedOf
<1>2. /\ Len(s) \in Nat /\ DOMAIN s = 1 .. Len(s) /\ DOMAIN Purged(s) = 1 .. Len(s) - g
      /\ \A k \in 1 .. Len(s) : s[k] \in U
      /\ \A k \in 1 .. Len(s) - g : k + g \in 1 .. Len(s)
  BY <1>1
<1>3. Ascending(Purged(s))
  <2> SUFFICES ASSUME NEW j \in 1 .. Len(s) - g, NEW k \in 1 .. Len(s) - g, j < k
               PROVE  Purged(s)[j] <= Purged(s)[k]
    BY <1>2 DEF Ascending
  <2>1. j + g \in DOMAIN s /\ k + g \in DOMAIN s /\ j + g < k + g
    BY <1>1, <1>2
  <2>2. s[j + g] <= s[k + g]
    BY <2>1 DEF Ascending
  <2> QED BY <1>1, <2>2
<1>4. \A k \in 1 .. Len(s) - g : ~Lapsed(Purged(s)[k])
  <2> SUFFICES ASSUME NEW k \in 1 .. Len(s) - g PROVE ~Lapsed(s[k + g])
    BY <1>1
  <2>1. g < Len(s) /\ g + 1 \in 1 .. Len(s) /\ k + g \in 1 .. Len(s)
    BY <1>1, <1>2
  <2>2. s[g + 1] \in Int /\ s[k + g] \in Int
    BY <1>2, <2>1
  <2>3. s[g + 1] <= s[k + g]
    <3>1. CASE k = 1
      <4>1. g + 1 = k + g
        BY <1>1, <3>1
      <4> QED BY <2>2, <4>1
    <3>2. CASE k # 1
      <4>1. g + 1 < k + g
        BY <1>1, <3>2
      <4> QED BY <1>2, <2>1, <4>1 DEF Ascending
    <3> QED BY <3>1, <3>2
  <2>4. now - s[g + 1] < Window
    BY <1>1, <2>1, <2>2, QuotaAssumption DEF Lapsed
  <2> QED BY <2>2, <2>3, <2>4, QuotaAssumption DEF Lapsed
<1>5. \A j \in DOMAIN s : ~Lapsed(s[j]) => \E k \in DOMAIN Purged(s) : Purged(s)[k] = s[j]
  <2> SUFFICES ASSUME NEW j \in 1 .. Len(s), ~Lapsed(s[j])
               PROVE  \E k \in 1 .. Len(s) - g : Purged(s)[k] = s[j]
    BY <1>2
  <2>1. j - g \in 1 .. Len(s) - g /\ (j - g) + g = j
    BY <1>1, <1>2
  <2> QED BY <1>1, <2>1
<1>6. ASSUME \A j, k \in DOMAIN s : j < k => s[j] < s[k]
      PROVE  \A j, k \in DOMAIN Purged(s) : j < k => Purged(s)[j] < Purged(s)[k]
  <2> SUFFICES ASSUME NEW j \in 1 .. Len(s) - g, NEW k \in 1 .. Len(s) - g, j < k
               PROVE  Purged(s)[j] < Purged(s)[k]
    BY <1>2
  <2>1. j + g \in DOMAIN s /\ k + g \in DOMAIN s /\ j + g < k + g
    BY <1>1, <1>2
  <2>2. s[j + g] < s[k + g]
    BY <1>6, <2>1
  <2> QED BY <1>1, <2>2
<1> QED BY <1>1, <1>2, <1>3, <1>4, <1>5, <1>6
-----------------------------------------------------------------------------
(* The orders that were decided *)

LEMMA WorkingOrders ==
  ASSUME QuotaTypeOK, NEW t \in Working
  PROVE  /\ t \in Tasks /\ task[t].pc \in {"sign", "check"}
         /\ task[t].order \in Decisions
BY DEF Working, QuotaTypeOK, Idle

LEMMA DecidedOrders ==
  ASSUME QuotaTypeOK, NEW m \in Markets
  PROVE  Decided(m) \subseteq Decisions
BY WorkingOrders DEF Decided, QuotaTypeOK

LEMMA DecisionFields ==
  ASSUME NEW o \in Decisions, NEW era
  PROVE  /\ o.market \in Markets /\ o.at \in Nat /\ o.decided \in Nat /\ o.run \in Nat
         /\ CountsFrom(o, era) \in Nat
BY DEF Decisions, CountsFrom

\* The order of decisions is the order of what they count from, in any life.
LEMMA EarlierCountsLess ==
  ASSUME NEW o \in Decisions, NEW p \in Decisions, NEW era \in Nat, Earlier(p, o),
         o.run <= era, o.decided <= o.at + MaxAge, p.at <= p.decided
  PROVE  p.at < o.at /\ CountsFrom(p, era) < CountsFrom(o, era)
<1>1. /\ o.at \in Nat /\ o.decided \in Nat /\ o.run \in Nat
      /\ p.at \in Nat /\ p.decided \in Nat /\ p.run \in Nat
  BY DecisionFields
<1>2. p.run <= o.run /\ o.decided - CountsFrom(p, o.run) >= Cooldown
  BY DEF Earlier
<1>3. Cooldown \in Nat /\ MaxAge \in Nat /\ MaxAge < Cooldown /\ Cooldown > 0
  BY QuotaAssumption
<1>4. p.at <= CountsFrom(p, o.run) /\ CountsFrom(p, o.run) \in Nat
  BY <1>1 DEF CountsFrom
<1>5. p.at < o.at
  BY <1>1, <1>2, <1>3, <1>4
<1>6. CASE o.run = era
  <2>1. CountsFrom(o, era) = o.decided /\ CountsFrom(p, o.run) = CountsFrom(p, era)
    BY <1>6 DEF CountsFrom
  <2> QED BY <1>1, <1>2, <1>3, <1>4, <1>5, <2>1
<1>7. CASE o.run # era
  <2>1. p.run # era
    BY <1>1, <1>2, <1>7
  <2>2. CountsFrom(o, era) = o.at /\ CountsFrom(p, era) = p.at
    BY <1>7, <2>1 DEF CountsFrom
  <2> QED BY <1>5, <2>2
<1> QED BY <1>6, <1>7

LEMMA AgesOfDecided ==
  ASSUME QuotaTypeOK, OrdersOfTheirTime, NEW m \in Markets, NEW o \in Decided(m)
  PROVE  /\ o \in Decisions /\ o.market = m
         /\ o.at <= o.decided /\ o.decided <= o.at + MaxAge /\ o.decided <= now
         /\ o.run <= run
         /\ CountsFrom(o, run) \in 0 .. now
<1>1. o \in Decisions
  BY DecidedOrders
<1>2. /\ o.at <= o.decided /\ o.decided <= o.at + MaxAge /\ o.decided <= now
      /\ o.run <= run
  BY DEF OrdersOfTheirTime
<1>3. o.at \in Nat /\ o.decided \in Nat /\ now \in Nat
  BY <1>1, DecisionFields DEF QuotaTypeOK
<1>4. CountsFrom(o, run) \in 0 .. now
  BY <1>2, <1>3 DEF CountsFrom
<1> QED BY <1>1, <1>2, <1>4 DEF Decided

\* Two orders of a market count from different times.
LEMMA DecidedApart ==
  ASSUME QuotaTypeOK, OrdersOfTheirTime, Spaced, NEW m \in Markets,
         NEW o \in Decided(m), NEW p \in Decided(m), o # p
  PROVE  /\ o.at # p.at /\ CountsFrom(o, run) # CountsFrom(p, run)
         /\ p.at < o.at => Earlier(p, o)
<1>1. run \in Nat
  BY DEF QuotaTypeOK
<1>2. /\ o \in Decisions /\ o.at <= o.decided /\ o.decided <= o.at + MaxAge /\ o.run <= run
      /\ p \in Decisions /\ p.at <= p.decided /\ p.decided <= p.at + MaxAge /\ p.run <= run
  BY AgesOfDecided
<1>3. o.at \in Nat /\ p.at \in Nat /\ CountsFrom(o, run) \in Nat /\ CountsFrom(p, run) \in Nat
  BY <1>2, DecisionFields
<1>4. Earlier(o, p) \/ Earlier(p, o)
  BY DEF Spaced
<1>5. Earlier(p, o) => p.at < o.at /\ CountsFrom(p, run) < CountsFrom(o, run)
  BY <1>1, <1>2, EarlierCountsLess
<1>6. Earlier(o, p) => o.at < p.at /\ CountsFrom(o, run) < CountsFrom(p, run)
  BY <1>1, <1>2, EarlierCountsLess
<1> QED BY <1>3, <1>4, <1>5, <1>6

\* Fewer decisions are still spaced and within the quota.
LEMMA FewerDecisions ==
  ASSUME Spaced, WithinQuota, \A m \in Markets : Decided(m)' \subseteq Decided(m)
  PROVE  Spaced' /\ WithinQuota'
<1>1. Spaced'
  BY DEF Spaced, Earlier, CountsFrom
<1>2. ASSUME NEW m \in Markets, NEW o \in Decided(m)'
      PROVE  IsFiniteSet(Counted(m, o)') /\ Cardinality(Counted(m, o)') <= MaxOrders
  <2>1. Counted(m, o)' \subseteq Counted(m, o)
    BY DEF Counted, Earlier, CountsFrom
  <2>2. IsFiniteSet(Counted(m, o)) /\ Cardinality(Counted(m, o)) <= MaxOrders
    BY <1>2 DEF WithinQuota
  <2>3. /\ IsFiniteSet(Counted(m, o)')
        /\ Cardinality(Counted(m, o)') <= Cardinality(Counted(m, o))
    BY <2>1, <2>2, FS_Subset
  <2>4. Cardinality(Counted(m, o)') \in Nat /\ Cardinality(Counted(m, o)) \in Nat
    BY <2>2, <2>3, FS_CardinalityType
  <2>5. MaxOrders \in Nat
    BY QuotaAssumption
  <2> QED BY <2>2, <2>3, <2>4, <2>5
<1>3. WithinQuota'
  BY <1>2 DEF WithinQuota
<1> QED BY <1>1, <1>3

-----------------------------------------------------------------------------
(* Steps that decide nothing and leave the slots alone *)

LEMMA QuotaStart == QuotaInit => QuotaInv
<1> SUFFICES ASSUME QuotaInit PROVE QuotaInv
  OBVIOUS
<1>1. Working = {} /\ journal = {} /\ \A m \in Markets : Decided(m) = {}
  BY DEF QuotaInit, Working, Decided
<1>2. QuotaTypeOK
  <2>1. \A m \in Markets : Len(slots[m]) <= MaxOrders
    BY QuotaAssumption DEF QuotaInit
  <2> QED BY <2>1 DEF QuotaInit, QuotaTypeOK
<1>3. OrdersOfTheirTime
  BY <1>1, FS_EmptySet DEF QuotaInit, OrdersOfTheirTime
<1>4. Spaced /\ WithinQuota /\ Remembered
  BY <1>1 DEF Spaced, WithinQuota, Remembered
<1>5. WaitingIsRecorded
  BY DEF WaitingIsRecorded, QuotaInit
<1>6. UnknownIsUntouched
  BY <1>1 DEF UnknownIsUntouched, QuotaInit
<1>7. \A m \in Markets : Ascending(slots[m])
  BY DEF QuotaInit, Ascending
<1> QED BY <1>2, <1>3, <1>4, <1>5, <1>6, <1>7 DEF QuotaInv

\* What only takes orders off the way, or records what was on it, or sends it.
LEMMA KeepMemory ==
  ASSUME QuotaInv, QuotaTypeOK', IsFiniteSet(journal'), journal \subseteq journal',
         UNCHANGED <<now, run, up, memory>>,
         \A m \in Markets : Decided(m)' \subseteq Decided(m),
         Working' \subseteq Working,
         \A t \in Working' : task'[t].pc = "check" => task'[t].order \in journal'
  PROVE  QuotaInv'
<1> USE DEF memory
<1>1. OrdersOfTheirTime'
  BY DEF QuotaInv, OrdersOfTheirTime
<1>2. Spaced' /\ WithinQuota'
  BY FewerDecisions DEF QuotaInv
<1>3. Remembered'
  BY DEF QuotaInv, Remembered, CountsFrom, Lapsed
<1>4. WaitingIsRecorded'
  BY DEF QuotaInv, WaitingIsRecorded
<1>5. UnknownIsUntouched'
  BY DEF QuotaInv, UnknownIsUntouched
<1>6. \A m \in Markets : Ascending(slots[m])'
  BY DEF QuotaInv, Ascending
<1> QED BY <1>1, <1>2, <1>3, <1>4, <1>5, <1>6 DEF QuotaInv

LEMMA LeaveInv ==
  ASSUME QuotaInv, NEW t \in Tasks, Abandon(t) \/ Submit(t) \/ Block(t)
  PROVE  QuotaInv'
<1>1. /\ Leave(t) /\ task[t].pc \in {"sign", "check"} /\ journal' = journal
      /\ UNCHANGED <<now, run, up, memory>>
      /\ (sent' = sent \/ (task[t].pc = "check" /\ sent' = sent \cup {task[t].order}))
  BY DEF Abandon, Submit, Block
<1>2. t \in Working
  BY <1>1 DEF Working, Idle
<1>3. QuotaTypeOK'
  <2>1. sent' \subseteq journal'
    BY <1>1, <1>2 DEF QuotaInv, QuotaTypeOK, OrdersOfTheirTime
  <2>2. task' \in [Tasks -> {Idle} \cup [pc : {"sign", "check"}, order : Decisions]]
    BY <1>1 DEF QuotaInv, QuotaTypeOK, Leave
  <2> QED BY <1>1, <2>1, <2>2 DEF QuotaInv, QuotaTypeOK, memory
<1>4. /\ Working' \subseteq Working
      /\ \A u \in Working' : task'[u] = task[u]
  BY <1>1 DEF Working, Leave, QuotaInv, QuotaTypeOK
<1>5. \A m \in Markets : Decided(m)' \subseteq Decided(m)
  BY <1>1, <1>4 DEF Decided
<1> QED BY <1>1, <1>3, <1>4, <1>5, KeepMemory DEF QuotaInv, OrdersOfTheirTime

LEMMA RecordInv ==
  ASSUME QuotaInv, NEW t \in Tasks, Record(t) \/ RecordFails(t)
  PROVE  QuotaInv'
<1>1. /\ task[t].pc = "sign" /\ journal' = journal \cup {task[t].order}
      /\ UNCHANGED <<now, sent, run, up, memory>>
      /\ (Leave(t) \/ task' = [task EXCEPT ![t] = [@ EXCEPT !.pc = "check"]])
  BY DEF Record, RecordFails
<1>2. t \in Working /\ task[t] \in [pc : {"sign", "check"}, order : Decisions]
  BY <1>1 DEF Working, Idle, QuotaInv, QuotaTypeOK
<1>3. /\ task' \in [Tasks -> {Idle} \cup [pc : {"sign", "check"}, order : Decisions]]
      /\ \A u \in Tasks : u # t => task'[u] = task[u]
      /\ task'[t] = Idle \/ task'[t].order = task[t].order
  <2> DEFINE On == [pc : {"sign", "check"}, order : Decisions]
             checked == [task[t] EXCEPT !.pc = "check"]
  <2>1. task \in [Tasks -> {Idle} \cup On]
    BY DEF QuotaInv, QuotaTypeOK
  <2>2. checked \in On /\ checked.order = task[t].order
    BY <1>2
  <2> HIDE DEF On, checked
  <2>3. task' = [task EXCEPT ![t] = Idle] \/ task' = [task EXCEPT ![t] = checked]
    BY <1>1 DEF Leave, checked
  <2>4. /\ task' \in [Tasks -> {Idle} \cup On]
        /\ \A u \in Tasks : u # t => task'[u] = task[u]
        /\ task'[t] = Idle \/ task'[t] = checked
    BY <2>1, <2>2, <2>3
  <2> QED BY <2>2, <2>4 DEF On
<1>4. QuotaTypeOK'
  BY <1>1, <1>2, <1>3 DEF QuotaInv, QuotaTypeOK, memory
<1>5. /\ Working' \subseteq Working
      /\ \A u \in Working' : task'[u].order = task[u].order
      /\ \A u \in Working' : u # t => task'[u] = task[u]
  BY <1>2, <1>3 DEF Working
<1>6. \A m \in Markets : Decided(m)' \subseteq Decided(m)
  BY <1>1, <1>2, <1>5 DEF Decided
<1>7. \A u \in Working' : task'[u].pc = "check" => task'[u].order \in journal'
  BY <1>1, <1>5 DEF QuotaInv, OrdersOfTheirTime
<1>8. IsFiniteSet(journal')
  BY <1>1, FS_AddElement DEF QuotaInv, OrdersOfTheirTime
<1> QED BY <1>1, <1>4, <1>5, <1>6, <1>7, <1>8, KeepMemory

LEMMA CrashInv == QuotaInv /\ Crash => QuotaInv'
<1> SUFFICES ASSUME QuotaInv, Crash PROVE QuotaInv'
  OBVIOUS
<1>1. /\ UNCHANGED <<now, journal, sent, run>> /\ up' = FALSE
      /\ known' = {} /\ restore' = [m \in Markets |-> <<>>]
      /\ slots' = [m \in Markets |-> <<>>] /\ last' = [m \in Markets |-> Never]
      /\ task' = [t \in Tasks |-> Idle]
  BY DEF Crash, Forget
<1>2. Working' = {} /\ \A m \in Markets : Decided(m)' \subseteq Decided(m)
  BY <1>1 DEF Working, Decided
<1>3. QuotaTypeOK'
  <2>1. \A m \in Markets : Len(slots'[m]) <= MaxOrders
    BY <1>1, QuotaAssumption
  <2>2. restore' \in [Markets -> Seq(0 .. now)] /\ slots' \in [Markets -> Seq(0 .. now)]
    BY <1>1
  <2>3. last' \in [Markets -> {Never} \cup 0 .. now]
    BY <1>1
  <2>4. task' \in [Tasks -> {Idle} \cup [pc : {"sign", "check"}, order : Decisions]]
    BY <1>1
  <2> QED BY <1>1, <2>1, <2>2, <2>3, <2>4 DEF QuotaInv, QuotaTypeOK
<1>4. OrdersOfTheirTime'
  BY <1>1, <1>2 DEF QuotaInv, OrdersOfTheirTime
<1>5. Spaced' /\ WithinQuota'
  BY <1>2, FewerDecisions DEF QuotaInv
<1>6. Remembered' /\ UnknownIsUntouched'
  BY <1>1 DEF Remembered, UnknownIsUntouched
<1>7. WaitingIsRecorded'
  BY <1>1 DEF WaitingIsRecorded
<1>8. \A m \in Markets : Ascending(slots[m])'
  BY <1>1 DEF Ascending
<1> QED BY <1>3, <1>4, <1>5, <1>6, <1>7, <1>8 DEF QuotaInv

\* Time passes: more has lapsed.
LEMMA TickInv == QuotaInv /\ Tick => QuotaInv'
<1> SUFFICES ASSUME QuotaInv, Tick PROVE QuotaInv'
  OBVIOUS
<1>1. now' = now + 1 /\ now \in Nat /\ UNCHANGED <<journal, sent, run, up, known, restore, slots, last, task>>
  BY DEF Tick, memory, QuotaInv, QuotaTypeOK
<1>2. Working' = Working /\ \A m \in Markets : Decided(m)' = Decided(m)
  BY <1>1 DEF Working, Decided
<1>3. 0 .. now \subseteq 0 .. now'
  BY <1>1
<1>4. QuotaTypeOK'
  <2>1. Seq(0 .. now) \subseteq Seq(0 .. now')
    BY <1>3, SeqMonotonic
  <2>2. restore' \in [Markets -> Seq(0 .. now')] /\ slots' \in [Markets -> Seq(0 .. now')]
    BY <1>1, <2>1 DEF QuotaInv, QuotaTypeOK
  <2>3. last' \in [Markets -> {Never} \cup 0 .. now']
    BY <1>1, <1>3 DEF QuotaInv, QuotaTypeOK
  <2> QED BY <1>1, <2>2, <2>3 DEF QuotaInv, QuotaTypeOK
<1>5. OrdersOfTheirTime'
  <2>1. ASSUME NEW m \in Markets, NEW o \in Decided(m)
        PROVE  o.at <= o.decided /\ o.decided <= o.at + MaxAge /\ o.decided <= now' /\ o.run <= run
    <3>1. o \in Decisions /\ o.at <= o.decided /\ o.decided <= o.at + MaxAge
          /\ o.decided <= now /\ o.run <= run
      BY AgesOfDecided DEF QuotaInv
    <3>2. o.decided \in Nat
      BY <3>1, DecisionFields
    <3> QED BY <1>1, <3>1, <3>2
  <2> QED BY <1>1, <1>2, <2>1 DEF QuotaInv, OrdersOfTheirTime
<1>6. Spaced' /\ WithinQuota'
  BY <1>2, FewerDecisions DEF QuotaInv
<1>7. Remembered'
  <2>1. ASSUME NEW m \in Markets, NEW o \in Decided(m), ~Lapsed(CountsFrom(o, run))'
        PROVE  ~Lapsed(CountsFrom(o, run))
    <3>1. CountsFrom(o, run) \in 0 .. now
      BY AgesOfDecided DEF QuotaInv
    <3>2. ~(now' - CountsFrom(o, run) >= Window)
      BY <1>1, <2>1 DEF Lapsed, CountsFrom
    <3>3. Window \in Nat
      BY QuotaAssumption
    <3> QED BY <1>1, <3>1, <3>2, <3>3 DEF Lapsed
  <2>2. \A m \in Markets : \A o \in Decided(m) : CountsFrom(o, run)' = CountsFrom(o, run)
    BY <1>1 DEF CountsFrom
  <2> QED BY <1>1, <1>2, <2>1, <2>2 DEF QuotaInv, Remembered
<1>8. WaitingIsRecorded' /\ UnknownIsUntouched'
  BY <1>1, <1>2 DEF QuotaInv, WaitingIsRecorded, UnknownIsUntouched
<1>9. \A m \in Markets : Ascending(slots[m])'
  BY <1>1 DEF QuotaInv, Ascending
<1> QED BY <1>4, <1>5, <1>6, <1>7, <1>8, <1>9 DEF QuotaInv

-----------------------------------------------------------------------------
(* Restoring *)

\* The orders of a market in the Window, listed in the order of their times: each
\* once, since no two have the same time.
LEMMA ListedOnce ==
  ASSUME QuotaInv, Working = {}, NEW m \in Markets, NEW s \in RecentOrders(m)
  PROVE  /\ s \in Seq(0 .. now)
         /\ \A j, k \in DOMAIN s : j < k => s[j] < s[k]
         /\ \A k \in DOMAIN s : \E o \in journal : o.market = m /\ o.at = s[k]
         /\ \A o \in Recent(m) : \E k \in DOMAIN s : s[k] = o.at
<1> DEFINE R == Recent(m)
           n == Cardinality(R)
<1>1. PICK r \in [1 .. n -> R] :
        /\ Range(r) = R /\ \A j, k \in DOMAIN r : j < k => r[j].at <= r[k].at
        /\ s = [k \in DOMAIN r |-> r[k].at]
  BY DEF RecentOrders, Listings
<1>2. R \subseteq Decided(m) /\ R \subseteq journal /\ IsFiniteSet(R)
  <2>1. R \subseteq journal /\ R \subseteq Decided(m)
    BY DEF Recent, Decided
  <2> QED BY <2>1, FS_Subset DEF QuotaInv, OrdersOfTheirTime
<1>3. n \in Nat /\ IsFiniteSet(1 .. n) /\ Cardinality(1 .. n) = n
  <2>1. n \in Nat
    BY <1>2, FS_CardinalityType
  <2>2. /\ IsFiniteSet(1 .. n)
        /\ Cardinality(1 .. n) = IF 1 > n THEN 0 ELSE n - 1 + 1
    BY <2>1, FS_Interval
  <2> HIDE DEF n
  <2> QED BY <2>1, <2>2
<1>4. \A j, k \in 1 .. n : j # k => r[j] # r[k]
  <2>1. r \in Surjection(1 .. n, R)
    BY <1>1 DEF Surjection, Range
  <2>2. r \in Injection(1 .. n, R)
    BY <1>2, <1>3, <2>1, FS_SurjSameCardinalityImpliesInj
  <2> QED BY <2>2 DEF Injection, IsInjective
<1>5. \A o \in R : o.at \in 0 .. now /\ o.at \in Nat /\ o.market = m
  <2>1. ASSUME NEW o \in R PROVE o.at \in 0 .. now /\ o.at \in Nat /\ o.market = m
    <3>1. o \in Decisions /\ o.at <= o.decided /\ o.decided <= now /\ o.market = m
      BY <1>2, AgesOfDecided DEF QuotaInv
    <3>2. o.at \in Nat /\ o.decided \in Nat /\ now \in Nat
      BY <3>1, DecisionFields DEF QuotaInv, QuotaTypeOK
    <3> QED BY <3>1, <3>2
  <2> QED BY <2>1
<1> HIDE DEF R, n
<1>6. DOMAIN r = 1 .. n /\ \A k \in 1 .. n : r[k] \in R /\ s[k] = r[k].at
  BY <1>1
<1>7. s \in Seq(0 .. now) /\ DOMAIN s = 1 .. n
  BY <1>1, <1>3, <1>5, <1>6
<1>8. ASSUME NEW j \in 1 .. n, NEW k \in 1 .. n, j < k PROVE s[j] < s[k]
  <2>1. r[j] \in Decided(m) /\ r[k] \in Decided(m) /\ r[j] # r[k]
    BY <1>2, <1>3, <1>4, <1>6, <1>8
  <2>2. r[j].at # r[k].at
    BY <2>1, DecidedApart DEF QuotaInv
  <2>3. r[j].at <= r[k].at /\ r[j].at \in Nat /\ r[k].at \in Nat
    BY <1>1, <1>5, <1>6, <1>8
  <2> QED BY <1>6, <2>2, <2>3
<1>9. \A o \in R : \E k \in 1 .. n : s[k] = o.at
  BY <1>1, <1>6 DEF Range
<1> QED BY <1>2, <1>5, <1>6, <1>7, <1>8, <1>9 DEF R

LEMMA StartInv == QuotaInv /\ Start => QuotaInv'
<1> SUFFICES ASSUME QuotaInv, Start PROVE QuotaInv'
  OBVIOUS
<1>1. /\ ~up /\ up' /\ run' = run + 1 /\ UNCHANGED <<now, journal, sent, task>>
      /\ known' = {} /\ slots' = [m \in Markets |-> <<>>] /\ last' = [m \in Markets |-> Never]
      /\ \A m \in Markets : restore'[m] \in RecentOrders(m)
      /\ restore' \in [Markets -> UNION {RecentOrders(m) : m \in Markets}]
      /\ up' = TRUE
  BY DEF Start, Forget
<1>2. Working = {} /\ Working' = {} /\ run \in Nat
  BY <1>1 DEF QuotaInv, OrdersOfTheirTime, QuotaTypeOK, Working
<1>3. \A m \in Markets : Decided(m) = {o \in journal : o.market = m} /\ Decided(m)' = Decided(m)
  BY <1>1, <1>2 DEF Decided
<1>4. \A m \in Markets :
        /\ restore'[m] \in Seq(0 .. now)
        /\ \A j, k \in DOMAIN restore'[m] : j < k => restore'[m][j] < restore'[m][k]
        /\ \A k \in DOMAIN restore'[m] : \E o \in journal : o.market = m /\ o.at = restore'[m][k]
        /\ \A o \in Recent(m) : \E k \in DOMAIN restore'[m] : restore'[m][k] = o.at
  BY <1>1, <1>2, ListedOnce
<1>5. QuotaTypeOK'
  <2>1. \A m \in Markets : Len(slots'[m]) <= MaxOrders
    BY <1>1, QuotaAssumption
  <2>2. restore' \in [Markets -> Seq(0 .. now)]
    BY <1>1, <1>4
  <2> QED BY <1>1, <1>2, <2>1, <2>2 DEF QuotaInv, QuotaTypeOK
<1>6. ASSUME NEW m \in Markets, NEW o \in Decided(m)
      PROVE  /\ o \in Decisions /\ o.run < run' /\ o.run <= run' /\ CountsFrom(o, run') = o.at
             /\ o.at <= o.decided /\ o.decided <= o.at + MaxAge /\ o.decided <= now
             /\ o.at \in Nat
  <2>1. /\ o \in Decisions /\ o.run <= run
        /\ o.at <= o.decided /\ o.decided <= o.at + MaxAge /\ o.decided <= now
    BY AgesOfDecided DEF QuotaInv
  <2>2. o.run \in Nat /\ o.at \in Nat
    BY <2>1, DecisionFields
  <2>3. o.run < run' /\ o.run <= run'
    BY <1>1, <1>2, <2>1, <2>2
  <2> QED BY <1>1, <1>2, <2>1, <2>2, <2>3 DEF CountsFrom
<1>7. OrdersOfTheirTime'
  BY <1>1, <1>2, <1>3, <1>6 DEF QuotaInv, OrdersOfTheirTime
<1>8. Spaced' /\ WithinQuota'
  BY <1>3, FewerDecisions DEF QuotaInv
<1>9. Remembered'
  <2>1. ASSUME NEW m \in Markets, NEW o \in Decided(m), ~Lapsed(CountsFrom(o, run))'
        PROVE  \E k \in DOMAIN restore'[m] : restore'[m][k] = CountsFrom(o, run')
    <3>1. ~(now - o.at >= Window)
      BY <1>1, <1>6, <2>1 DEF Lapsed, CountsFrom
    <3>2. o.at >= now - Window
      BY <1>6, <3>1, QuotaAssumption DEF QuotaInv, QuotaTypeOK
    <3>3. o \in Recent(m)
      BY <1>3, <2>1, <3>2 DEF Recent
    <3> QED BY <1>4, <1>6, <3>3
  <2>2. \A m \in Markets : \A o \in Decided(m) : CountsFrom(o, run)' = CountsFrom(o, run')
    BY DEF CountsFrom
  <2> QED BY <1>1, <1>3, <2>1, <2>2 DEF Remembered
<1>10. WaitingIsRecorded'
  BY <1>1, <1>3, <1>4, <1>6 DEF WaitingIsRecorded
<1>11. UnknownIsUntouched'
  BY <1>1, <1>3, <1>6 DEF UnknownIsUntouched
<1>12. \A m \in Markets : Ascending(slots[m])'
  BY <1>1 DEF Ascending
<1> QED BY <1>5, <1>7, <1>8, <1>9, <1>10, <1>11, <1>12 DEF QuotaInv

\* What still waits: recorded orders that count, and no more than the quota.
LEMMA WaitingPurged ==
  ASSUME QuotaInv, up, NEW m \in Markets \ known
  PROVE  LET P == Purged(restore[m])
         IN  /\ P \in Seq(0 .. now) /\ Len(P) <= MaxOrders
             /\ \A j, k \in DOMAIN P : j < k => P[j] < P[k]
             /\ \A k \in DOMAIN P : \E o \in journal :
                  o.market = m /\ o.run < run /\ o.at = P[k]
             /\ \A j \in DOMAIN restore[m] : ~Lapsed(restore[m][j]) =>
                  \E k \in DOMAIN P : P[k] = restore[m][j]
<1> DEFINE s == restore[m]
           P == Purged(s)
           Row(k) == CHOOSE o \in journal : o.market = m /\ o.run < run /\ o.at = P[k]
<1>1. /\ now \in Nat /\ run \in Nat /\ s \in Seq(0 .. now) /\ 0 .. now \subseteq Int
      /\ QuotaTypeOK /\ OrdersOfTheirTime /\ Spaced
  BY DEF QuotaInv, QuotaTypeOK
<1>2. /\ \A j, k \in DOMAIN s : j < k => s[j] < s[k]
      /\ \A k \in DOMAIN s : \E o \in journal : o.market = m /\ o.run < run /\ o.at = s[k]
  BY DEF QuotaInv, WaitingIsRecorded
<1>3. Ascending(s)
  BY <1>1, <1>2 DEF Ascending
<1>4. /\ P \in Seq(0 .. now)
      /\ \A k \in DOMAIN P : ~Lapsed(P[k]) /\ \E j \in DOMAIN s : s[j] = P[k]
      /\ \A j \in DOMAIN s : ~Lapsed(s[j]) => \E k \in DOMAIN P : P[k] = s[j]
      /\ \A j, k \in DOMAIN P : j < k => P[j] < P[k]
  BY <1>1, <1>2, <1>3, PurgedAscending
<1>5. \A j, k \in DOMAIN P : j < k => P[j] < P[k]
  BY <1>4
<1> HIDE DEF P, s
<1>6. \A k \in DOMAIN P : \E o \in journal : o.market = m /\ o.run < run /\ o.at = P[k]
  BY <1>2, <1>4
<1>7. \A k \in DOMAIN P :
        Row(k) \in Decided(m) /\ Row(k).run < run /\ Row(k).at = P[k]
  <2>1. \A k \in DOMAIN P :
          Row(k) \in journal /\ Row(k).market = m /\ Row(k).run < run /\ Row(k).at = P[k]
    BY <1>6
  <2> HIDE DEF Row
  <2> QED BY <2>1 DEF Decided
<1>8. Len(P) <= MaxOrders
  <2>1. MaxOrders \in Nat /\ Window \in Nat /\ Len(P) \in Nat /\ DOMAIN P = 1 .. Len(P)
    BY <1>4, QuotaAssumption
  <2>2. CASE Len(P) = 0
    BY <2>1, <2>2
  <2>3. CASE Len(P) # 0
    <3> DEFINE N == Len(P)
               o == Row(N)
               f == [k \in 1 .. N |-> Row(k)]
    <3>1. N \in 1 .. N /\ N \in DOMAIN P
      BY <2>1, <2>3
    <3>9. N \in Nat /\ DOMAIN P = 1 .. N /\ \A i \in 1 .. N : P[i] \in Int
      <4>1. \A i \in DOMAIN P : P[i] \in 0 .. now
        <5>1. P \in Seq(0 .. now)
          BY <1>4
        <5>2. DOMAIN P = 1 .. Len(P) /\ \A i \in 1 .. Len(P) : P[i] \in 0 .. now
          BY <5>1, ElementOfSeq, LenProperties
        <5> QED BY <5>2
      <4>2. \A i \in DOMAIN P : P[i] \in Int
        BY <4>1
      <4> QED BY <2>1, <4>2
    <3>2. o \in Decided(m)
      BY <1>7, <3>1
    <3>3. ASSUME NEW k \in 1 .. N PROVE Row(k) \in Counted(m, o)
      <4> DEFINE p == Row(k)
      <4>1. p \in Decided(m) /\ p.at = P[k] /\ o.at = P[N] /\ p.run < run
        BY <1>7, <2>1, <3>1
      <4> HIDE DEF Row
      <4>2. /\ p \in Decisions /\ p.at <= p.decided
            /\ o \in Decisions /\ o.at <= o.decided /\ o.decided <= now
        BY <1>1, <3>2, <4>1, AgesOfDecided
      <4>3. /\ p.at \in Nat /\ p.decided \in Nat /\ o.at \in Nat /\ o.decided \in Nat
        BY <4>2, DecisionFields
      <4>4. p = o \/ Earlier(p, o)
        <5>1. CASE k = N
          BY <5>1
        <5>2. CASE k # N
          <6>0. k < N /\ k \in DOMAIN P
            <7> HIDE DEF N
            <7> QED BY <3>9, <5>2
          <6>1. p.at < o.at
            BY <1>5, <3>1, <4>1, <6>0
          <6>2. p # o
            BY <4>3, <6>1
          <6> QED BY <1>1, <3>2, <4>1, <6>1, <6>2, DecidedApart
        <5> QED BY <5>1, <5>2
      <4>5. o.decided - CountsFrom(p, o.run) < Window
        <5>1. ~Lapsed(p.at)
          BY <1>4, <2>1, <4>1
        <5>2. now - p.at < Window
          BY <1>1, <2>1, <4>3, <5>1 DEF Lapsed
        <5>3. CountsFrom(p, o.run) \in Nat /\ p.at <= CountsFrom(p, o.run)
          BY <4>2, <4>3 DEF CountsFrom
        <5> QED BY <1>1, <2>1, <4>2, <4>3, <5>2, <5>3
      <4> QED BY <4>1, <4>4, <4>5 DEF Counted
    <3>4. f \in Injection(1 .. N, Counted(m, o))
      <4>1. f \in [1 .. N -> Counted(m, o)]
        BY <3>3
      <4>2. ASSUME NEW j \in 1 .. N, NEW k \in 1 .. N, f[j] = f[k] PROVE j = k
        <5>1. P[j] = P[k]
          BY <1>7, <2>1, <4>2
        <5> HIDE DEF N
        <5>2. j \in DOMAIN P /\ k \in DOMAIN P /\ P[j] \in Int /\ P[k] \in Int
          BY <3>9
        <5>3. ~(j < k) /\ ~(k < j)
          BY <1>5, <5>1, <5>2
        <5> QED BY <3>9, <5>3
      <4> QED BY <4>1, <4>2 DEF Injection, IsInjective
    <3>5. IsFiniteSet(Counted(m, o)) /\ Cardinality(Counted(m, o)) <= MaxOrders
      BY <3>2 DEF QuotaInv, WithinQuota
    <3>6. IsFiniteSet(1 .. N) /\ Cardinality(1 .. N) = N
      <4>1. /\ IsFiniteSet(1 .. N)
            /\ Cardinality(1 .. N) = IF 1 > N THEN 0 ELSE N - 1 + 1
        BY <2>1, FS_Interval
      <4> QED BY <2>1, <4>1
    <3>7. Cardinality(1 .. N) <= Cardinality(Counted(m, o))
      <4> HIDE DEF f, o, N
      <4> QED BY <3>4, <3>5, FS_Injection
    <3>8. Cardinality(Counted(m, o)) \in Nat
      BY <3>5, FS_CardinalityType
    <3> QED BY <2>1, <3>5, <3>6, <3>7, <3>8
  <2> QED BY <2>2, <2>3
<1> QED BY <1>4, <1>5, <1>6, <1>8 DEF P, s

\* What has lapsed is dropped from a market's slots, and nothing else.
LEMMA SlotsPurged ==
  ASSUME QuotaInv, NEW m \in Markets
  PROVE  LET P == Purged(slots[m])
         IN  /\ P \in Seq(0 .. now) /\ Ascending(P)
             /\ Len(P) <= MaxOrders /\ Len(P) \in Nat
             /\ \A k \in DOMAIN P : ~Lapsed(P[k])
             /\ \A j \in DOMAIN slots[m] : ~Lapsed(slots[m][j]) =>
                  \E k \in DOMAIN P : P[k] = slots[m][j]
<1> DEFINE s == slots[m]
<1>1. /\ now \in Nat /\ s \in Seq(0 .. now) /\ 0 .. now \subseteq Int
      /\ Ascending(s) /\ Len(s) <= MaxOrders
  BY DEF QuotaInv, QuotaTypeOK
<1> HIDE DEF s
<1>2. /\ Purged(s) \in Seq(0 .. now) /\ Ascending(Purged(s))
      /\ Len(Purged(s)) <= Len(s)
      /\ \A k \in DOMAIN Purged(s) : ~Lapsed(Purged(s)[k])
      /\ \A j \in DOMAIN s : ~Lapsed(s[j]) => \E k \in DOMAIN Purged(s) : Purged(s)[k] = s[j]
  BY <1>1, PurgedAscending
<1>3. Len(s) \in Nat /\ Len(Purged(s)) \in Nat /\ MaxOrders \in Nat
  BY <1>1, <1>2, LenProperties, QuotaAssumption
<1>4. Len(Purged(s)) <= MaxOrders
  BY <1>1, <1>2, <1>3
<1> QED BY <1>2, <1>3, <1>4 DEF s

LEMMA RefuseInv ==
  ASSUME QuotaInv, NEW m \in Markets, Refuse(m)
  PROVE  QuotaInv'
<1>1. /\ up /\ m \in known
      /\ UNCHANGED <<now, journal, sent, run, up, known, restore, last, task>>
      /\ slots' = [slots EXCEPT ![m] = Purged(slots[m])]
  BY DEF Refuse
<1>2. /\ slots \in [Markets -> Seq(0 .. now)] /\ \A n \in Markets : Len(slots[n]) <= MaxOrders
      /\ \A n \in Markets : Ascending(slots[n])
  BY DEF QuotaInv, QuotaTypeOK
<1>3. /\ slots'[m] = Purged(slots[m])
      /\ \A n \in Markets : n # m => slots'[n] = slots[n]
  BY <1>1, <1>2
<1>4. /\ slots'[m] \in Seq(0 .. now) /\ Ascending(slots'[m]) /\ Len(slots'[m]) <= MaxOrders
      /\ \A j \in DOMAIN slots[m] : ~Lapsed(slots[m][j]) =>
           \E k \in DOMAIN slots'[m] : slots'[m][k] = slots[m][j]
  BY <1>3, SlotsPurged
<1>5. Working' = Working /\ \A n \in Markets : Decided(n)' = Decided(n)
  BY <1>1 DEF Working, Decided
<1>6. QuotaTypeOK'
  <2>1. slots' \in [Markets -> Seq(0 .. now)] /\ \A n \in Markets : Len(slots'[n]) <= MaxOrders
    BY <1>1, <1>2, <1>3, <1>4
  <2> QED BY <1>1, <2>1 DEF QuotaInv, QuotaTypeOK
<1>7. OrdersOfTheirTime'
  BY <1>1, <1>5 DEF QuotaInv, OrdersOfTheirTime
<1>8. Spaced' /\ WithinQuota'
  BY <1>5, FewerDecisions DEF QuotaInv
<1>9. Remembered'
  <2>1. \A n \in Markets : \A o \in Decided(n) :
          CountsFrom(o, run)' = CountsFrom(o, run)
          /\ (Lapsed(CountsFrom(o, run))' <=> Lapsed(CountsFrom(o, run)))
    BY <1>1 DEF CountsFrom, Lapsed
  <2>2. ASSUME NEW n \in Markets, NEW c, ~Lapsed(c), \E k \in DOMAIN slots[n] : slots[n][k] = c
        PROVE  \E k \in DOMAIN slots'[n] : slots'[n][k] = c
    BY <1>3, <1>4, <2>2
  <2> QED BY <1>1, <1>5, <2>1, <2>2 DEF QuotaInv, Remembered
<1>10. WaitingIsRecorded'
  BY <1>1 DEF QuotaInv, WaitingIsRecorded
<1>11. UnknownIsUntouched'
  BY <1>1, <1>3, <1>5 DEF QuotaInv, UnknownIsUntouched
<1>12. \A n \in Markets : Ascending(slots[n])'
  BY <1>2, <1>3, <1>4 DEF Ascending
<1> QED BY <1>6, <1>7, <1>8, <1>9, <1>10, <1>11, <1>12 DEF QuotaInv

LEMMA NothingPurged == Purged(<<>>) = <<>>
<1> DEFINE s == <<>>
<1>1. s \in Seq(Int) /\ Len(s) = 0 /\ Int \in SUBSET Int
  BY EmptySeq
<1> HIDE DEF s
<1>2. \E g \in 0 .. Len(s) :
           /\ Purged(s) \in Seq(Int)
           /\ Len(Purged(s)) = Len(s) - g
           /\ \A k \in 1 .. Len(s) - g : Purged(s)[k] = s[k + g]
           /\ \A k \in 1 .. g : Lapsed(s[k])
           /\ g < Len(s) => ~Lapsed(s[g + 1])
  <2>1. ASSUME NEW U \in SUBSET Int, s \in Seq(U)
        PROVE  \E g \in 0 .. Len(s) :
                 /\ Purged(s) \in Seq(U)
                 /\ Len(Purged(s)) = Len(s) - g
                 /\ \A k \in 1 .. Len(s) - g : Purged(s)[k] = s[k + g]
                 /\ \A k \in 1 .. g : Lapsed(s[k])
                 /\ g < Len(s) => ~Lapsed(s[g + 1])
    BY <2>1, PurgedOf
  <2> QED BY <1>1, <2>1
<1>3. Purged(s) \in Seq(Int) /\ Len(Purged(s)) = 0
  <2>1. PICK g \in 0 .. Len(s) : Purged(s) \in Seq(Int) /\ Len(Purged(s)) = Len(s) - g
    BY <1>2
  <2>2. g = 0
    BY <1>1
  <2> QED BY <1>1, <2>1, <2>2
<1>4. Purged(s) = <<>>
  BY <1>3, EmptySeq
<1> QED BY <1>4 DEF s

\* What a market is left with when another one, or itself, becomes known.
LEMMA RestoredMarket ==
  ASSUME QuotaInv, up, NEW S \in SUBSET Markets, known \subseteq S,
         RestoreOrders(S), NEW n \in Markets
  PROVE  /\ n \in known => restore'[n] = <<>> /\ slots'[n] = slots[n] /\ last'[n] = last[n]
         /\ n \notin S =>
              restore'[n] = Purged(restore[n]) /\ slots'[n] = slots[n] /\ last'[n] = last[n]
         /\ n \in S \ known =>
              /\ restore'[n] = <<>> /\ slots'[n] = Purged(restore[n])
              /\ last'[n] \in {Never} \cup 0 .. now
              /\ \A k \in DOMAIN slots'[n] : slots'[n][k] <= last'[n]
<1> DEFINE Times == IF n \in S THEN Purged(restore[n]) ELSE <<>>
           Seen == {last[n]} \cup Range(Times)
<1>1. /\ restore'[n] = (IF n \in S THEN <<>> ELSE Purged(restore[n]))
      /\ slots'[n] = slots[n] \o Times
      /\ last'[n] = Latest(Seen)
  BY DEF RestoreOrders
<1>2. /\ now \in Nat /\ Never \in Int /\ Never <= now
      /\ slots[n] \in Seq(0 .. now) /\ last[n] \in {Never} \cup 0 .. now
  BY QuotaAssumption DEF QuotaInv, QuotaTypeOK, Never
<1>3. n \in known => restore[n] = <<>>
  BY DEF QuotaInv, WaitingIsRecorded
<1>4. n \in known \/ n \notin S => Times = <<>>
  BY <1>3, NothingPurged
<1>5. CASE Times = <<>>
  <2>1. Seen = {last[n]}
    BY <1>5 DEF Range
  <2>2. Latest(Seen) = last[n]
    <3>1. {last[n]} \in SUBSET Int /\ now \in Int /\ \A x \in {last[n]} : x <= now
      BY <1>2
    <3>2. Latest({last[n]}) \in {last[n]}
      BY <3>1, LatestOf
    <3> QED BY <2>1, <3>2
  <2>3. slots[n] \o Times = slots[n]
    BY <1>2, <1>5, ConcatEmptySeq
  <2>4. n \in S \ known => slots'[n] = Purged(restore[n]) /\ DOMAIN slots'[n] = {}
    <3> SUFFICES ASSUME n \in S \ known PROVE slots'[n] = Purged(restore[n]) /\ DOMAIN slots'[n] = {}
      OBVIOUS
    <3>1. slots[n] = <<>> /\ slots'[n] = slots[n]
      BY <1>1, <2>3 DEF QuotaInv, UnknownIsUntouched
    <3>2. Purged(restore[n]) = <<>>
      BY <1>5
    <3> QED BY <3>1, <3>2
  <2> QED BY <1>1, <1>2, <1>3, <1>5, <2>2, <2>3, <2>4
<1>6. CASE Times # <<>>
  <2>1. n \in S \ known
    BY <1>4, <1>6
  <2>2. slots[n] = <<>> /\ Times = Purged(restore[n])
    BY <2>1 DEF QuotaInv, UnknownIsUntouched
  <2>3. Purged(restore[n]) \in Seq(0 .. now)
    BY <2>1, WaitingPurged
  <2>4. slots'[n] = Purged(restore[n])
    BY <1>1, <2>2, <2>3, ConcatEmptySeq
  <2>5. \A k \in DOMAIN slots'[n] : slots'[n][k] \in Seen
    <3>1. slots'[n] = Times
      BY <2>2, <2>4
    <3> HIDE DEF Times
    <3> QED BY <3>1 DEF Range
  <2>6. Seen \in SUBSET Int /\ Seen # {} /\ \A x \in Seen : x <= now
    <3>1. Range(Times) \subseteq 0 .. now
      BY <2>2, <2>3, RangeOfSeq
    <3> QED BY <1>2, <3>1
  <2>7. Latest(Seen) \in Seen /\ \A y \in Seen : y <= Latest(Seen)
    <3>1. now \in Int
      BY <1>2
    <3> HIDE DEF Seen
    <3> QED BY <2>6, <3>1, LatestOf
  <2>8. last'[n] \in {Never} \cup 0 .. now
    <3>1. Range(Times) \subseteq 0 .. now
      BY <2>2, <2>3, RangeOfSeq
    <3> QED BY <1>1, <1>2, <2>7, <3>1
  <2>9. \A k \in DOMAIN slots'[n] : slots'[n][k] <= last'[n]
    BY <1>1, <2>5, <2>7
  <2> QED BY <1>1, <2>1, <2>4, <2>8, <2>9
<1> QED BY <1>5, <1>6

LEMMA FetchInv ==
  ASSUME QuotaInv, NEW m \in Markets, Fetch(m)
  PROVE  QuotaInv'
<1> DEFINE S == known \cup {m}
<1>1. /\ up /\ known' = S /\ RestoreOrders(S)
      /\ UNCHANGED <<now, journal, sent, run, up, task>>
  BY DEF Fetch
<1>2. S \in SUBSET Markets /\ known \subseteq S
  BY DEF QuotaInv, QuotaTypeOK
<1>3. /\ restore' \in [Markets -> {restore'[n] : n \in Markets}]
      /\ slots' \in [Markets -> {slots'[n] : n \in Markets}]
      /\ last' \in [Markets -> {last'[n] : n \in Markets}]
  BY <1>1 DEF RestoreOrders
<1> HIDE DEF S
<1>4. \A n \in Markets :
         /\ n \in known => restore'[n] = <<>> /\ slots'[n] = slots[n] /\ last'[n] = last[n]
         /\ n \notin S =>
              restore'[n] = Purged(restore[n]) /\ slots'[n] = slots[n] /\ last'[n] = last[n]
         /\ n \in S \ known =>
              /\ restore'[n] = <<>> /\ slots'[n] = Purged(restore[n])
              /\ last'[n] \in {Never} \cup 0 .. now
              /\ \A k \in DOMAIN slots'[n] : slots'[n][k] <= last'[n]
  BY <1>1, <1>2, RestoredMarket
<1>5. \A n \in Markets \ known :
        LET P == Purged(restore[n])
        IN  /\ P \in Seq(0 .. now) /\ Len(P) <= MaxOrders
            /\ \A j, k \in DOMAIN P : j < k => P[j] < P[k]
            /\ \A k \in DOMAIN P : \E o \in journal :
                 o.market = n /\ o.run < run /\ o.at = P[k]
            /\ \A j \in DOMAIN restore[n] : ~Lapsed(restore[n][j]) =>
                 \E k \in DOMAIN P : P[k] = restore[n][j]
  BY <1>1, WaitingPurged
<1>6. Working' = Working /\ \A n \in Markets : Decided(n)' = Decided(n)
  BY <1>1 DEF Working, Decided
<1>7. \A n \in Markets :
        /\ slots[n] \in Seq(0 .. now) /\ last[n] \in {Never} \cup 0 .. now
        /\ Len(slots[n]) <= MaxOrders /\ Ascending(slots[n])
        /\ n \in known \/ n \in S \ known \/ n \notin S
  BY DEF QuotaInv, QuotaTypeOK
<1>8. \A n \in Markets :
        /\ slots'[n] \in Seq(0 .. now) /\ Len(slots'[n]) <= MaxOrders
        /\ last'[n] \in {Never} \cup 0 .. now
        /\ restore'[n] \in Seq(0 .. now)
  <2> TAKE n \in Markets
  <2>1. CASE n \in known
    <3>1. restore'[n] = <<>> /\ slots'[n] = slots[n] /\ last'[n] = last[n]
      BY <1>4, <2>1
    <3> QED BY <1>7, <3>1
  <2>2. CASE n \in S \ known
    <3>1. /\ restore'[n] = <<>> /\ slots'[n] = Purged(restore[n])
          /\ last'[n] \in {Never} \cup 0 .. now
      BY <1>4, <2>2
    <3>2. Purged(restore[n]) \in Seq(0 .. now) /\ Len(Purged(restore[n])) <= MaxOrders
      BY <1>5, <2>2
    <3> QED BY <3>1, <3>2
  <2>3. CASE n \notin S
    BY <1>2, <1>4, <1>5, <1>7, <2>3
  <2> QED BY <1>7, <2>1, <2>2, <2>3
<1>9. QuotaTypeOK'
  <2>1. /\ restore' \in [Markets -> Seq(0 .. now)] /\ slots' \in [Markets -> Seq(0 .. now)]
        /\ last' \in [Markets -> {Never} \cup 0 .. now]
    BY <1>3, <1>8
  <2>2. known' \subseteq Markets
    BY <1>1, <1>2
  <2> QED BY <1>1, <1>8, <2>1, <2>2 DEF QuotaInv, QuotaTypeOK
<1>10. OrdersOfTheirTime'
  BY <1>1, <1>6 DEF QuotaInv, OrdersOfTheirTime
<1>11. Spaced' /\ WithinQuota'
  BY <1>6, FewerDecisions DEF QuotaInv
<1>12. Remembered'
  <2> SUFFICES ASSUME NEW n \in Markets, NEW o \in Decided(n), ~Lapsed(CountsFrom(o, run))
               PROVE  LET c == CountsFrom(o, run)
                      IN  IF n \in known'
                          THEN /\ \E k \in DOMAIN slots'[n] : slots'[n][k] = c
                               /\ c <= last'[n]
                          ELSE \E k \in DOMAIN restore'[n] : restore'[n][k] = c
    <3>1. \A n \in Markets : \A o \in Decided(n) :
            CountsFrom(o, run)' = CountsFrom(o, run)
            /\ (Lapsed(CountsFrom(o, run))' <=> Lapsed(CountsFrom(o, run)))
      BY <1>1 DEF CountsFrom, Lapsed
    <3> QED BY <1>1, <1>6, <3>1 DEF Remembered
  <2> DEFINE c == CountsFrom(o, run)
  <2>1. IF n \in known
        THEN /\ \E k \in DOMAIN slots[n] : slots[n][k] = c
             /\ c <= last[n]
        ELSE \E k \in DOMAIN restore[n] : restore[n][k] = c
    BY <1>1 DEF QuotaInv, Remembered
  <2> HIDE DEF c
  <2>2. ~Lapsed(c)
    BY DEF c
  <2>3. CASE n \in known
    <3>1. n \in known'
      BY <1>1, <1>2, <2>3
    <3>2. slots'[n] = slots[n] /\ last'[n] = last[n]
      BY <1>4, <2>3
    <3> QED BY <2>1, <2>3, <3>1, <3>2 DEF c
  <2>4. CASE n \notin known
    <3>1. \E k \in DOMAIN Purged(restore[n]) : Purged(restore[n])[k] = c
      BY <1>5, <2>1, <2>2, <2>4
    <3>2. CASE n \in S
      <4>1. slots'[n] = Purged(restore[n]) /\ \A k \in DOMAIN slots'[n] : slots'[n][k] <= last'[n]
        BY <1>4, <2>4, <3>2
      <4>2. /\ \E k \in DOMAIN slots'[n] : slots'[n][k] = c
            /\ c <= last'[n]
        BY <3>1, <4>1
      <4> QED BY <1>1, <3>2, <4>2 DEF c
    <3>3. CASE n \notin S
      <4>1. restore'[n] = Purged(restore[n])
        BY <1>4, <3>3
      <4> QED BY <1>1, <3>1, <3>3, <4>1 DEF c
    <3> QED BY <3>2, <3>3
  <2> QED BY <2>3, <2>4
<1>13. WaitingIsRecorded'
  <2> SUFFICES ASSUME NEW n \in Markets
               PROVE /\ \A j, k \in DOMAIN restore'[n] : j < k => restore'[n][j] < restore'[n][k]
                     /\ \A k \in DOMAIN restore'[n] :
                         \E o \in journal : o.market = n /\ o.run < run /\ o.at = restore'[n][k]
                     /\ n \in S => restore'[n] = <<>>
    BY <1>1 DEF WaitingIsRecorded
  <2>1. CASE n \in S
    BY <1>4, <2>1
  <2>2. CASE n \notin S
    <3>1. restore'[n] = Purged(restore[n])
      BY <1>4, <2>2
    <3>2. LET P == Purged(restore[n])
          IN  /\ \A j, k \in DOMAIN P : j < k => P[j] < P[k]
              /\ \A k \in DOMAIN P : \E o \in journal :
                   o.market = n /\ o.run < run /\ o.at = P[k]
      BY <1>2, <1>5, <2>2
    <3> QED BY <2>2, <3>1, <3>2
  <2> QED BY <2>1, <2>2
<1>14. UnknownIsUntouched'
  BY <1>1, <1>2, <1>4, <1>6 DEF QuotaInv, UnknownIsUntouched
<1>15. \A n \in Markets : Ascending(slots[n])'
  <2> SUFFICES ASSUME NEW n \in Markets PROVE Ascending(slots'[n])
    BY DEF Ascending
  <2>1. CASE n \in S \ known
    <3>1. slots'[n] = Purged(restore[n])
      BY <1>4, <2>1
    <3>2. \A j, k \in DOMAIN slots'[n] : j < k => slots'[n][j] < slots'[n][k]
      BY <1>5, <2>1, <3>1
    <3>3. \A j \in DOMAIN slots'[n] : slots'[n][j] \in Int
      <4>1. slots'[n] \in Seq(0 .. now)
        BY <1>8
      <4>2. \A j \in DOMAIN slots'[n] : slots'[n][j] \in 0 .. now
        BY <4>1, ElementOfSeq, LenProperties
      <4> QED BY <4>2
    <3> QED BY <3>2, <3>3 DEF Ascending
  <2>2. CASE n \in known \/ n \notin S
    BY <1>4, <1>7, <2>2
  <2> QED BY <2>1, <2>2
<1> QED BY <1>9, <1>10, <1>11, <1>12, <1>13, <1>14, <1>15 DEF QuotaInv

-----------------------------------------------------------------------------
(* Deciding *)

\* The orders of a known market that still count have slots of their own.
LEMMA RememberedCount ==
  ASSUME QuotaInv, up, NEW m \in known
  PROVE  LET L == {p \in Decided(m) : ~Lapsed(CountsFrom(p, run))}
         IN  /\ IsFiniteSet(L) /\ Cardinality(L) \in Nat
             /\ Cardinality(L) <= Len(Purged(slots[m]))
             /\ \A p \in L : /\ CountsFrom(p, run) <= last[m]
                             /\ \E k \in DOMAIN Purged(slots[m]) :
                                  Purged(slots[m])[k] = CountsFrom(p, run)
<1> DEFINE L == {p \in Decided(m) : ~Lapsed(CountsFrom(p, run))}
           P == Purged(slots[m])
           N == Len(P)
           f == [p \in L |-> CHOOSE k \in DOMAIN P : P[k] = CountsFrom(p, run)]
<1>1. m \in Markets /\ QuotaTypeOK /\ OrdersOfTheirTime /\ Spaced
  BY DEF QuotaInv, QuotaTypeOK
<1>2. /\ P \in Seq(0 .. now)
      /\ \A j \in DOMAIN slots[m] : ~Lapsed(slots[m][j]) => \E k \in DOMAIN P : P[k] = slots[m][j]
  BY <1>1, SlotsPurged
<1>3. N \in Nat /\ DOMAIN P = 1 .. N
  BY <1>2, LenProperties
<1>4. \A p \in L : /\ p \in Decided(m) /\ CountsFrom(p, run) <= last[m]
                   /\ \E k \in DOMAIN P : P[k] = CountsFrom(p, run)
  <2> TAKE p \in L
  <2>1. /\ p \in Decided(m) /\ CountsFrom(p, run) <= last[m]
        /\ \E j \in DOMAIN slots[m] : slots[m][j] = CountsFrom(p, run)
    BY <1>1 DEF QuotaInv, Remembered
  <2>2. ~Lapsed(CountsFrom(p, run))
    OBVIOUS
  <2> HIDE DEF P, L
  <2> QED BY <1>2, <2>1, <2>2
<1> HIDE DEF P, L, N
<1>5. \A p \in L : f[p] \in 1 .. N /\ P[f[p]] = CountsFrom(p, run)
  BY <1>3, <1>4
<1>6. f \in Injection(L, 1 .. N)
  <2>1. f \in [L -> 1 .. N]
    BY <1>5
  <2> HIDE DEF f
  <2>2. ASSUME NEW p \in L, NEW q \in L, f[p] = f[q] PROVE p = q
    <3>1. CountsFrom(p, run) = CountsFrom(q, run)
      BY <1>5, <2>2
    <3>2. p \in Decided(m) /\ q \in Decided(m)
      BY <1>4
    <3> QED BY <1>1, <3>1, <3>2, DecidedApart
  <2> QED BY <2>1, <2>2 DEF Injection, IsInjective
<1>7. IsFiniteSet(1 .. N) /\ Cardinality(1 .. N) = N
  <2>1. /\ IsFiniteSet(1 .. N)
        /\ Cardinality(1 .. N) = IF 1 > N THEN 0 ELSE N - 1 + 1
    BY <1>3, FS_Interval
  <2> QED BY <1>3, <2>1
<1>8. IsFiniteSet(L) /\ Cardinality(L) <= N
  <2> HIDE DEF f
  <2>1. IsFiniteSet(L) /\ Cardinality(L) <= Cardinality(1 .. N)
    BY <1>6, <1>7, FS_Injection
  <2> QED BY <1>7, <2>1
<1>9. Cardinality(L) \in Nat
  BY <1>8, FS_CardinalityType
<1> QED BY <1>4, <1>8, <1>9 DEF L, P, N

\* A decision finds every earlier one of the market apart from it, and fewer than
\* the quota of them counting.
LEMMA DecideInv ==
  ASSUME QuotaInv, NEW t \in Tasks, NEW m \in Markets, NEW age \in 0 .. MaxAge,
         age <= now, Decide(t, m, age)
  PROVE  QuotaInv'
<1> DEFINE o == [market |-> m, at |-> now - age, decided |-> now, run |-> run]
           P == Purged(slots[m])
           L == {p \in Decided(m) : ~Lapsed(CountsFrom(p, run))}
<1>1. /\ up /\ m \in known /\ task[t] = Idle /\ ~Full(m) /\ ~Cooling(m)
      /\ slots' = [slots EXCEPT ![m] = Append(P, now)]
      /\ last' = [last EXCEPT ![m] = now]
      /\ task' = [task EXCEPT ![t] = [pc |-> "sign", order |-> o]]
      /\ UNCHANGED <<now, journal, sent, run, up, known, restore>>
  BY DEF Decide, TakeSlot
<1>2. /\ now \in Nat /\ run \in Nat /\ QuotaTypeOK /\ OrdersOfTheirTime
      /\ slots \in [Markets -> Seq(0 .. now)]
      /\ last \in [Markets -> {Never} \cup 0 .. now]
      /\ \A n \in Markets : Len(slots[n]) <= MaxOrders /\ Ascending(slots[n])
  BY DEF QuotaInv, QuotaTypeOK
<1>3. /\ MaxOrders \in Nat /\ Window \in Nat /\ Cooldown \in Nat /\ Cooldown > 0
      /\ Cooldown <= Window /\ MaxAge \in Nat /\ Never \in Int
  BY QuotaAssumption DEF Never
<1>4. /\ P \in Seq(0 .. now) /\ Ascending(P) /\ Len(P) \in Nat
      /\ \A k \in DOMAIN P : ~Lapsed(P[k])
  BY SlotsPurged
<1>5. /\ IsFiniteSet(L) /\ Cardinality(L) \in Nat /\ Cardinality(L) <= Len(P)
      /\ \A p \in L : /\ CountsFrom(p, run) <= last[m]
                      /\ \E k \in DOMAIN P : P[k] = CountsFrom(p, run)
  BY <1>1, RememberedCount
<1>6. Len(P) < MaxOrders
  BY <1>1, <1>3, <1>4 DEF Full
<1>7. /\ o \in Decisions /\ o.market = m /\ o.at = now - age /\ o.decided = now /\ o.run = run
      /\ o.at <= o.decided /\ o.decided <= o.at + MaxAge
  <2>1. now - age \in Nat
    BY <1>2, <1>3
  <2> QED BY <1>2, <1>3, <2>1 DEF Decisions
<1> HIDE DEF o, P
<1>8. /\ Working' = Working \cup {t} /\ task'[t].order = o /\ task'[t].pc = "sign"
      /\ \A u \in Working : task'[u] = task[u] /\ u # t
  BY <1>1, <1>2 DEF Working, QuotaTypeOK, Idle
<1>9. /\ Decided(m)' = Decided(m) \cup {o}
      /\ \A n \in Markets : n # m => Decided(n)' = Decided(n)
  BY <1>1, <1>7, <1>8 DEF Decided
<1>10. ASSUME NEW p \in Decided(m)
       PROVE  Earlier(p, o) /\ ~Earlier(o, p) /\ p # o
  <2>1. p \in Decisions /\ p.run <= run /\ p.decided <= now /\ CountsFrom(p, run) \in 0 .. now
    BY <1>2, AgesOfDecided
  <2>2. p.run \in Nat /\ p.decided \in Nat
    BY <2>1, DecisionFields
  <2>3. now - CountsFrom(p, run) >= Cooldown
    <3> DEFINE c == CountsFrom(p, run)
    <3>1. CASE Lapsed(c)
      <4> HIDE DEF c
      <4>1. now - c >= Window
        BY <3>1 DEF Lapsed
      <4>2. c \in Int
        BY <2>1 DEF c
      <4> QED BY <1>2, <1>3, <4>1, <4>2 DEF c
    <3>2. CASE ~Lapsed(c)
      <4>1. c <= last[m] /\ c \in Int
        BY <1>5, <2>1, <3>2
      <4>2. ~(now - last[m] < Cooldown) /\ last[m] \in Int
        BY <1>1, <1>2, <1>3 DEF Cooling
      <4> HIDE DEF c
      <4> QED BY <1>2, <1>3, <4>1, <4>2 DEF c
    <3> QED BY <3>1, <3>2
  <2>4. Earlier(p, o)
    BY <1>7, <2>1, <2>3 DEF Earlier
  <2>5. ~Earlier(o, p)
    <3> SUFFICES ASSUME Earlier(o, p) PROVE FALSE
      OBVIOUS
    <3>1. run <= p.run /\ p.decided - CountsFrom(o, p.run) >= Cooldown
      BY <1>7 DEF Earlier
    <3>2. CountsFrom(o, p.run) = now
      BY <1>2, <1>7, <2>1, <2>2, <3>1 DEF CountsFrom
    <3> QED BY <1>2, <1>3, <2>1, <2>2, <3>1, <3>2
  <2> QED BY <2>4, <2>5
<1>11. QuotaTypeOK'
  <2>1. /\ Append(P, now) \in Seq(0 .. now) /\ Len(Append(P, now)) <= MaxOrders
    <3>1. now \in 0 .. now
      BY <1>2
    <3>2. Append(P, now) \in Seq(0 .. now) /\ Len(Append(P, now)) = Len(P) + 1
      BY <1>4, <3>1, AppendProperties
    <3> QED BY <1>3, <1>4, <1>6, <3>2
  <2>2. /\ slots' \in [Markets -> Seq(0 .. now)]
        /\ \A n \in Markets : Len(slots'[n]) <= MaxOrders
    BY <1>1, <1>2, <2>1
  <2>3. last' \in [Markets -> {Never} \cup 0 .. now]
    BY <1>1, <1>2
  <2>4. task' \in [Tasks -> {Idle} \cup [pc : {"sign", "check"}, order : Decisions]]
    BY <1>1, <1>2, <1>7 DEF QuotaTypeOK
  <2> QED BY <1>1, <1>2, <2>2, <2>3, <2>4 DEF QuotaTypeOK
<1>12. OrdersOfTheirTime'
  <2>1. \A n \in Markets : \A p \in Decided(n)' :
          p.at <= p.decided /\ p.decided <= p.at + MaxAge /\ p.decided <= now /\ p.run <= run
    <3> SUFFICES ASSUME NEW n \in Markets, NEW p \in Decided(n)'
                 PROVE p.at <= p.decided /\ p.decided <= p.at + MaxAge /\ p.decided <= now /\ p.run <= run
      OBVIOUS
    <3>1. CASE p \in Decided(n)
      BY <1>2, <3>1, AgesOfDecided
    <3>2. CASE p \notin Decided(n)
      <4>1. p = o
        BY <1>9, <3>2
      <4> QED BY <1>2, <1>7, <4>1
    <3> QED BY <3>1, <3>2
  <2>2. \A u \in Working' : task'[u].pc = "check" => task'[u].order \in journal
    BY <1>2, <1>8 DEF OrdersOfTheirTime
  <2> QED BY <1>1, <1>2, <2>1, <2>2 DEF OrdersOfTheirTime
<1>13. Spaced'
  <2> SUFFICES ASSUME NEW n \in Markets, NEW p \in Decided(n)', NEW q \in Decided(n)', p # q
               PROVE  Earlier(p, q) \/ Earlier(q, p)
    BY DEF Spaced, Earlier, CountsFrom
  <2>1. CASE p \in Decided(n) /\ q \in Decided(n)
    BY <2>1 DEF QuotaInv, Spaced
  <2>2. CASE ~(p \in Decided(n) /\ q \in Decided(n))
    <3>1. n = m /\ ((p = o /\ q \in Decided(m)) \/ (q = o /\ p \in Decided(m)))
      BY <1>9, <2>2
    <3> QED BY <1>10, <3>1
  <2> QED BY <2>1, <2>2
<1>14. WithinQuota'
  <2> SUFFICES ASSUME NEW n \in Markets, NEW q \in Decided(n)'
               PROVE  IsFiniteSet(Counted(n, q)') /\ Cardinality(Counted(n, q)') <= MaxOrders
    BY DEF WithinQuota
  <2>1. Counted(n, q)' = {p \in Decided(n)' : /\ p = q \/ Earlier(p, q)
                                              /\ q.decided - CountsFrom(p, q.run) < Window}
    BY DEF Counted, Earlier, CountsFrom
  <2>2. CASE q \in Decided(n)
    <3>1. Counted(n, q)' = Counted(n, q)
      BY <1>9, <1>10, <2>1, <2>2 DEF Counted
    <3> QED BY <2>2, <3>1 DEF QuotaInv, WithinQuota
  <2>3. CASE q \notin Decided(n)
    <3>1. n = m /\ q = o
      BY <1>9, <2>3
    <3>2. Counted(n, q)' \subseteq L \cup {o}
      <4> SUFFICES ASSUME NEW p \in Counted(n, q)', p # o PROVE p \in L
        OBVIOUS
      <4>1. p \in Decided(m) /\ now - CountsFrom(p, run) < Window
        BY <1>7, <1>9, <2>1, <3>1
      <4>2. CountsFrom(p, run) \in 0 .. now
        BY <1>2, <4>1, AgesOfDecided
      <4>3. ~Lapsed(CountsFrom(p, run))
        BY <1>2, <1>3, <4>1, <4>2 DEF Lapsed
      <4> QED BY <4>1, <4>3
    <3> HIDE DEF L
    <3>3. IsFiniteSet(L \cup {o}) /\ Cardinality(L \cup {o}) <= Cardinality(L) + 1
      <4>1. /\ IsFiniteSet(L \cup {o})
            /\ Cardinality(L \cup {o}) = IF o \in L THEN Cardinality(L) ELSE Cardinality(L) + 1
        BY <1>5, FS_AddElement
      <4> QED BY <1>5, <4>1
    <3>4. /\ IsFiniteSet(Counted(n, q)')
          /\ Cardinality(Counted(n, q)') <= Cardinality(L \cup {o})
      BY <3>2, <3>3, FS_Subset
    <3>5. Cardinality(Counted(n, q)') \in Nat /\ Cardinality(L \cup {o}) \in Nat
      BY <3>3, <3>4, FS_CardinalityType
    <3>6. Cardinality(Counted(n, q)') <= MaxOrders
      BY <1>3, <1>4, <1>5, <1>6, <3>3, <3>4, <3>5
    <3> QED BY <3>4, <3>6
  <2> QED BY <2>2, <2>3
<1>15. /\ slots'[m] = Append(P, now) /\ last'[m] = now
       /\ \A n \in Markets : n # m => slots'[n] = slots[n] /\ last'[n] = last[n]
  BY <1>1, <1>2
<1>16. /\ Len(slots'[m]) = Len(P) + 1 /\ DOMAIN slots'[m] = 1 .. Len(P) + 1
       /\ DOMAIN P = 1 .. Len(P)
       /\ \A k \in 1 .. Len(P) : slots'[m][k] = P[k] /\ P[k] \in 0 .. now
       /\ slots'[m][Len(P) + 1] = now
  <2>1. now \in 0 .. now
    BY <1>2
  <2>2. DOMAIN P = 1 .. Len(P) /\ \A k \in 1 .. Len(P) : P[k] \in 0 .. now
    BY <1>4, ElementOfSeq, LenProperties
  <2>3. /\ Append(P, now) \in Seq(0 .. now) /\ Len(Append(P, now)) = Len(P) + 1
        /\ \A k \in 1 .. Len(P) : Append(P, now)[k] = P[k]
        /\ Append(P, now)[Len(P) + 1] = now
    BY <1>4, <2>1, AppendProperties
  <2>4. DOMAIN Append(P, now) = 1 .. Len(P) + 1
    BY <2>3, LenProperties
  <2> QED BY <1>15, <2>2, <2>3, <2>4
<1>17. Remembered'
  <2> SUFFICES ASSUME NEW n \in Markets, NEW q \in Decided(n)', ~Lapsed(CountsFrom(q, run))
               PROVE  LET c == CountsFrom(q, run)
                      IN  IF n \in known
                          THEN /\ \E k \in DOMAIN slots'[n] : slots'[n][k] = c
                               /\ c <= last'[n]
                          ELSE \E k \in DOMAIN restore[n] : restore[n][k] = c
    <3>1. \A n \in Markets : \A q \in Decided(n)' :
            CountsFrom(q, run)' = CountsFrom(q, run)
            /\ (Lapsed(CountsFrom(q, run))' <=> Lapsed(CountsFrom(q, run)))
      BY <1>1 DEF CountsFrom, Lapsed
    <3> QED BY <1>1, <3>1 DEF Remembered
  <2>1. CASE n # m
    BY <1>1, <1>9, <1>15, <2>1 DEF QuotaInv, Remembered
  <2>2. CASE n = m /\ q = o
    <3>1. CountsFrom(o, run) = now
      BY <1>7 DEF CountsFrom
    <3>2. Len(P) + 1 \in DOMAIN slots'[m]
      BY <1>4, <1>16
    <3>3. now <= last'[m]
      BY <1>2, <1>15
    <3> QED BY <1>1, <1>16, <2>2, <3>1, <3>2, <3>3
  <2>3. CASE n = m /\ q # o
    <3>1. q \in Decided(m)
      BY <1>9, <2>3
    <3>2. CountsFrom(q, run) <= now
      BY <1>2, <3>1, AgesOfDecided
    <3>3. PICK k \in DOMAIN P : P[k] = CountsFrom(q, run)
      BY <1>5, <3>1
    <3>4. k \in DOMAIN slots'[m] /\ slots'[m][k] = CountsFrom(q, run)
      BY <1>4, <1>16, <3>3
    <3>5. CountsFrom(q, run) <= last'[m]
      BY <1>15, <3>2
    <3> QED BY <1>1, <2>3, <3>4, <3>5
  <2> QED BY <2>1, <2>2, <2>3
<1>18. WaitingIsRecorded'
  BY <1>1 DEF QuotaInv, WaitingIsRecorded
<1>19. UnknownIsUntouched'
  BY <1>1, <1>9, <1>15 DEF QuotaInv, UnknownIsUntouched
<1>20. \A n \in Markets : Ascending(slots[n])'
  <2> SUFFICES ASSUME NEW n \in Markets PROVE Ascending(slots'[n])
    BY DEF Ascending
  <2>1. CASE n # m
    BY <1>2, <1>15, <2>1
  <2>2. CASE n = m
    <3> SUFFICES ASSUME NEW j \in 1 .. Len(P) + 1, NEW k \in 1 .. Len(P) + 1, j < k
                 PROVE  slots'[m][j] <= slots'[m][k]
      BY <1>16, <2>2 DEF Ascending
    <3>1. j \in 1 .. Len(P) /\ slots'[m][j] = P[j] /\ P[j] \in 0 .. now
      BY <1>4, <1>16
    <3>2. CASE k = Len(P) + 1
      BY <1>2, <1>16, <3>1, <3>2
    <3>3. CASE k # Len(P) + 1
      <4>1. k \in 1 .. Len(P) /\ slots'[m][k] = P[k]
        BY <1>4, <1>16, <3>3
      <4>2. P[j] <= P[k]
        BY <1>4, <1>16, <3>1, <4>1 DEF Ascending
      <4> QED BY <3>1, <4>1, <4>2
    <3> QED BY <3>2, <3>3
  <2> QED BY <2>1, <2>2
<1> QED BY <1>11, <1>12, <1>13, <1>14, <1>17, <1>18, <1>19, <1>20 DEF QuotaInv

-----------------------------------------------------------------------------
(* What follows *)

\* Of two orders of a market the one decided first is the earlier one.
LEMMA DecidedFirst ==
  ASSUME QuotaInv, NEW m \in Markets, NEW o \in Submitted(m), NEW p \in Submitted(m),
         o # p, p.decided <= o.decided
  PROVE  Earlier(p, o)
<1>1. o \in Decided(m) /\ p \in Decided(m)
  BY DEF QuotaInv, QuotaTypeOK, Submitted, Decided
<1>2. /\ o \in Decisions /\ o.at <= o.decided /\ o.decided <= o.at + MaxAge
      /\ p \in Decisions
  BY <1>1, AgesOfDecided DEF QuotaInv
<1>3. /\ o.at \in Nat /\ o.decided \in Nat /\ o.run \in Nat
      /\ p.at \in Nat /\ p.decided \in Nat /\ p.run \in Nat
  BY <1>2, DecisionFields
<1>4. Cooldown \in Nat /\ MaxAge \in Nat /\ MaxAge < Cooldown
  BY QuotaAssumption
<1>5. CountsFrom(o, p.run) \in Nat /\ o.decided <= CountsFrom(o, p.run) + MaxAge
  BY <1>2, <1>3, <1>4 DEF CountsFrom
<1>6. ~Earlier(o, p)
  BY <1>3, <1>4, <1>5 DEF Earlier
<1> QED BY <1>1, <1>6 DEF QuotaInv, Spaced

\* The time another life counts an order from is MaxAge before its decision at most.
LEMMA LossCovers ==
  ASSUME QuotaInv, NEW m \in Markets, NEW o \in Submitted(m), NEW p \in Submitted(m)
  PROVE  /\ Loss(o, p) \in Int /\ CountsFrom(p, o.run) \in Int
         /\ o.decided \in Int /\ p.decided \in Int
         /\ CountsFrom(p, o.run) <= p.decided
         /\ p.decided <= CountsFrom(p, o.run) + Loss(o, p)
<1>1. o \in Decided(m) /\ p \in Decided(m)
  BY DEF QuotaInv, QuotaTypeOK, Submitted, Decided
<1>2. o \in Decisions /\ p \in Decisions /\ p.at <= p.decided /\ p.decided <= p.at + MaxAge
  BY <1>1, AgesOfDecided DEF QuotaInv
<1>3. /\ o.decided \in Nat /\ o.run \in Nat
      /\ p.at \in Nat /\ p.decided \in Nat /\ p.run \in Nat /\ MaxAge \in Nat
  BY <1>2, DecisionFields, QuotaAssumption
<1>4. CASE o.run = p.run
  BY <1>3, <1>4 DEF Loss, CountsFrom
<1>5. CASE o.run # p.run
  BY <1>2, <1>3, <1>5 DEF Loss, CountsFrom
<1> QED BY <1>4, <1>5

LEMMA QuotaFromInv == QuotaInv => QuotaKept
<1> SUFFICES ASSUME QuotaInv, NEW m \in Markets, NEW o \in Submitted(m)
             PROVE  LET C == {p \in Submitted(m) :
                                /\ p.decided <= o.decided
                                /\ o.decided - p.decided < Window - Loss(o, p)}
                    IN  Cardinality(C) <= MaxOrders
  BY DEF QuotaKept
<1> DEFINE C == {p \in Submitted(m) : /\ p.decided <= o.decided
                                      /\ o.decided - p.decided < Window - Loss(o, p)}
<1>1. o \in Decided(m) /\ \A p \in Submitted(m) : p \in Decided(m)
  BY DEF QuotaInv, QuotaTypeOK, Submitted, Decided
<1>2. Window \in Nat /\ MaxOrders \in Nat
  BY QuotaAssumption
<1>3. C \subseteq Counted(m, o)
  <2> SUFFICES ASSUME NEW p \in Submitted(m), p.decided <= o.decided,
                      o.decided - p.decided < Window - Loss(o, p)
               PROVE  p \in Counted(m, o)
    OBVIOUS
  <2>1. p = o \/ Earlier(p, o)
    BY DecidedFirst
  <2>2. o.decided - CountsFrom(p, o.run) < Window
    BY <1>2, LossCovers
  <2> QED BY <1>1, <2>1, <2>2 DEF Counted
<1>4. IsFiniteSet(Counted(m, o)) /\ Cardinality(Counted(m, o)) <= MaxOrders
  BY <1>1 DEF QuotaInv, WithinQuota
<1> HIDE DEF C
<1>5. IsFiniteSet(C) /\ Cardinality(C) <= Cardinality(Counted(m, o))
  BY <1>3, <1>4, FS_Subset
<1>6. Cardinality(C) \in Nat /\ Cardinality(Counted(m, o)) \in Nat
  BY <1>4, <1>5, FS_CardinalityType
<1> QED BY <1>2, <1>4, <1>5, <1>6 DEF C

LEMMA CooldownFromInv == QuotaInv => CooldownKept
<1> SUFFICES ASSUME QuotaInv, NEW m \in Markets, NEW o \in Submitted(m),
                    NEW p \in Submitted(m), o # p, o.decided >= p.decided
             PROVE  o.decided - p.decided >= Cooldown - Loss(o, p)
  BY DEF CooldownKept
<1>1. /\ Loss(o, p) \in Int /\ CountsFrom(p, o.run) \in Int
      /\ o.decided \in Int /\ p.decided \in Int
      /\ p.decided <= CountsFrom(p, o.run) + Loss(o, p)
  BY LossCovers
<1>2. Cooldown \in Nat
  BY QuotaAssumption
<1>3. Earlier(p, o)
  <2>1. p.decided <= o.decided
    BY <1>1
  <2> QED BY <2>1, DecidedFirst
<1>4. o.decided - CountsFrom(p, o.run) >= Cooldown
  BY <1>3 DEF Earlier
<1> QED BY <1>1, <1>2, <1>4

LEMMA QuotaStep == QuotaInv /\ [QuotaNext]_quotaVars => QuotaInv'
<1> SUFFICES ASSUME QuotaInv, [QuotaNext]_quotaVars PROVE QuotaInv'
  OBVIOUS
<1>1. ASSUME NEW m \in Markets, Fetch(m) PROVE QuotaInv'
  BY <1>1, FetchInv
<1>2. ASSUME NEW m \in Markets, Refuse(m) PROVE QuotaInv'
  BY <1>2, RefuseInv
<1>3. ASSUME NEW t \in Tasks, Work(t) PROVE QuotaInv'
  <2>1. ASSUME NEW m \in Markets, NEW age \in 0 .. MaxAge, age <= now, Decide(t, m, age)
        PROVE  QuotaInv'
    BY <2>1, DecideInv
  <2>2. CASE Abandon(t) \/ Submit(t) \/ Block(t)
    BY <2>2, LeaveInv
  <2>3. CASE Record(t) \/ RecordFails(t)
    BY <2>3, RecordInv
  <2> QED BY <1>3, <2>1, <2>2, <2>3 DEF Work
<1>4. CASE Start
  BY <1>4, StartInv
<1>5. CASE Crash
  BY <1>5, CrashInv
<1>6. CASE Tick
  BY <1>6, TickInv
<1>7. CASE UNCHANGED quotaVars
  <2>1. UNCHANGED <<now, journal, sent, run, up, memory, task>>
    BY <1>7 DEF quotaVars
  <2>2. QuotaTypeOK' /\ Working' = Working /\ \A m \in Markets : Decided(m)' = Decided(m)
    BY <2>1 DEF QuotaInv, QuotaTypeOK, memory, Working, Decided
  <2> QED BY <2>1, <2>2, KeepMemory DEF QuotaInv, OrdersOfTheirTime
<1> QED BY <1>1, <1>2, <1>3, <1>4, <1>5, <1>6, <1>7 DEF QuotaNext

\* The slots and the last times stay a memory of all that counts: every decided
\* order within the Window has its slot, or waits in data.restore for its market
\* (Reservations, restore_orders); decisions are apart and within the quota.
THEOREM QuotaInvariant == QuotaSpec => []QuotaInv
BY QuotaStart, QuotaStep, PTL DEF QuotaSpec

\* The quota's state keeps its shape; no market has more than MaxOrders slots.
THEOREM QuotaTypeCorrect == QuotaSpec => []QuotaTypeOK
<1>1. QuotaInv => QuotaTypeOK
  BY DEF QuotaInv
<1> QED BY <1>1, QuotaInvariant, PTL

\* No order is submitted beyond policy.max_orders_per_market in the three hours
\* before its decision, restarts included (`decide`, `restore_orders`).
THEOREM QuotaIsKept == QuotaSpec => []QuotaKept
BY QuotaInvariant, QuotaFromInv, PTL

\* Two submitted orders of a market are a cooldown apart (`decide`), less the
\* age of a message when a restart came between.
THEOREM CooldownIsKept == QuotaSpec => []CooldownKept
BY QuotaInvariant, CooldownFromInv, PTL

\* Purging the front of a market's slots leaves none that lapsed (`decide`).
THEOREM SlotsAlwaysLapse == QuotaSpec => []SlotsLapse
<1>1. QuotaInv => SlotsLapse
  BY SlotsPurged DEF SlotsLapse
<1> QED BY <1>1, QuotaInvariant, PTL

-----------------------------------------------------------------------------
(* The proposal cache *)

USE DEF Caches, Statuses

-----------------------------------------------------------------------------
(* The inductive invariant *)

\* What ended a round is remembered for good.
EndsAreProven == \A e \in heard : e.status # "proposed" => Proven(life, e.round)

\* Proof of an end is no older than the block of the proposal.
ProofsAreLate ==
  \A e \in Chain : e.status = "proposed" /\ Proven(life, e.round)
                     => e.at[1] <= life.terminals[e.round].at[1]

ProposedIsUnproven ==
  life.mark.status = "proposed" => \A k \in Named(life.mark) : ~Proven(life, k)

\* An event's mark carries its event, and proof if its round has ended; a
\* row's mark has no index.
MarkIsOfChain ==
  IF life.mark.round = NoRound THEN life.mark.at[2] = 0
  ELSE /\ \E e \in Chain : life.mark = MarkOf(e)
       /\ life.mark.status # "proposed" => Proven(life, life.mark.round)

NoProposalIsPassed ==
  \A e \in recent : e.status = "proposed" /\ ~Proven(life, e.round) =>
    life.mark.status # "none" /\ ~Before(life.mark.at, e.at)

SettledAgrees ==
  life.settled = {k \in Rounds : life.terminals[k].status = "settled"}

\* A disputed round's proof is its dispute; a settled one's disputes are over.
ProofsAreFounded ==
  \A k \in Rounds :
    /\ life.terminals[k].status = "disputed" =>
         \E e \in heard : /\ e.status = "disputed" /\ e.round = k
                          /\ e.at = life.terminals[k].at
    /\ life.terminals[k].status = "settled" =>
         \A e \in Chain : e.status = "disputed" /\ e.round = k => Released(e)

LifeInv ==
  /\ LifeTypeOK
  /\ EndsAreProven /\ ProofsAreLate /\ ProposedIsUnproven /\ MarkIsOfChain
  /\ NoProposalIsPassed /\ SettledAgrees /\ ProofsAreFounded
  /\ DisputeBlocks

-----------------------------------------------------------------------------
(* Positions and what the database had *)

\* What was released once stays released.
LEMMA ReleaseIsFinal ==
  ASSUME LifeTypeOK, heard' \in SUBSET Chain, told' \in Nat \X Nat,
         heard \subseteq heard', told' = told \/ Before(told, told'),
         NEW e \in Chain, Released(e)
  PROVE  Released(e)'
<1>1. UpTo(told) \subseteq UpTo(told')
  <2> SUFFICES ASSUME NEW f \in Chain, ~Before(told, f.at)
               PROVE  ~Before(told', f.at)
    BY DEF UpTo
  <2>1. told \in Nat \X Nat /\ f.at \in Nat \X Nat
    BY EventFields DEF LifeTypeOK
  <2> QED
    BY <2>1, OrderOfPositions
<1>2. UpTo(told)' = UpTo(told')
  BY DEF UpTo
<1> QED
  BY <1>1, <1>2 DEF Released

-----------------------------------------------------------------------------
(* Hear *)

LEMMA HearInv ==
  ASSUME LifeInv, NEW e \in Chain, Hear(e)
  PROVE  LifeInv'
<1> DEFINE m == life.mark
           t == life.terminals
           changed == Changes(life, e)
           ends == e.status # "proposed" /\ ~Outdated(life, e)
<1>1. LifeTypeOK /\ life' = Apply(life, e)
      /\ heard' = heard \cup {e} /\ recent' = recent \cup {e} /\ told' = told
  BY DEF LifeInv, Hear
<1>2. changed <=> Changes(life, e)
  OBVIOUS
<1>3. ends <=> e.status # "proposed" /\ ~Outdated(life, e)
  OBVIOUS
<1>4. /\ e.status \in {"proposed", "disputed", "settled"} /\ e.round \in Rounds
      /\ e.round # NoRound /\ RequestOf[e.round] \in Requests
      /\ e.at \in Nat \X Nat /\ e.at[1] \in Nat \ {0} /\ e.at[2] \in Nat
  BY EventFields
<1>5. /\ life'.mark = IF changed THEN MarkOf(e) ELSE m
      /\ life'.needs_refresh = TRUE /\ Whole(life')
      /\ life'.terminals = IF ends THEN [t EXCEPT ![e.round] = [status |-> e.status, at |-> e.at]]
                           ELSE t
      /\ life'.settled = IF ends /\ e.status = "settled" THEN life.settled \cup {e.round}
                         ELSE life.settled
      /\ life'.disputes = IF ends /\ e.status = "settled" THEN life.disputes \ {e.round}
                          ELSE IF ends /\ e.round \notin life.settled
                               THEN life.disputes \cup {e.round} ELSE life.disputes
  <2> HIDE DEF Caches
  <2>1. life \in Caches
    BY <1>1 DEF LifeTypeOK
  <2> QED
    BY <1>1, <2>1, ApplyFields DEF Ends
<1> HIDE DEF changed, ends
<1>6. /\ t \in [Rounds -> [status : {"none", "disputed", "settled"}, at : Nat \X Nat]]
      /\ life.settled \subseteq Rounds /\ life.disputes \subseteq Rounds
      /\ m \in [status : {"none", "proposed", "disputed", "settled"},
                request : Requests \cup {NoRequest},
                round : Rounds \cup {NoRound}, at : Nat \X Nat]
      /\ heard \subseteq Chain /\ recent \subseteq heard /\ told \in Nat \X Nat
      /\ \A k \in life.disputes : t[k].status = "disputed"
  BY <1>1 DEF LifeTypeOK
<1>7. /\ \A k \in Rounds : Proven(life, k) <=> t[k].status # "none"
      /\ \A k \in Rounds : Proven(life, k)' <=> life'.terminals[k].status # "none"
      /\ \A k \in Rounds : Proven(life, k) => Proven(life, k)'
  BY <1>4, <1>5, <1>6 DEF Proven
<1>8. ends /\ e.round \in life.settled => FALSE
  BY <1>3, <1>4, <1>6, <1>7 DEF Outdated, LifeInv, SettledAgrees
<1>9. LifeTypeOK'
  <2>1. MarkOf(e) \in [status : {"none", "proposed", "disputed", "settled"},
                request : Requests \cup {NoRequest},
                round : Rounds \cup {NoRound}, at : Nat \X Nat]
    BY <1>4 DEF MarkOf
  <2>2. life'.terminals \in [Rounds -> [status : {"none", "disputed", "settled"}, at : Nat \X Nat]]
    BY <1>3, <1>4, <1>5, <1>6
  <2>3. \A k \in life'.disputes : life'.terminals[k].status = "disputed"
    BY <1>3, <1>4, <1>5, <1>6, <1>8
  <2>4. life' \in [mark : [status : {"none", "proposed", "disputed", "settled"},
                       request : Requests \cup {NoRequest},
                       round : Rounds \cup {NoRound}, at : Nat \X Nat],
               terminals : [Rounds -> [status : {"none", "disputed", "settled"},
                                       at : Nat \X Nat]],
               settled : SUBSET Rounds, disputes : SUBSET Rounds,
               needs_refresh : BOOLEAN]
    <3>1. life'.settled \subseteq Rounds /\ life'.disputes \subseteq Rounds
      BY <1>4, <1>5, <1>6
    <3>2. life'.mark \in [status : {"none", "proposed", "disputed", "settled"},
                          request : Requests \cup {NoRequest},
                          round : Rounds \cup {NoRound}, at : Nat \X Nat]
      BY <1>5, <1>6, <2>1
    <3> QED
      BY <1>5, <2>2, <3>1, <3>2 DEF Whole
  <2> QED
    BY <1>1, <1>6, <2>3, <2>4 DEF LifeTypeOK
<1>10. EndsAreProven'
  <2>1. e.status # "proposed" => Proven(life, e.round)'
    BY <1>3, <1>4, <1>5, <1>6, <1>7 DEF Outdated
  <2> QED
    BY <1>1, <1>6, <1>7, <2>1, EventFields DEF LifeInv, EndsAreProven
<1>11. ProofsAreLate'
  <2> SUFFICES ASSUME NEW f \in Chain, f.status = "proposed", Proven(life, f.round)'
               PROVE  f.at[1] <= life'.terminals[f.round].at[1]
    BY DEF ProofsAreLate
  <2>1. CASE ends /\ f.round = e.round
    <3>1. Before(f.at, e.at)
      BY <1>3, <2>1, ChainAssumption DEF ChainIsConsistent
    <3> QED
      BY <1>4, <1>5, <1>6, <2>1, <3>1, EventFields, OrderOfPositions
  <2>2. CASE ~(ends /\ f.round = e.round)
    BY <1>4, <1>5, <1>6, <1>7, <2>2, EventFields DEF LifeInv, ProofsAreLate
  <2> QED
    BY <2>1, <2>2
<1>12. ProposedIsUnproven'
  <2> SUFFICES ASSUME life'.mark.status = "proposed", NEW k \in Named(life'.mark),
                      Proven(life, k)'
               PROVE  FALSE
    BY DEF ProposedIsUnproven, Named
  <2>1. CASE changed
    <3>1. e.status = "proposed" /\ k = e.round
      BY <1>4, <1>5, <2>1 DEF MarkOf, Named
    <3>2. ~Proven(life, e.round) /\ ~ends
      BY <1>2, <1>3, <2>1, <3>1 DEF Changes
    <3> QED
      BY <1>4, <1>5, <1>7, <3>1, <3>2
  <2>2. CASE ~changed
    <3>1. m.status = "proposed" /\ k \in Named(m) /\ ~Proven(life, k)
      BY <1>5, <2>2 DEF LifeInv, ProposedIsUnproven
    <3>2. PICK p \in Chain : /\ p.status = "proposed" /\ p.round = k
                             /\ m.request = RequestOf[p.round]
                             /\ m.round \in {NoRound, p.round}
                             /\ ~Before(p.at, m.at)
      <4>1. CASE m.round = NoRound
        <5>1. PICK p \in Chain : /\ p.status = "proposed" /\ p.round = k
                                 /\ m.request = RequestOf[p.round]
                                 /\ p.at[1] = m.at[1]
          BY <3>1, <4>1 DEF Named
        <5>2. m.at[2] = 0 /\ m.at[1] \in Nat /\ p.at[1] \in Nat /\ p.at[2] \in Nat
          BY <1>6, <4>1, EventFields DEF LifeInv, MarkIsOfChain
        <5> QED
          BY <4>1, <5>1, <5>2 DEF Before
      <4>2. CASE m.round # NoRound
        <5>1. PICK p \in Chain : m = MarkOf(p)
          BY <4>2 DEF LifeInv, MarkIsOfChain
        <5>2. p.status = "proposed" /\ p.round = k /\ p.at = m.at
              /\ m.request = RequestOf[p.round] /\ m.round = p.round
          BY <3>1, <4>2, <5>1 DEF MarkOf, Named
        <5> QED
          BY <5>2, EventFields, OrderOfPositions
      <4> QED
        BY <4>1, <4>2
    <3>3. k \in Rounds
      BY <3>2, EventFields
    <3>4. ends /\ k = e.round
      BY <1>4, <1>5, <1>6, <1>7, <3>1, <3>3
    <3>5. e.status # "proposed" /\ Before(p.at, e.at)
      BY <1>3, <3>2, <3>4, ChainAssumption DEF ChainIsConsistent
    <3>6. Before(m.at, e.at)
      BY <1>4, <1>6, <3>2, <3>5, EventFields, OrderOfPositions
    <3>7. changed
      BY <1>2, <1>3, <3>2, <3>4, <3>5, <3>6 DEF Changes, Supersedes
    <3> QED
      BY <2>2, <3>7
  <2> QED
    BY <2>1, <2>2
<1>13. MarkIsOfChain'
  <2>1. CASE changed
    <3>1. life'.mark = MarkOf(e) /\ life'.mark.round = e.round
          /\ life'.mark.status = e.status
      BY <1>5, <2>1 DEF MarkOf
    <3>2. e.status # "proposed" => Proven(life, e.round)'
      BY <1>2, <1>3, <1>4, <1>5, <1>6, <1>7, <2>1 DEF Changes
    <3> QED
      BY <1>4, <3>1, <3>2 DEF MarkIsOfChain
  <2>2. CASE ~changed
    <3>1. m.round # NoRound => m.round \in Rounds
      BY <1>6
    <3> QED
      BY <1>5, <1>7, <2>2, <3>1 DEF LifeInv, MarkIsOfChain
  <2> QED
    BY <2>1, <2>2
<1>14. NoProposalIsPassed'
  <2> SUFFICES ASSUME NEW f \in recent', f.status = "proposed", ~Proven(life, f.round)'
               PROVE  life'.mark.status # "none" /\ ~Before(life'.mark.at, f.at)
    BY DEF NoProposalIsPassed
  <2>1. f \in Chain /\ ~Proven(life, f.round)
    BY <1>1, <1>6, <1>7, EventFields
  <2>2. f.at \in Nat \X Nat /\ f.round \in Rounds
    BY <2>1, EventFields
  <2>3. CASE changed
    <3>1. life'.mark.at = e.at /\ life'.mark.status = e.status
          /\ (m.status # "none" => Before(m.at, e.at))
      BY <1>2, <1>5, <2>3 DEF MarkOf, Changes, Supersedes
    <3>2. f \in recent => m.status # "none" /\ ~Before(m.at, f.at)
      BY <2>1 DEF LifeInv, NoProposalIsPassed
    <3>3. f \in recent \/ f = e
      BY <1>1
    <3>4. m.at \in Nat \X Nat
      BY <1>6
    <3> QED
      BY <1>4, <2>2, <3>1, <3>2, <3>3, <3>4, OrderOfPositions
  <2>4. CASE ~changed /\ f \in recent
    BY <1>5, <2>1, <2>4 DEF LifeInv, NoProposalIsPassed
  <2>5. CASE ~changed /\ f = e
    <3>1. ~Supersedes(e, m)
      BY <1>2, <2>1, <2>5 DEF Changes, Outdated
    <3>2. m.status # "none" /\ (~Before(m.at, e.at) \/ (m.status # "proposed" /\ m.round = e.round))
      BY <2>5, <3>1 DEF Supersedes
    <3>3. m.status # "proposed" /\ m.round = e.round => Proven(life, e.round)
      BY <1>4 DEF LifeInv, MarkIsOfChain
    <3> QED
      BY <1>5, <2>1, <2>5, <3>2, <3>3
  <2> QED
    BY <1>1, <2>3, <2>4, <2>5
<1>15. SettledAgrees'
  BY <1>3, <1>4, <1>5, <1>6, <1>8 DEF LifeInv, SettledAgrees
<1>16. \A f \in Chain : Released(f) => Released(f)'
  BY <1>1, <1>6, ReleaseIsFinal
<1>17. ProofsAreFounded'
  <2> SUFFICES ASSUME NEW k \in Rounds
               PROVE  /\ life'.terminals[k].status = "disputed" =>
                           \E f \in heard' : /\ f.status = "disputed" /\ f.round = k
                                             /\ f.at = life'.terminals[k].at
                      /\ life'.terminals[k].status = "settled" =>
                           \A f \in Chain : f.status = "disputed" /\ f.round = k
                                              => Released(f)'
    BY DEF ProofsAreFounded
  <2>1. CASE ends /\ k = e.round
    BY <1>1, <1>4, <1>5, <1>6, <2>1 DEF Released
  <2>2. CASE ~(ends /\ k = e.round)
    <3>1. life'.terminals[k] = t[k]
      BY <1>4, <1>5, <1>6, <2>2
    <3> QED
      BY <1>1, <1>16, <3>1 DEF LifeInv, ProofsAreFounded
  <2> QED
    BY <2>1, <2>2
<1>18. DisputeBlocks'
  <2> SUFFICES ASSUME NEW f \in heard', f.status = "disputed"
               PROVE  f.round \in life'.disputes \/ Released(f)'
    BY DEF DisputeBlocks
  <2>1. f \in Chain /\ f.round \in Rounds
    BY <1>1, <1>6, EventFields
  <2>2. CASE f \in heard
    <3>1. f.round \in life.disputes \/ Released(f)
      BY <2>2 DEF LifeInv, DisputeBlocks
    <3>2. f.round \in life.disputes /\ f.round \notin life'.disputes
            => e.status = "settled" /\ e.round = f.round
      BY <1>5
    <3>3. e.status = "settled" /\ e.round = f.round => Released(f)'
      BY <1>1 DEF Released
    <3> QED
      BY <1>16, <2>1, <3>1, <3>2, <3>3
  <2>3. CASE f = e /\ ends
    BY <1>5, <1>8, <2>3
  <2>4. CASE f = e /\ ~ends
    <3>1. Proven(life, e.round)
      BY <1>3, <2>4 DEF Outdated
    <3>2. CASE t[e.round].status = "settled"
      BY <1>4, <1>16, <2>1, <2>4, <3>2 DEF LifeInv, ProofsAreFounded
    <3>3. CASE t[e.round].status = "disputed"
      <4>1. PICK g \in heard : g.status = "disputed" /\ g.round = e.round
        BY <1>4, <3>3 DEF LifeInv, ProofsAreFounded
      <4>2. g = e
        BY <1>6, <2>4, <4>1, ChainAssumption DEF ChainIsConsistent
      <4> QED
        BY <2>2, <2>4, <4>2
    <3> QED
      BY <1>4, <1>6, <1>7, <3>1, <3>2, <3>3
  <2> QED
    BY <1>1, <2>2, <2>3, <2>4
<1> QED
  BY <1>9, <1>10, <1>11, <1>12, <1>13, <1>14, <1>15, <1>17, <1>18 DEF LifeInv

-----------------------------------------------------------------------------
(* PrepareInputs, SyncContext *)

\* The rounds a settlement report reaches.
Reached(blocks) ==
  {k \in Rounds : Proven(life, k) /\ life.terminals[k].at[1] <= blocks[RequestOf[k]]}

\* What the rows of one fetch leave in the cache.
Absorbed(l, blocks, p) ==
  /\ Whole(l) /\ l.needs_refresh = life.needs_refresh
  /\ l.settled = life.settled \cup Reached(blocks)
  /\ l.disputes = life.disputes \ Reached(blocks)
  /\ l.terminals = [k \in Rounds |->
                      IF k \in Reached(blocks)
                      THEN [status |-> "settled", at |-> <<blocks[RequestOf[k]], 0>>]
                      ELSE life.terminals[k]]
  /\ \/ l.mark = life.mark
     \/ \E row \in Rows(UpTo(p)) :
          /\ l.mark = [status |-> row.status, request |-> row.request,
                       round |-> NoRound, at |-> <<row.block, 0>>]
          /\ life.mark.status # "none" => ~(life.mark.at[1] >= row.block)
          /\ row.status = "proposed" =>
               \A k \in Rounds : RequestOf[k] = row.request /\ Proven(l, k)
                                   => ~(l.terminals[k].at[1] >= row.block)

LEMMA LearntIsAbsorbed ==
  ASSUME LifeTypeOK, NEW p, NEW l \in Learnt(p)
  PROVE  \E blocks \in SettledBlocks(UpTo(p)) : Absorbed(l, blocks, p)
<1>1. PICK blocks \in SettledBlocks(UpTo(p)) :
        \/ l = ReconcileSettles(life, blocks)
        \/ \E row \in Rows(UpTo(p)) : l = Seed(ReconcileSettles(life, blocks), row)
  BY DEF Learnt
<1> DEFINE learnt == ReconcileSettles(life, blocks)
           t == [k \in Rounds |->
                   IF k \in Reached(blocks)
                   THEN [status |-> "settled", at |-> <<blocks[RequestOf[k]], 0>>]
                   ELSE life.terminals[k]]
<1>2. /\ life.terminals \in [Rounds -> [status : {"none", "disputed", "settled"}, at : Nat \X Nat]]
      /\ Whole(life)
  BY DEF LifeTypeOK, Whole
<1>3. learnt = [life EXCEPT !.settled = life.settled \cup Reached(blocks),
                           !.disputes = life.disputes \ Reached(blocks),
                           !.terminals = t]
  BY <1>2 DEF ReconcileSettles, Reached
<1> HIDE DEF learnt, t
<1>4. learnt = [mark |-> life.mark, terminals |-> t,
               settled |-> life.settled \cup Reached(blocks),
               disputes |-> life.disputes \ Reached(blocks),
               needs_refresh |-> life.needs_refresh]
  BY <1>2, <1>3 DEF Whole
<1>5. /\ Whole(learnt) /\ learnt.mark = life.mark /\ learnt.terminals = t
      /\ learnt.needs_refresh = life.needs_refresh
      /\ learnt.settled = life.settled \cup Reached(blocks)
      /\ learnt.disputes = life.disputes \ Reached(blocks)
  BY <1>4 DEF Whole
<1>6. CASE l = learnt
  BY <1>5, <1>6 DEF Absorbed, t
<1>7. ASSUME NEW row \in Rows(UpTo(p)), l = Seed(learnt, row), l # learnt
      PROVE  Absorbed(l, blocks, p)
  <2> DEFINE mark == [status |-> row.status, request |-> row.request,
                      round |-> NoRound, at |-> <<row.block, 0>>]
  <2>1. /\ l = [learnt EXCEPT !.mark = mark]
        /\ ~(life.mark.status # "none" /\ life.mark.at[1] >= row.block)
        /\ row.status = "proposed" =>
             \A k \in Rounds : RequestOf[k] = row.request /\ Proven(learnt, k)
                                 => ~(learnt.terminals[k].at[1] >= row.block)
    BY <1>5, <1>7 DEF Seed
  <2> HIDE DEF mark
  <2>2. /\ l.mark = mark /\ l.terminals = learnt.terminals
        /\ l.settled = learnt.settled /\ l.disputes = learnt.disputes
        /\ l.needs_refresh = learnt.needs_refresh /\ Whole(l)
    BY <1>5, <2>1 DEF Whole
  <2>3. \A k \in Rounds : Proven(l, k) <=> Proven(learnt, k)
    BY <2>2 DEF Proven
  <2> QED
    BY <1>5, <2>1, <2>2, <2>3 DEF Absorbed, t, mark
<1> QED
  BY <1>1, <1>6, <1>7 DEF learnt

LEMMA AbsorbInv ==
  ASSUME LifeInv, NEW e \in Chain, NEW l, NEW blocks \in SettledBlocks(UpTo(e.at)),
         Absorbed(l, blocks, e.at), Remember(e.at),
         life'.mark = l.mark, life'.terminals = l.terminals,
         life'.settled = l.settled, life'.disputes = l.disputes,
         life'.needs_refresh \in BOOLEAN, Whole(life')
  PROVE  LifeInv'
<1> DEFINE m == life.mark
           t == life.terminals
           done == Reached(blocks)
<1>1. /\ t \in [Rounds -> [status : {"none", "disputed", "settled"}, at : Nat \X Nat]]
      /\ life.settled \subseteq Rounds /\ life.disputes \subseteq Rounds
      /\ m \in [status : {"none", "proposed", "disputed", "settled"},
                request : Requests \cup {NoRequest},
                round : Rounds \cup {NoRound}, at : Nat \X Nat]
      /\ heard \subseteq Chain /\ recent \subseteq heard /\ told \in Nat \X Nat
      /\ \A k \in life.disputes : t[k].status = "disputed"
      /\ LifeTypeOK
  BY DEF LifeInv, LifeTypeOK
<1>2. /\ heard' = heard /\ recent' = recent
      /\ told' \in Nat \X Nat /\ (told' = told \/ Before(told, told'))
      /\ ~Before(told', e.at)
  <2>1. e.at \in Nat \X Nat
    BY EventFields
  <2> QED
    BY <1>1, <2>1, OrderOfPositions DEF Remember
<1>3. \A k \in Rounds : /\ blocks[RequestOf[k]] \in Nat
                        /\ k \in done => /\ Proven(life, k)
                                         /\ t[k].at[1] <= blocks[RequestOf[k]]
  <2>1. blocks \in [Requests -> {0} \cup {f.at[1] : f \in UpTo(e.at)}]
    BY DEF SettledBlocks
  <2>2. \A f \in UpTo(e.at) : f.at[1] \in Nat
    BY EventFields DEF UpTo
  <2> QED
    BY <2>1, <2>2, ChainAssumption DEF Reached
<1>4. /\ done \subseteq Rounds
      /\ life'.settled = life.settled \cup done /\ life'.disputes = life.disputes \ done
      /\ life'.terminals = [k \in Rounds |->
           IF k \in done THEN [status |-> "settled", at |-> <<blocks[RequestOf[k]], 0>>]
           ELSE t[k]]
  BY DEF Absorbed, Reached
<1> HIDE DEF done
<1>18. \A k \in Rounds \ done : life'.terminals[k] = t[k]
  BY <1>4
<1>19. \A k \in Rounds : k \in done =>
         /\ life'.terminals[k].status = "settled"
         /\ life'.terminals[k].at = <<blocks[RequestOf[k]], 0>>
         /\ life'.terminals[k].at[1] = blocks[RequestOf[k]]
  BY <1>4
<1>20. life'.terminals \in [Rounds -> [status : {"none", "disputed", "settled"}, at : Nat \X Nat]]
  <2>1. \A k \in Rounds : k \in done =>
          [status |-> "settled", at |-> <<blocks[RequestOf[k]], 0>>]
            \in [status : {"none", "disputed", "settled"}, at : Nat \X Nat]
    BY <1>3
  <2> QED
    BY <1>1, <1>4, <2>1
<1>5. \A k \in Rounds : Proven(life, k)' <=> Proven(life, k)
  <2> SUFFICES ASSUME NEW k \in Rounds
               PROVE  life'.terminals[k].status # "none" <=> t[k].status # "none"
    BY DEF Proven
  <2>1. CASE k \in done
    <3>1. t[k].status # "none"
      BY <1>3, <2>1 DEF Proven
    <3>2. life'.terminals[k].status = "settled"
      BY <1>4, <1>18, <1>19, <1>20, <2>1
    <3> QED
      BY <3>1, <3>2
  <2>2. CASE k \notin done
    BY <1>4, <1>18, <1>19, <1>20, <2>2
  <2> QED
    BY <2>1, <2>2
<1>6. \/ life'.mark = m
      \/ \E row \in Rows(UpTo(e.at)) :
           /\ life'.mark = [status |-> row.status, request |-> row.request,
                            round |-> NoRound, at |-> <<row.block, 0>>]
           /\ m.status # "none" => ~(m.at[1] >= row.block)
           /\ row.status = "proposed" =>
                \A k \in Rounds : RequestOf[k] = row.request /\ Proven(life, k)'
                                    => ~(life'.terminals[k].at[1] >= row.block)
  BY DEF Absorbed, Proven
<1>7. \A row \in Rows(UpTo(e.at)) :
        /\ row.status \in {"proposed", "disputed", "settled"}
        /\ row.request \in Requests /\ row.block \in Nat
  BY EventFields DEF Rows, UpTo
<1>8. \A f \in Chain : Released(f) => Released(f)'
  BY <1>1, <1>2, ReleaseIsFinal
<1>9. LifeTypeOK'
  <2>1. life'.mark \in [status : {"none", "proposed", "disputed", "settled"},
                        request : Requests \cup {NoRequest},
                        round : Rounds \cup {NoRound}, at : Nat \X Nat]
    <3>1. CASE life'.mark = m
      BY <1>1, <3>1
    <3>2. ASSUME NEW row \in Rows(UpTo(e.at)),
                 life'.mark = [status |-> row.status, request |-> row.request,
                               round |-> NoRound, at |-> <<row.block, 0>>]
          PROVE  life'.mark \in [status : {"none", "proposed", "disputed", "settled"},
                                 request : Requests \cup {NoRequest},
                                 round : Rounds \cup {NoRound}, at : Nat \X Nat]
      <4>1. <<row.block, 0>> \in Nat \X Nat
        BY <1>7
      <4> QED
        BY <1>7, <3>2, <4>1
    <3> QED
      BY <1>6, <3>1, <3>2
  <2>2. life'.settled \subseteq Rounds /\ life'.disputes \subseteq Rounds
    BY <1>1, <1>4, <1>18, <1>19, <1>20
  <2>3. life' \in [mark : [status : {"none", "proposed", "disputed", "settled"},
                       request : Requests \cup {NoRequest},
                       round : Rounds \cup {NoRound}, at : Nat \X Nat],
               terminals : [Rounds -> [status : {"none", "disputed", "settled"},
                                       at : Nat \X Nat]],
               settled : SUBSET Rounds, disputes : SUBSET Rounds,
               needs_refresh : BOOLEAN]
    BY <1>4, <1>18, <1>19, <1>20, <2>1, <2>2 DEF Whole
  <2>4. \A k \in life'.disputes : life'.terminals[k].status = "disputed"
    BY <1>1, <1>4, <1>18, <1>19, <1>20
  <2> QED
    BY <1>1, <1>2, <2>3, <2>4 DEF LifeTypeOK
<1>10. EndsAreProven'
  BY <1>1, <1>2, <1>5, EventFields DEF LifeInv, EndsAreProven
<1>11. ProofsAreLate'
  <2> SUFFICES ASSUME NEW f \in Chain, f.status = "proposed", Proven(life, f.round)'
               PROVE  f.at[1] <= life'.terminals[f.round].at[1]
    BY DEF ProofsAreLate
  <2>1. /\ f.round \in Rounds /\ f.at[1] \in Nat
        /\ f.at[1] <= t[f.round].at[1] /\ t[f.round].at[1] \in Nat
    BY <1>1, <1>5, EventFields DEF LifeInv, ProofsAreLate
  <2>2. CASE f.round \in done
    <3>1. life'.terminals[f.round].at[1] = blocks[RequestOf[f.round]]
      BY <1>4, <1>18, <1>19, <1>20, <2>2
    <3> QED
      BY <1>3, <2>1, <2>2, <3>1
  <2>3. CASE f.round \notin done
    BY <1>4, <1>18, <1>19, <1>20, <2>1, <2>3
  <2> QED
    BY <2>2, <2>3
<1>12. ProposedIsUnproven'
  <2> SUFFICES ASSUME life'.mark.status = "proposed", NEW k \in Named(life'.mark),
                      Proven(life, k)'
               PROVE  FALSE
    BY DEF ProposedIsUnproven, Named
  <2>1. CASE life'.mark = m
    <3>1. k \in Rounds
      BY <1>1, <2>1, EventFields DEF Named
    <3> QED
      BY <1>5, <2>1, <3>1 DEF LifeInv, ProposedIsUnproven
  <2>2. CASE life'.mark # m
    <3>1. PICK row \in Rows(UpTo(e.at)) :
            /\ life'.mark = [status |-> row.status, request |-> row.request,
                             round |-> NoRound, at |-> <<row.block, 0>>]
            /\ row.status = "proposed" =>
                 \A j \in Rounds : RequestOf[j] = row.request /\ Proven(life, j)'
                                     => ~(life'.terminals[j].at[1] >= row.block)
      BY <1>6, <2>2
    <3>2. PICK f \in Chain : /\ f.status = "proposed" /\ f.round = k
                             /\ RequestOf[f.round] = row.request
                             /\ f.at[1] = row.block
      BY <3>1 DEF Named
    <3>3. k \in Rounds /\ f.at[1] \in Nat
      BY <3>2, EventFields
    <3>4. f.at[1] <= life'.terminals[k].at[1] /\ life'.terminals[k].at[1] \in Nat
      BY <1>4, <1>18, <1>19, <1>20, <1>11, <3>2, <3>3 DEF ProofsAreLate
    <3> QED
      BY <3>1, <3>2, <3>3, <3>4
  <2> QED
    BY <2>1, <2>2
<1>13. MarkIsOfChain'
  <2>1. CASE life'.mark = m
    <3>1. m.round # NoRound => m.round \in Rounds
      BY <1>1
    <3>2. MarkIsOfChain
      BY DEF LifeInv
    <3>3. CASE m.round = NoRound
      BY <2>1, <3>2, <3>3 DEF MarkIsOfChain
    <3>4. CASE m.round # NoRound
      <4>1. /\ \E f \in Chain : m = MarkOf(f)
            /\ m.status # "proposed" => Proven(life, m.round)
        BY <3>2, <3>4 DEF MarkIsOfChain
      <4>2. m.status # "proposed" => life'.terminals[m.round].status # "none"
        BY <1>5, <3>1, <3>4, <4>1 DEF Proven
      <4>3. m.status # "proposed" => Proven(life, life.mark.round)'
        BY <2>1, <4>2 DEF Proven
      <4>4. PICK f \in Chain : life'.mark = MarkOf(f)
        BY <2>1, <4>1
      <4>5. MarkOf(f)' = MarkOf(f)
        BY DEF MarkOf
      <4> QED
        BY <2>1, <3>4, <4>1, <4>3, <4>4, <4>5 DEF MarkIsOfChain
    <3> QED
      BY <3>3, <3>4
  <2>2. CASE life'.mark.round = NoRound /\ life'.mark.at[2] = 0
    BY <2>2 DEF MarkIsOfChain
  <2>3. ASSUME NEW row, life'.mark = [status |-> row.status, request |-> row.request,
                                      round |-> NoRound, at |-> <<row.block, 0>>]
        PROVE  life'.mark.round = NoRound /\ life'.mark.at[2] = 0
    BY <2>3
  <2> QED
    BY <1>6, <2>1, <2>2, <2>3
<1>14. NoProposalIsPassed'
  <2> SUFFICES ASSUME NEW f \in recent, f.status = "proposed", ~Proven(life, f.round)'
               PROVE  life'.mark.status # "none" /\ ~Before(life'.mark.at, f.at)
    BY <1>2 DEF NoProposalIsPassed
  <2>1. f \in Chain /\ f.round \in Rounds /\ f.at \in Nat \X Nat
    BY <1>1, EventFields
  <2>2. m.status # "none" /\ ~Before(m.at, f.at)
    BY <1>5, <2>1 DEF LifeInv, NoProposalIsPassed
  <2>3. CASE life'.mark # m
    <3>1. PICK row \in Rows(UpTo(e.at)) :
            /\ life'.mark = [status |-> row.status, request |-> row.request,
                             round |-> NoRound, at |-> <<row.block, 0>>]
            /\ ~(m.at[1] >= row.block)
      BY <1>6, <2>2, <2>3
    <3>2. life'.mark.status # "none" /\ life'.mark.at = <<row.block, 0>>
          /\ row.block \in Nat
      BY <1>7, <3>1
    <3>3. Before(m.at, life'.mark.at) /\ m.at \in Nat \X Nat
      BY <1>1, <3>1, <3>2 DEF Before
    <3> QED
      BY <2>1, <2>2, <3>2, <3>3, OrderOfPositions
  <2> QED
    BY <2>2, <2>3
<1>15. SettledAgrees'
  <2>1. life.settled = {k \in Rounds : t[k].status = "settled"}
    BY DEF LifeInv, SettledAgrees
  <2>2. \A k \in Rounds : life'.terminals[k].status = "settled"
                            <=> k \in done \/ t[k].status = "settled"
    BY <1>4, <1>18, <1>19, <1>20
  <2> QED
    BY <1>4, <1>18, <1>19, <1>20, <2>1, <2>2 DEF SettledAgrees
<1>16. ProofsAreFounded'
  <2> SUFFICES ASSUME NEW k \in Rounds
               PROVE  /\ life'.terminals[k].status = "disputed" =>
                           \E f \in heard : /\ f.status = "disputed" /\ f.round = k
                                            /\ f.at = life'.terminals[k].at
                      /\ life'.terminals[k].status = "settled" =>
                           \A f \in Chain : f.status = "disputed" /\ f.round = k
                                              => Released(f)'
    BY <1>2 DEF ProofsAreFounded
  <2>1. CASE k \notin done \/ t[k].status = "settled"
    <3>1. t[k].status = "settled" => life'.terminals[k].status = "settled"
      BY <1>4, <1>18, <1>19, <1>20
    <3>2. t[k].status # "settled" => life'.terminals[k] = t[k]
      BY <1>4, <1>18, <1>19, <1>20, <2>1
    <3> QED
      BY <1>8, <3>1, <3>2 DEF LifeInv, ProofsAreFounded
  <2>2. CASE k \in done /\ t[k].status # "settled"
    <3>1. t[k].status = "disputed" /\ life'.terminals[k].status = "settled"
      BY <1>1, <1>3, <1>4, <1>18, <1>19, <2>2 DEF Proven
    <3>2. PICK g \in heard : /\ g.status = "disputed" /\ g.round = k /\ g.at = t[k].at
      BY <3>1 DEF LifeInv, ProofsAreFounded
    <3>3. g \in Chain /\ g.at[1] \in Nat \ {0} /\ g.at[1] <= blocks[RequestOf[k]]
      BY <1>1, <1>3, <2>2, <3>2, EventFields
    <3>4. PICK f \in UpTo(e.at) : /\ f.status = "settled" /\ RequestOf[f.round] = RequestOf[k]
                                  /\ g.at[1] <= f.at[1]
      <4>1. blocks[RequestOf[k]] \in {0} \cup
              {f.at[1] : f \in {h \in UpTo(e.at) : h.status = "settled"
                                                   /\ RequestOf[h.round] = RequestOf[k]}}
        BY ChainAssumption DEF SettledBlocks
      <4> QED
        BY <1>3, <3>3, <4>1
    <3>5. f \in UpTo(told')
      <4>1. f \in Chain /\ ~Before(e.at, f.at)
        BY <3>4 DEF UpTo
      <4>2. ~Before(told', f.at)
        BY <1>2, <4>1, EventFields, OrderOfPositions
      <4> QED
        BY <4>1, <4>2 DEF UpTo
    <3>6. Released(g)'
      BY <3>2, <3>4, <3>5 DEF Released, UpTo
    <3>7. \A h \in Chain : h.status = "disputed" /\ h.round = k => h = g
      BY <3>2, <3>3, ChainAssumption DEF ChainIsConsistent
    <3> QED
      BY <3>1, <3>6, <3>7
  <2> QED
    BY <2>1, <2>2
<1>17. DisputeBlocks'
  <2> SUFFICES ASSUME NEW f \in heard, f.status = "disputed"
               PROVE  f.round \in life'.disputes \/ Released(f)'
    BY <1>2 DEF DisputeBlocks
  <2>1. f \in Chain /\ f.round \in Rounds
    BY <1>1, EventFields
  <2>2. f.round \in life.disputes \/ Released(f)
    BY DEF LifeInv, DisputeBlocks
  <2>3. CASE f.round \in done
    BY <1>4, <1>18, <1>19, <1>20, <1>16, <2>1, <2>3 DEF ProofsAreFounded
  <2> QED
    BY <1>4, <1>18, <1>19, <1>20, <1>8, <2>1, <2>2, <2>3
<1> QED
  BY <1>9, <1>10, <1>11, <1>12, <1>13, <1>14, <1>15, <1>16, <1>17 DEF LifeInv

LEMMA LearnInv ==
  ASSUME LifeInv, NEW e \in Chain, PrepareInputs(e.at) \/ SyncContext(e.at)
  PROVE  LifeInv'
<1>1. PICK l \in Learnt(e.at) : life' = l \/ life' = [l EXCEPT !.needs_refresh = FALSE]
  BY DEF PrepareInputs, SyncContext
<1>2. Remember(e.at) /\ LifeTypeOK
  BY DEF PrepareInputs, SyncContext, LifeInv
<1>3. PICK blocks \in SettledBlocks(UpTo(e.at)) : Absorbed(l, blocks, e.at)
  BY <1>2, LearntIsAbsorbed
<1>4. Whole(l) /\ l.needs_refresh \in BOOLEAN
  BY <1>2, <1>3 DEF Absorbed, LifeTypeOK
<1>5. /\ life'.mark = l.mark /\ life'.terminals = l.terminals
      /\ life'.settled = l.settled /\ life'.disputes = l.disputes
      /\ life'.needs_refresh \in BOOLEAN /\ Whole(life')
  BY <1>1, <1>4 DEF Whole
<1> QED
  BY <1>2, <1>3, <1>5, AbsorbInv

-----------------------------------------------------------------------------
(* PruneInactive *)

LEMMA PruneInv ==
  ASSUME LifeInv, PruneInactive
  PROVE  LifeInv'
<1>1. LifeTypeOK /\ Whole(life)
  BY DEF LifeInv, LifeTypeOK, Whole
<1>2. /\ life' = [mark |-> NoMark, terminals |-> life.terminals,
                  settled |-> life.settled, disputes |-> life.disputes,
                  needs_refresh |-> FALSE]
      /\ heard' = heard /\ recent' = {} /\ told' = told
  BY <1>1 DEF PruneInactive, Whole
<1>3. /\ life'.mark = NoMark /\ life'.terminals = life.terminals
      /\ life'.settled = life.settled /\ life'.disputes = life.disputes
  BY <1>2
<1>4. LifeTypeOK'
  BY <1>1, <1>2 DEF LifeTypeOK, NoMark
<1>5. \A f : Released(f)' <=> Released(f)
  BY <1>2 DEF Released, UpTo
<1>6. \A k : Proven(life, k)' <=> Proven(life, k)
  BY <1>3 DEF Proven
<1>7. EndsAreProven' /\ ProofsAreLate' /\ SettledAgrees'
  BY <1>2, <1>3, <1>6 DEF LifeInv, EndsAreProven, ProofsAreLate, SettledAgrees
<1>8. ProposedIsUnproven' /\ MarkIsOfChain' /\ NoProposalIsPassed'
  BY <1>2, <1>3 DEF ProposedIsUnproven, MarkIsOfChain, NoProposalIsPassed, NoMark
<1>9. ProofsAreFounded' /\ DisputeBlocks'
  BY <1>2, <1>3, <1>5 DEF LifeInv, ProofsAreFounded, DisputeBlocks
<1> QED
  BY <1>4, <1>7, <1>8, <1>9 DEF LifeInv

-----------------------------------------------------------------------------
(* Theorems *)

\* The properties of the cache with their strengthening are inductive: in any
\* order of events, fetches and evictions.
THEOREM LifecycleInvariant == Spec => []LifeInv
<1>1. Init => LifeInv
  <2> SUFFICES ASSUME Init PROVE LifeInv
    OBVIOUS
  <2>1. /\ life.mark = NoMark /\ life.terminals = [k \in Rounds |-> NoProof]
        /\ life.settled = {} /\ life.disputes = {}
        /\ heard = {} /\ recent = {} /\ told = <<0, 0>>
    BY DEF Init, Empty
  <2>2. LifeTypeOK
    BY <2>1 DEF Init, Empty, LifeTypeOK, NoMark, NoProof
  <2>3. \A k \in Rounds : ~Proven(life, k) /\ life.terminals[k].status = "none"
    BY <2>1 DEF Proven, NoProof
  <2> QED
    BY <2>1, <2>2, <2>3, EventFields
    DEF LifeInv, EndsAreProven, ProofsAreLate, ProposedIsUnproven, MarkIsOfChain,
        NoProposalIsPassed, SettledAgrees, ProofsAreFounded, DisputeBlocks, NoMark
<1>2. LifeInv /\ [Next]_vars => LifeInv'
  <2> SUFFICES ASSUME LifeInv, [Next]_vars PROVE LifeInv'
    OBVIOUS
  <2>1. CASE UNCHANGED vars
    BY <2>1
    DEF vars, LifeInv, LifeTypeOK, EndsAreProven, ProofsAreLate, ProposedIsUnproven,
        MarkIsOfChain, NoProposalIsPassed, SettledAgrees, ProofsAreFounded,
        DisputeBlocks, Proven, Named, Released, UpTo
  <2> QED
    BY <2>1, HearInv, LearnInv, PruneInv DEF Next
<1> QED
  BY <1>1, <1>2, PTL DEF Spec

\* Type correctness; the disputes held are not settled.
THEOREM CacheTypeCorrect == Spec => []LifeTypeOK
<1>1. LifeInv => LifeTypeOK
  BY DEF LifeInv
<1> QED
  BY <1>1, LifecycleInvariant, PTL

\* A round whose end was applied never looks proposed again.
THEOREM EndsAreFinal == Spec => []NeverRevived
<1>1. LifeInv => NeverRevived
  BY DEF LifeInv, EndsAreProven, ProposedIsUnproven, NeverRevived
<1> QED
  BY <1>1, LifecycleInvariant, PTL

\* A dispute blocks the market until its settlement is known.
THEOREM DisputesBlock == Spec => []DisputeBlocks
<1>1. LifeInv => DisputeBlocks
  BY DEF LifeInv
<1> QED
  BY <1>1, LifecycleInvariant, PTL

\* No applied proposal is passed over for an older one.
THEOREM NewestCounts == Spec => []NewestProposalCounts
<1>1. LifeInv => NewestProposalCounts
  BY DEF LifeInv, NoProposalIsPassed, NewestProposalCounts
<1> QED
  BY <1>1, LifecycleInvariant, PTL

=============================================================================
