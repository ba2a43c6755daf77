------------------------ MODULE TradingControlProofs ------------------------
(***************************************************************************)
(* Proofs about the dry-run switch, for any limits and clock skew.         *)
(***************************************************************************)
EXTENDS TradingControl, TLAPS

-----------------------------------------------------------------------------
(* The invariant *)

LEMMA ControlInit == Init => ControlInv
<1> SUFFICES ASSUME Init PROVE ControlInv
  OBVIOUS
<1>1. /\ now \in Nat /\ now > LeaseLimit /\ Skew \in Nat /\ StaleLimit \in Nat
      /\ orderedSince = now /\ answeredAt = now /\ checked_at = 0
      /\ page.switch = Garbage /\ page.triggered_at = now
  BY LimitsArePositive DEF Init
<1>2. page \in [switch : Payloads, triggered_at : Int]
  BY <1>1 DEF Init, Payloads
<1>3. ControlTypeOK
  <2>1. inbox \in Seq(Payloads) /\ events \subseteq {"current", "old"}
    BY DEF Init
  <2>2. /\ ordered \in BOOLEAN /\ linked \in BOOLEAN /\ up \in BOOLEAN
        /\ closed \in BOOLEAN /\ latched \in BOOLEAN
        /\ pc \in {"down", "running", "ended"} /\ snap \in {"idle", "asked", "renew"}
    BY DEF Init
  <2> QED BY <1>1, <1>2, <2>1, <2>2 DEF ControlTypeOK
<1>4. ClocksAgree /\ LeaseIsRecent
  BY <1>1 DEF ClocksAgree, LeaseIsRecent
<1>5. PageIsOfItsTime /\ RenewalIsRecent /\ NoLeaseOffline
  BY <1>1 DEF Init, PageIsOfItsTime, RenewalIsRecent, NoLeaseOffline, Garbage
<1> QED
  BY <1>3, <1>4, <1>5 DEF ControlInv

\* Time passes only outside `confirm_snapshot`.
LEMMA TickInv ==
  ASSUME ControlInv, Tick PROVE ControlInv'
<1> USE DEF Tick, dashboardVars, busVars, processVars
<1>1. ControlTypeOK'
  BY DEF ControlInv, ControlTypeOK
<1>2. ClocksAgree' /\ PageIsOfItsTime' /\ RenewalIsRecent'
  BY LimitsArePositive DEF ControlInv, ControlTypeOK, ClocksAgree, PageIsOfItsTime, RenewalIsRecent
<1>3. LeaseIsRecent' /\ NoLeaseOffline'
  BY DEF ControlInv, LeaseIsRecent, NoLeaseOffline
<1> QED
  BY <1>1, <1>2, <1>3 DEF ControlInv

\* What the dashboard and the bus do leaves the process alone.  When the switch
\* is turned on now, everything that was written is of its time.
LEMMA OutsideInv ==
  ASSUME ControlInv, Switch \/ Noise \/ WritePage \/ Break \/ Relink
  PROVE  ControlInv'
<1> USE DEF processVars, dashboardVars
<1>1. UNCHANGED <<now, up, pc, snap, latched, closed, checked_at>>
  BY DEF Switch, Noise, WritePage, Break, Relink
<1>2. \A m \in Payloads : Deliver(m) => inbox' \in Seq(Payloads)
  BY DEF Deliver, ControlInv, ControlTypeOK
<1>3. /\ inbox' \in Seq(Payloads)
      /\ linked' \in BOOLEAN /\ events' \subseteq {"current", "old"}
  BY <1>2 DEF Switch, Noise, WritePage, Break, Relink, busVars, Payloads, Garbage,
     ControlInv, ControlTypeOK
<1>4. CASE WritePage
  <2>1. PICK t \in (now - Skew) .. (now + Skew) :
          page' = [switch |-> IF ordered THEN "on" ELSE "off", triggered_at |-> t]
    BY <1>4 DEF WritePage
  <2>2. UNCHANGED <<ordered, orderedSince>> /\ answeredAt' = now
    BY <1>4 DEF WritePage
  <2>3. t \in Int /\ t <= now + Skew
    BY LimitsArePositive DEF ControlInv, ControlTypeOK
  <2> QED
    BY <1>1, <1>3, <2>1, <2>2, <2>3, LimitsArePositive DEF ControlInv, ControlTypeOK,
       ClocksAgree, PageIsOfItsTime, RenewalIsRecent, LeaseIsRecent, NoLeaseOffline,
       Payloads
<1>5. CASE Switch
  <2>1. UNCHANGED <<page, answeredAt>> /\ orderedSince' = now /\ ordered' \in BOOLEAN
    BY <1>5 DEF Switch, ControlInv, ControlTypeOK
  <2> QED
    BY <1>1, <1>3, <2>1, LimitsArePositive DEF ControlInv, ControlTypeOK, ClocksAgree,
       PageIsOfItsTime, RenewalIsRecent, LeaseIsRecent, NoLeaseOffline
<1>6. CASE UNCHANGED dashboardVars
  BY <1>1, <1>3, <1>6 DEF ControlInv, ControlTypeOK, ClocksAgree, PageIsOfItsTime,
     RenewalIsRecent, LeaseIsRecent, NoLeaseOffline
<1> QED
  BY <1>4, <1>5, <1>6 DEF Switch, Noise, WritePage, Break, Relink

\* The process gains no authorisation except by storing the lease.
LEMMA ProcessInv ==
  ASSUME ControlInv,
         UNCHANGED <<now, dashboardVars>>,
         inbox' \in Seq(Payloads), linked' \in BOOLEAN,
         events' \subseteq {"current", "old"},
         up' \in BOOLEAN, pc' \in {"down", "running", "ended"},
         snap' \in {"idle", "asked"}, closed' \in BOOLEAN, latched' \in BOOLEAN,
         checked_at' = checked_at \/ checked_at' = 0,
         latched => latched' \/ checked_at' = 0,
         pc' = "down" => checked_at' = 0,
         pc' # "down" => up'
  PROVE  ControlInv'
BY LimitsArePositive DEF dashboardVars, ControlInv, ControlTypeOK, ClocksAgree, PageIsOfItsTime,
   RenewalIsRecent, LeaseIsRecent, NoLeaseOffline

\* A page accepted now was written at most the stale limit ago.
LEMMA ConfirmInv ==
  ASSUME ControlInv, Confirm PROVE ControlInv'
<1> USE DEF Confirm, dashboardVars, busVars
<1>1. /\ page.triggered_at \in Int /\ now \in Nat /\ answeredAt \in Nat
      /\ orderedSince \in Nat /\ page.switch \in {"on", "off"}
  BY DEF ControlInv, ControlTypeOK, Acceptable, Payloads
<1>2. now <= page.triggered_at + StaleLimit
  <2>1. StaleLimit \in Nat /\ Distance(now, page.triggered_at) <= StaleLimit
    BY LimitsArePositive DEF Acceptable
  <2>2. now - page.triggered_at <= Distance(now, page.triggered_at)
    BY <1>1 DEF Distance
  <2>3. Distance(now, page.triggered_at) \in Int
    BY <1>1 DEF Distance
  <2> QED BY <1>1, <2>1, <2>2, <2>3
<1>3. now <= answeredAt + Skew + StaleLimit
  BY <1>1, <1>2, LimitsArePositive DEF ControlInv, ClocksAgree
<1>4. ordered /\ ~latched' => now <= orderedSince + Skew + StaleLimit
  <2>1. ~latched' => page.switch = "off"
    BY <1>1 DEF Apply
  <2>2. ordered /\ page.switch = "off" => page.triggered_at <= orderedSince + Skew
    BY DEF ControlInv, PageIsOfItsTime
  <2>3. page.triggered_at <= orderedSince + Skew => now <= orderedSince + Skew + StaleLimit
    BY <1>1, <1>2, LimitsArePositive
  <2> QED BY <2>1, <2>2, <2>3
<1>5. RenewalIsRecent'
  BY <1>3, <1>4 DEF RenewalIsRecent, ControlInv, NoLeaseOffline
<1>6. ControlTypeOK' /\ ClocksAgree' /\ PageIsOfItsTime' /\ LeaseIsRecent' /\ NoLeaseOffline'
  BY DEF ControlInv, ControlTypeOK, ClocksAgree, PageIsOfItsTime, LeaseIsRecent,
     NoLeaseOffline, Apply
<1> QED
  BY <1>5, <1>6 DEF ControlInv

LEMMA RenewInv ==
  ASSUME ControlInv, Renew PROVE ControlInv'
BY LimitsArePositive DEF Renew, dashboardVars, busVars, ControlInv, ControlTypeOK,
   ClocksAgree, PageIsOfItsTime, RenewalIsRecent, LeaseIsRecent, NoLeaseOffline

LEMMA ControlStep == ControlInv /\ [Next]_vars => ControlInv'
<1> SUFFICES ASSUME ControlInv, [Next]_vars PROVE ControlInv'
  OBVIOUS
<1>1. /\ inbox # <<>> => Tail(inbox) \in Seq(Payloads)
      /\ ControlTypeOK /\ NoLeaseOffline
  BY DEF ControlInv, ControlTypeOK
<1>2. CASE UNCHANGED vars
  BY <1>2 DEF vars, dashboardVars, busVars, processVars, ControlInv, ControlTypeOK,
     ClocksAgree, PageIsOfItsTime, RenewalIsRecent, LeaseIsRecent, NoLeaseOffline
<1>3. CASE Start
  BY <1>3 DEF Start, dashboardVars, busVars, ControlInv, ControlTypeOK,
     ClocksAgree, PageIsOfItsTime, RenewalIsRecent, LeaseIsRecent, NoLeaseOffline
<1>4. CASE Crash
  <2>1. /\ UNCHANGED <<now, dashboardVars>>
        /\ inbox' = <<>> /\ linked' = FALSE /\ events' = {}
        /\ up' = FALSE /\ pc' = "down" /\ snap' = "idle" /\ closed' = FALSE
        /\ latched' = FALSE /\ checked_at' = 0
    BY <1>4 DEF Crash
  <2>2. inbox' \in Seq(Payloads)
    BY <2>1
  <2> QED BY <2>1, <2>2, ProcessInv
<1>5. CASE Connect
  <2>1. /\ UNCHANGED <<now, dashboardVars, events, up, latched, checked_at>>
        /\ inbox' = <<>> /\ linked' = TRUE /\ up
        /\ pc' = "running" /\ snap' = "idle" /\ closed' = FALSE
    BY <1>5 DEF Connect
  <2>2. inbox' \in Seq(Payloads)
    BY <2>1
  <2>3. events' \subseteq {"current", "old"} /\ up' \in BOOLEAN /\ latched' \in BOOLEAN
    BY <1>1, <2>1 DEF ControlTypeOK
  <2> QED BY <2>1, <2>2, <2>3, ProcessInv
<1>6. CASE Reset
  <2>1. snap # "renew"
    BY <1>6 DEF Reset, ControlInv, RenewalIsRecent
  <2> QED BY <1>1, <1>6, <2>1, ProcessInv DEF Reset, busVars, ControlTypeOK
<1>7. ASSUME EndSession, pc = "running",
             UNCHANGED <<now, dashboardVars, up, closed, latched, checked_at>>
      PROVE  ControlInv'
  <2>1. /\ inbox' = <<>> /\ linked' = FALSE /\ pc' = "ended" /\ snap' = "idle"
        /\ events' \subseteq {"current", "old"}
    BY <1>7 DEF EndSession
  <2>2. inbox' \in Seq(Payloads)
    BY <2>1
  <2>3. up /\ up \in BOOLEAN /\ closed \in BOOLEAN /\ latched \in BOOLEAN
    BY <1>1, <1>7 DEF ControlTypeOK, NoLeaseOffline
  <2> QED BY <1>7, <2>1, <2>2, <2>3, ProcessInv
<1>8. CASE Receive
  <2>1. CASE EndSession /\ UNCHANGED latched
    BY <1>7, <1>8, <2>1 DEF Receive
  <2>2. CASE /\ Apply(Head(inbox)) /\ inbox' = Tail(inbox)
             /\ UNCHANGED <<linked, events, pc, snap>>
    <3>1. /\ UNCHANGED <<now, dashboardVars, up, closed, checked_at>>
          /\ pc = "running" /\ snap # "renew" /\ inbox # <<>>
      BY <1>8 DEF Receive
    <3>2. latched' \in BOOLEAN /\ (latched => latched')
      BY <1>1, <2>2 DEF Apply, ControlTypeOK
    <3>3. /\ up /\ up \in BOOLEAN /\ closed \in BOOLEAN /\ linked \in BOOLEAN
          /\ snap \in {"idle", "asked"} /\ events \subseteq {"current", "old"}
      BY <1>1, <3>1 DEF ControlTypeOK, NoLeaseOffline
    <3> QED BY <1>1, <2>2, <3>1, <3>2, <3>3, ProcessInv
  <2> QED BY <1>8, <2>1, <2>2 DEF Receive
<1>9. CASE Ask
  <2>1. /\ UNCHANGED <<now, dashboardVars, linked, inbox, events, up, pc, closed,
                       latched, checked_at>>
        /\ pc = "running" /\ snap' = "asked"
    BY <1>9 DEF Ask, busVars
  <2>2. /\ up /\ up \in BOOLEAN /\ closed \in BOOLEAN /\ linked \in BOOLEAN
        /\ latched \in BOOLEAN /\ inbox \in Seq(Payloads)
        /\ events \subseteq {"current", "old"}
    BY <1>1, <2>1 DEF ControlTypeOK, NoLeaseOffline
  <2> QED BY <2>1, <2>2, ProcessInv
<1>10. ASSUME NEW e \in {"current", "old"}, Callback(e) PROVE ControlInv'
  <2>1. CASE snap # "renew"
    BY <1>1, <1>10, <2>1, ProcessInv DEF Callback, ControlTypeOK, NoLeaseOffline
  <2>2. CASE snap = "renew"
    BY <1>10, <2>2, LimitsArePositive DEF Callback, dashboardVars, ControlInv,
       ControlTypeOK, ClocksAgree, PageIsOfItsTime, RenewalIsRecent, LeaseIsRecent,
       NoLeaseOffline
  <2> QED BY <2>1, <2>2
<1> QED
  BY <1>2, <1>3, <1>4, <1>5, <1>6, <1>7, <1>8, <1>9, <1>10, TickInv, OutsideInv,
     ConfirmInv, RenewInv DEF Next, Environment, Session, NoticeDisconnect, SessionFails

-----------------------------------------------------------------------------
(* Theorems *)

\* The invariant holds in every reachable state.
THEOREM ControlInvariant == Spec => []ControlInv
BY ControlInit, ControlStep, PTL DEF Spec

\* Every variable of the control keeps its type (src/trading_control.rs).
THEOREM ControlTypeCorrect == Spec => []ControlTypeOK
<1>1. ControlInv => ControlTypeOK
  BY DEF ControlInv
<1> QED
  BY <1>1, ControlInvariant, PTL

\* A switch that is on reaches every process within the grace period.
THEOREM SwitchStopsTrading == Spec => []StopReachesProcess
<1>1. ControlInv => StopReachesProcess
  BY LimitsArePositive DEF ControlInv, ControlTypeOK, LeaseIsRecent, StopReachesProcess,
     Grace, DryRun, Distance
<1> QED
  BY <1>1, ControlInvariant, PTL

\* A silent dashboard stops every process within the grace period.
THEOREM SilenceStopsTrading == Spec => []SilenceStops
<1>1. ControlInv => SilenceStops
  BY LimitsArePositive DEF ControlInv, ControlTypeOK, LeaseIsRecent, SilenceStops,
     Grace, DryRun, Distance
<1> QED
  BY <1>1, ControlInvariant, PTL

\* No session, no authorisation.
THEOREM OfflineIsDryRun == Spec => []OfflineIsDry
<1>1. ControlInv => OfflineIsDry
  BY LimitsArePositive DEF ControlInv, ControlTypeOK, ClocksAgree, NoLeaseOffline,
     OfflineIsDry, DryRun, Distance
<1> QED
  BY <1>1, ControlInvariant, PTL

\* Nothing but a restart releases the latch.
THEOREM LatchIsOneWay == Spec => LatchHolds
<1>1. ASSUME Next, up, up', latched PROVE latched'
  <2>1. CASE Receive
    BY <1>1, <2>1 DEF Receive, Apply
  <2>2. CASE Confirm
    BY <1>1, <2>2 DEF Confirm, Apply
  <2>3. CASE Environment
    BY <1>1, <2>3 DEF Environment, Tick, Switch, Noise, WritePage, Break, Relink, Start,
       Crash, processVars
  <2>4. CASE \/ NoticeDisconnect \/ Ask \/ Renew \/ SessionFails \/ Connect \/ Reset
             \/ \E e \in {"current", "old"} : Callback(e)
    BY <1>1, <2>4 DEF NoticeDisconnect, Ask, Renew, SessionFails, Connect, Reset, Callback
  <2> QED BY <1>1, <2>1, <2>2, <2>3, <2>4 DEF Next, Session
<1>2. [Next]_vars => [up /\ up' /\ latched => latched']_vars
  BY <1>1
<1> QED
  BY <1>2, PTL DEF Spec, LatchHolds

=============================================================================
