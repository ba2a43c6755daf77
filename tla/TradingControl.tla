--------------------------- MODULE TradingControl ---------------------------
(***************************************************************************)
(* The dashboard's dry-run switch as src/trading_control.rs obeys it: a    *)
(* latch only a restart releases, and a lease that authorises live orders  *)
(* and that only a recent authoritative snapshot renews.  Switch messages  *)
(* on the bus may be lost, snapshots may be old, either service may fail.  *)
(*                                                                         *)
(* Time is a global clock in coarse ticks; functions without an await take *)
(* no time.  A task of the process may be delayed by any number of ticks.  *)
(***************************************************************************)
EXTENDS Integers, Sequences

CONSTANTS
  LeaseLimit,  \* 15 s in `dry_run`
  StaleLimit,  \* 15 s in `confirm_snapshot`
  Skew,        \* how far the dashboard's clock may be off
  MaxTime,     \* bound on the clock
  MaxInbox     \* bound on undelivered bus messages

ASSUME LimitsArePositive ==
  /\ LeaseLimit \in Nat \ {0} /\ StaleLimit \in Nat \ {0}
  /\ Skew \in Nat /\ MaxTime \in Nat /\ MaxInbox \in Nat

VARIABLES
  now,
  \* the dashboard, external
  ordered,       \* dry run is switched on
  orderedSince,  \* when it was last switched on
  page,          \* what a snapshot request would be answered with
  answeredAt,    \* when that page was written
  \* the bus, external
  linked,        \* the client is connected
  inbox,         \* messages delivered to the subscription and not yet read
  events,        \* disconnects whose callback has not run
  \* the process
  up,
  pc,            \* `run`: no session, in one, or just out of one
  snap,          \* the snapshot loop of the session
  closed,        \* the session's watch channel
  latched,
  checked_at

dashboardVars == <<ordered, orderedSince, page, answeredAt>>
busVars       == <<linked, inbox, events>>
processVars   == <<up, pc, snap, closed, latched, checked_at>>
vars          == <<now, dashboardVars, busVars, processVars>>

\* A payload `apply` refuses, on the bus or as a page.
Garbage  == "garbage"
Payloads == {"on", "off", Garbage}

Distance(a, b) == IF a >= b THEN a - b ELSE b - a

\* TradingControl::dry_run, what the execution lane reads before it submits.
DryRun == latched \/ Distance(now, checked_at) > LeaseLimit

Init ==
  /\ now = LeaseLimit + 1   \* any time that far from the epoch
  /\ ordered \in BOOLEAN /\ orderedSince = now
  /\ page = [switch |-> Garbage, triggered_at |-> now] /\ answeredAt = now
  /\ linked = FALSE /\ inbox = <<>> /\ events = {}
  /\ up = FALSE /\ pc = "down" /\ snap = "idle" /\ closed = FALSE
  /\ latched = FALSE /\ checked_at = 0

-----------------------------------------------------------------------------
(* External: time, the dashboard, the bus *)

\* `confirm_snapshot` has no await between its checks and its store.
Tick ==
  /\ now < MaxTime /\ snap # "renew"
  /\ now' = now + 1
  /\ UNCHANGED <<dashboardVars, busVars, processVars>>

\* A message reaches the subscription of a linked client, or is lost.
Deliver(m) ==
  \/ linked /\ Len(inbox) < MaxInbox /\ inbox' = Append(inbox, m)
  \/ UNCHANGED inbox

\* The operator turns the switch; the dashboard announces it.
Switch ==
  /\ ordered' = ~ordered
  /\ orderedSince' = now
  /\ Deliver(IF ordered' THEN "on" ELSE "off")
  /\ UNCHANGED <<now, page, answeredAt, linked, events, processVars>>

\* Somebody publishes what is no control message.
Noise ==
  /\ Deliver(Garbage)
  /\ UNCHANGED <<now, dashboardVars, linked, events, processVars>>

\* The dashboard writes the page of /api/trading-control/, with its own clock.
\* Until it does again, requests are answered with this one.
WritePage ==
  /\ \E t \in (now - Skew) .. (now + Skew) :
       page' = [switch |-> IF ordered THEN "on" ELSE "off", triggered_at |-> t]
  /\ answeredAt' = now
  /\ UNCHANGED <<now, ordered, orderedSince, busVars, processVars>>

\* The connection breaks; the client has a callback spawned, and reconnects.
Break ==
  /\ linked
  /\ linked' = FALSE
  /\ events' = events \cup {"current"}
  /\ UNCHANGED <<now, dashboardVars, inbox, processVars>>

Relink ==
  /\ pc = "running" /\ ~linked
  /\ linked' = TRUE
  /\ UNCHANGED <<now, dashboardVars, inbox, events, processVars>>

-----------------------------------------------------------------------------
(* Process *)

Start ==
  /\ ~up
  /\ up' = TRUE
  /\ UNCHANGED <<now, dashboardVars, busVars, pc, snap, closed, latched, checked_at>>

\* The latch and the lease are in memory only.
Crash ==
  /\ up
  /\ up' = FALSE /\ pc' = "down" /\ snap' = "idle" /\ closed' = FALSE
  /\ latched' = FALSE /\ checked_at' = 0
  /\ linked' = FALSE /\ inbox' = <<>> /\ events' = {}
  /\ UNCHANGED <<now, dashboardVars>>

\* session: connect, subscribe, flush, with a watch channel of its own.
Connect ==
  /\ up /\ pc = "down"
  /\ pc' = "running" /\ snap' = "idle" /\ closed' = FALSE
  /\ linked' = TRUE /\ inbox' = <<>>
  /\ UNCHANGED <<now, dashboardVars, events, up, latched, checked_at>>

\* The session returns: its client is dropped, which may call back once more,
\* and callbacks still to come find the channel of a session that is over.
EndSession ==
  /\ pc' = "ended" /\ snap' = "idle"
  /\ linked' = FALSE /\ inbox' = <<>>
  /\ \/ events' = {"old"}
     \/ events = {} /\ events' = {}

\* Mutant: the lease is taken away, and the session goes on.
CallbackKeepsSession(e) ==
  /\ e \in events
  /\ events' = events \ {e}
  /\ checked_at' = 0
  /\ UNCHANGED <<now, dashboardVars, linked, inbox, up, pc, snap, closed, latched>>

\* event_callback, on a task of its own, between any two steps of the session.
Callback(e) ==
  /\ e \in events
  /\ events' = events \ {e}
  /\ checked_at' = 0
  /\ closed' = (closed \/ e = "current")
  /\ UNCHANGED <<now, dashboardVars, linked, inbox, up, pc, snap, latched>>

\* The first arm of the select.
NoticeDisconnect ==
  /\ pc = "running" /\ closed /\ snap # "renew"
  /\ EndSession
  /\ UNCHANGED <<now, dashboardVars, up, closed, latched, checked_at>>

\* Mutant: the latch follows the messages.
ApplyFollows(switch) == latched' = (switch = "on")

\* TradingControl::apply
Apply(switch) == latched' = (latched \/ switch = "on")

\* The second arm: a message is applied; one that is invalid ends the session.
Receive ==
  /\ pc = "running" /\ snap # "renew" /\ inbox # <<>>
  /\ \/ /\ Head(inbox) # Garbage
        /\ Apply(Head(inbox))
        /\ inbox' = Tail(inbox)
        /\ UNCHANGED <<linked, events, pc, snap>>
     \/ /\ Head(inbox) = Garbage
        /\ EndSession
        /\ UNCHANGED latched
  /\ UNCHANGED <<now, dashboardVars, up, closed, checked_at>>

\* The third arm: a snapshot is requested.
Ask ==
  /\ pc = "running" /\ snap = "idle"
  /\ snap' = "asked"
  /\ UNCHANGED <<now, dashboardVars, busVars, up, pc, closed, latched, checked_at>>

\* Mutant: any snapshot is recent enough.
AcceptableAtAnyAge == page.switch # Garbage

Acceptable ==
  /\ page.switch # Garbage
  /\ Distance(now, page.triggered_at) <= StaleLimit

\* confirm_snapshot, its checks and `apply`: another thread may run before
\* the lease is stored.
Confirm ==
  /\ pc = "running" /\ snap = "asked"
  /\ Acceptable
  /\ Apply(page.switch)
  /\ snap' = "renew"
  /\ UNCHANGED <<now, dashboardVars, busVars, up, pc, closed, checked_at>>

\* Mutant: the lease is as old as the page.
RenewFromPage ==
  /\ snap = "renew"
  /\ checked_at' = page.triggered_at
  /\ snap' = "idle"
  /\ UNCHANGED <<now, dashboardVars, busVars, up, pc, closed, latched>>

\* confirm_snapshot, the store that renews the lease.
Renew ==
  /\ snap = "renew"
  /\ checked_at' = now
  /\ snap' = "idle"
  /\ UNCHANGED <<now, dashboardVars, busVars, up, pc, closed, latched>>

\* A failed, timed out or refused request, or the end of the subscription.
SessionFails ==
  /\ pc = "running" /\ snap # "renew"
  /\ EndSession
  /\ UNCHANGED <<now, dashboardVars, up, closed, latched, checked_at>>

\* Mutant: the lease outlives the session.
ResetKeepsLease ==
  /\ pc = "ended"
  /\ pc' = "down"
  /\ UNCHANGED <<now, dashboardVars, busVars, up, snap, closed, latched, checked_at>>

\* `run`, after the session.
Reset ==
  /\ pc = "ended"
  /\ checked_at' = 0
  /\ pc' = "down"
  /\ UNCHANGED <<now, dashboardVars, busVars, up, snap, closed, latched>>

-----------------------------------------------------------------------------

Environment == Tick \/ Switch \/ Noise \/ WritePage \/ Break \/ Relink \/ Start \/ Crash
Session == NoticeDisconnect \/ Receive \/ Ask \/ Confirm \/ Renew \/ SessionFails
Next ==
  \/ Environment \/ Session \/ Connect \/ Reset
  \/ \E e \in {"current", "old"} : Callback(e)

Spec == Init /\ [][Next]_vars

\* Spawned callbacks run; the biased select looks at the channel first whenever
\* it is polled, so a disconnect is noticed however busy the other arms are.
Fairness ==
  /\ \A e \in {"current", "old"} : WF_vars(Callback(e))
  /\ SF_vars(NoticeDisconnect)
  /\ WF_vars(Renew)
  /\ WF_vars(Reset)

FairSpec == Spec /\ Fairness

-----------------------------------------------------------------------------
(* Properties *)

ControlTypeOK ==
  /\ now \in Nat
  /\ ordered \in BOOLEAN /\ orderedSince \in Nat
  /\ page \in [switch : Payloads, triggered_at : Int] /\ answeredAt \in Nat
  /\ linked \in BOOLEAN /\ inbox \in Seq(Payloads) /\ events \subseteq {"current", "old"}
  /\ up \in BOOLEAN /\ pc \in {"down", "running", "ended"}
  /\ snap \in {"idle", "asked", "renew"} /\ closed \in BOOLEAN
  /\ latched \in BOOLEAN /\ checked_at \in 0 .. now

Grace == StaleLimit + Skew + LeaseLimit

\* Once the switch has been on for the grace period no process is live, even if
\* it was restarted meanwhile, lost every message, and got old snapshots.
StopReachesProcess == ordered /\ now > orderedSince + Grace => DryRun

\* A dashboard that stopped answering for as long leaves no process live
\* (README "Until a fresh snapshot is available ... disabled").
SilenceStops == now > answeredAt + Grace => DryRun

\* Without a session there is no authorisation, whatever the session that
\* ended, its late callbacks and its pending snapshot were doing.
OfflineIsDry == pc = "down" => DryRun

\* One-way: within a process, nothing that arrives late or out of order, on
\* either path, makes it live again (README "false messages never enable").
LatchHolds == [][up /\ up' /\ latched => latched']_vars

\* A broken connection ends the session and with it the authorisation: the lease
\* its callback clears may be renewed by a snapshot already on its way, and the
\* client may have connected again, but the session ends all the same, and its
\* lease with it (README "when the control connection fails").
DisconnectDisables == "current" \in events ~> pc = "down" /\ DryRun

\* Strengthening: what an accepted page, a lease about to be stored, and a
\* stored lease say about the dashboard.
ClocksAgree ==
  /\ now > LeaseLimit
  /\ orderedSince <= now /\ answeredAt <= now
  /\ page.triggered_at <= answeredAt + Skew
PageIsOfItsTime ==
  ordered /\ page.switch = "off" => page.triggered_at <= orderedSince + Skew
RenewalIsRecent ==
  snap = "renew" =>
    /\ up /\ pc = "running"
    /\ now <= answeredAt + Skew + StaleLimit
    /\ ordered /\ ~latched => now <= orderedSince + Skew + StaleLimit
LeaseIsRecent ==
  /\ checked_at <= answeredAt + Skew + StaleLimit
  /\ ordered /\ ~latched => checked_at <= orderedSince + Skew + StaleLimit
NoLeaseOffline == /\ pc = "down" => checked_at = 0
                  /\ pc # "down" => up

ControlInv ==
  /\ ControlTypeOK
  /\ ClocksAgree
  /\ PageIsOfItsTime
  /\ RenewalIsRecent
  /\ LeaseIsRecent
  /\ NoLeaseOffline

=============================================================================
