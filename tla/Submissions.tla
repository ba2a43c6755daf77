----------------------------- MODULE Submissions -----------------------------
(***************************************************************************)
(* What an order path promises of the orders it answers, without tasks,    *)
(* feeds, policies, shutdowns or crashes: each is on record before it is   *)
(* sent, is sent once at most, and its outcome says whether it was sent.   *)
(* A definite outcome stays.  Of an order whose outcome is unknown, an     *)
(* inquiry may find out once what became of it.                            *)
(*                                                                         *)
(* ExecutionLane.tla implements Spec.  SignalService.tla, where nobody     *)
(* inquires, implements FinalSpec: any outcome stays.                      *)
(***************************************************************************)
EXTENDS Integers

CONSTANT Orders

VARIABLES
  record,   \* the recorded state of each order
  sent      \* how often it was sent

Answers  == {"accepted", "rejected", "unknown"}   \* of an order that was sent
Refusals == {"blocked", "dry_run"}                \* of one that was not

Init ==
  /\ record = [i \in Orders |-> "none"]
  /\ sent = [i \in Orders |-> 0]

Reserve(i) ==
  /\ record[i] = "none"
  /\ record' = [record EXCEPT ![i] = "prepared"]
  /\ UNCHANGED sent

Send(i) ==
  /\ record[i] = "prepared" /\ sent[i] = 0
  /\ sent' = [sent EXCEPT ![i] = 1]
  /\ UNCHANGED record

Settle(i, st) ==
  /\ record[i] = "prepared"
  /\ st \in (IF sent[i] = 1 THEN Answers ELSE Refusals)
  /\ record' = [record EXCEPT ![i] = st]
  /\ UNCHANGED sent

\* Nobody is left who could tell, or send it.
GiveUp ==
  /\ record' = [i \in Orders |-> IF record[i] = "prepared" THEN "unknown" ELSE record[i]]
  /\ UNCHANGED sent

\* The account shows a fill, which only an order that was sent has, or nothing
\* for so long that it counts as failed, whether it was sent or not.
Resolve(i, st) ==
  /\ record[i] = "unknown"
  /\ st \in {"accepted", "rejected"}
  /\ st = "accepted" => sent[i] = 1
  /\ record' = [record EXCEPT ![i] = st]
  /\ UNCHANGED sent

OrderStep ==
  \/ \E i \in Orders : Reserve(i) \/ Send(i)
  \/ \E i \in Orders, st \in Answers \cup Refusals : Settle(i, st)

Next == OrderStep \/ GiveUp \/ (\E i \in Orders, st \in Answers : Resolve(i, st))

Spec      == Init /\ [][Next]_<<record, sent>>
FinalSpec == Init /\ [][OrderStep]_<<record, sent>>

=============================================================================
