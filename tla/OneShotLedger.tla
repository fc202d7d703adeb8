--------------------------- MODULE OneShotLedger ---------------------------
(***************************************************************************)
(* What every outbox of the Telegram gateway promises: a slot is claimed   *)
(* once and for all, the outside is asked to act at most once and only     *)
(* under a durable sending mark, and the outcome written down is true.     *)
(* There is no step that sends again: a claim that was never settled       *)
(* stays consumed.                                                         *)
(***************************************************************************)
CONSTANT Slots

VARIABLES record,   \* record[s]: what the private directory says of slot s
          wire      \* wire[s]: what the outside was asked, and did

vars == <<record, wire>>

Records == {"absent", "claimed", "sending", "verified", "unknown", "refused"}
Open == {"claimed", "sending"}

TypeOK == /\ record \in [Slots -> Records]
          /\ wire \in [Slots -> {"none", "invoked", "done"}]

Init == /\ record = [s \in Slots |-> "absent"]
        /\ wire = [s \in Slots |-> "none"]

Claim(s) == /\ record[s] = "absent"
            /\ record' = [record EXCEPT ![s] = "claimed"]
            /\ UNCHANGED wire

Mark(s) == /\ record[s] = "claimed"
           /\ record' = [record EXCEPT ![s] = "sending"]
           /\ UNCHANGED wire

Invoke(s) == /\ record[s] = "sending" /\ wire[s] = "none"
             /\ wire' = [wire EXCEPT ![s] = "invoked"]
             /\ UNCHANGED record

\* The message appears, possibly long after the process that asked is gone.
Happen(s) == /\ wire[s] = "invoked"
             /\ wire' = [wire EXCEPT ![s] = "done"]
             /\ UNCHANGED record

\* "verified" is a proof that it happened, "refused" that it never will.
Settle(s, v) == /\ record[s] \in Open
                /\ v = "verified" => record[s] = "sending" /\ wire[s] = "done"
                /\ v = "refused" => wire[s] = "none"
                /\ record' = [record EXCEPT ![s] = v]
                /\ UNCHANGED wire

Next == \E s \in Slots :
            \/ Claim(s) \/ Mark(s) \/ Invoke(s) \/ Happen(s)
            \/ \E v \in {"verified", "unknown", "refused"} : Settle(s, v)

Spec == Init /\ [][Next]_vars
=============================================================================
