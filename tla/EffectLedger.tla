---------------------------- MODULE EffectLedger ----------------------------
(***************************************************************************)
(* What the effect broker promises, with its tokens, listings, crashes and *)
(* recovery passes left out.                                               *)
(*                                                                         *)
(* An operation belongs to one revision of one task.  It is attempted at   *)
(* most once, and only while that revision is the task's current one and   *)
(* its authority is live.  After that its outcome is reported: it stays    *)
(* open while it is uncertain and is settled by what happened outside.     *)
(***************************************************************************)
EXTENDS Naturals

CONSTANTS Tasks,        \* owner tasks
          Operations,   \* operation identities
          TaskOf(_),    \* the task an operation belongs to
          RevisionOf(_), \* and the revision of it that asked for the operation
          MaxRevision   \* bound: revisions of a task

VARIABLES current,   \* current[t]: revision of task t, 0 before it exists
          live,      \* live[t]: TRUE while the authority of t is usable
          ledger,    \* ledger[o]: what the broker says of operation o
          attempts   \* attempts[o]: how often o was handed to the outside

vars == <<current, live, ledger, attempts>>

Outcomes == {"verified", "failed"}

Init == /\ current  = [t \in Tasks |-> 0]
        /\ live     = [t \in Tasks |-> FALSE]
        /\ ledger   = [o \in Operations |-> "absent"]
        /\ attempts = [o \in Operations |-> 0]

(* The owner, the host or the clock changes the authority of a task: a     *)
(* revision is never taken back, and a new one may arrive live.            *)
ChangeAuthority(t) ==
  /\ \E r \in current[t]..MaxRevision, l \in BOOLEAN :
       /\ current' = [current EXCEPT ![t] = r]
       /\ live'    = [live EXCEPT ![t] = l]
  /\ UNCHANGED <<ledger, attempts>>

Attempt(o) ==
  /\ ledger[o] = "absent"
  /\ live[TaskOf(o)]
  /\ current[TaskOf(o)] = RevisionOf(o)
  /\ ledger'   = [ledger EXCEPT ![o] = "open"]
  /\ attempts' = [attempts EXCEPT ![o] = @ + 1]
  /\ UNCHANGED <<current, live>>

(* Uncertain operations are settled, or settled ones become uncertain      *)
(* again; none returns to "absent", so none is attempted again.            *)
Report ==
  /\ \E S \in SUBSET {o \in Operations : ledger[o] # "absent"} :
       \E outcome \in [S -> Outcomes \cup {"open"}] :
         ledger' = [o \in Operations |-> IF o \in S THEN outcome[o] ELSE ledger[o]]
  /\ UNCHANGED <<current, live, attempts>>

Next == \/ \E t \in Tasks : ChangeAuthority(t)
        \/ \E o \in Operations : Attempt(o)
        \/ Report

Spec == Init /\ [][Next]_vars
=============================================================================
