--------------------------- MODULE MCPersonalAgent --------------------------
(* Instances of PersonalAgent for TLC.                                     *)
EXTENDS PersonalAgent, TLC

(* One task: it is created, corrected and cancelled or deleted.            *)
CreateCorrectWithdraw(c) ==
  CASE c = 1 -> {"create"} [] c = 2 -> {"correct"} [] OTHER -> {"cancel"}

(* Two tasks; the source of one is deleted.                                *)
CreateTwoDeleteOne(c) == IF c \in {1, 2} THEN {"create"} ELSE {"delete"}
(* One task, that is corrected or whose source message is deleted.         *)
CreateChange(c) == IF c = 1 THEN {"create"} ELSE {"correct", "delete"}

(* Two halves of the state space.  A task that is corrected while effects  *)
(* are dispatched and the process crashes ...                              *)
Crashing ==
  /\ \A c \in Commands : journal[c].op # "delete"
  /\ calls[Maintenance] = Idle
  /\ \A t \in Tasks, r \in Revisions : engine[t][r] # "stopped"
  /\ \A t \in Tasks : \A g \in DOMAIN grants[t] : grants[t][g].revision = 0

(* ... and one whose source is deleted while maintenance changes its scopes *)
(* and holds its run.                                                      *)
Held ==
  /\ \A c \in Commands : journal[c].op # "correct"
  /\ \A t \in Tasks, r \in Revisions : engine[t][r] # "completed" /\ effects[t][r] = "none"
  /\ crashes = 0
  /\ \A t \in Tasks : \A g \in DOMAIN grants[t] : grants[t][g].revision > 0 => revision[t] = 1

Bounded == Crashing \/ Held
=============================================================================
