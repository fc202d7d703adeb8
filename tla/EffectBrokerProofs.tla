------------------------- MODULE EffectBrokerProofs -------------------------
(***************************************************************************)
(* Theorems about the effect broker, for all tasks, grants, tokens, keys,  *)
(* scopes and bounds.                                                      *)
(***************************************************************************)
EXTENDS EffectBroker, TLAPS

(* What a used task or token refers to exists.                             *)
RefersOK ==
  /\ \A t \in Tasks : task[t].revision > 0 => task[t].grant \in Grants
  /\ \A k \in Tokens : context[k].revision > 0 =>
       context[k].task \in Tasks /\ context[k].grant \in Grants

(* The current grant of a task is its own and no other task's.             *)
GrantsOwned ==
  \A t \in Tasks : task[t].revision > 0 =>
    CurrentGrant(t).task = t /\ CurrentGrant(t).revision > 0

(* `prepared' is overwritten in the transaction that inserts it, so there  *)
(* is never a prepared record to cancel.                                   *)
NeverPrepared == \A o \in Operations : effects[o].state \notin {"prepared", "cancelled"}

(* A record exists exactly when its operation was handed over, once.       *)
RecordedOnce ==
  \A o \in Operations :
    /\ effects[o].state = "absent" => sends[o] = 0 /\ wire[o] = "none"
    /\ effects[o].state # "absent" => sends[o] = 1 /\ wire[o] # "none"

(* Whatever the memory of the process still points at is recorded.         *)
MemoryOK ==
  \A o \in Operations :
    o \in inFlight \/ o \in reconciling \/ listing[o] # Absent
      => effects[o].state # "absent"

(* Evidence of a verified send: the receipt is in its record; and while a  *)
(* recovery pass or a dispatch may still overwrite the record, the message *)
(* is registered too.                                                      *)
EvidenceOK ==
  \A o \in Operations :
    effects[o].state = "verified" =>
      /\ effects[o].receipt
      /\ o \in inFlight \/ listing[o] # Absent => o \in ownOutputs

(* A reconciled operation is still in the listing.                         *)
ListedOK == \A o \in reconciling : listing[o] # Absent

IndInv == /\ TypeOK
          /\ RefersOK
          /\ GrantsOwned
          /\ NeverPrepared
          /\ RecordedOnce
          /\ MemoryOK
          /\ SettledTruthfully
          /\ EvidenceOK
          /\ ListedOK

-----------------------------------------------------------------------------
(* The initial state satisfies the inductive invariant.                    *)
LEMMA InitIndInv == Init => IndInv
<1> SUFFICES ASSUME Init PROVE IndInv
  OBVIOUS
<1> USE DEF Init
<1>1. TypeOK
  BY BoundsAssumption DEF TypeOK, TaskRecords, GrantRecords, ContextRecords,
     EffectRecords, States, Absent, UnusedGrant, Runs
<1>2. RefersOK /\ GrantsOwned
  BY DEF RefersOK, GrantsOwned
<1>3. NeverPrepared /\ RecordedOnce /\ MemoryOK /\ SettledTruthfully /\ EvidenceOK /\ ListedOK
  BY DEF NeverPrepared, RecordedOnce, MemoryOK, SettledTruthfully, EvidenceOK, ListedOK, Absent
<1> QED
  BY <1>1, <1>2, <1>3 DEF IndInv

-----------------------------------------------------------------------------
(* Changes of authority leave the records, the memory and the outside      *)
(* alone: there is nothing prepared for revokeTask to cancel.              *)
LEMMA RevokeTaskIdle ==
  ASSUME IndInv, NEW t \in Tasks, revokeTask(t)
  PROVE  UNCHANGED effects
BY DEF IndInv, TypeOK, NeverPrepared, revokeTask

(* The clauses about records, memory and outside read nothing else.        *)
LEMMA RecordsUnchanged ==
  ASSUME IndInv, UNCHANGED <<effects, ownOutputs, inFlight, recovery, outside>>
  PROVE  /\ effects' \in [Operations -> EffectRecords]
         /\ NeverPrepared' /\ RecordedOnce' /\ MemoryOK'
         /\ SettledTruthfully' /\ EvidenceOK' /\ ListedOK'
BY DEF IndInv, TypeOK, NeverPrepared, RecordedOnce, MemoryOK, SettledTruthfully,
   EvidenceOK, ListedOK, recovery, outside

(* The types and references of tasks, grants and tokens.                   *)
AuthorityOK == /\ task \in [Tasks -> TaskRecords]
               /\ grant \in [Grants -> GrantRecords]
               /\ context \in [Tokens -> ContextRecords]
               /\ RefersOK

(* No change of authority spoils them.                                     *)
LEMMA AuthorityChanges ==
  ASSUME IndInv, ChangeOfAuthority
  PROVE  AuthorityOK'
<1> USE BoundsAssumption DEF IndInv, TypeOK
<1>1. ASSUME NEW t \in Tasks, NEW g \in Grants, CreateTask(t, g)
      PROVE  AuthorityOK'
  BY <1>1 DEF CreateTask, NewGrant, AuthorityOK, RefersOK, TaskRecords, GrantRecords
<1>2. ASSUME NEW t \in Tasks, NEW g \in Grants, NEW refresh \in BOOLEAN,
             CorrectTask(t, g, refresh)
      PROVE  AuthorityOK'
  <2> DEFINE old == Rewritten(t, 0, CurrentGrant(t).scopes, TRUE, CurrentGrant(t).expired)
             new == NewGrant(t, task[t].revision + 1, refresh)
  <2>1. task[t].revision \in 1..(MaxRevision - 1) /\ task[t].grant \in Grants
    BY <1>2 DEF CorrectTask, RefersOK, TaskRecords
  <2>2. old \in GrantRecords
    BY <2>1 DEF Rewritten, CurrentGrant, GrantRecords
  <2>3. new \in GrantRecords
    BY <2>1 DEF NewGrant, CurrentGrant, GrantRecords
  <2>4. grant' = [grant EXCEPT ![task[t].grant] = old, ![g] = new]
    BY <1>2 DEF CorrectTask
  <2> HIDE DEF old, new
  <2>5. grant' \in [Grants -> GrantRecords]
    BY <2>2, <2>3, <2>4
  <2>6. task' \in [Tasks -> TaskRecords]
    BY <1>2, <2>1 DEF CorrectTask, TaskRecords
  <2>7. RefersOK'
    BY <1>2, <2>1 DEF CorrectTask, RefersOK, TaskRecords
  <2> QED
    BY <1>2, <2>5, <2>6, <2>7 DEF CorrectTask, AuthorityOK
<1>3. ASSUME NEW t \in Tasks, NEW g \in Grants, NEW refresh \in BOOLEAN,
             ResumeTask(t, g, refresh)
      PROVE  AuthorityOK'
  <2>1. task[t].revision \in 1..MaxRevision /\ task[t].grant \in Grants
    BY <1>3 DEF ResumeTask, RefersOK, TaskRecords
  <2>2. NewGrant(t, task[t].revision, refresh) \in GrantRecords
    BY <2>1 DEF NewGrant, CurrentGrant, GrantRecords
  <2>3. grant' \in [Grants -> GrantRecords]
    BY <1>3, <2>2 DEF ResumeTask
  <2>4. task' \in [Tasks -> TaskRecords] /\ RefersOK'
    BY <1>3, <2>1 DEF ResumeTask, RefersOK, TaskRecords
  <2> QED
    BY <1>3, <2>3, <2>4 DEF ResumeTask, AuthorityOK
<1>4. ASSUME NEW t \in Tasks, NEW r \in GrantRecords,
             UNCHANGED <<task, context>>, grant' = [grant EXCEPT ![task[t].grant] = r]
      PROVE  AuthorityOK'
  BY <1>4 DEF AuthorityOK, RefersOK
<1>5. ASSUME NEW t \in Tasks, RevokeAuthority(t)
      PROVE  AuthorityOK'
  <2>1. Rewritten(t, 1, CurrentGrant(t).scopes, TRUE, CurrentGrant(t).expired) \in GrantRecords
    BY <1>5 DEF RevokeAuthority, Rewritten, CurrentGrant, RefersOK, GrantRecords
  <2> QED
    BY <1>4, <1>5, <2>1 DEF RevokeAuthority
<1>6. ASSUME NEW t \in Tasks, NEW s \in SUBSET Scopes, NEW x \in BOOLEAN,
             PrepareTaskAuthority(t, s, x)
      PROVE  AuthorityOK'
  <2>1. Rewritten(t, 1, s, FALSE, x) \in GrantRecords
    BY <1>6 DEF PrepareTaskAuthority, Rewritten, CurrentGrant, RefersOK, GrantRecords
  <2> QED
    BY <1>4, <1>6, <2>1 DEF PrepareTaskAuthority
<1>7. ASSUME NEW t \in Tasks, NEW s \in Scopes, InvalidateOriginDrafts(t, s)
      PROVE  AuthorityOK'
  <2>1. Rewritten(t, 1, CurrentGrant(t).scopes \ {s}, FALSE, CurrentGrant(t).expired)
          \in GrantRecords
    BY <1>7 DEF InvalidateOriginDrafts, Rewritten, CurrentGrant, RefersOK, GrantRecords
  <2> QED
    BY <1>4, <1>7, <2>1 DEF InvalidateOriginDrafts
<1>8. ASSUME NEW g \in Grants, ExpireGrant(g)
      PROVE  AuthorityOK'
  BY <1>8 DEF ExpireGrant, AuthorityOK, RefersOK, GrantRecords
<1> QED
  BY <1>1, <1>2, <1>3, <1>5, <1>6, <1>7, <1>8 DEF ChangeOfAuthority

(* Each of them is about one task, whose new revision is not smaller; the  *)
(* current grants of the other tasks stay what they are.                   *)
OnlyTask(t) ==
  /\ task'[t].revision >= task[t].revision
  /\ task'[t].revision > 0 =>
       CurrentGrant(t)'.task = t /\ CurrentGrant(t)'.revision > 0
  /\ \A u \in Tasks \ {t} :
       /\ task'[u] = task[u]
       /\ task[u].revision > 0 => CurrentGrant(u)' = CurrentGrant(u)

(* A new grant under an unused id is nobody else's current grant.          *)
LEMMA FreshGrant ==
  ASSUME IndInv, NEW g \in Grants, Unused(g), NEW u \in Tasks, task[u].revision > 0
  PROVE  task[u].grant # g
BY DEF IndInv, GrantsOwned, CurrentGrant, Unused

(* Nor is the current grant of another task.                               *)
LEMMA OtherGrant ==
  ASSUME IndInv, NEW t \in Tasks, NEW u \in Tasks, t # u,
         task[t].revision > 0, task[u].revision > 0
  PROVE  task[u].grant # task[t].grant
BY DEF IndInv, GrantsOwned, CurrentGrant

(* A change of authority is one task's, or leaves all tasks as they are.   *)
LEMMA AuthorityOfOne ==
  ASSUME IndInv, ChangeOfAuthority
  PROVE  \/ /\ UNCHANGED task
            /\ \A u \in Tasks : task[u].revision > 0 => CurrentGrant(u)' = CurrentGrant(u)
         \/ \E t \in Tasks : OnlyTask(t)
<1> USE DEF IndInv, TypeOK, OnlyTask, CurrentGrant
<1>1. ASSUME NEW t \in Tasks, NEW g \in Grants, CreateTask(t, g)
      PROVE  OnlyTask(t)
  BY <1>1, FreshGrant DEF CreateTask, NewGrant, RefersOK
<1>2. ASSUME NEW t \in Tasks, NEW g \in Grants, NEW refresh \in BOOLEAN,
             CorrectTask(t, g, refresh)
      PROVE  OnlyTask(t)
  <2> DEFINE old == Rewritten(t, 0, CurrentGrant(t).scopes, TRUE, CurrentGrant(t).expired)
             new == NewGrant(t, task[t].revision + 1, refresh)
  <2>1. task[t].revision \in 1..(MaxRevision - 1) /\ Unused(g)
    BY <1>2 DEF CorrectTask
  <2>2. new.task = t /\ new.revision = task[t].revision + 1
    BY DEF NewGrant
  <2>3. /\ grant' = [grant EXCEPT ![task[t].grant] = old, ![g] = new]
        /\ task'  = [task EXCEPT ![t] = [revision |-> @.revision + 1, grant |-> g]]
    BY <1>2 DEF CorrectTask
  <2> HIDE DEF old, new
  <2>4. task'[t].revision = task[t].revision + 1 /\ task'[t].grant = g /\ grant'[g] = new
    BY <2>3
  <2>5. ASSUME NEW u \in Tasks \ {t}
        PROVE  task'[u] = task[u] /\ (task[u].revision > 0 => grant'[task'[u].grant] = grant[task[u].grant])
    <3>1. task'[u] = task[u]
      BY <2>3
    <3>2. task[u].revision > 0 => task[u].grant # g /\ task[u].grant # task[t].grant
      BY <2>1, FreshGrant, OtherGrant
    <3>3. task[u].revision > 0 => task[u].grant \in Grants
      BY DEF RefersOK
    <3> QED
      BY <2>3, <3>1, <3>2, <3>3
  <2> QED
    BY <2>1, <2>2, <2>4, <2>5
<1>3. ASSUME NEW t \in Tasks, NEW g \in Grants, NEW refresh \in BOOLEAN,
             ResumeTask(t, g, refresh)
      PROVE  OnlyTask(t)
  <2> DEFINE new == NewGrant(t, task[t].revision, refresh)
  <2>1. /\ task[t].revision > 0 /\ Unused(g)
        /\ task' = [task EXCEPT ![t].grant = g] /\ grant' = [grant EXCEPT ![g] = new]
    BY <1>3 DEF ResumeTask
  <2>2. new.task = t /\ new.revision = task[t].revision
    BY DEF NewGrant
  <2> HIDE DEF new
  <2>3. task'[t].revision = task[t].revision /\ task'[t].grant = g /\ grant'[g] = new
    BY <2>1 DEF TaskRecords
  <2>4. task[t].revision \in 0..MaxRevision
    BY DEF TaskRecords
  <2>5. ASSUME NEW u \in Tasks \ {t}
        PROVE  task'[u] = task[u] /\ (task[u].revision > 0 => grant'[task'[u].grant] = grant[task[u].grant])
    <3>1. task'[u] = task[u]
      BY <2>1
    <3>2. task[u].revision > 0 => task[u].grant # g
      BY <2>1, FreshGrant
    <3>3. task[u].revision > 0 => task[u].grant \in Grants
      BY DEF RefersOK
    <3> QED
      BY <2>1, <3>1, <3>2, <3>3
  <2> QED
    BY <2>1, <2>2, <2>3, <2>4, <2>5, BoundsAssumption
<1>4. ASSUME NEW t \in Tasks, NEW r, r.task = CurrentGrant(t).task,
             r.revision \in {CurrentGrant(t).revision, CurrentGrant(t).revision + 1},
             task[t].revision > 0, UNCHANGED task,
             grant' = [grant EXCEPT ![task[t].grant] = r]
      PROVE  OnlyTask(t)
  <2>1. task[t].grant \in Grants /\ CurrentGrant(t).task = t /\ CurrentGrant(t).revision > 0
    BY <1>4 DEF RefersOK, GrantsOwned
  <2>2. task[t].revision \in Nat /\ CurrentGrant(t).revision \in Nat
    BY <2>1, BoundsAssumption DEF TaskRecords, GrantRecords
  <2>3. grant'[task[t].grant] = r /\ r.revision > 0
    BY <1>4, <2>1, <2>2
  <2>4. ASSUME NEW u \in Tasks \ {t}, task[u].revision > 0
        PROVE  grant'[task[u].grant] = grant[task[u].grant]
    BY <1>4, <2>4, OtherGrant DEF RefersOK
  <2> QED
    BY <1>4, <2>1, <2>2, <2>3, <2>4
<1>5. ASSUME NEW t \in Tasks, RevokeAuthority(t)
      PROVE  OnlyTask(t)
  <2> DEFINE r == Rewritten(t, 1, CurrentGrant(t).scopes, TRUE, CurrentGrant(t).expired)
  <2>1. r.task = CurrentGrant(t).task /\ r.revision = CurrentGrant(t).revision + 1
    BY DEF Rewritten
  <2>2. task[t].revision > 0 /\ UNCHANGED task /\ grant' = [grant EXCEPT ![task[t].grant] = r]
    BY <1>5 DEF RevokeAuthority
  <2> HIDE DEF r, OnlyTask
  <2> QED
    BY <1>4, <2>1, <2>2
<1>6. ASSUME NEW t \in Tasks, NEW s \in SUBSET Scopes, NEW x \in BOOLEAN,
             PrepareTaskAuthority(t, s, x)
      PROVE  OnlyTask(t)
  <2> DEFINE r == Rewritten(t, 1, s, FALSE, x)
  <2>1. r.task = CurrentGrant(t).task /\ r.revision = CurrentGrant(t).revision + 1
    BY DEF Rewritten
  <2>2. task[t].revision > 0 /\ UNCHANGED task /\ grant' = [grant EXCEPT ![task[t].grant] = r]
    BY <1>6 DEF PrepareTaskAuthority
  <2> HIDE DEF r, OnlyTask
  <2> QED
    BY <1>4, <2>1, <2>2
<1>7. ASSUME NEW t \in Tasks, NEW s \in Scopes, InvalidateOriginDrafts(t, s)
      PROVE  OnlyTask(t)
  <2> DEFINE r == Rewritten(t, 1, CurrentGrant(t).scopes \ {s}, FALSE, CurrentGrant(t).expired)
  <2>1. r.task = CurrentGrant(t).task /\ r.revision = CurrentGrant(t).revision + 1
    BY DEF Rewritten
  <2>2. task[t].revision > 0 /\ UNCHANGED task /\ grant' = [grant EXCEPT ![task[t].grant] = r]
    BY <1>7 DEF InvalidateOriginDrafts
  <2> HIDE DEF r, OnlyTask
  <2> QED
    BY <1>4, <2>1, <2>2
<1>8. ASSUME NEW g \in Grants, ExpireGrant(g)
      PROVE  \/ \E t \in Tasks : OnlyTask(t)
             \/ UNCHANGED task /\ (\A u \in Tasks : task[u].revision > 0 => CurrentGrant(u)' = CurrentGrant(u))
  <2> DEFINE r == [grant[g] EXCEPT !.expired = TRUE]
  <2>1. UNCHANGED task /\ grant' = [grant EXCEPT ![g] = r]
    BY <1>8 DEF ExpireGrant
  <2>2. r.task = grant[g].task /\ r.revision = grant[g].revision
    BY DEF GrantRecords
  <2> HIDE DEF r
  <2>3. CASE \E t \in Tasks : task[t].revision > 0 /\ task[t].grant = g
    <3>1. PICK t \in Tasks : task[t].revision > 0 /\ task[t].grant = g
      BY <2>3
    <3> HIDE DEF OnlyTask
    <3>2. OnlyTask(t)
      BY <1>4, <2>1, <2>2, <3>1
    <3> QED
      BY <3>2
  <2>4. CASE \A t \in Tasks : task[t].revision > 0 => task[t].grant # g
    BY <2>1, <2>4 DEF RefersOK
  <2> QED
    BY <2>3, <2>4
<1> HIDE DEF OnlyTask, CurrentGrant
<1> QED
  BY <1>1, <1>2, <1>3, <1>5, <1>6, <1>7, <1>8 DEF ChangeOfAuthority

(* The owner, the host and the clock keep the invariant, and touch no effect.*)
LEMMA AuthorityStep ==
  ASSUME IndInv, ChangeOfAuthority
  PROVE  IndInv' /\ UNCHANGED <<effects, outside>>
<1>1. AuthorityOK'
  BY AuthorityChanges
<1>2. UNCHANGED <<ownOutputs, inFlight, recovery, outside, crashes>>
  BY DEF ChangeOfAuthority, CreateTask, CorrectTask, ResumeTask, RevokeAuthority,
     PrepareTaskAuthority, InvalidateOriginDrafts, ExpireGrant
<1>3. UNCHANGED effects
  BY RevokeTaskIdle DEF ChangeOfAuthority, CreateTask, CorrectTask, ResumeTask, RevokeAuthority,
     PrepareTaskAuthority, InvalidateOriginDrafts, ExpireGrant
<1>4. GrantsOwned'
  <2>1. CASE \E t \in Tasks : OnlyTask(t)
    BY <2>1 DEF IndInv, GrantsOwned, OnlyTask
  <2>2. CASE UNCHANGED task /\ (\A u \in Tasks : task[u].revision > 0 => CurrentGrant(u)' = CurrentGrant(u))
    BY <2>2 DEF IndInv, GrantsOwned
  <2> QED
    BY <2>1, <2>2, AuthorityOfOne
<1>5. /\ effects' \in [Operations -> EffectRecords]
      /\ NeverPrepared' /\ RecordedOnce' /\ MemoryOK'
      /\ SettledTruthfully' /\ EvidenceOK' /\ ListedOK'
  BY <1>2, <1>3, RecordsUnchanged
<1> QED
  BY <1>1, <1>2, <1>3, <1>4, <1>5 DEF IndInv, TypeOK, AuthorityOK, recovery, outside

-----------------------------------------------------------------------------
(* Tokens.                                                                 *)
LEMMA IssueStep ==
  ASSUME IndInv, NEW k \in Tokens, NEW t \in Tasks, NEW r \in Runs, Issue(k, t, r)
  PROVE  IndInv'
<1> USE DEF IndInv, TypeOK
<1> DEFINE c == [task |-> t, revision |-> task[t].revision, grant |-> task[t].grant,
                 grantRevision |-> CurrentGrant(t).revision, run |-> r,
                 revoked |-> FALSE, expired |-> FALSE]
<1>1. task[t].revision \in 1..MaxRevision /\ task[t].grant \in Grants
  BY DEF Issue, RefersOK, TaskRecords
<1>2. c \in ContextRecords
  BY <1>1 DEF ContextRecords, CurrentGrant, GrantRecords
<1>3. context' = [context EXCEPT ![k] = c]
  BY DEF Issue
<1>4. context' \in [Tokens -> ContextRecords]
  BY <1>2, <1>3
<1>5. RefersOK'
  <2>1. \A j \in Tokens : context'[j] = IF j = k THEN c ELSE context[j]
    BY <1>3
  <2>2. c.task = t /\ c.grant = task[t].grant
    OBVIOUS
  <2> HIDE DEF c
  <2> QED
    BY <1>1, <2>1, <2>2 DEF Issue, RefersOK
<1>6. UNCHANGED <<task, grant, effects, ownOutputs, inFlight, recovery, outside, crashes>>
  BY DEF Issue
<1>7. GrantsOwned'
  BY <1>6 DEF GrantsOwned, CurrentGrant
<1> QED
  BY <1>4, <1>5, <1>6, <1>7, RecordsUnchanged DEF recovery, outside

(* revokeToken and the deadline of a token keep the invariant.             *)
LEMMA TokenStep ==
  ASSUME IndInv, NEW k \in Tokens, RevokeToken(k) \/ ExpireContext(k)
  PROVE  IndInv'
<1> USE DEF IndInv, TypeOK
<1>1. context' = [context EXCEPT ![k].revoked = TRUE] \/ context' = [context EXCEPT ![k].expired = TRUE]
  BY DEF RevokeToken, ExpireContext
<1>3. context' \in [Tokens -> ContextRecords]
  <2>1. /\ [context[k] EXCEPT !.revoked = TRUE] \in ContextRecords
        /\ [context[k] EXCEPT !.expired = TRUE] \in ContextRecords
    BY DEF ContextRecords
  <2> QED
    BY <1>1, <2>1
<1>4. \A j \in Tokens : /\ context'[j].revision = context[j].revision
                        /\ context'[j].task = context[j].task
                        /\ context'[j].grant = context[j].grant
  BY <1>1 DEF ContextRecords
<1>2. UNCHANGED <<task, grant, effects, ownOutputs, inFlight, recovery, outside, crashes>>
  BY DEF RevokeToken, ExpireContext
<1>5. RefersOK'
  BY <1>2, <1>4 DEF RefersOK
<1>6. GrantsOwned'
  BY <1>2 DEF GrantsOwned, CurrentGrant
<1> QED
  BY <1>2, <1>3, <1>5, <1>6, RecordsUnchanged DEF recovery, outside

-----------------------------------------------------------------------------
(* Dispatch.                                                               *)

(* A usable token stands for the current revision and the live grant.      *)
LEMMA ResolvedIsCurrent ==
  ASSUME IndInv, NEW k \in Tokens, resolve(k)
  PROVE  /\ context[k].task \in Tasks
         /\ Live(context[k].task)
         /\ context[k].revision \in 1..MaxRevision
         /\ task[context[k].task].revision = context[k].revision
         /\ task[context[k].task].grant = context[k].grant
BY DEF IndInv, TypeOK, RefersOK, resolve, validateContext, Live, CurrentGrant,
   ContextRecords

(* A token that resolves names an operation of the model.                  *)
LEMMA OperationExists ==
  ASSUME IndInv, NEW k \in Tokens, NEW key \in Keys, NEW s \in Scopes, resolve(k)
  PROVE  effectOperationId(context[k], key, s) \in Operations
<1>1. context[k].run \in Runs
  BY DEF IndInv, TypeOK, ContextRecords
<1> QED
  BY <1>1, ResolvedIsCurrent DEF effectOperationId, Operations

(* executeBound, up to the call of the executor, keeps the invariant.      *)
LEMMA ExecuteStep ==
  ASSUME IndInv, NEW k \in Tokens, NEW key \in Keys, NEW s \in Scopes, Execute(k, key, s)
  PROVE  IndInv'
<1> DEFINE o == effectOperationId(context[k], key, s)
<1>1. o \in Operations
  BY OperationExists DEF Execute
<1>2. /\ effects[o].state = "absent"
      /\ effects' = [effects EXCEPT ![o] = Handed]
      /\ inFlight' = inFlight \cup {o}
      /\ wire' = [wire EXCEPT ![o] = IF @ = "none" THEN "pending" ELSE @]
      /\ sends' = [sends EXCEPT ![o] = @ + 1]
      /\ UNCHANGED <<task, grant, context, ownOutputs, recovery, crashes>>
  BY DEF Execute, Unrecorded
<1> HIDE DEF o
<1> USE DEF IndInv, TypeOK, recovery
<1>3. TypeOK'
  BY <1>1, <1>2 DEF Handed, EffectRecords, States
<1>4. RefersOK' /\ GrantsOwned'
  BY <1>2 DEF RefersOK, GrantsOwned, CurrentGrant
<1>5. RecordedOnce' /\ NeverPrepared'
  BY <1>1, <1>2 DEF RecordedOnce, NeverPrepared, Handed
<1>6. MemoryOK'
  BY <1>1, <1>2 DEF MemoryOK, Handed
<1>7. SettledTruthfully' /\ EvidenceOK'
  <2>1. ASSUME NEW p \in Operations, p # o
        PROVE  effects'[p] = effects[p] /\ wire'[p] = wire[p] /\ (p \in inFlight' <=> p \in inFlight)
    BY <1>1, <1>2, <2>1
  <2>2. effects'[o].state = "dispatching"
    BY <1>1, <1>2 DEF Handed
  <2> QED
    BY <1>2, <2>1, <2>2 DEF SettledTruthfully, EvidenceOK
<1>8. ListedOK'
  BY <1>2 DEF ListedOK
<1> QED
  BY <1>3, <1>4, <1>5, <1>6, <1>7, <1>8

-----------------------------------------------------------------------------
(* Answers and recovery passes.  RecoverReturns settles one record and     *)
(* goes on with the loop in the same step, so the clauses of the invariant *)
(* are stated here of any records eff, registrations own and listing lst.  *)

SoundRecord(o, e, l, own) ==
  /\ e \in EffectRecords /\ l \in EffectRecords
  /\ e.state \notin {"prepared", "cancelled"}
  /\ e.state = "absent" => sends[o] = 0 /\ wire[o] = "none"
  /\ e.state # "absent" => sends[o] = 1 /\ wire[o] # "none"
  /\ o \in inFlight \/ l # Absent => e.state # "absent"
  /\ e.state = "verified" => wire[o] = "delivered" /\ e.receipt
  /\ e.state = "failed" => wire[o] = "rejected"
  /\ e.state = "verified" /\ (o \in inFlight \/ l # Absent) => o \in own

Sound(eff, lst, own) ==
  /\ eff \in [Operations -> EffectRecords]
  /\ lst \in [Operations -> EffectRecords]
  /\ own \subseteq Operations
  /\ \A o \in Operations : SoundRecord(o, eff[o], lst[o], own)

(* The invariant, clause by clause for single records.                     *)
LEMMA InvSound ==
  ASSUME IndInv
  PROVE  Sound(effects, listing, ownOutputs)
BY DEF IndInv, TypeOK, NeverPrepared, RecordedOnce, MemoryOK, SettledTruthfully, EvidenceOK,
   Sound, SoundRecord

(* Back from the clauses of single records to the invariant.               *)
LEMMA SoundInv ==
  ASSUME IndInv, Sound(effects, listing, ownOutputs)',
         UNCHANGED <<task, grant, context>>, crashes' \in 0..MaxCrashes,
         inFlight' \subseteq Operations, reconciling' \subseteq Operations,
         wire' \in [Operations -> {"none", "pending", "delivered", "rejected"}],
         sends' \in [Operations -> Nat],
         \A o \in reconciling' : listing'[o] # Absent
  PROVE  IndInv'
<1>1. TypeOK'
  BY DEF IndInv, TypeOK, Sound
<1>2. RefersOK' /\ GrantsOwned'
  BY DEF IndInv, RefersOK, GrantsOwned, CurrentGrant
<1>3. NeverPrepared' /\ RecordedOnce' /\ SettledTruthfully' /\ EvidenceOK'
  BY DEF Sound, SoundRecord, NeverPrepared, RecordedOnce, SettledTruthfully, EvidenceOK
<1>4. MemoryOK' /\ ListedOK'
  BY DEF Sound, SoundRecord, MemoryOK, ListedOK
<1> QED
  BY <1>1, <1>2, <1>3, <1>4 DEF IndInv

(* An answer is a record, and a truthful one.                              *)
LEMMA ResultTruthful ==
  ASSUME NEW o \in Operations, NEW result \in Results(o)
  PROVE  /\ result \in EffectRecords
         /\ result.state \in {"unknown", "verified", "failed"}
         /\ result.state = "verified" => wire[o] = "delivered" /\ result.receipt
         /\ result.state = "failed" => wire[o] = "rejected"
<1>1. \/ \E r \in BOOLEAN : result = [state |-> "unknown", receipt |-> r]
      \/ wire[o] = "delivered" /\ result = [state |-> "verified", receipt |-> TRUE]
      \/ wire[o] = "rejected" /\ result = [state |-> "failed", receipt |-> FALSE]
  BY Zenon DEF Results
<1>2. ASSUME NEW r \in BOOLEAN
      PROVE  [state |-> "unknown", receipt |-> r] \in EffectRecords
  BY DEF EffectRecords, States
<1>3. /\ [state |-> "verified", receipt |-> TRUE] \in EffectRecords
      /\ [state |-> "failed", receipt |-> FALSE] \in EffectRecords
  BY DEF EffectRecords, States
<1>4. CASE \E r \in BOOLEAN : result = [state |-> "unknown", receipt |-> r]
  BY <1>2, <1>4
<1>5. CASE wire[o] = "delivered" /\ result = [state |-> "verified", receipt |-> TRUE]
  BY <1>3, <1>5
<1>6. CASE wire[o] = "rejected" /\ result = [state |-> "failed", receipt |-> FALSE]
  BY <1>3, <1>6
<1> QED
  BY <1>1, <1>4, <1>5, <1>6

(* settle and captureOwnReceipt keep every clause, whatever copy of the    *)
(* record the caller holds.                                                *)
LEMMA SettleKeeps ==
  ASSUME Sound(effects, listing, ownOutputs), NEW o \in Operations,
         o \in inFlight \/ listing[o] # Absent,
         NEW copy \in EffectRecords, NEW result \in Results(o),
         NEW own \in SUBSET Operations, ownOutputs \subseteq own,
         effects[o].state # "verified" /\ result.state = "verified" => o \in own
  PROVE  Sound(settled(o, copy, result), listing, own)
<1> DEFINE new == [state |-> result.state, receipt |-> copy.receipt \/ result.receipt]
<1>1. /\ result.state \in {"unknown", "verified", "failed"}
      /\ result.receipt \in BOOLEAN /\ copy.receipt \in BOOLEAN
      /\ result.state = "verified" => wire[o] = "delivered" /\ result.receipt
      /\ result.state = "failed" => wire[o] = "rejected"
  BY ResultTruthful DEF EffectRecords
<1>2. new \in EffectRecords
  BY <1>1 DEF EffectRecords, States
<1>4. CASE effects[o].state = "verified"
  BY <1>4 DEF settled, Sound, SoundRecord
<1>5. CASE effects[o].state # "verified"
  <2>1. settled(o, copy, result) = [effects EXCEPT ![o] = new]
    BY <1>5 DEF settled
  <2>2. new.state = result.state /\ (result.receipt => new.receipt)
    BY <1>1
  <2> HIDE DEF new
  <2>4. SoundRecord(o, new, listing[o], own)
    BY <1>1, <1>2, <1>5, <2>2 DEF Sound, SoundRecord
  <2>5. ASSUME NEW p \in Operations
        PROVE  SoundRecord(p, [effects EXCEPT ![o] = new][p], listing[p], own)
    <3>1. CASE p = o
      BY <2>4, <3>1 DEF Sound
    <3>2. CASE p # o
      BY <3>2 DEF Sound, SoundRecord
    <3> QED
      BY <3>1, <3>2
  <2> QED
    BY <1>2, <2>1, <2>5 DEF Sound
<1> QED
  BY <1>4, <1>5

(* captureOwnReceipt registers what SettleKeeps asks for.                  *)
LEMMA CaptureRegisters ==
  ASSUME Sound(effects, listing, ownOutputs), NEW o \in Operations, NEW result,
         captureOwnReceipt(o, result)
  PROVE  /\ ownOutputs' \in SUBSET Operations
         /\ ownOutputs \subseteq ownOutputs'
         /\ effects[o].state # "verified" /\ result.state = "verified" => o \in ownOutputs'
BY DEF captureOwnReceipt, Sound

(* Dropping elements from a listing asks less of the records.              *)
LEMMA ShorterListing ==
  ASSUME NEW eff, NEW lst, NEW own, NEW rest \in [Operations -> EffectRecords],
         Sound(eff, lst, own),
         \A o \in Operations : rest[o] # Absent => lst[o] # Absent
  PROVE  Sound(eff, rest, own)
BY DEF Sound, SoundRecord

(* The absent record has the type of a record.                             *)
LEMMA AbsentIsRecord == Absent \in EffectRecords
BY DEF Absent, EffectRecords, States

(* The loop of recover keeps every clause: overwriting a verified record   *)
(* from a stale listing costs its outcome, never its registration.         *)
LEMMA ContinueKeeps ==
  ASSUME NEW eff, NEW rest, Sound(eff, rest, ownOutputs'), Continue(eff, rest),
         UNCHANGED <<inFlight, outside>>
  PROVE  /\ Sound(effects, listing, ownOutputs)'
         /\ reconciling' \subseteq Operations
         /\ \A o \in reconciling' : listing'[o] # Absent
<1>1. ASSUME NEW o \in Operations, NEW passed \in SUBSET inFlight, Visit(eff, rest, o, passed)
      PROVE  /\ Sound(effects, listing, ownOutputs)'
             /\ reconciling' \subseteq Operations
             /\ \A p \in reconciling' : listing'[p] # Absent
  <2> DEFINE back == [rest[o] EXCEPT !.state = "unknown"]
  <2>1. back \in EffectRecords /\ back.state = "unknown"
    BY DEF Sound, EffectRecords, States
  <2>2. effects' = [eff EXCEPT ![o] = back]
    BY <1>1 DEF Visit
  <2> HIDE DEF back
  <2>3. listing' = [p \in Operations |-> IF p \in passed THEN Absent ELSE rest[p]]
    BY <1>1 DEF Visit
  <2>4. listing' \in [Operations -> EffectRecords] /\ Sound(eff, listing', ownOutputs')
    BY <2>3, AbsentIsRecord, ShorterListing DEF Sound
  <2>5. effects' \in [Operations -> EffectRecords]
    BY <2>1, <2>2 DEF Sound
  <2>6. ASSUME NEW p \in Operations
        PROVE  SoundRecord(p, effects[p], listing[p], ownOutputs)'
    <3>1. CASE p = o
      <4>1. effects'[p] = back
        BY <2>2, <3>1 DEF Sound
      <4>2. eff[p].state # "absent"
        BY <1>1, <3>1 DEF Visit, Sound, SoundRecord
      <4> QED
        BY <2>1, <2>4, <3>1, <4>1, <4>2 DEF Sound, SoundRecord, outside
    <3>2. CASE p # o
      BY <2>2, <2>4, <3>2 DEF Sound, SoundRecord, outside
    <3> QED
      BY <3>1, <3>2
  <2>7. reconciling' = {o} /\ listing'[o] # Absent
    BY <1>1, <2>3 DEF Visit
  <2> QED
    BY <2>4, <2>5, <2>6, <2>7 DEF Sound
<1>2. ASSUME Finish(eff, rest)
      PROVE  /\ Sound(effects, listing, ownOutputs)'
             /\ reconciling' \subseteq Operations
             /\ \A p \in reconciling' : listing'[p] # Absent
  <2>1. effects' = eff /\ listing' = [p \in Operations |-> Absent] /\ reconciling' = {}
    BY <1>2 DEF Finish
  <2>2. Sound(effects', listing', ownOutputs')
    BY <2>1, AbsentIsRecord, ShorterListing
  <2> QED
    BY <2>1, <2>2 DEF Sound, SoundRecord, outside
<1> QED
  BY <1>1, <1>2 DEF Continue

(* The settlement of a dispatch answer keeps the invariant.                *)
LEMMA DispatchReturnsStep ==
  ASSUME IndInv, NEW o \in Operations, NEW result \in Results(o), DispatchReturns(o, result)
  PROVE  IndInv'
<1>1. Sound(settled(o, Handed, result), listing, ownOutputs')
  BY InvSound, SettleKeeps, CaptureRegisters DEF DispatchReturns, Handed, EffectRecords, States
<1>2. Sound(effects, listing, ownOutputs)'
  BY <1>1 DEF DispatchReturns, Sound, SoundRecord, recovery, outside
<1>3. \A p \in reconciling' : listing'[p] # Absent
  BY DEF IndInv, ListedOK, DispatchReturns, recovery
<1> QED
  BY <1>2, <1>3, SoundInv DEF IndInv, TypeOK, DispatchReturns, recovery, outside

(* The start of a recovery pass keeps the invariant.                       *)
LEMMA RecoverStartStep ==
  ASSUME IndInv, RecoverStart
  PROVE  IndInv'
<1>1. OpenEffects \in [Operations -> EffectRecords]
  BY AbsentIsRecord DEF OpenEffects, IndInv, TypeOK
<1>2. Sound(effects, OpenEffects, ownOutputs')
  BY <1>1, InvSound DEF Sound, SoundRecord, OpenEffects, Open, RecoverStart
<1>3. /\ Sound(effects, listing, ownOutputs)'
      /\ reconciling' \subseteq Operations
      /\ \A p \in reconciling' : listing'[p] # Absent
  BY <1>2, ContinueKeeps DEF RecoverStart
<1> QED
  BY <1>3, SoundInv DEF IndInv, TypeOK, RecoverStart, outside

(* A reconciled answer, and the walk to the next element, keep it.         *)
LEMMA RecoverReturnsStep ==
  ASSUME IndInv, NEW o \in Operations, NEW result \in Results(o), RecoverReturns(o, result)
  PROVE  IndInv'
<1> DEFINE eff == settled(o, listing[o], result)
           rest == [listing EXCEPT ![o] = Absent]
<1>1. listing[o] # Absent /\ listing[o] \in EffectRecords
  BY DEF IndInv, TypeOK, ListedOK, RecoverReturns
<1>2. Sound(eff, listing, ownOutputs')
  BY <1>1, InvSound, SettleKeeps, CaptureRegisters DEF RecoverReturns
<1>3. rest \in [Operations -> EffectRecords] /\ \A p \in Operations : rest[p] # Absent => listing[p] # Absent
  BY AbsentIsRecord DEF IndInv, TypeOK
<1> HIDE DEF eff
<1>4. Sound(eff, rest, ownOutputs')
  BY <1>2, <1>3, ShorterListing
<1>5. Continue(eff, rest) /\ UNCHANGED <<inFlight, outside>>
  BY DEF RecoverReturns, eff
<1> HIDE DEF rest
<1>6. /\ Sound(effects, listing, ownOutputs)'
      /\ reconciling' \subseteq Operations
      /\ \A p \in reconciling' : listing'[p] # Absent
  BY <1>4, <1>5, ContinueKeeps
<1> QED
  BY <1>6, SoundInv DEF IndInv, TypeOK, RecoverReturns, outside

(* A crash forgets what the memory clauses speak of.                       *)
LEMMA ForgetKeeps ==
  ASSUME IndInv, NEW eff, NEW own, Sound(eff, listing, own), Forget,
         effects' = eff, UNCHANGED <<task, grant, context, outside>>,
         ownOutputs' \subseteq Operations
  PROVE  IndInv'
<1>1. listing' = [p \in Operations |-> Absent] /\ inFlight' = {} /\ reconciling' = {}
  BY DEF Forget
<1>2. Sound(effects, listing, ownOutputs)'
  BY <1>1, AbsentIsRecord DEF Sound, SoundRecord, outside
<1>3. crashes' \in 0..MaxCrashes
  BY BoundsAssumption DEF Forget, IndInv, TypeOK
<1> QED
  BY <1>1, <1>2, <1>3, SoundInv DEF IndInv, TypeOK, outside

(* Crashes, also inside settle, and the outside keep the invariant.        *)
LEMMA EnvironmentStep ==
  ASSUME IndInv, Environment
  PROVE  IndInv'
<1>1. CASE Crash
  BY <1>1, InvSound, ForgetKeeps DEF Crash, IndInv, TypeOK
<1>2. ASSUME NEW o \in Operations, NEW result \in Results(o), CrashInSettle(o, result)
      PROVE  IndInv'
  <2>1. PICK copy \in EffectRecords :
          effects' = settled(o, copy, result) /\ (o \in inFlight \/ listing[o] # Absent)
    BY <1>2 DEF CrashInSettle, Handed, EffectRecords, States, IndInv, TypeOK, ListedOK
  <2>2. ownOutputs \cup {o} \in SUBSET Operations
    BY DEF IndInv, TypeOK
  <2>3. Sound(settled(o, copy, result), listing, ownOutputs \cup {o})
    BY <2>1, <2>2, InvSound, SettleKeeps
  <2> QED
    BY <1>2, <2>1, <2>3, ForgetKeeps DEF CrashInSettle, IndInv, TypeOK
<1>3. ASSUME NEW o \in Operations, NEW fate \in {"delivered", "rejected"}, WireSettles(o, fate)
      PROVE  IndInv'
  <2>1. /\ wire[o] = "pending" /\ wire' = [wire EXCEPT ![o] = fate]
        /\ UNCHANGED <<task, grant, context, effects, ownOutputs, inFlight, listing,
                       reconciling, sends, crashes>>
    BY <1>3 DEF WireSettles, recovery
  <2>2. Sound(effects, listing, ownOutputs)'
    BY <2>1, InvSound DEF Sound, SoundRecord, IndInv, TypeOK
  <2> QED
    BY <2>1, <2>2, SoundInv DEF IndInv, TypeOK, ListedOK
<1> QED
  BY <1>1, <1>2, <1>3 DEF Environment

-----------------------------------------------------------------------------
(* Every step keeps the inductive invariant.                               *)
LEMMA NextIndInv ==
  ASSUME IndInv, [Next]_vars
  PROVE  IndInv'
<1>1. CASE ChangeOfAuthority
  BY <1>1, AuthorityStep
<1>2. CASE Broker
  BY <1>2, IssueStep, TokenStep, ExecuteStep, DispatchReturnsStep DEF Broker
<1>3. CASE Recovery
  BY <1>3, RecoverStartStep, RecoverReturnsStep DEF Recovery
<1>4. CASE Environment
  BY <1>4, EnvironmentStep
<1>5. CASE UNCHANGED vars
  <2>1. UNCHANGED <<task, grant, context, effects, ownOutputs, inFlight, recovery, outside, crashes>>
    BY <1>5 DEF vars
  <2>2. RefersOK' /\ GrantsOwned'
    BY <2>1 DEF IndInv, RefersOK, GrantsOwned, CurrentGrant
  <2> QED
    BY <2>1, <2>2, RecordsUnchanged DEF IndInv, TypeOK, recovery, outside
<1> QED
  BY <1>1, <1>2, <1>3, <1>4, <1>5 DEF Next

(* The inductive invariant holds in every reachable state.                 *)
THEOREM Invariance == Spec => []IndInv
BY InitIndInv, NextIndInv, PTL DEF Spec

(* Every variable of the broker keeps its type.                            *)
THEOREM TypeCorrect == Spec => []TypeOK
<1>1. IndInv => TypeOK
  BY DEF IndInv
<1> QED
  BY <1>1, Invariance, PTL

(* executor.dispatch is called at most once for one operation identity,    *)
(* through any number of crashes, callers and recovery passes.             *)
THEOREM DispatchedOnce == Spec => []AtMostOnceDispatched
<1>1. IndInv => AtMostOnceDispatched
  BY DEF IndInv, TypeOK, RecordedOnce, AtMostOnceDispatched, EffectRecords
<1> QED
  BY <1>1, Invariance, PTL

(* A settled record tells what happened outside.                           *)
THEOREM Truthful == Spec => []SettledTruthfully
<1>1. IndInv => SettledTruthfully
  BY DEF IndInv
<1> QED
  BY <1>1, Invariance, PTL

-----------------------------------------------------------------------------
(* Only Execute hands an operation over.                                   *)
LEMMA OnlyExecuteSends ==
  ASSUME [Next]_vars, UNCHANGED sends => FALSE
  PROVE  \E k \in Tokens, key \in Keys, s \in Scopes : Execute(k, key, s)
<1>1. CASE ChangeOfAuthority
  BY <1>1 DEF ChangeOfAuthority, CreateTask, CorrectTask, ResumeTask, RevokeAuthority,
     PrepareTaskAuthority, InvalidateOriginDrafts, ExpireGrant, outside
<1>2. CASE Broker
  BY <1>2 DEF Broker, Issue, RevokeToken, ExpireContext, DispatchReturns, outside
<1>3. CASE Recovery
  BY <1>3 DEF Recovery, RecoverStart, RecoverReturns, outside
<1>4. CASE Environment
  BY <1>4 DEF Environment, Crash, CrashInSettle, WireSettles, outside
<1>5. CASE UNCHANGED vars
  BY <1>5 DEF vars, outside
<1> QED
  BY <1>1, <1>2, <1>3, <1>4, <1>5 DEF Next

(* An operation is handed over only under the current revision and a live  *)
(* grant that holds its scope, however old the token is.                   *)
THEOREM CurrentAuthority == Spec => DispatchUnderCurrentAuthority
<1> DEFINE Sent(o) == sends'[o] # sends[o] =>
         /\ Live(o.task)
         /\ task[o.task].revision = o.revision
         /\ o.scope \in CurrentGrant(o.task).scopes
<1>1. ASSUME IndInv, [Next]_vars, NEW o \in Operations, sends'[o] # sends[o]
      PROVE  /\ Live(o.task)
             /\ task[o.task].revision = o.revision
             /\ o.scope \in CurrentGrant(o.task).scopes
  <2>1. PICK k \in Tokens, key \in Keys, s \in Scopes : Execute(k, key, s)
    BY <1>1, OnlyExecuteSends
  <2>2. o = effectOperationId(context[k], key, s)
    BY <1>1, <2>1 DEF Execute, IndInv, TypeOK
  <2>3. o.task = context[k].task /\ o.revision = context[k].revision /\ o.scope = s
    BY <2>2 DEF effectOperationId
  <2>4. resolve(k) /\ s \in grant[context[k].grant].scopes
    BY <2>1 DEF Execute, permits
  <2> QED
    BY <1>1, <2>3, <2>4, ResolvedIsCurrent DEF CurrentGrant
<1>2. ASSUME IndInv, [Next]_vars
      PROVE  [\A o \in Operations : Sent(o)]_vars
  BY <1>1, <1>2
<1> QED
  BY <1>2, Invariance, PTL DEF Spec, DispatchUnderCurrentAuthority

-----------------------------------------------------------------------------
(* Nothing unregisters a message.                                          *)
LEMMA OwnOutputsGrow ==
  ASSUME [Next]_vars
  PROVE  ownOutputs \subseteq ownOutputs'
<1>1. CASE ChangeOfAuthority
  BY <1>1 DEF ChangeOfAuthority, CreateTask, CorrectTask, ResumeTask, RevokeAuthority,
     PrepareTaskAuthority, InvalidateOriginDrafts, ExpireGrant
<1>2. CASE Broker
  BY <1>2 DEF Broker, Issue, RevokeToken, ExpireContext, Execute, DispatchReturns,
     captureOwnReceipt
<1>3. CASE Recovery
  BY <1>3 DEF Recovery, RecoverStart, RecoverReturns, captureOwnReceipt
<1>4. CASE Environment
  BY <1>4 DEF Environment, Crash, CrashInSettle, WireSettles
<1>5. CASE UNCHANGED vars
  BY <1>5 DEF vars
<1> QED
  BY <1>1, <1>2, <1>3, <1>4, <1>5 DEF Next

(* settle leaves a verified record alone.                                  *)
LEMMA SettledKeepsVerified ==
  ASSUME NEW o \in Operations, NEW p \in Operations, NEW copy, NEW result,
         effects \in [Operations -> EffectRecords], effects[o].state = "verified"
  PROVE  settled(p, copy, result)[o] = effects[o]
BY DEF settled

(* A loop that does not have o in its listing does not touch its record.   *)
LEMMA ContinueSkips ==
  ASSUME NEW o \in Operations, NEW eff \in [Operations -> EffectRecords], NEW rest,
         Continue(eff, rest), rest[o] = Absent
  PROVE  effects'[o] = eff[o]
BY DEF Continue, Visit, Finish

(* settle leaves records in the store.                                     *)
LEMMA SettledIsRecords ==
  ASSUME IndInv, NEW o \in Operations, NEW copy \in EffectRecords, NEW result \in Results(o)
  PROVE  settled(o, copy, result) \in [Operations -> EffectRecords]
<1>1. result \in EffectRecords
  BY ResultTruthful
<1>2. [state |-> result.state, receipt |-> copy.receipt \/ result.receipt] \in EffectRecords
  BY <1>1 DEF EffectRecords
<1> QED
  BY <1>2 DEF settled, IndInv, TypeOK

(* A verified record is overwritten only once its message is registered.   *)
LEMMA VerifiedOverwritten ==
  ASSUME IndInv, [Next]_vars, NEW o \in Operations,
         effects[o].state = "verified", o \notin ownOutputs
  PROVE  effects'[o] = effects[o]
<1> USE DEF IndInv, TypeOK
<1>1. o \notin inFlight /\ listing[o] = Absent
  BY DEF EvidenceOK
<1>2. CASE ChangeOfAuthority
  BY <1>2 DEF ChangeOfAuthority, CreateTask, CorrectTask, ResumeTask, RevokeAuthority,
     PrepareTaskAuthority, InvalidateOriginDrafts, ExpireGrant, revokeTask
<1>3. ASSUME NEW k \in Tokens, NEW key \in Keys, NEW s \in Scopes, Execute(k, key, s)
      PROVE  effects'[o] = effects[o]
  BY <1>3 DEF Execute, Unrecorded
<1>4. ASSUME NEW p \in Operations, NEW result \in Results(p), DispatchReturns(p, result)
      PROVE  effects'[o] = effects[o]
  BY <1>4, SettledKeepsVerified DEF DispatchReturns
<1>5. CASE Broker
  BY <1>3, <1>5, <1>4 DEF Broker, Issue, RevokeToken, ExpireContext
<1>6. CASE RecoverStart
  BY <1>6, ContinueSkips DEF RecoverStart, OpenEffects, Open
<1>7. ASSUME NEW p \in Operations, NEW result \in Results(p), RecoverReturns(p, result)
      PROVE  effects'[o] = effects[o]
  <2> DEFINE eff == settled(p, listing[p], result)
             rest == [listing EXCEPT ![p] = Absent]
  <2>1. eff \in [Operations -> EffectRecords] /\ eff[o] = effects[o]
    BY SettledIsRecords, SettledKeepsVerified
  <2>2. rest[o] = Absent
    BY <1>1
  <2>3. Continue(eff, rest)
    BY <1>7 DEF RecoverReturns
  <2> HIDE DEF eff, rest
  <2> QED
    BY <2>1, <2>2, <2>3, ContinueSkips
<1>8. CASE Environment
  BY <1>8, SettledKeepsVerified DEF Environment, Crash, CrashInSettle, WireSettles
<1>9. CASE UNCHANGED vars
  BY <1>9 DEF vars
<1> QED
  BY <1>2, <1>5, <1>6, <1>7, <1>8, <1>9 DEF Next, Recovery

(* A message whose delivery was verified stays recognised as the agent's   *)
(* own, whatever a stale listing or a crash inside settle does.            *)
THEOREM StaysRecognised == Spec => VerifiedStaysRecognised
<1>1. ASSUME IndInv, [Next]_vars, NEW o \in Operations,
             effects[o].state = "verified" \/ o \in ownOutputs
      PROVE  Recognised(o)'
  <2>1. CASE o \in ownOutputs
    BY <1>1, <2>1, OwnOutputsGrow DEF Recognised
  <2>2. CASE effects[o].state = "verified" /\ o \notin ownOutputs
    BY <1>1, <2>2, VerifiedOverwritten DEF IndInv, EvidenceOK, Recognised
  <2> QED
    BY <1>1, <2>1, <2>2
<1>2. ASSUME IndInv, [Next]_vars
      PROVE  [\A o \in Operations :
                effects[o].state = "verified" \/ o \in ownOutputs => Recognised(o)']_vars
  BY <1>1, <1>2
<1> QED
  BY <1>2, Invariance, PTL DEF Spec, VerifiedStaysRecognised

-----------------------------------------------------------------------------
(* The broker implements the ledger.                                       *)

(* A change of authority of one task is one of the ledger.                 *)
LEMMA LedgerAuthority ==
  ASSUME IndInv, IndInv', UNCHANGED <<effects, outside>>, NEW t \in Tasks, OnlyTask(t)
  PROVE  Ledger!ChangeAuthority(t)
<1> DEFINE cur == [u \in Tasks |-> task[u].revision]
           liv == [u \in Tasks |-> Live(u)]
<1>1. cur' = [cur EXCEPT ![t] = task'[t].revision]
  BY DEF OnlyTask
<1>2. ASSUME NEW u \in Tasks \ {t}
      PROVE  Live(u)' = Live(u)
  BY <1>2 DEF OnlyTask, Live
<1>3. liv' = [liv EXCEPT ![t] = Live(t)']
  BY <1>2
<1>4. task'[t].revision \in cur[t]..MaxRevision
  BY BoundsAssumption DEF OnlyTask, IndInv, TypeOK, TaskRecords
<1>5. Live(t)' \in BOOLEAN
  BY DEF Live
<1>6. UNCHANGED <<[o \in Operations |-> LedgerState(o)], sends>>
  BY DEF LedgerState, outside
<1> QED
  BY <1>1, <1>3, <1>4, <1>5, <1>6 DEF Ledger!ChangeAuthority

(* Execute is an attempt.                                                  *)
LEMMA LedgerAttempt ==
  ASSUME IndInv, NEW k \in Tokens, NEW key \in Keys, NEW s \in Scopes, Execute(k, key, s)
  PROVE  \E o \in Operations : Ledger!Attempt(o)
<1> DEFINE o == effectOperationId(context[k], key, s)
           led == [p \in Operations |-> LedgerState(p)]
<1>1. o \in Operations
  BY OperationExists DEF Execute
<1>2. /\ effects[o].state = "absent"
      /\ effects' = [effects EXCEPT ![o] = Handed]
      /\ sends' = [sends EXCEPT ![o] = @ + 1]
      /\ UNCHANGED <<task, grant>>
  BY DEF Execute, Unrecorded
<1>3. o.task \in Tasks /\ Live(o.task) /\ task[o.task].revision = o.revision
  BY ResolvedIsCurrent DEF Execute, effectOperationId
<1> HIDE DEF o
<1>4. led[o] = "absent"
  BY <1>1, <1>2 DEF LedgerState, Open
<1>5. led' = [led EXCEPT ![o] = "open"]
  BY <1>1, <1>2 DEF LedgerState, Open, Handed, IndInv, TypeOK
<1>6. UNCHANGED <<[t \in Tasks |-> task[t].revision], [t \in Tasks |-> Live(t)]>>
  BY <1>2 DEF Live, CurrentGrant
<1>7. Ledger!Attempt(o)
  BY <1>1, <1>2, <1>3, <1>4, <1>5, <1>6 DEF Ledger!Attempt, TaskOf, RevisionOf
<1> QED
  BY <1>1, <1>7

(* A step that keeps authority and attempts, and keeps every record a      *)
(* record, is a report.                                                    *)
LEMMA LedgerReport ==
  ASSUME IndInv, IndInv', UNCHANGED <<task, grant, sends>>
  PROVE  Ledger!Report
<1> DEFINE led == [o \in Operations |-> LedgerState(o)]
           S == {o \in Operations : led[o] # "absent"}
           outcome == [o \in S |-> led'[o]]
<1>1. UNCHANGED <<[t \in Tasks |-> task[t].revision], [t \in Tasks |-> Live(t)], sends>>
  BY DEF Live, CurrentGrant
<1>2. ASSUME NEW o \in Operations
      PROVE  effects[o].state = "absent" <=> effects'[o].state = "absent"
  BY DEF IndInv, RecordedOnce
<1>3. ASSUME NEW o \in Operations
      PROVE  /\ led[o] = "absent" <=> effects[o].state = "absent"
             /\ led'[o] = "absent" <=> effects'[o].state = "absent"
             /\ led'[o] # "absent" => led'[o] \in {"verified", "failed", "open"}
  BY DEF LedgerState, Open, IndInv, TypeOK, NeverPrepared, EffectRecords, States
<1>4. S \in SUBSET {o \in Operations : led[o] # "absent"}
  OBVIOUS
<1>5. outcome \in [S -> Ledger!Outcomes \cup {"open"}]
  BY <1>2, <1>3 DEF Ledger!Outcomes
<1>6. led' = [o \in Operations |-> IF o \in S THEN outcome[o] ELSE led[o]]
  BY <1>2, <1>3
<1> QED
  BY <1>1, <1>4, <1>5, <1>6 DEF Ledger!Report

(* Every step of the broker is a step or a stutter of the ledger.          *)
LEMMA LedgerStep ==
  ASSUME IndInv, IndInv', [Next]_vars
  PROVE  [Ledger!Next]_(Ledger!vars)
<1>1. CASE ChangeOfAuthority
  <2>1. UNCHANGED <<effects, outside>>
    BY <1>1, AuthorityStep
  <2>2. CASE \E t \in Tasks : OnlyTask(t)
    BY <2>1, <2>2, LedgerAuthority DEF Ledger!Next
  <2>3. CASE UNCHANGED task /\ (\A u \in Tasks : task[u].revision > 0 => CurrentGrant(u)' = CurrentGrant(u))
    <3>1. ASSUME NEW u \in Tasks
          PROVE  Live(u)' = Live(u)
      BY <2>3, <3>1 DEF Live
    <3> QED
      BY <2>1, <2>3, <3>1 DEF Ledger!vars, LedgerState, outside
  <2> QED
    BY <1>1, <2>2, <2>3, AuthorityOfOne
<1>2. CASE UNCHANGED <<task, grant, sends>>
  BY <1>2, LedgerReport DEF Ledger!Next
<1>3. CASE \E k \in Tokens, key \in Keys, s \in Scopes : Execute(k, key, s)
  BY <1>3, LedgerAttempt DEF Ledger!Next
<1>4. CASE Broker
  BY <1>2, <1>3, <1>4 DEF Broker, Issue, RevokeToken, ExpireContext, DispatchReturns, outside
<1>5. CASE Recovery
  BY <1>2, <1>5 DEF Recovery, RecoverStart, RecoverReturns, outside
<1>6. CASE Environment
  BY <1>2, <1>6 DEF Environment, Crash, CrashInSettle, WireSettles, outside
<1>7. CASE UNCHANGED vars
  BY <1>2, <1>7 DEF vars, outside
<1> QED
  BY <1>1, <1>4, <1>5, <1>6, <1>7 DEF Next

(* The initial state of the broker is one of the ledger.                   *)
LEMMA LedgerInit == Init => Ledger!Init
BY DEF Init, Ledger!Init, Live, LedgerState, Absent, Open

(* Whatever the broker does, crashes and stale recovery passes included,   *)
(* is a behaviour of the abstract ledger: an operation is attempted once,  *)
(* under the current live authority, and afterwards only reported on.      *)
THEOREM Refinement == Spec => ImplementsLedger
BY LedgerInit, LedgerStep, Invariance, PTL DEF Spec, ImplementsLedger, Ledger!Spec
=============================================================================
