---------------------------- MODULE EffectBroker ----------------------------
(***************************************************************************)
(* The effect broker of the personal agent (core/broker.ts) together with  *)
(* the controller's operations that change the authority it checks.        *)
(*                                                                         *)
(* A tool call, a delivery or a control reply presents an opaque token and *)
(* a request.  The broker resolves the token to a context, checks it       *)
(* against the current task and grant, records the operation as            *)
(* `dispatching' in one transaction and only then hands it to the          *)
(* executor.  The executor's answer settles the record; what a crash or a  *)
(* lost answer leaves open is reconciled by recovery passes, which walk a  *)
(* LISTING of the store while other calls go on between their awaits.      *)
(*                                                                         *)
(* An operation of the code between two awaits is one action: the program  *)
(* is single-threaded and its store is synchronous.                        *)
(***************************************************************************)
EXTENDS Naturals, FiniteSets

CONSTANTS
  Tasks,             \* task ids
  Grants,            \* grant ids (random UUIDs: never reused)
  Tokens,            \* opaque tokens (random: never reused)
  CronRuns,          \* run ids of native schedule executions ("cron:...")
  Keys,              \* request keys: the caller's id, or else the payload's hash
  Scopes,            \* capability/resource pairs a grant may hold
  MaxRevision,       \* bound: revisions of a task
  MaxGrantRevision,  \* bound: revisions of a grant
  MaxEffects,        \* bound: operations ever recorded
  MaxCrashes         \* bound: process crashes

NoRun == "none"      \* any run that is not a cron execution
NoTask == "noTask"   \* owner of a grant id not yet used
NoGrant == "noGrant" \* grant of a task not yet created

Runs == CronRuns \cup {NoRun}

ASSUME BoundsAssumption ==
  /\ MaxRevision \in Nat \ {0}
  /\ MaxGrantRevision \in Nat \ (0..(MaxRevision - 1))
  /\ MaxEffects \in Nat
  /\ MaxCrashes \in Nat

(* The identity of an operation: see effectOperationId below.              *)
Operations == [task : Tasks, revision : 1..MaxRevision, run : Runs,
               key : Keys, scope : Scopes]

States == {"absent", "prepared", "dispatching", "verified", "failed",
           "unknown", "cancelled"}
Open == {"dispatching", "unknown"}

(* An effect record; receipt stands for the native message identity that   *)
(* the executor's result carried, if it carried one.                       *)
EffectRecords == [state : States, receipt : BOOLEAN]
Absent == [state |-> "absent", receipt |-> FALSE]

VARIABLES
  task,        \* task[t]: current revision (0: none) and grant id of task t
  grant,       \* grant[g]: the grant record of id g (revision 0: unused)
  context,     \* context[k]: what token k stands for (revision 0: unissued)
  effects,     \* effects[o]: the durable record of operation o
  ownOutputs,  \* operations whose message is registered as the agent's own
  inFlight,    \* operations whose executor.dispatch has not returned
  listing,     \* what the running recovery pass listed and still has to visit
  reconciling, \* the operation (at most one) whose executor.reconcile runs
  wire,        \* external: what became of the operation outside
  sends,       \* history: how often executor.dispatch was called for it
  crashes      \* crashes so far

recovery  == <<listing, reconciling>>
outside   == <<wire, sends>>
vars == <<task, grant, context, effects, ownOutputs, inFlight, recovery,
          outside, crashes>>

-----------------------------------------------------------------------------
(* Authority                                                               *)

TaskRecords    == [revision : 0..MaxRevision, grant : Grants \cup {NoGrant}]
GrantRecords   == [task : Tasks \cup {NoTask}, revision : 0..MaxGrantRevision,
                   scopes : SUBSET Scopes, revoked : BOOLEAN, expired : BOOLEAN]
ContextRecords == [task : Tasks \cup {NoTask}, revision : 0..MaxRevision,
                   grant : Grants \cup {NoGrant},
                   grantRevision : 0..MaxGrantRevision, run : Runs,
                   revoked : BOOLEAN, expired : BOOLEAN]

UnusedGrant == [task |-> NoTask, revision |-> 0, scopes |-> {},
                revoked |-> FALSE, expired |-> FALSE]

Unused(g) == grant[g].revision = 0

(* The current grant of a task, and whether the clock and the owner still  *)
(* let it be used.                                                         *)
CurrentGrant(t) == grant[task[t].grant]
Live(t) == /\ task[t].revision > 0
           /\ ~CurrentGrant(t).revoked
           /\ ~CurrentGrant(t).expired

(* makeGrant: a fresh grant of revision r with the policy's scopes; after  *)
(* a context refresh it inherits scopes and deadline of the current one.   *)
NewGrant(t, r, refresh) ==
  [task |-> t, revision |-> r,
   scopes  |-> IF refresh THEN CurrentGrant(t).scopes ELSE Scopes,
   revoked |-> FALSE,
   expired |-> refresh /\ CurrentGrant(t).expired]

(* The current grant of t as put back by an operation that raises its      *)
(* revision by n.                                                          *)
Rewritten(t, n, scopes, revoked, expired) ==
  [task |-> CurrentGrant(t).task, revision |-> CurrentGrant(t).revision + n,
   scopes |-> scopes, revoked |-> revoked, expired |-> expired]

(* Slip: only the intent is compared, the grant is taken as it is.         *)
validateIntentOnly(c) ==
  /\ c.revision > 0
  /\ task[c.task].grant = c.grant
  /\ task[c.task].revision = c.revision

(* An intent id, a grant id and both revisions must still be the current   *)
(* ones, and the grant neither revoked nor expired.                        *)
validateContext(c) ==
  /\ c.revision > 0
  /\ task[c.task].grant = c.grant
  /\ grant[c.grant].task = c.task
  /\ task[c.task].revision = c.revision
  /\ grant[c.grant].revision = c.grantRevision
  /\ ~grant[c.grant].revoked
  /\ ~grant[c.grant].expired

resolve(k) == /\ ~context[k].revoked
              /\ ~context[k].expired
              /\ validateContext(context[k])

permits(g, scope) == scope \in grant[g].scopes

(* Caller keys are scoped to a task revision, and to the execution when it *)
(* is a cron one.                                                          *)
effectOperationId(c, key, scope) ==
  [task |-> c.task, revision |-> c.revision, run |-> c.run, key |-> key, scope |-> scope]

(* revokeTask: records not yet handed over are cancelled.                  *)
revokeTask(t) ==
  effects' = [o \in Operations |->
                IF o.task = t /\ effects[o].state = "prepared"
                THEN [effects[o] EXCEPT !.state = "cancelled"] ELSE effects[o]]

-----------------------------------------------------------------------------
Init ==
  /\ task = [t \in Tasks |-> [revision |-> 0, grant |-> NoGrant]]
  /\ grant = [g \in Grants |-> UnusedGrant]
  /\ context = [k \in Tokens |->
       [task |-> NoTask, revision |-> 0, grant |-> NoGrant,
        grantRevision |-> 0, run |-> NoRun, revoked |-> FALSE, expired |-> FALSE]]
  /\ effects = [o \in Operations |-> Absent]
  /\ ownOutputs = {}
  /\ inFlight = {}
  /\ listing = [o \in Operations |-> Absent]
  /\ reconciling = {}
  /\ wire = [o \in Operations |-> "none"]
  /\ sends = [o \in Operations |-> 0]
  /\ crashes = 0

-----------------------------------------------------------------------------
(* The controller's changes of authority (core/controller.ts)              *)

(* A fresh owner command becomes a task with its first grant.              *)
CreateTask(t, g) ==
  /\ task[t].revision = 0
  /\ Unused(g)
  /\ task'  = [task EXCEPT ![t] = [revision |-> 1, grant |-> g]]
  /\ grant' = [grant EXCEPT ![g] = NewGrant(t, 1, FALSE)]
  /\ UNCHANGED <<context, effects, ownOutputs, inFlight, recovery, outside, crashes>>

(* The transaction of a correction: the old grant is revoked, the next     *)
(* revision gets a grant of its own.                                       *)
CorrectTask(t, g, refresh) ==
  /\ task[t].revision \in 1..(MaxRevision - 1)
  /\ Unused(g)
  /\ task'  = [task EXCEPT ![t] = [revision |-> @.revision + 1, grant |-> g]]
  /\ grant' = [grant EXCEPT ![task[t].grant] = Rewritten(t, 0, CurrentGrant(t).scopes, TRUE, CurrentGrant(t).expired),
                            ![g] = NewGrant(t, task[t].revision + 1, refresh)]
  /\ revokeTask(t)
  /\ UNCHANGED <<context, ownOutputs, inFlight, recovery, outside, crashes>>

(* The transactions of a cancellation and of a hold.                       *)
RevokeAuthority(t) ==
  /\ task[t].revision > 0
  /\ CurrentGrant(t).revision < MaxGrantRevision
  /\ grant' = [grant EXCEPT ![task[t].grant] =
                  Rewritten(t, 1, CurrentGrant(t).scopes, TRUE, CurrentGrant(t).expired)]
  /\ revokeTask(t)
  /\ UNCHANGED <<task, context, ownOutputs, inFlight, recovery, outside, crashes>>

(* A held correction resumes: the same revision under a new grant.         *)
ResumeTask(t, g, refresh) ==
  /\ task[t].revision > 0
  /\ Unused(g)
  /\ task'  = [task EXCEPT ![t].grant = g]
  /\ grant' = [grant EXCEPT ![g] = NewGrant(t, task[t].revision, refresh)]
  /\ UNCHANGED <<context, effects, ownOutputs, inFlight, recovery, outside, crashes>>

(* The host prepared another scope or deadline for a grant that is not     *)
(* revoked; the new grant revision invalidates every token issued before.  *)
PrepareTaskAuthority(t, s, expired) ==
  /\ task[t].revision > 0
  /\ ~CurrentGrant(t).revoked
  /\ CurrentGrant(t).scopes # s \/ CurrentGrant(t).expired # expired
  /\ CurrentGrant(t).revision < MaxGrantRevision
  /\ grant' = [grant EXCEPT ![task[t].grant] =
                  Rewritten(t, 1, s, FALSE, expired)]
  /\ UNCHANGED <<task, context, effects, ownOutputs, inFlight, recovery, outside, crashes>>

(* The owner spoke in the origin chat: its send scope is withdrawn.        *)
InvalidateOriginDrafts(t, s) ==
  /\ task[t].revision > 0
  /\ ~CurrentGrant(t).revoked
  /\ CurrentGrant(t).revision < MaxGrantRevision
  /\ grant' = [grant EXCEPT ![task[t].grant] =
                  Rewritten(t, 1, CurrentGrant(t).scopes \ {s}, FALSE, CurrentGrant(t).expired)]
  /\ revokeTask(t)
  /\ UNCHANGED <<task, context, ownOutputs, inFlight, recovery, outside, crashes>>

(* The clock passes the deadline of a grant or of a token.                 *)
ExpireGrant(g) ==
  /\ ~Unused(g) /\ ~grant[g].expired
  /\ grant' = [grant EXCEPT ![g].expired = TRUE]
  /\ UNCHANGED <<task, context, effects, ownOutputs, inFlight, recovery, outside, crashes>>

ExpireContext(k) ==
  /\ context[k].revision > 0 /\ ~context[k].expired
  /\ context' = [context EXCEPT ![k].expired = TRUE]
  /\ UNCHANGED <<task, grant, effects, ownOutputs, inFlight, recovery, outside, crashes>>

-----------------------------------------------------------------------------
(* The broker (core/broker.ts)                                             *)

(* issue: a token for the caller's context, which must validate now.       *)
Issue(k, t, run) ==
  LET c == [task |-> t, revision |-> task[t].revision, grant |-> task[t].grant,
            grantRevision |-> CurrentGrant(t).revision, run |-> run,
            revoked |-> FALSE, expired |-> FALSE]
  IN /\ context[k].revision = 0
     /\ task[t].revision > 0
     /\ validateContext(c)
     /\ context' = [context EXCEPT ![k] = c]
     /\ UNCHANGED <<task, grant, effects, ownOutputs, inFlight, recovery, outside, crashes>>

(* revokeToken: one execution loses its authority, its siblings keep it.   *)
RevokeToken(k) ==
  /\ context[k].revision > 0 /\ ~context[k].revoked
  /\ context' = [context EXCEPT ![k].revoked = TRUE]
  /\ UNCHANGED <<task, grant, effects, ownOutputs, inFlight, recovery, outside, crashes>>

(* Slip: what is uncertain is sent again.                                  *)
RetryUnknown(o) == effects[o].state \in {"absent", "unknown"}

(* Nothing is recorded yet under this identity.  A record that exists, in  *)
(* whatever state, is returned to the caller (or refused, when its payload *)
(* differs) and never dispatched again.                                    *)
Unrecorded(o) == effects[o].state = "absent"

(* The copy executeBound holds across the await.                           *)
Handed == [state |-> "dispatching", receipt |-> FALSE]

(* executeBound up to the call of executor.dispatch.  The transaction      *)
(* inserts `prepared' and overwrites it with `dispatching', so no other    *)
(* state of the record is ever durable before the call.                    *)
Execute(k, key, scope) ==
  LET o == effectOperationId(context[k], key, scope)
  IN /\ resolve(k)
     /\ permits(context[k].grant, scope)
     /\ Unrecorded(o)
     /\ Cardinality({p \in Operations : effects[p] # Absent}) < MaxEffects
     /\ effects' = [effects EXCEPT ![o] = Handed]
     /\ inFlight' = inFlight \cup {o}
     /\ wire'  = [wire EXCEPT ![o] = IF @ = "none" THEN "pending" ELSE @]
     /\ sends' = [sends EXCEPT ![o] = @ + 1]
     /\ UNCHANGED <<task, grant, context, ownOutputs, recovery, crashes>>

(* Slips: a native state leaks into the record; an error counts as failure. *)
LeakPending(o) == {[state |-> "pending", receipt |-> TRUE]}
ErrorIsFailure(o) == {[state |-> "failed", receipt |-> FALSE]}

(* What the executor may answer: it reports success or failure only when   *)
(* that is what happened; anything else, an exception included, is         *)
(* `unknown', with or without a native message identity.                   *)
Results(o) ==
  {[state |-> "unknown", receipt |-> r] : r \in BOOLEAN}
    \cup (IF wire[o] = "delivered" THEN {[state |-> "verified", receipt |-> TRUE]} ELSE {})
    \cup (IF wire[o] = "rejected" THEN {[state |-> "failed", receipt |-> FALSE]} ELSE {})

(* settle: `verified' stays as it is; otherwise the caller's copy of the   *)
(* record, overlaid with the result, replaces what is stored.              *)
settled(o, copy, result) ==
  IF effects[o].state = "verified" THEN effects
  ELSE [effects EXCEPT ![o] =
          [state |-> result.state, receipt |-> copy.receipt \/ result.receipt]]

(* Slip: nobody registers the message.                                     *)
captureNothing(o, result) == UNCHANGED ownOutputs

(* onVerified = captureOwnReceipt, after the record was put.               *)
captureOwnReceipt(o, result) ==
  ownOutputs' = IF effects[o].state # "verified" /\ result.state = "verified"
                THEN ownOutputs \cup {o} ELSE ownOutputs

DispatchReturns(o, result) ==
  /\ o \in inFlight
  /\ inFlight' = inFlight \ {o}
  /\ effects' = settled(o, Handed, result)
  /\ captureOwnReceipt(o, result)
  /\ UNCHANGED <<task, grant, context, recovery, outside, crashes>>

(* The loop of recover, from the settled records eff and the rest rest of  *)
(* its listing up to its next await.  Elements whose dispatch is in flight *)
(* NOW are passed over; the next other one is put back as `unknown' from   *)
(* the LISTED copy and reconciled.  The listing is ordered by keyed        *)
(* hashes, so any element may come next.                                   *)
Visit(eff, rest, o, passed) ==
  /\ rest[o] # Absent /\ o \notin inFlight
  /\ effects' = [eff EXCEPT ![o] = [rest[o] EXCEPT !.state = "unknown"]]
  /\ listing' = [p \in Operations |-> IF p \in passed THEN Absent ELSE rest[p]]
  /\ reconciling' = {o}

Finish(eff, rest) ==
  /\ \A o \in Operations : rest[o] # Absent => o \in inFlight
  /\ effects' = eff
  /\ listing' = [p \in Operations |-> Absent]
  /\ reconciling' = {}

Continue(eff, rest) ==
  \/ \E o \in Operations, passed \in SUBSET inFlight : Visit(eff, rest, o, passed)
  \/ Finish(eff, rest)

(* What a pass has to look at, as the collection is listed.                *)
OpenEffects == [o \in Operations |->
                  IF effects[o].state \in Open THEN effects[o] ELSE Absent]

(* recover up to its first await.                                          *)
RecoverStart ==
  /\ reconciling = {}
  /\ Continue(effects, OpenEffects)
  /\ UNCHANGED <<task, grant, context, ownOutputs, inFlight, outside, crashes>>

(* A reconciliation answers: settle, then on to the next element.          *)
RecoverReturns(o, result) ==
  /\ o \in reconciling
  /\ Continue(settled(o, listing[o], result), [listing EXCEPT ![o] = Absent])
  /\ captureOwnReceipt(o, result)
  /\ UNCHANGED <<task, grant, context, inFlight, outside, crashes>>

(* The process dies between two awaits: what is in memory is lost.         *)
Forget ==
  /\ crashes < MaxCrashes
  /\ crashes' = crashes + 1
  /\ inFlight' = {}
  /\ listing' = [o \in Operations |-> Absent]
  /\ reconciling' = {}

Crash == /\ Forget
         /\ UNCHANGED <<task, grant, context, effects, ownOutputs, outside>>

(* It dies inside settle, between putting the record and captureOwnReceipt *)
(* (two statements without a transaction around them).                     *)
CrashInSettle(o, result) ==
  /\ \/ o \in inFlight /\ effects' = settled(o, Handed, result)
     \/ o \in reconciling /\ effects' = settled(o, listing[o], result)
  /\ Forget
  /\ UNCHANGED <<task, grant, context, ownOutputs, outside>>

-----------------------------------------------------------------------------
(* Outside: a handed-over operation happens or is rejected, at any time.   *)
WireSettles(o, fate) ==
  /\ wire[o] = "pending"
  /\ wire' = [wire EXCEPT ![o] = fate]
  /\ UNCHANGED <<task, grant, context, effects, ownOutputs, inFlight, recovery,
                 sends, crashes>>

-----------------------------------------------------------------------------
ChangeOfAuthority ==
  \/ \E t \in Tasks, g \in Grants : CreateTask(t, g)
  \/ \E t \in Tasks, g \in Grants, refresh \in BOOLEAN :
       CorrectTask(t, g, refresh) \/ ResumeTask(t, g, refresh)
  \/ \E t \in Tasks : RevokeAuthority(t)
  \/ \E t \in Tasks, s \in SUBSET Scopes, x \in BOOLEAN : PrepareTaskAuthority(t, s, x)
  \/ \E t \in Tasks, s \in Scopes : InvalidateOriginDrafts(t, s)
  \/ \E g \in Grants : ExpireGrant(g)

Broker ==
  \/ \E k \in Tokens, t \in Tasks, r \in Runs : Issue(k, t, r)
  \/ \E k \in Tokens : RevokeToken(k) \/ ExpireContext(k)
  \/ \E k \in Tokens, key \in Keys, s \in Scopes : Execute(k, key, s)
  \/ \E o \in Operations : \E result \in Results(o) : DispatchReturns(o, result)

Recovery == \/ RecoverStart
            \/ \E o \in Operations : \E result \in Results(o) : RecoverReturns(o, result)

Environment ==
  \/ Crash
  \/ \E o \in Operations : \E result \in Results(o) : CrashInSettle(o, result)
  \/ \E o \in Operations, fate \in {"delivered", "rejected"} : WireSettles(o, fate)

Next == ChangeOfAuthority \/ Broker \/ Recovery \/ Environment

Spec == Init /\ [][Next]_vars

-----------------------------------------------------------------------------
(* Properties                                                              *)

TypeOK ==
  /\ task \in [Tasks -> TaskRecords]
  /\ grant \in [Grants -> GrantRecords]
  /\ context \in [Tokens -> ContextRecords]
  /\ effects \in [Operations -> EffectRecords]
  /\ ownOutputs \subseteq Operations
  /\ inFlight \subseteq Operations
  /\ listing \in [Operations -> EffectRecords]
  /\ reconciling \subseteq Operations
  /\ wire \in [Operations -> {"none", "pending", "delivered", "rejected"}]
  /\ sends \in [Operations -> Nat]
  /\ crashes \in 0..MaxCrashes

(* executeBound, settle and recover together: whatever crashes, retries of *)
(* the caller and recovery passes do, executor.dispatch is called at most  *)
(* once for one operation identity.                                        *)
AtMostOnceDispatched == \A o \in Operations : sends[o] <= 1

(* A record says `verified' or `failed' only of an operation that really   *)
(* happened or was really rejected, even when a recovery pass and a late   *)
(* dispatch answer settle the same record from different copies.           *)
SettledTruthfully ==
  \A o \in Operations :
    /\ effects[o].state = "verified" => wire[o] = "delivered"
    /\ effects[o].state = "failed" => wire[o] = "rejected"

(* An operation is handed to the executor only while its revision is the   *)
(* task's current one and the task's current grant is live and holds the   *)
(* operation's scope, however old the presented token is.                  *)
DispatchUnderCurrentAuthority ==
  [][\A o \in Operations :
       sends'[o] # sends[o] =>
         /\ Live(o.task)
         /\ task[o.task].revision = o.revision
         /\ o.scope \in CurrentGrant(o.task).scopes]_vars

(* ownOutput (core/controller.ts): a message is recognised as the agent's  *)
(* own from the saved registration, or from the receipt in an effect.      *)
Recognised(o) == o \in ownOutputs \/ effects[o].receipt

(* A message whose delivery was once verified stays recognised as the      *)
(* agent's own, so it can never be read back as an owner command: neither  *)
(* a stale recovery listing that drops the receipt nor a crash between the *)
(* two writes of settle loses both pieces of evidence.                     *)
VerifiedStaysRecognised ==
  [][\A o \in Operations :
       effects[o].state = "verified" \/ o \in ownOutputs => Recognised(o)']_vars

(* What a crash left `dispatching', and what a recovery pass makes of it.  *)
Orphan(o) == effects[o].state = "dispatching" /\ o \notin inFlight
Reconciled(o) == effects[o].state # "dispatching"

(* settle refuses to replace a verified record; read as a promise of the   *)
(* whole broker: no step takes a verified outcome back.                    *)
VerifiedIsFinal ==
  [][\A o \in Operations :
       effects[o].state = "verified" => effects'[o].state = "verified"]_vars

-----------------------------------------------------------------------------
(* The broker implements the ledger: an operation is open while its record *)
(* is dispatching or unknown.                                              *)
LedgerState(o) == IF effects[o].state \in Open THEN "open" ELSE effects[o].state

TaskOf(o)     == o.task
RevisionOf(o) == o.revision

Ledger == INSTANCE EffectLedger WITH
  current    <- [t \in Tasks |-> task[t].revision],
  live       <- [t \in Tasks |-> Live(t)],
  ledger     <- [o \in Operations |-> LedgerState(o)],
  attempts   <- sends

(* Every step of the broker is a step of the abstract ledger or leaves the *)
(* ledger as it is.                                                        *)
ImplementsLedger == Ledger!Spec
=============================================================================
