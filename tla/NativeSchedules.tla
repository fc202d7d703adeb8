--------------------------- MODULE NativeSchedules ---------------------------
(***************************************************************************)
(* A native Hermes cron job bound to a task of the owner: its creation,    *)
(* controls, withdrawal by the host and restoration, which are serialised  *)
(* per schedule, and the admission and completion of its executions, which *)
(* are not.  A completion saves the manifest and calls the delivery of the *)
(* result once; the delivery sends its prepared parts through the broker.  *)
(* The broker's recovery works through the records it listed before, and   *)
(* may put "unknown" over one that was verified since.                     *)
(*                                                                         *)
(* Every request to the native service is an await.  It may be carried out *)
(* and its answer lost, and a creation that timed out may happen later.    *)
(***************************************************************************)
EXTENDS Naturals

CONSTANTS Executions,   \* executions the native cron starts
          Parts,        \* sends prepared for one result
          MaxCrashes    \* bound on crashes

PartsAssumption == Parts \in Nat \ {0}

VARIABLES
    rec,        \* the schedule's stored record
    exec,       \* exec[e]: its executions; the token is live until revoked
    delivery,   \* delivery[e]: state of the stored delivery
    effect,     \* effect[e][k]: the broker's record of part k
    wire,       \* external: wire[e][k]: whether part k, once handed over, arrives
    pass,       \* the broker's recovery: the parts it has yet to visit, the one it awaits
    op,         \* the serialised operation that awaits the native service
    pc,         \* pc[e]: where the completion of e is suspended
    arg,        \* arg[e]: the manifest that completion presents
    part,       \* part[e]: the part it is at
    scope,      \* the task's intention and grant are still valid
    native,     \* external: the job exists at the native service
    late,       \* external: a creation was sent and not yet carried out
    calls,      \* calls[e]: how often onComplete was invoked
    restoring,  \* the process has started and not yet restored its bindings
    crashes

vars == <<rec, exec, delivery, effect, op, pc, arg, part, scope, native, late, calls, restoring,
          crashes, wire, pass>>
running == <<pc, arg, part>>
broker == <<effect, wire, pass>>
outside == <<scope, native, late>>

Controls == {"pause", "resume", "cancel"}
Manifests == {"completed", "other", "unknown"}
NoRecord == [state |-> "absent", job |-> FALSE, pending |-> "none", binding |-> "none", host |-> "none"]
NoPass == [listed |-> {}, at |-> {}]
NoExecution == [admitted |-> FALSE, revoked |-> FALSE, manifest |-> "none", callback |-> "none"]

TypeOK ==
    /\ rec \in [state : {"absent", "prepared", "active", "paused", "cancelled"}, job : BOOLEAN,
                pending : {"none"} \cup Controls, binding : {"none", "verified", "unknown"},
                host : {"none", "pending", "verified", "unknown"}]
    /\ exec \in [Executions -> [admitted : BOOLEAN, revoked : BOOLEAN, manifest : {"none"} \cup Manifests,
                                callback : {"none", "pending", "verified", "unknown"}]]
    /\ delivery \in [Executions -> {"none", "prepared", "verified", "failed", "unknown"}]
    /\ effect \in [Executions -> [1..Parts -> {"none", "dispatching", "verified", "failed", "unknown"}]]
    /\ wire \in [Executions -> [1..Parts -> {"none", "delivered", "undelivered"}]]
    /\ pass \in [listed : SUBSET (Executions \X (1..Parts)), at : SUBSET (Executions \X (1..Parts))]
    /\ op \in {"none", "create", "lookup", "withdraw", "restore"} \cup Controls
    /\ pc \in [Executions -> {"idle", "reading", "delivering", "sending"}]
    /\ arg \in [Executions -> Manifests] /\ part \in [Executions -> 1..Parts]
    /\ \A f \in {scope, native, late, restoring} : f \in BOOLEAN
    /\ calls \in [Executions -> 0..2] /\ crashes \in 0..MaxCrashes

Init ==
    /\ rec = NoRecord /\ exec = [e \in Executions |-> NoExecution]
    /\ delivery = [e \in Executions |-> "none"]
    /\ effect = [e \in Executions |-> [k \in 1..Parts |-> "none"]]
    /\ wire = effect /\ pass = NoPass
    /\ op = "none" /\ pc = [e \in Executions |-> "idle"]
    /\ arg = [e \in Executions |-> "unknown"] /\ part = [e \in Executions |-> 1]
    /\ scope = TRUE /\ native = FALSE /\ late = FALSE
    /\ calls = [e \in Executions |-> 0] /\ restoring = TRUE /\ crashes = 0

Live(e) == exec[e].admitted /\ ~exec[e].revoked /\ scope
revokeAll == exec' = [e \in Executions |-> [exec[e] EXCEPT !.revoked = exec[e].admitted]]
revokeNone == UNCHANGED exec
Answered == op' = "none"

-----------------------------------------------------------------------------
(* The serialised operations.                                              *)

\* The same key reconciles an uncertain creation; a withdrawn record is only
\* shown.
creatable == ~rec.job /\ rec.state # "cancelled" /\ rec.pending # "cancel"
create ==
    /\ op = "none" /\ scope /\ creatable
    /\ rec' = [rec EXCEPT !.state = IF @ = "absent" THEN "prepared" ELSE @]
    /\ op' = "create" /\ late' = ~native
    /\ UNCHANGED <<exec, delivery, broker, running, scope, native, calls, restoring, crashes>>

\* External: the native service creates the job under its key.
Created == /\ late
           /\ native' = TRUE /\ late' = FALSE
           /\ UNCHANGED <<rec, exec, delivery, broker, op, running, scope, calls, restoring, crashes>>

created ==
    /\ op = "create" /\ Answered
    /\ \/ native /\ rec' = [rec EXCEPT !.job = TRUE, !.state = "active"]
       \/ UNCHANGED rec        \* an error, or the answer is lost
    /\ UNCHANGED <<exec, delivery, broker, running, outside, calls, restoring, crashes>>

\* Withholding is stored before the request leaves, and every token of the
\* schedule is revoked with it.
withholds(a) == IF a = "resume" THEN revokeNone ELSE revokeAll
control(a) ==
    /\ op = "none" /\ scope /\ rec.job
    /\ rec.state = "cancelled" => a = "cancel"
    /\ rec.pending \in {"none", a} \/ a = "cancel"
    /\ rec' = [rec EXCEPT !.pending = a]
    /\ withholds(a)
    /\ op' = a
    /\ UNCHANGED <<delivery, broker, running, outside, calls, restoring, crashes>>

stateAfter(a) == CASE a = "resume" -> "active" [] a = "pause" -> "paused" [] a = "cancel" -> "cancelled"
controlled ==
    /\ op \in Controls /\ Answered
    /\ \/ rec' = [rec EXCEPT !.state = stateAfter(op), !.pending = "none"]
       \/ UNCHANGED rec
    /\ UNCHANGED <<exec, delivery, broker, running, outside, calls, restoring, crashes>>

\* Withdrawal by the host needs no valid scope.
cancelFromHost ==
    /\ op = "none" /\ rec.state # "absent" /\ rec.host # "verified"
    /\ rec' = [rec EXCEPT !.pending = "cancel", !.state = "cancelled", !.host = "pending"]
    /\ revokeAll
    /\ op' = IF rec.job THEN "withdraw" ELSE "lookup"
    /\ UNCHANGED <<delivery, broker, running, outside, calls, restoring, crashes>>

\* The read-only lookup of a job whose identity was never confirmed.
lookup ==
    /\ op = "lookup"
    /\ \/ native /\ rec' = [rec EXCEPT !.job = TRUE] /\ op' = "withdraw"
       \/ ~native /\ rec' = [rec EXCEPT !.host = "verified", !.pending = "none"] /\ Answered
       \/ rec' = [rec EXCEPT !.host = "unknown"] /\ Answered
    /\ UNCHANGED <<exec, delivery, broker, running, outside, calls, restoring, crashes>>

withdrawn ==
    /\ op = "withdraw" /\ Answered
    /\ \/ rec' = [rec EXCEPT !.host = "verified", !.pending = "none"]
       \/ rec' = [rec EXCEPT !.host = "unknown"]
    /\ UNCHANGED <<exec, delivery, broker, running, outside, calls, restoring, crashes>>

\* At start: quarantine the binding, ask the native service to bind it again.
restoreBindings ==
    /\ restoring /\ op = "none"
    /\ restoring' = FALSE
    /\ IF rec.job /\ rec.state # "cancelled" /\ scope
       THEN /\ rec' = [rec EXCEPT !.binding = "unknown"]
            /\ op' \in {"restore", "none"}      \* "none": the deadline has passed
       ELSE UNCHANGED <<rec, op>>
    /\ UNCHANGED <<exec, delivery, broker, running, outside, calls, crashes>>

restored ==
    /\ op = "restore" /\ Answered
    /\ \/ scope /\ rec' = [rec EXCEPT !.binding = "verified"]
       \/ UNCHANGED rec
    /\ UNCHANGED <<exec, delivery, broker, running, outside, calls, restoring, crashes>>

-----------------------------------------------------------------------------
(* Executions.                                                             *)

credentialRecord == rec.job /\ scope
admissible == rec.state = "active" /\ rec.pending = "none"
admit(e) ==
    /\ credentialRecord /\ admissible /\ rec.binding # "unknown"
    /\ ~exec[e].admitted       \* a repeated admission returns the old token
    /\ exec' = [exec EXCEPT ![e].admitted = TRUE]
    /\ UNCHANGED <<rec, delivery, broker, op, running, outside, calls, restoring, crashes>>

complete(e) ==
    /\ pc[e] = "idle" /\ credentialRecord /\ exec[e].admitted
    /\ \E m \in Manifests : arg' = [arg EXCEPT ![e] = m]
    /\ pc' = [pc EXCEPT ![e] = "reading"]
    /\ UNCHANGED <<rec, exec, delivery, broker, op, part, outside, calls, restoring, crashes>>

ended(e) == pc' = [pc EXCEPT ![e] = "idle"]

\* The native result is missing, is another, or the scope is gone; or a
\* different manifest was saved before.
refused(e) ==
    /\ pc[e] = "reading" /\ ended(e)
    /\ UNCHANGED <<rec, exec, delivery, broker, op, arg, part, outside, calls, restoring, crashes>>

\* First manifest.  The callback's authority is looked at twice, once in the
\* transaction and once before the call, with no await between.
saved(e) ==
    LET pending == arg[e] # "unknown" /\ Live(e) /\ admissible
        called == pending /\ rec.binding # "unknown"
    IN /\ pc[e] = "reading" /\ credentialRecord /\ exec[e].manifest = "none"
       /\ exec' = [exec EXCEPT ![e].manifest = arg[e], ![e].revoked = ~called,
                               ![e].callback = IF called THEN "pending" ELSE IF pending THEN "unknown" ELSE "none"]
       /\ pc' = [pc EXCEPT ![e] = IF called THEN "delivering" ELSE "idle"]
       /\ part' = [part EXCEPT ![e] = 1]
       /\ calls' = IF called THEN [calls EXCEPT ![e] = @ + 1] ELSE calls
       /\ delivery' = IF called THEN [delivery EXCEPT ![e] = "prepared"] ELSE delivery
       /\ UNCHANGED <<rec, broker, op, arg, outside, restoring, crashes>>

resumedPending(e) ==
    /\ pc[e] = "reading" /\ credentialRecord /\ exec[e].manifest = arg[e]
    /\ IF exec[e].callback = "pending" /\ Live(e)
       THEN pc' = [pc EXCEPT ![e] = "delivering"] /\ calls' = [calls EXCEPT ![e] = @ + 1]
       ELSE ended(e) /\ UNCHANGED calls
    /\ UNCHANGED <<rec, exec, delivery, broker, op, arg, part, outside, restoring, crashes>>
\* A completion that was saved before: a callback left pending by a crash
\* stays indeterminate, and its token is withdrawn.
replayed(e) ==
    /\ pc[e] = "reading" /\ credentialRecord /\ exec[e].manifest = arg[e]
    /\ exec' = [exec EXCEPT ![e].revoked = TRUE, ![e].callback = IF @ = "pending" THEN "unknown" ELSE @]
    /\ ended(e)
    /\ UNCHANGED <<rec, delivery, broker, op, arg, part, outside, calls, restoring, crashes>>

-----------------------------------------------------------------------------
(* The delivery of a result, and the transaction after it.                 *)

uncertain(e) == \E k \in 1..Parts : effect[e][k] \in {"unknown", "dispatching"}
callbackDone(e, v) == /\ exec' = [exec EXCEPT ![e].callback = v, ![e].revoked = TRUE]
                      /\ ended(e)

\* The part is handed over, unless the broker has a record of it.
handedOver(e) ==
    /\ IF effect[e][part[e]] # "none" THEN UNCHANGED <<effect, wire>>
       ELSE /\ effect' = [effect EXCEPT ![e][part[e]] = "dispatching"]
            /\ \E fate \in {"delivered", "undelivered"} : wire' = [wire EXCEPT ![e][part[e]] = fate]
    /\ pc' = [pc EXCEPT ![e] = "sending"]
    /\ UNCHANGED <<rec, exec, delivery, op, arg, part, outside, calls, restoring, crashes, pass>>

deliverUnchecked(e) == pc[e] = "delivering" /\ handedOver(e)
\* validate: the token, the execution context and the grant; then the part.
deliver(e) == pc[e] = "delivering" /\ Live(e) /\ handedOver(e)

\* A failed validation, archive or staging ends the delivery.
abandon(e) ==
    /\ pc[e] = "delivering"
    /\ delivery' = [delivery EXCEPT ![e] = IF uncertain(e) THEN "unknown" ELSE "failed"]
    /\ callbackDone(e, "unknown")
    /\ UNCHANGED <<rec, broker, op, arg, part, outside, calls, restoring, crashes>>

\* Anything but a verified delivery leaves the callback's outcome unknown.
callbackState(v) == IF v = "verified" THEN "verified" ELSE "unknown"

\* What Telegram can answer of part k: the truth, or nothing that is certain
\* (module TelegramAdapter).  A verified record is never settled again.
answers(e, k) == {"unknown", IF wire[e][k] = "delivered" THEN "verified" ELSE "failed"}
settle(stored, v) == IF stored = "verified" THEN stored ELSE v

\* The broker settles the part; the delivery stops at one it did not verify.
stopsAt(v) == v # "verified"
sent(e) ==
    /\ pc[e] = "sending"
    /\ \E answer \in answers(e, part[e]) :
        LET v == settle(effect[e][part[e]], answer)
            last == stopsAt(v) \/ part[e] = Parts
        IN /\ effect' = [effect EXCEPT ![e][part[e]] = v]
           /\ delivery' = IF last THEN [delivery EXCEPT ![e] = v] ELSE delivery
           /\ IF last THEN callbackDone(e, callbackState(v)) /\ UNCHANGED part
              ELSE /\ part' = [part EXCEPT ![e] = @ + 1]
                   /\ pc' = [pc EXCEPT ![e] = "delivering"] /\ UNCHANGED exec
    /\ UNCHANGED <<rec, op, arg, outside, calls, restoring, crashes, wire, pass>>

-----------------------------------------------------------------------------
(* A recovery pass of the broker, at start and at a poll (module           *)
(* EffectBroker): what it lists is visited later, each element after the   *)
(* reconciliation of those before it, of other tasks too.                  *)

inFlight(e, k) == pc[e] = "sending" /\ part[e] = k
Reconciles(x) == pass' = [pass EXCEPT !.listed = @ \ {x}, !.at = {x}]

recover ==
    LET open == {<<e, k>> \in Executions \X (1..Parts) : effect[e][k] \in {"dispatching", "unknown"}}
    IN /\ pass = NoPass
       /\ pass' = [pass EXCEPT !.listed = open]
       /\ UNCHANGED <<rec, exec, delivery, effect, wire, op, running, outside, calls, restoring, crashes>>

\* The listed copy is put back as unknown, whatever is stored by now, unless
\* its dispatch is in flight at that moment.
visit(e, k) ==
    /\ pass.at = {} /\ <<e, k>> \in pass.listed
    /\ IF inFlight(e, k) THEN pass' = [pass EXCEPT !.listed = @ \ {<<e, k>>}] /\ UNCHANGED effect
       ELSE Reconciles(<<e, k>>) /\ effect' = [effect EXCEPT ![e][k] = "unknown"]
    /\ UNCHANGED <<rec, exec, delivery, wire, op, running, outside, calls, restoring, crashes>>

reconciled(e, k) ==
    /\ pass.at = {<<e, k>>}
    /\ pass' = [pass EXCEPT !.at = {}]
    /\ \E v \in answers(e, k) : effect' = [effect EXCEPT ![e][k] = settle(@, v)]
    /\ UNCHANGED <<rec, exec, delivery, wire, op, running, outside, calls, restoring, crashes>>

-----------------------------------------------------------------------------
\* The owner revokes the grant, corrects or cancels the task.
ScopeEnds == /\ scope /\ scope' = FALSE
             /\ UNCHANGED <<rec, exec, delivery, broker, op, running, native, late, calls, restoring, crashes>>

Crash ==
    /\ crashes < MaxCrashes /\ crashes' = crashes + 1
    /\ op' = "none" /\ restoring' = TRUE
    /\ pc' = [e \in Executions |-> "idle"]
    /\ part' = [e \in Executions |-> 1] /\ arg' = [e \in Executions |-> "unknown"]
    /\ pass' = NoPass
    /\ UNCHANGED <<rec, exec, delivery, effect, wire, outside, calls>>

Execution(e) == \/ admit(e) \/ complete(e) \/ refused(e) \/ saved(e) \/ replayed(e)
                \/ deliver(e) \/ abandon(e) \/ sent(e)
                \/ \E k \in 1..Parts : visit(e, k) \/ reconciled(e, k)

Next == \/ create \/ Created \/ created \/ controlled \/ cancelFromHost \/ lookup \/ withdrawn
        \/ restoreBindings \/ restored \/ recover \/ ScopeEnds \/ Crash
        \/ \E a \in Controls : control(a)
        \/ \E e \in Executions : Execution(e)

Spec == Init /\ [][Next]_vars

-----------------------------------------------------------------------------
(* Properties.                                                             *)

\* No execution can act while the schedule is paused, cancelled or about to
\* be: a token that still resolves belongs to an active schedule with neither
\* control pending, also when the answer to the control was lost.
LiveNeedsActive ==
    \A e \in Executions : Live(e) => rec.state = "active" /\ rec.pending \in {"none", "resume"}

\* A part of a result leaves only while its schedule is active and its scope
\* valid, although the delivery began long before and awaits every part.
NothingSentWhileWithheld ==
    \A e \in Executions, k \in 1..Parts :
          effect[e][k] = "none" /\ effect'[e][k] = "dispatching"
          => scope /\ rec.state = "active" /\ rec.pending \notin {"pause", "cancel"}

\* The callback of an execution runs at most once through crashes and
\* repeated completions.
CallbackOnce == \A e \in Executions : calls[e] <= 1

\* What the records say of a delivery is what happened: a verified one arrived
\* whole, one called failed did not, and no part left after one that did not
\* arrive, although a recovery pass may have put any of the broker's records
\* back to unknown by then.
DeliveryIsTruthful ==
    \A e \in Executions :
        /\ exec[e].callback = "verified" \/ delivery[e] = "verified" => \A k \in 1..Parts : wire[e][k] = "delivered"
        /\ delivery[e] = "failed" => \E k \in 1..Parts : wire[e][k] # "delivered"
        /\ \A j, k \in 1..Parts : j < k /\ wire[e][k] # "none" => wire[e][j] = "delivered"

\* A schedule the host withdrew is never active again and admits no further
\* execution, even when its creation was still uncertain or is repeated.
WithdrawalIsFinal ==
    rec.host # "none" =>
        /\ rec'.host # "none" /\ rec'.state = "cancelled"
        /\ \A e \in Executions : exec'[e].admitted => exec[e].admitted
=============================================================================
