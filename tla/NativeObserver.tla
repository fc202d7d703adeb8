--------------------------- MODULE NativeObserver ---------------------------
(***************************************************************************)
(* The native observer of phase 3: the adapter that reads bound files and  *)
(* creates durable ones through a launcher process.  It admits one         *)
(* invocation at a time and stops for good at the first result it is not   *)
(* certain of.  What it reports about the effect of a create request       *)
(* decides whether the controller may call its run refused.                *)
(*                                                                         *)
(* A launcher lives on when the outer deadline has returned an unknown     *)
(* result; it may still create the file then.                              *)
(***************************************************************************)
EXTENDS Naturals, FiniteSets

CONSTANTS Reads, Creates   \* requests of the two operations

RequestsAssumption == Reads \cap Creates = {}

Requests == Reads \cup Creates

VARIABLES stopped,   \* state = "stopped"
          inFlight,  \* invocationInFlight
          pc,        \* where the call of the request is
          late,      \* the earliest deadline of the call has passed
          evidence,  \* what the transport made of the launcher's answer
          result,    \* [outcome, effect]
          launcher,  \* external: the launcher process of the request
          file       \* external: the target of a create request

vars == <<stopped, inFlight, pc, late, evidence, result, launcher, file>>

NoEvidence == [kind |-> "none", consistent |-> FALSE, whole |-> FALSE, output |-> "none"]
Ambiguous == [kind |-> "ambiguous", consistent |-> TRUE, whole |-> FALSE, output |-> "none"]
NeverStarted == [kind |-> "never", consistent |-> TRUE, whole |-> FALSE, output |-> "none"]
Effects == {"none", "not-created", "possibly-created", "created"}
NoResult == [outcome |-> "none", effect |-> "none"]

TypeOK ==
    /\ stopped \in BOOLEAN /\ inFlight \in BOOLEAN
    /\ pc \in [Requests -> {"idle", "launched", "settled", "done"}]
    /\ late \in [Requests -> BOOLEAN]
    /\ evidence \in [Requests -> [kind : {"none", "never", "started", "ambiguous"}, consistent : BOOLEAN,
                                  whole : BOOLEAN, output : {"none", "known", "refused", "unknown", "garbage"}]]
    /\ result \in [Requests -> [outcome : {"none", "known", "refused", "unknown"}, effect : Effects]]
    /\ launcher \in [Requests -> {"none", "live", "gone"}]
    /\ file \in [Requests -> {"absent", "partial", "durable"}]

Init ==
    /\ stopped = FALSE /\ inFlight = FALSE
    /\ pc = [r \in Requests |-> "idle"] /\ late = [r \in Requests |-> FALSE]
    /\ evidence = [r \in Requests |-> NoEvidence] /\ result = [r \in Requests |-> NoResult]
    /\ launcher = [r \in Requests |-> "none"] /\ file = [r \in Requests |-> "absent"]

-----------------------------------------------------------------------------
(* The adapter's invoke.                                                   *)

Known(r) == [outcome |-> "known", effect |-> IF r \in Creates THEN "created" ELSE "none"]
Refused(e) == [outcome |-> "refused", effect |-> e]
unknownResult(r, beforeEffect) ==
    [outcome |-> "unknown",
     effect |-> IF beforeEffect \/ r \in Reads THEN "none" ELSE "possibly-created"]

Return(r, v) == /\ pc' = [pc EXCEPT ![r] = "done"]
                /\ result' = [result EXCEPT ![r] = v]
Stops(r, v) == stopped' = TRUE /\ Return(r, v)

\* Requests that cannot be derived or do not validate stop the observer, also
\* under an invocation that is in flight.
refusedPreEffectResult(r) ==
    /\ pc[r] = "idle"
    /\ Stops(r, Refused("none"))
    /\ UNCHANGED <<inFlight, late, evidence, launcher, file>>

admitted(r) == ~stopped /\ ~inFlight
\* Stopped, busy, or no clock: nothing is dispatched.
invokeRefused(r) ==
    /\ pc[r] = "idle"
    /\ Stops(r, unknownResult(r, TRUE))
    /\ UNCHANGED <<inFlight, late, evidence, launcher, file>>

settledWith(r, e) == /\ evidence' = [evidence EXCEPT ![r] = e]
                     /\ pc' = [pc EXCEPT ![r] = "settled"]

\* The transport snapshots its input and derives the child's deadline; when too
\* little time is left nothing is launched, which is reported as ambiguous.
invoke(r) ==
    /\ pc[r] = "idle" /\ admitted(r)
    /\ inFlight' = TRUE
    /\ \/ settledWith(r, Ambiguous) /\ UNCHANGED launcher
       \/ /\ launcher' = [launcher EXCEPT ![r] = "live"]
          /\ pc' = [pc EXCEPT ![r] = "launched"] /\ UNCHANGED evidence
    /\ UNCHANGED <<stopped, late, result, file>>

-----------------------------------------------------------------------------
(* The launcher and the production transport.                              *)

\* External: the observer creates the file and makes it durable.
ObserverCreates(r) ==
    /\ launcher[r] = "live" /\ r \in Creates /\ file[r] # "durable"
    /\ file' = [file EXCEPT ![r] = IF @ = "absent" THEN "partial" ELSE "durable"]
    /\ UNCHANGED <<stopped, inFlight, pc, late, evidence, result, launcher>>

\* External: what an observer that ends has truthfully to say.
Says(r) == {"garbage", "unknown"}
           \cup (IF r \in Reads \/ file[r] = "durable" THEN {"known"} ELSE {})
           \cup (IF r \in Reads \/ file[r] = "absent" THEN {"refused"} ELSE {})

\* The launcher's answer: its correlation, ledger and handles are checked, then
\* the observer's evidence is mapped.
launcherTrusted(correlated, clean) == correlated /\ clean
mapNestedEvidence(e) == IF e.consistent THEN e ELSE Ambiguous
parseLauncherResult(r) ==
    /\ pc[r] = "launched" /\ launcher[r] = "live"
    /\ launcher' = [launcher EXCEPT ![r] = "gone"]
    /\ \E correlated, clean, consistent, whole \in BOOLEAN, out \in Says(r) :
          settledWith(r, IF launcherTrusted(correlated, clean)
                         THEN mapNestedEvidence([kind |-> "started", consistent |-> consistent,
                                                 whole |-> whole, output |-> out])
                         ELSE Ambiguous)
    /\ UNCHANGED <<stopped, inFlight, late, result, file>>

\* The port did not start the launcher, or cannot tell whether it lives.
portFailed(r) ==
    /\ pc[r] = "launched" /\ launcher[r] = "live"
    /\ \/ /\ file[r] = "absent" /\ settledWith(r, NeverStarted)
          /\ launcher' = [launcher EXCEPT ![r] = "gone"]
       \/ settledWith(r, Ambiguous) /\ UNCHANGED launcher
    /\ UNCHANGED <<stopped, inFlight, late, result, file>>

\* External: a launcher nobody waits for any more ends.
LauncherEnds(r) ==
    /\ launcher[r] = "live" /\ pc[r] \in {"settled", "done"}
    /\ launcher' = [launcher EXCEPT ![r] = "gone"]
    /\ UNCHANGED <<stopped, inFlight, pc, late, evidence, result, file>>

-----------------------------------------------------------------------------
(* Settlement, and the outer deadline.                                     *)

DeadlinePasses(r) ==
    /\ pc[r] \in {"launched", "settled"} /\ ~late[r]
    /\ late' = [late EXCEPT ![r] = TRUE]
    /\ UNCHANGED <<stopped, inFlight, pc, evidence, result, launcher, file>>

\* The aggregate deadline and its drain are over before anything settled.
outerDeadline(r) ==
    /\ pc[r] = "launched" /\ late[r]
    /\ Stops(r, unknownResult(r, FALSE))
    /\ inFlight' = FALSE
    /\ UNCHANGED <<late, evidence, launcher, file>>

validateEvidence(e) == e.consistent
parseTrustedResult(e) == e.kind = "started" /\ e.whole /\ e.output \in {"known", "refused", "unknown"}
terminalOf(r, e) ==
    IF e.output = "known" THEN Known(r)
    ELSE IF e.output = "refused" THEN Refused(IF r \in Creates THEN "not-created" ELSE "none")
    ELSE unknownResult(r, FALSE)

untimely(r) == FALSE
overdue(r) == stopped \/ late[r]
settle(r) ==
    LET e == evidence[r]
    IN /\ pc[r] = "settled"
       /\ inFlight' = FALSE
       /\ IF ~validateEvidence(e) THEN Stops(r, unknownResult(r, FALSE))
          ELSE IF e.kind = "never" THEN Stops(r, unknownResult(r, TRUE))
          ELSE IF overdue(r) \/ ~parseTrustedResult(e) THEN Stops(r, unknownResult(r, FALSE))
          ELSE /\ Return(r, terminalOf(r, e))
               /\ stopped' = (stopped \/ terminalOf(r, e).outcome # "known")
       /\ UNCHANGED <<late, evidence, launcher, file>>

Next == \E r \in Requests :
            \/ refusedPreEffectResult(r) \/ invokeRefused(r) \/ invoke(r)
            \/ ObserverCreates(r) \/ LauncherEnds(r)
            \/ parseLauncherResult(r) \/ portFailed(r)
            \/ DeadlinePasses(r) \/ outerDeadline(r) \/ settle(r)

Spec == Init /\ [][Next]_vars

-----------------------------------------------------------------------------
(* Properties.                                                             *)

Done(r) == pc[r] = "done"

\* What a result says of the target is true now and stays true, whatever a
\* launcher that outlived its call still does.
EffectIsTruthful ==
    \A r \in Creates : Done(r) =>
        /\ result[r].effect \in {"none", "not-created"} => file[r] = "absent"
        /\ result[r].effect = "created" => file[r] = "durable"

\* A launcher that may still be at work is the last one: two are never alive
\* together, and none is started once a call ended in doubt.
NoLauncherAfterDoubt ==
    /\ Cardinality({r \in Requests : launcher[r] = "live"}) <= 1
    /\ (\E r \in Requests : Done(r) /\ result[r].outcome # "known") => stopped
\* After the stop nothing is launched but what was already admitted.
StopIsFinal ==
    stopped => /\ stopped'
                  /\ \A r \in Requests : pc[r] = "idle" => pc'[r] \in {"idle", "done"}

\* A known result was obtained before its deadline, undisturbed by any other
\* call: one that arrived meanwhile, or was malformed, makes it unknown.
KnownIsUndisturbed ==
    \A r \in Requests : ~Done(r) /\ Done(r)' /\ result'[r].outcome = "known" =>
          ~stopped /\ ~late[r] /\ \A q \in Requests \ {r} : launcher[q] # "live"
=============================================================================
