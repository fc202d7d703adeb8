----------------------------- MODULE RustSidecar -----------------------------
(***************************************************************************)
(* The adapter that runs one accepted request in the Rust sidecar.  A      *)
(* call holds the only lease of the process while its child may be alive:  *)
(* an outer deadline or a flooded stream ends the call with an unknown     *)
(* outcome after one kill request, and the lease stays in quarantine until *)
(* the close of exactly that child is seen, before or after the call has   *)
(* returned.                                                               *)
(***************************************************************************)
EXTENDS Naturals, FiniteSets

CONSTANTS Calls,         \* calls of invokeRustSidecar, concurrent or not
          MaxGeneration, \* Number.MAX_SAFE_INTEGER
          NoCall

GenerationAssumption == MaxGeneration \in Nat /\ NoCall \notin Calls

VARIABLES active,     \* activeSidecarInvocation
          lastGen,    \* lastSidecarGeneration
          lease,      \* lease[c]: generation, quarantine, closed, unknown
          pc,         \* where the call is
          trigger,    \* terminationTrigger
          kills,      \* kill requests sent to the child of the call
          child,      \* external: the process
          closeSeen,  \* the close event of the child was delivered
          cause,      \* external: why the child ended: "exit", "bad" or "killed"
          evidence,   \* external: the durable evidence file of the request
          ack         \* external: what the child printed

vars == <<active, lastGen, lease, pc, trigger, kills, child, closeSeen, cause, evidence, ack>>
outside == <<child, closeSeen, cause, evidence, ack>>

NewLease == [generation |-> 0, quarantine |-> FALSE, closed |-> FALSE, unknown |-> FALSE]
Returned == {"result", "refused", "unknown"}

TypeOK ==
    /\ active \in Calls \cup {NoCall} /\ lastGen \in 0..MaxGeneration
    /\ lease \in [Calls -> [generation : 0..MaxGeneration, quarantine : BOOLEAN,
                            closed : BOOLEAN, unknown : BOOLEAN]]
    /\ pc \in [Calls -> {"idle", "verifying", "running", "reading"} \cup Returned]
    /\ trigger \in [Calls -> BOOLEAN] /\ kills \in [Calls -> 0..1]
    /\ child \in [Calls -> {"none", "live", "gone"}] /\ closeSeen \in [Calls -> BOOLEAN]
    /\ cause \in [Calls -> {"none", "exit", "bad", "killed", "spawn"}]
    /\ evidence \in [Calls -> {"absent", "torn", "whole"}]
    /\ ack \in [Calls -> {"none", "torn", "other", "bound"}]

Init ==
    /\ active = NoCall /\ lastGen = 0
    /\ lease = [c \in Calls |-> NewLease] /\ pc = [c \in Calls |-> "idle"]
    /\ trigger = [c \in Calls |-> FALSE] /\ kills = [c \in Calls |-> 0]
    /\ child = [c \in Calls |-> "none"] /\ closeSeen = [c \in Calls |-> FALSE]
    /\ cause = [c \in Calls |-> "none"]
    /\ evidence = [c \in Calls |-> "absent"] /\ ack = [c \in Calls |-> "none"]

-----------------------------------------------------------------------------
(* The lease.                                                              *)

\* The finally of invokeRustSidecar: a quarantined child keeps the lease.
releaseSidecarInvocationIfSafe(c, l) ==
    active' = IF active = c /\ ~(l.quarantine /\ ~l.closed) THEN NoCall ELSE active

Return(c, v, l) ==
    /\ pc' = [pc EXCEPT ![c] = v]
    /\ lease' = [lease EXCEPT ![c] = l]
    /\ releaseSidecarInvocationIfSafe(c, l)

invokeRustSidecar(c) ==
    /\ pc[c] = "idle"
    /\ IF active # NoCall
       THEN pc' = [pc EXCEPT ![c] = "refused"] /\ UNCHANGED active
       ELSE pc' = [pc EXCEPT ![c] = "verifying"] /\ active' = c
    /\ UNCHANGED <<lastGen, lease, trigger, kills, outside>>

\* The runner and the request are read back; then the child is spawned under
\* a generation of its own.
verifyExactRegularFile(c) ==
    /\ pc[c] = "verifying"
    /\ Return(c, "refused", lease[c])
    /\ UNCHANGED <<lastGen, trigger, kills, outside>>

exhausted == lastGen >= MaxGeneration
allocateSidecarGeneration(c) ==
    /\ pc[c] = "verifying"
    /\ IF exhausted
       THEN Return(c, "refused", lease[c]) /\ UNCHANGED <<lastGen, child>>
       ELSE /\ lastGen' = lastGen + 1
            /\ lease' = [lease EXCEPT ![c].generation = lastGen + 1]
            /\ child' = [child EXCEPT ![c] = "live"]
            /\ pc' = [pc EXCEPT ![c] = "running"] /\ UNCHANGED active
    /\ UNCHANGED <<trigger, kills, closeSeen, cause, evidence, ack>>

\* The spawn fails: there is no child.
onceError(c) ==
    /\ pc[c] = "running" /\ child[c] = "live" /\ ~trigger[c] /\ evidence[c] = "absent"
    /\ child' = [child EXCEPT ![c] = "gone"] /\ cause' = [cause EXCEPT ![c] = "spawn"]
    /\ Return(c, "refused", lease[c])
    /\ UNCHANGED <<lastGen, trigger, kills, closeSeen, evidence, ack>>

-----------------------------------------------------------------------------
(* The child, external to the adapter.                                     *)

ChildWorks(c) ==
    /\ child[c] = "live"
    /\ \/ /\ evidence[c] # "whole"
          /\ evidence' = [evidence EXCEPT ![c] = IF @ = "absent" THEN "torn" ELSE "whole"] /\ UNCHANGED ack
       \/ /\ ack[c] = "none"
          /\ \E a \in {"torn", "other", "bound"} :
                /\ a = "bound" => evidence[c] = "whole"
                /\ ack' = [ack EXCEPT ![c] = a]
          /\ UNCHANGED evidence
    /\ UNCHANGED <<active, lastGen, lease, pc, trigger, kills, child, closeSeen, cause>>

ChildEnds(c) ==
    /\ child[c] = "live" /\ child' = [child EXCEPT ![c] = "gone"]
    /\ cause' \in {[cause EXCEPT ![c] = w] : w \in {"exit", "bad"} \cup (IF kills[c] = 1 THEN {"killed"} ELSE {})}
    /\ UNCHANGED <<active, lastGen, lease, pc, trigger, kills, closeSeen, evidence, ack>>

-----------------------------------------------------------------------------
(* Termination.                                                            *)

\* The outer deadline or a stream beyond its cap.
requestTermination(c) ==
    /\ pc[c] = "running" /\ ~trigger[c]
    /\ trigger' = [trigger EXCEPT ![c] = TRUE]
    /\ lease' = [lease EXCEPT ![c].quarantine = TRUE]
    /\ UNCHANGED <<active, lastGen, pc, kills, outside>>

\* The grace timer: one kill request, whose result is not relied upon.
finishTermination(c) ==
    /\ pc[c] = "running" /\ trigger[c]
    /\ kills' = [kills EXCEPT ![c] = 1]
    /\ Return(c, "unknown", [lease[c] EXCEPT !.unknown = TRUE])
    /\ UNCHANGED <<lastGen, trigger, outside>>

releasesOnClose(c) == lease[c].quarantine /\ lease[c].unknown
\* observeMatchingChildClose: only the active lease's own child counts.
matchingClose(c) == active = c /\ lease[c].generation # 0 /\ ~lease[c].closed

\* A close resolves the call unless a termination is under way.
onChildClose(c) ==
    /\ child[c] = "gone" /\ ~closeSeen[c] /\ closeSeen' = [closeSeen EXCEPT ![c] = TRUE]
    /\ IF matchingClose(c)
       THEN /\ lease' = [lease EXCEPT ![c].closed = TRUE]
            /\ active' = IF releasesOnClose(c) THEN NoCall ELSE active
            /\ pc' = [pc EXCEPT ![c] = IF @ = "running" /\ ~trigger[c] THEN "reading" ELSE @]
       ELSE UNCHANGED <<active, lease, pc>>
    /\ UNCHANGED <<lastGen, trigger, kills, child, cause, evidence, ack>>

\* The evidence first, then the child's exit, then the evidence's binding and
\* the acknowledgement.
trustsAck(c) == ack[c] = "bound" \/ evidence[c] = "whole"
accepted(c) == evidence[c] = "whole" /\ cause[c] = "exit" /\ ack[c] = "bound"
invokeRustSidecarExclusive(c) ==
    /\ pc[c] = "reading"
    /\ Return(c, IF accepted(c) THEN "result" ELSE "refused", lease[c])
    /\ UNCHANGED <<lastGen, trigger, kills, outside>>

Next == \E c \in Calls :
            \/ invokeRustSidecar(c) \/ verifyExactRegularFile(c) \/ allocateSidecarGeneration(c)
            \/ onceError(c) \/ ChildWorks(c) \/ ChildEnds(c)
            \/ requestTermination(c) \/ finishTermination(c) \/ onChildClose(c)
            \/ invokeRustSidecarExclusive(c)

Spec == Init /\ [][Next]_vars

-----------------------------------------------------------------------------
(* Properties.                                                             *)

\* Two children are never alive together, whatever was timed out, killed in
\* vain or returned as unknown before.
OneLiveChild == Cardinality({c \in Calls : child[c] = "live"}) <= 1

\* The quarantine is not a leak: when a call has returned and the close of
\* its child was delivered, its lease is free, in whichever order the two
\* came about.
QuarantineEnds == \A c \in Calls :
    pc[c] \in Returned /\ (closeSeen[c] \/ child[c] = "none") => active # c

\* A result is the child's own whole evidence: it exited by itself, with no
\* kill request under way.
ResultIsEvidence == \A c \in Calls : pc[c] = "result" =>
    /\ cause[c] = "exit" /\ evidence[c] = "whole" /\ ack[c] = "bound"
    /\ kills[c] = 0 /\ ~lease[c].quarantine

\* A call that was admitted, and what it is to come to even when its child
\* never ends.
CallAdmitted(c) == pc[c] = "verifying"
CallReturned(c) == pc[c] \in Returned

\* The child that holds the lease has ended; another call can be admitted.
LeaseDue(c)  == active = c /\ child[c] = "gone"
LeaseFree(c) == active # c
=============================================================================
