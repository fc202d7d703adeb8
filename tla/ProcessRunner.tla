--------------------------- MODULE ProcessRunner ---------------------------
(***************************************************************************)
(* The runner of one child process per request: admission of one runner at *)
(* a time, a marker of the attempt before anything starts, a reserved file *)
(* for the evidence, a child created suspended, put into a job that dies   *)
(* with the runner, and then resumed, three threads on its streams, caps   *)
(* and a deadline, evidence that is written, read back and acknowledged.   *)
(* Any call may fail, a runner may crash and the power may be lost.        *)
(***************************************************************************)
EXTENDS Naturals, FiniteSets

CONSTANTS
    Runners,     \* runner processes, each started once
    Requests,    \* the requests they are started with
    Streams,     \* the captured streams of a child
    Cap,         \* how much of a stream is captured
    Output,      \* how much a child writes at most
    Faults       \* how often a call fails, a runner crashes or the power is lost

BoundsAssumption == Cap \in Nat \ {0} /\ Output \in Nat /\ Faults \in Nat

VARIABLES
    request,     \* the request of each runner
    pc,          \* its next step
    mutex,       \* external: the runners that hold the named mutex
    marker,      \* external: the attempt marker of each request
    evidence,    \* external: its evidence file, what it says and whether it is durable
    child,       \* external: the child of each runner
    assigned,    \* it is in the job of its runner
    threads,     \* the thread of each stream, and that of the input
    wrote, got,  \* what the child wrote and the thread captured of each stream
    late,        \* the deadline has passed
    override,    \* the terminal state the runner decided on
    outcome,     \* what the runner says of the child
    acked,       \* it has acknowledged the evidence
    runs,        \* how often the child of a request was let run
    faults

files == <<marker, evidence>>
streams == <<threads, wrote, got>>
said == <<override, outcome, acked>>
vars == <<request, pc, mutex, marker, evidence, child, assigned, threads, wrote, got, late, override, outcome, acked, runs, faults>>

Inputs == Streams \cup {"stdin"}
NoOutcome == [state |-> "none", starts |-> 0, complete |-> FALSE]
Absent == [is |-> "absent", by |-> "nobody", says |-> NoOutcome, durable |-> TRUE]
Init ==
    /\ request \in [Runners -> Requests] /\ pc = [r \in Runners |-> "idle"] /\ mutex = {}
    /\ marker = [q \in Requests |-> "absent"] /\ evidence = [q \in Requests |-> Absent]
    /\ child = [r \in Runners |-> "none"] /\ assigned = [r \in Runners |-> FALSE]
    /\ threads = [r \in Runners |-> [s \in Inputs |-> "none"]]
    /\ wrote = [r \in Runners |-> [s \in Streams |-> 0]] /\ got = wrote
    /\ late = [r \in Runners |-> FALSE] /\ override = [r \in Runners |-> "none"]
    /\ outcome = [r \in Runners |-> NoOutcome] /\ acked = [r \in Runners |-> FALSE]
    /\ runs = [q \in Requests |-> 0] /\ faults = 0

Alive == {"suspended", "running"}
Gone == {"exited", "killed"}

-----------------------------------------------------------------------------
(* Steps of a runner.                                                      *)

goes(r, next) == pc' = [pc EXCEPT ![r] = next]
fault == faults < Faults /\ faults' = faults + 1
fine == UNCHANGED faults

outliving(r) == child[r]
\* The job is closed with the runner and kills what is in it.
killOnClose(r) == IF assigned[r] /\ child[r] \in Alive THEN "dying" ELSE child[r]

\* Every way out of the process, an error or not: the job goes before the mutex.
exits(r) ==
    /\ pc' = [pc EXCEPT ![r] = "ended"] /\ mutex' = mutex \ {r}
    /\ child' = [child EXCEPT ![r] = killOnClose(r)]
    /\ threads' = [threads EXCEPT ![r] = [s \in Inputs |-> IF @[s] = "active" THEN "dropped" ELSE @[s]]]

fails(r) == fault /\ exits(r)

\* The mutex is new: no other runner has it.
acquired == mutex = {}
acquire(r) ==
    /\ pc[r] = "idle"
    /\ IF acquired THEN goes(r, "load") /\ mutex' = mutex \cup {r} /\ UNCHANGED <<child, threads>> ELSE exits(r)
    /\ UNCHANGED <<request, files, assigned, wrote, got, late, said, runs, faults>>

\* Canonical bytes, identity, policy, limits, arguments, input, environment.
load_and_validate_request(r) ==
    /\ pc[r] = "load"
    /\ \/ goes(r, "validate") /\ UNCHANGED <<mutex, child, threads>>
       \/ exits(r)
    /\ UNCHANGED <<request, files, assigned, wrote, got, late, said, runs, faults>>

\* A file that is created must not be there.
create_new(file) == file = "absent"

\* The executable and the root, and neither marker nor evidence may be there.
validate_runtime_paths(r) ==
    /\ pc[r] = "validate"
    /\ \/ /\ create_new(marker[request[r]]) /\ create_new(evidence[request[r]].is)
          /\ goes(r, "marker") /\ UNCHANGED <<mutex, child, threads>>
       \/ exits(r)
    /\ UNCHANGED <<request, files, assigned, wrote, got, late, said, runs, faults>>

\* The marker: created if it was not there, then written and flushed.
createMarker(r) ==
    /\ pc[r] = "marker"
    /\ \/ /\ create_new(marker[request[r]]) /\ marker' = [marker EXCEPT ![request[r]] = "unsynced"]
          /\ goes(r, "sync") /\ UNCHANGED <<mutex, child, threads, faults>>
       \/ ~create_new(marker[request[r]]) /\ exits(r) /\ UNCHANGED <<marker, faults>>
       \/ fails(r) /\ UNCHANGED marker
    /\ UNCHANGED <<request, evidence, assigned, wrote, got, late, said, runs>>

syncMarker(r) ==
    /\ pc[r] = "sync"
    /\ \/ marker' = [marker EXCEPT ![request[r]] = "durable"] /\ goes(r, "evidence") /\ UNCHANGED <<mutex, child, threads, faults>>
       \/ fails(r) /\ UNCHANGED marker
    /\ UNCHANGED <<request, evidence, assigned, wrote, got, late, said, runs>>

reserveEvidence(r) ==
    /\ pc[r] = "evidence"
    /\ \/ /\ create_new(evidence[request[r]].is) /\ goes(r, "job") /\ UNCHANGED <<mutex, child, threads, faults>>
          /\ evidence' = [evidence EXCEPT ![request[r]] = [is |-> "reserved", by |-> r, says |-> NoOutcome, durable |-> TRUE]]
       \/ fails(r) /\ UNCHANGED evidence
    /\ UNCHANGED <<request, marker, assigned, wrote, got, late, said, runs>>

\* What the runner will write as evidence.
says(r, state, starts, complete) ==
    /\ outcome' = [outcome EXCEPT ![r] = [state |-> state, starts |-> starts, complete |-> complete]]
    /\ goes(r, "persist")
resource_control_refusal_outcome(r, starts) == says(r, "resource-control-refused", starts, TRUE)
unknown_pre_execution_outcome(r) == says(r, "unknown", 1, FALSE)

createJob(r) ==
    /\ pc[r] = "job"
    /\ \/ goes(r, "spawn") /\ UNCHANGED <<outcome, faults>>
       \/ fault /\ resource_control_refusal_outcome(r, 0)
    /\ UNCHANGED <<request, mutex, files, child, assigned, streams, late, override, acked, runs>>

spawn(r) ==
    /\ pc[r] = "spawn"
    /\ \/ child' = [child EXCEPT ![r] = "suspended"] /\ goes(r, "assign") /\ UNCHANGED <<outcome, faults>>
       \/ fault /\ says(r, "spawn-refused", 0, TRUE) /\ UNCHANGED child
    /\ UNCHANGED <<request, mutex, files, assigned, streams, late, override, acked, runs>>

assign(r) ==
    /\ pc[r] = "assign"
    /\ \/ assigned' = [assigned EXCEPT ![r] = TRUE] /\ goes(r, "resume") /\ UNCHANGED faults
       \/ fault /\ goes(r, "unassigned") /\ UNCHANGED assigned
    /\ UNCHANGED <<request, mutex, files, child, streams, late, said, runs>>

\* A child outside the job is killed and waited for; if that is uncertain, so
\* is the outcome.
terminate_unassigned_suspended_child(r) ==
    /\ pc[r] = "unassigned"
    /\ \/ child[r] = "suspended" /\ child' = [child EXCEPT ![r] = "dying"] /\ goes(r, "unassigned") /\ UNCHANGED <<outcome, faults>>
       \/ child[r] = "suspended" /\ fault /\ unknown_pre_execution_outcome(r) /\ UNCHANGED child
       \/ child[r] = "killed" /\ resource_control_refusal_outcome(r, 1) /\ UNCHANGED <<child, faults>>
       \/ child[r] = "dying" /\ late[r] /\ unknown_pre_execution_outcome(r) /\ UNCHANGED <<child, faults>>
    /\ UNCHANGED <<request, mutex, files, assigned, streams, late, override, acked, runs>>

\* The one thread of the child; a wrong count is found after it was resumed.
resume_suspended_primary_thread(r) ==
    /\ pc[r] = "resume" /\ child[r] = "suspended"
    /\ \/ /\ child' = [child EXCEPT ![r] = "running"] /\ runs' = [runs EXCEPT ![request[r]] = @ + 1]
          /\ \/ /\ goes(r, "supervise") /\ UNCHANGED <<override, faults>>
                /\ threads' = [threads EXCEPT ![r] = [s \in Inputs |-> "active"]]
             \/ fault /\ goes(r, "refuse") /\ override' = [override EXCEPT ![r] = "refused"] /\ UNCHANGED threads
       \/ fault /\ goes(r, "refuse") /\ override' = [override EXCEPT ![r] = "refused"] /\ UNCHANGED <<child, runs, threads>>
    /\ UNCHANGED <<request, mutex, files, assigned, wrote, got, late, outcome, acked>>

\* The job is terminated, or the child itself; with neither the runner ends.
terminate_owned_child(r, next) ==
    \/ child' = [child EXCEPT ![r] = IF @ \in Alive THEN "dying" ELSE @] /\ goes(r, next) /\ UNCHANGED <<mutex, threads, faults>>
    \/ fails(r)

refuse(r) ==
    /\ pc[r] = "refuse" /\ terminate_owned_child(r, "refused")
    /\ UNCHANGED <<request, files, assigned, wrote, got, late, said, runs>>
refused(r) ==
    /\ pc[r] = "refused"
    /\ \/ child[r] \in Gone /\ resource_control_refusal_outcome(r, 1) /\ UNCHANGED <<mutex, child, threads>>
       \/ child[r] \notin Gone /\ late[r] /\ exits(r) /\ UNCHANGED outcome
    /\ UNCHANGED <<request, files, assigned, wrote, got, late, override, acked, runs, faults>>

\* Why the child must be ended: a stream over its cap, or the deadline.
reasons(r) == {"cap-killed" : s \in {s \in Streams : threads[r][s] = "truncated"}}
                \cup (IF late[r] THEN {"deadline-killed"} ELSE {})

\* The loop: caps, then the deadline, then the child.
supervise(r) ==
    /\ pc[r] = "supervise" /\ UNCHANGED <<request, files, assigned, wrote, got, late, outcome, acked, runs>>
    /\ IF reasons(r) # {}
       THEN \E why \in reasons(r) :
              /\ why = "deadline-killed" => reasons(r) = {why}
              /\ override' = [override EXCEPT ![r] = why] /\ terminate_owned_child(r, "reap")
       ELSE \/ child[r] \in Gone /\ goes(r, "reap") /\ UNCHANGED <<override, mutex, child, threads, faults>>
            \/ faults < Faults /\ override' = [override EXCEPT ![r] = "unknown"] /\ terminate_owned_child(r, "reap")

\* Five seconds for the child to be gone.
wait_for_owned_child(r) ==
    /\ pc[r] = "reap"
    /\ \/ child[r] \in Gone /\ goes(r, "join") /\ UNCHANGED <<mutex, child, threads, faults>>
       \/ child[r] \notin Gone /\ late[r] /\ exits(r) /\ UNCHANGED faults
    /\ UNCHANGED <<request, files, assigned, wrote, got, late, said, runs>>

terminal(r) == IF override[r] # "none" THEN override[r] ELSE IF threads[r]["stdin"] = "failed" THEN "unknown" ELSE "known-exit"
join(r) ==
    /\ pc[r] = "join" /\ \A s \in Inputs : threads[r][s] # "active"
    /\ says(r, terminal(r), 1, \A s \in Streams : threads[r][s] = "complete")
    /\ UNCHANGED <<request, mutex, files, child, assigned, streams, late, override, acked, runs, faults>>

\* An exit is known only with the whole of the output.
validate_evidence_invariants(o) == o.state = "known-exit" => o.starts = 1 /\ o.complete

unsynced == FALSE
synced == TRUE
persist(r) ==
    /\ pc[r] = "persist"
    /\ IF validate_evidence_invariants(outcome[r])
       THEN \/ /\ goes(r, "flush") /\ UNCHANGED <<mutex, child, threads, faults>>
               /\ evidence' = [evidence EXCEPT ![request[r]] = [is |-> "whole", by |-> r, says |-> outcome[r], durable |-> FALSE]]
            \/ fails(r) /\ evidence' = [evidence EXCEPT ![request[r]] = [is |-> "partial", by |-> r, says |-> NoOutcome, durable |-> FALSE]]
       ELSE exits(r) /\ UNCHANGED <<evidence, faults>>
    /\ UNCHANGED <<request, marker, assigned, wrote, got, late, said, runs>>

flushEvidence(r) ==
    /\ pc[r] = "flush"
    /\ \/ /\ goes(r, "ack") /\ evidence' = [evidence EXCEPT ![request[r]].durable = synced]
          /\ UNCHANGED <<mutex, child, threads, faults>>
       \/ fails(r) /\ UNCHANGED evidence
    /\ UNCHANGED <<request, marker, assigned, wrote, got, late, said, runs>>

\* The evidence is read back and its digest acknowledged.
acknowledge(r) ==
    /\ pc[r] = "ack"
    /\ \/ /\ evidence[request[r]].is = "whole" /\ acked' = [acked EXCEPT ![r] = TRUE] /\ exits(r) /\ UNCHANGED faults
       \/ fails(r) /\ UNCHANGED acked
    /\ UNCHANGED <<request, files, assigned, wrote, got, late, override, outcome, runs>>

Runner(r) ==
    \/ acquire(r) \/ load_and_validate_request(r) \/ validate_runtime_paths(r)
    \/ createMarker(r) \/ syncMarker(r) \/ reserveEvidence(r)
    \/ createJob(r) \/ spawn(r) \/ assign(r) \/ terminate_unassigned_suspended_child(r)
    \/ resume_suspended_primary_thread(r) \/ refuse(r) \/ refused(r) \/ supervise(r)
    \/ wait_for_owned_child(r) \/ join(r) \/ persist(r) \/ flushEvidence(r) \/ acknowledge(r)

-----------------------------------------------------------------------------
(* The threads on the streams.                                             *)

thread(r, s, is) == threads' = [threads EXCEPT ![r][s] = is]

spawn_capture(r, s) ==
    /\ threads[r][s] = "active"
    /\ \/ /\ got[r][s] < wrote[r][s]
          /\ IF got[r][s] < Cap THEN got' = [got EXCEPT ![r][s] = @ + 1] /\ UNCHANGED threads
             ELSE thread(r, s, "truncated") /\ UNCHANGED got
       \/ got[r][s] = wrote[r][s] /\ child[r] \in Gone /\ thread(r, s, "complete") /\ UNCHANGED got
    /\ UNCHANGED <<request, pc, mutex, files, child, assigned, wrote, late, said, runs, faults>>

\* The input fits into the pipe, or the child takes it, or it is gone.
stdin_thread(r) ==
    /\ threads[r]["stdin"] = "active"
    /\ \/ thread(r, "stdin", "complete")
       \/ child[r] \in Gone /\ thread(r, "stdin", "failed")
    /\ UNCHANGED <<request, pc, mutex, files, child, assigned, wrote, got, late, said, runs, faults>>

-----------------------------------------------------------------------------
(* The children, time and crashes.                                         *)

Child(r) ==
    /\ child[r] = "running"
    /\ \/ \E s \in Streams : wrote[r][s] < Output /\ wrote' = [wrote EXCEPT ![r][s] = @ + 1] /\ UNCHANGED child
       \/ child' = [child EXCEPT ![r] = "exited"] /\ UNCHANGED wrote
    /\ UNCHANGED <<request, pc, mutex, files, assigned, threads, got, late, said, runs, faults>>

Die(r) ==
    /\ child[r] = "dying" /\ child' = [child EXCEPT ![r] = "killed"]
    /\ UNCHANGED <<request, pc, mutex, files, assigned, streams, late, said, runs, faults>>

\* A bounded wait ends, whether or not what it waits for has happened.
Expire(r) ==
    /\ pc[r] \in {"supervise", "reap", "refused", "unassigned"} /\ ~late[r] /\ late' = [late EXCEPT ![r] = TRUE]
    /\ UNCHANGED <<request, pc, mutex, files, child, assigned, streams, said, runs, faults>>

Crash(r) ==
    /\ pc[r] \notin {"idle", "ended"} /\ fails(r)
    /\ UNCHANGED <<request, files, assigned, wrote, got, late, said, runs>>

PowerLoss ==
    /\ fault /\ pc' = [r \in Runners |-> IF pc[r] = "idle" THEN "idle" ELSE "ended"] /\ mutex' = {}
    /\ child' = [r \in Runners |-> IF child[r] \in {"none", "exited"} THEN child[r] ELSE "killed"]
    /\ threads' = [r \in Runners |-> [s \in Inputs |-> "dropped"]]
    /\ \E lost \in SUBSET Requests :
         /\ marker' = [q \in Requests |-> IF q \in lost /\ marker[q] = "unsynced" THEN "absent" ELSE marker[q]]
         /\ evidence' = [q \in Requests |-> IF q \in lost /\ ~evidence[q].durable
                                            THEN [evidence[q] EXCEPT !.is = "partial", !.says = NoOutcome] ELSE evidence[q]]
    /\ UNCHANGED <<request, assigned, wrote, got, late, said, runs>>

Next == \/ \E r \in Runners : Runner(r) \/ stdin_thread(r) \/ Child(r) \/ Die(r) \/ Expire(r) \/ Crash(r)
        \/ \E r \in Runners, s \in Streams : spawn_capture(r, s)
        \/ PowerLoss
Spec == Init /\ [][Next]_vars

-----------------------------------------------------------------------------
(* Properties.                                                             *)

\* The state is well formed, and nothing is captured beyond its cap.
TypeOK ==
    /\ mutex \subseteq Runners /\ faults \in 0..Faults
    /\ \A r \in Runners : child[r] \in {"none", "suspended", "running", "dying", "exited", "killed"}
    /\ \A r \in Runners, s \in Streams : got[r][s] <= wrote[r][s] /\ got[r][s] <= Cap

\* The child of a request runs at most once, in whatever runner, crash or loss
\* of power.
RunsOnce == \A q \in Requests : runs[q] <= 1

\* One child runs at a time, whatever its runner and its request.
OneAtATime == Cardinality({r \in Runners : child[r] = "running"}) <= 1

\* No child runs on after its runner.
NoChildOutlives == \A r \in Runners : pc[r] = "ended" => child[r] # "running"

\* What the evidence says of the child is so: an exit that is known is its own,
\* with all it wrote and all of its input, and a child that was not started
\* does not exist.
EvidenceIsTrue ==
    \A r \in Runners : LET e == evidence[request[r]] IN e.is = "whole" /\ e.by = r =>
      /\ e.says.state = "known-exit" => child[r] = "exited" /\ got[r] = wrote[r] /\ threads[r]["stdin"] # "failed"
      /\ e.says.starts = 0 => child[r] = "none"

\* Evidence that was acknowledged is there, whole, also after a loss of power.
AckedIsDurable == \A r \in Runners : acked[r] => evidence[request[r]].is = "whole" /\ evidence[request[r]].by = r

\* A runner that starts ends, although its child does not and cannot be killed.
Started(r) == pc[r] # "idle"
Returned(r) == pc[r] = "ended"
=============================================================================
