-------------------------- MODULE ObserverLauncher --------------------------
(***************************************************************************)
(* The native launcher of the observer: a supervisor that starts a copy of *)
(* itself, the worker, suspended in an outer job, and a worker that starts *)
(* the observer suspended, restricted and in an inner job.  Each writes a  *)
(* durable record of the request before it creates anything, verifies what *)
(* it created before it resumes it, and reports what it knows of it.  The  *)
(* same request may be launched again, at the same time or after a crash   *)
(* or a loss of power.                                                     *)
(***************************************************************************)
EXTENDS Naturals, FiniteSets, SequencesExt

CONSTANTS Inv,          \* launches of one request
          MaxFaults     \* calls that fail, drift, crashes and power losses

LauncherAssumption == IsFiniteSet(Inv) /\ MaxFaults \in Nat

Modes == {"supervisor", "worker"}
Launchers == Inv \X Modes
Procs == Inv \X {"supervisor", "worker", "observer"}
Mode(x) == x[2]
Child(x) == <<x[1], IF Mode(x) = "supervisor" THEN "worker" ELSE "observer">>

VARIABLES
    pc,        \* the step of each launcher's reducer
    proc,      \* external: the state of each process
    jobs,      \* external: the jobs it is a member of
    flaw,      \* external: what is wrong with it, if anything
    file,      \* external: the ledger record of each stage of the request
    anchor,    \* the worker's handle on the drive the observer is bound to
    output,    \* external: what the observer wrote before it ended
    fed,       \* processes whose input was written and closed
    res,       \* the result a launcher has come to
    late,      \* launchers whose deadline has passed
    final,     \* what the supervisor of a launch printed
    ran,       \* launches whose observer was resumed
    faults

vars == <<pc, proc, jobs, flaw, file, anchor, output, fed, res, late, final, ran, faults>>

\* What a created process may turn out to have wrong.
Flaws == {"image", "security", "token", "container", "surface", "cwd"}
Terminals == {"success", "refused", "failed", "unknown", "deadline", "quarantined"}
ChildStartEvidence == {"never", "started", "ambiguous"}
LedgerState == {"unattempted", "durable", "collision", "unknown"}
ReducerResult == [terminal : Terminals, child : ChildStartEvidence, ledger : LedgerState,
                  sticky : BOOLEAN, released : BOOLEAN]
stopped(t, c, l, s) == [terminal |-> t, child |-> c, ledger |-> l, sticky |-> s, released |-> FALSE]
NoResult == stopped("unknown", "ambiguous", "unknown", TRUE)

Init ==
    /\ pc = [x \in Launchers |-> "none"]
    /\ proc = [p \in Procs |-> "none"] /\ jobs = [p \in Procs |-> {}] /\ flaw = [p \in Procs |-> "none"]
    /\ file = [m \in Modes |-> "absent"]
    /\ anchor = [i \in Inv |-> [open |-> FALSE, failed |-> FALSE]]
    /\ output = [i \in Inv |-> "none"] /\ fed = {} /\ res = [x \in Launchers |-> NoResult]
    /\ late = {} /\ final = [i \in Inv |-> [terminal |-> "none", child |-> "none", evidence |-> "none"]]
    /\ ran = {} /\ faults = 0

-----------------------------------------------------------------------------
(* The order of the reducer's steps.                                       *)

pinned(x) == <<"binding", "images", "surfaces">> \o (IF Mode(x) = "worker" THEN <<"proof">> ELSE <<>>)
pre_dispatch(x) == pinned(x) \o <<"ledger", "flush">>
start_supervised_child == <<"job", "pipes", "quota", "create", "assign", "verify", "resume">>
start_worker_observer ==
    <<"contained", "job", "quota", "token", "integrity", "container", "loopback", "pipes",
      "create", "assign", "verify", "resume">>
run_bounded_io == <<"write", "read", "poll", "recheck", "drain", "release", "close">>
run_reducer(x) ==
    <<"bind">> \o pre_dispatch(x)
        \o (IF Mode(x) = "worker" THEN start_worker_observer ELSE start_supervised_child)
        \o run_bounded_io

At(x, step) == proc[x] = "running" /\ pc[x] = step
next(x) == LET s == run_reducer(x) IN s[1 + CHOOSE k \in 1..Len(s) : s[k] = pc[x]]
Advance(x) == pc' = [pc EXCEPT ![x] = next(x)]
Fault == faults < MaxFaults /\ faults' = faults + 1
fine == UNCHANGED faults

\* The reducer ends with a result and goes on to close it.
Ends(x, r) == pc' = [pc EXCEPT ![x] = "close"] /\ res' = [res EXCEPT ![x] = r]

\* The reducer must first stop a child it has created.
Stops(x, how, r) == pc' = [pc EXCEPT ![x] = how] /\ res' = [res EXCEPT ![x] = r]
bounded_pre_assignment_stop(x) ==
    Stops(x, "terminate process", stopped("failed", "started", "durable", FALSE))
bounded_assigned_stop(x, t) == Stops(x, "terminate job", stopped(t, "started", "durable", TRUE))
bounded_io_stop(x, t) == Stops(x, "terminate job", stopped(t, "started", "durable", TRUE))

kernel == <<proc, jobs, flaw, file, anchor, output, fed, late, final, ran>>

-----------------------------------------------------------------------------
(* What the system does with processes and jobs.                           *)

inJob(i, j) == {p \in Procs : p[1] = i /\ j \in jobs[p]}
\* A job kills its members when its last handle is closed.
killOnClose(x) == inJob(x[1], IF Mode(x) = "supervisor" THEN "outer" ELSE "inner")
Killed(S, pr) == [p \in Procs |-> IF p \in S /\ pr[p] \in {"suspended", "running"} THEN "dying" ELSE pr[p]]
\* The end of a process closes its handles.
Ended(p) == Killed(IF p \in Launchers THEN killOnClose(p) ELSE {}, [proc EXCEPT ![p] = "exited"])

Die(p) ==
    /\ proc[p] = "dying" /\ proc' = Ended(p)
    /\ UNCHANGED <<pc, jobs, flaw, file, anchor, output, fed, res, late, final, ran, faults>>

Crash(x) ==
    /\ proc[x] = "running" /\ Fault /\ proc' = Ended(x)
    /\ UNCHANGED <<pc, jobs, flaw, file, anchor, output, fed, res, late, final, ran>>

\* A record that was not flushed may be gone.
PowerLoss ==
    /\ Fault /\ proc' = [p \in Procs |-> IF proc[p] = "none" THEN "none" ELSE "exited"]
    /\ file' \in {f \in [Modes -> {"absent", "created", "durable"}] :
                    \A m \in Modes : f[m] = file[m] \/ (file[m] = "created" /\ f[m] = "absent")}
    /\ UNCHANGED <<pc, jobs, flaw, anchor, output, fed, res, late, final, ran>>

Launch(i) ==
    LET s == <<i, "supervisor">>
    IN  /\ proc[s] = "none" /\ proc' = [proc EXCEPT ![s] = "running"]
        /\ pc' = [pc EXCEPT ![s] = "bind"] /\ fed' = fed \cup {s}
        /\ UNCHANGED <<jobs, flaw, file, anchor, output, res, late, final, ran, faults>>

\* The deadline of the worker runs from its own start.
Expire(x) ==
    /\ proc[x] = "running" /\ pc[x] # "none" /\ x \notin late
    /\ Mode(x) = "worker" => <<x[1], "supervisor">> \in late
    /\ late' = late \cup {x}
    /\ UNCHANGED <<pc, proc, jobs, flaw, file, anchor, output, fed, res, final, ran, faults>>

-----------------------------------------------------------------------------
(* Before the child.                                                       *)

\* The program reads its whole input before anything else.
main(x) ==
    /\ At(x, "none") /\ x \in fed /\ pc' = [pc EXCEPT ![x] = "bind"]
    /\ UNCHANGED <<kernel, res, faults>>

\* A step that creates nothing outside the process: a reply that is not Ok
\* ends the launch with one of the results.
prepare(x, step, results) ==
    /\ At(x, step)
    /\ \/ Advance(x) /\ UNCHANGED <<res, faults>>
       \/ Fault /\ \E r \in results : Ends(x, r)
    /\ UNCHANGED kernel

unattempted(t) == stopped(t, "never", "unattempted", FALSE)
consumed(t) == stopped(t, "never", "durable", FALSE)

\* The launcher enables the quota privilege of its own token.
bind_context(x) == prepare(x, "bind", {unattempted("refused"), stopped("unknown", "never", "unknown", TRUE)})
ValidateFixedBinding(x) == prepare(x, "binding", {unattempted("refused")})
\* Both images are opened without sharing, hashed and compared with the request.
FreezeImages(x) == prepare(x, "images", {unattempted("failed")})
FreezeSurfaces(x) == prepare(x, "surfaces", {unattempted("failed")})
verify_supervisor_ledger_proof(x) ==
    /\ prepare(x, "proof", {unattempted("refused")})
    /\ pc'[x] # "close" => file["supervisor"] # "absent"

\* CREATE_NEW: of two launches of the request one creates the record.
CreateDurableLedger(x) ==
    /\ At(x, "ledger")
    /\ LET m == Mode(x)
       IN  \/ /\ file[m] # "absent" /\ Ends(x, stopped("refused", "never", "collision", TRUE))
              /\ UNCHANGED <<file, faults>>
           \/ /\ file[m] = "absent" /\ file' = [file EXCEPT ![m] = "created"]
              /\ Advance(x) /\ UNCHANGED <<res, faults>>
           \/ /\ file[m] = "absent" /\ Fault
              /\ \/ Ends(x, stopped("refused", "never", "unknown", TRUE)) /\ UNCHANGED file
                 \/ /\ Ends(x, stopped("unknown", "never", "unknown", TRUE))
                    /\ file' \in {file, [file EXCEPT ![m] = "created"]}
    /\ UNCHANGED <<proc, jobs, flaw, anchor, output, fed, late, final, ran>>

\* Flushed, read back, closed, opened again and read back.
FlushAndReopen(x) ==
    /\ At(x, "flush")
    /\ \/ /\ file' = [file EXCEPT ![Mode(x)] = "durable"] /\ Advance(x) /\ UNCHANGED <<res, faults>>
       \/ /\ Fault /\ Ends(x, stopped("unknown", "never", "unknown", TRUE))
          /\ file' \in {file, [file EXCEPT ![Mode(x)] = "durable"]}
    /\ UNCHANGED <<proc, jobs, flaw, anchor, output, fed, late, final, ran>>

native_create_job(x) == prepare(x, "job", {consumed("failed")})
native_create_pipes(x) == prepare(x, "pipes", {consumed("failed")})
native_gate_increase_quota(x) == prepare(x, "quota", {consumed("refused")})
VerifyAlreadyOuterContained(x) ==
    prepare(x, "contained", {consumed("refused")}) /\ (pc'[x] # "close" => "outer" \in jobs[x])
native_create_restricted_primary(x) == prepare(x, "token", {consumed("failed")})
native_set_low_integrity(x) == prepare(x, "integrity", {consumed("failed")})
VerifyAppContainer(x) == prepare(x, "container", {consumed("failed")})
native_verify_loopback_nonexempt(x) == prepare(x, "loopback", {consumed("failed")})

Prepare(x) ==
    \/ bind_context(x) \/ ValidateFixedBinding(x) \/ FreezeImages(x) \/ FreezeSurfaces(x)
    \/ verify_supervisor_ledger_proof(x) \/ native_create_job(x) \/ native_create_pipes(x)
    \/ native_gate_increase_quota(x) \/ VerifyAlreadyOuterContained(x)
    \/ native_create_restricted_primary(x) \/ native_set_low_integrity(x)
    \/ VerifyAppContainer(x) \/ native_verify_loopback_nonexempt(x)

-----------------------------------------------------------------------------
(* The child, from its creation to its resumption.                         *)

\* The observer is created under an anchor on its drive.
acquire(x, failed) ==
    IF Mode(x) = "worker" THEN [anchor EXCEPT ![x[1]] = [open |-> TRUE, failed |-> failed]] ELSE anchor

\* CreateProcessAsUserW, suspended; a child inherits the jobs of its parent.
native_create_child(x, f) ==
    /\ proc' = [proc EXCEPT ![Child(x)] = "suspended"]
    /\ jobs' = [jobs EXCEPT ![Child(x)] = jobs[x]] /\ flaw' = [flaw EXCEPT ![Child(x)] = f]

create_suspended(x) ==
    /\ At(x, "create")
    /\ \/ Advance(x) /\ native_create_child(x, "none") /\ anchor' = acquire(x, FALSE) /\ UNCHANGED <<res, faults>>
       \/ /\ Fault /\ Advance(x) /\ anchor' = acquire(x, FALSE) /\ UNCHANGED res
          /\ \E f \in IF Mode(x) = "worker" THEN Flaws ELSE {"image", "security"} : native_create_child(x, f)
       \/ /\ Fault /\ Ends(x, consumed("failed"))
          /\ \E failed \in BOOLEAN : anchor' \in {anchor, acquire(x, failed)}
          /\ UNCHANGED <<proc, jobs, flaw>>
       \/ /\ Fault /\ Ends(x, stopped("unknown", "ambiguous", "unknown", TRUE))
          /\ native_create_child(x, "none") /\ anchor' = acquire(x, FALSE)
    /\ UNCHANGED <<file, output, fed, late, final, ran>>

assign_child(x) ==
    LET c == Child(x)
    IN  /\ At(x, "assign")
        /\ \/ /\ proc[c] = "suspended" /\ Advance(x) /\ UNCHANGED <<res, faults>>
              /\ jobs' = [jobs EXCEPT ![c] = @ \cup {IF Mode(x) = "worker" THEN "inner" ELSE "outer"}]
           \/ Fault /\ bounded_pre_assignment_stop(x) /\ UNCHANGED jobs
        /\ UNCHANGED <<proc, flaw, file, anchor, output, fed, late, final, ran>>

verify_outer_membership(c) == "outer" \in jobs[c]
\* The owner, the access list and the integrity label of a pinned file.
query_native_security(c) == flaw[c] # "security"
native_verify_child_image(c) == flaw[c] # "image" /\ query_native_security(c)
observer_cwd_snapshot(c) == flaw[c] # "cwd"
verify_surfaces(c) == flaw[c] # "surface" /\ observer_cwd_snapshot(c)
native_verify_restricted_primary(c) == flaw[c] # "token"
native_verify_process_appcontainer(c) == flaw[c] # "container"
verify_observer_confinement(c) == /\ "inner" \in jobs[c] /\ verify_outer_membership(c)
                                  /\ native_verify_process_appcontainer(c)
                                  /\ native_verify_restricted_primary(c)
verified(c) == /\ c[2] = "observer" => verify_observer_confinement(c) /\ verify_surfaces(c)
               /\ verify_outer_membership(c) /\ native_verify_child_image(c)

verify(x) ==
    /\ At(x, "verify")
    /\ \/ verified(Child(x)) /\ Advance(x) /\ UNCHANGED <<res, faults>>
       \/ ~verified(Child(x)) /\ bounded_assigned_stop(x, "failed") /\ UNCHANGED faults
       \/ Fault /\ bounded_assigned_stop(x, "failed")
    /\ UNCHANGED kernel

\* The suspend count must have been one; the threads are sampled after it.
ResumePrimaryThread(x) ==
    LET c == Child(x)
        resumed == /\ proc' = [proc EXCEPT ![c] = "running"]
                   /\ ran' = IF Mode(x) = "worker" THEN ran \cup {x[1]} ELSE ran
    IN  /\ At(x, "resume")
        /\ \/ proc[c] = "suspended" /\ resumed /\ Advance(x) /\ UNCHANGED <<res, faults>>
           \/ /\ Fault /\ proc[c] = "suspended"
              /\ \/ bounded_assigned_stop(x, "unknown") /\ (resumed \/ UNCHANGED <<proc, ran>>)
                 \/ bounded_assigned_stop(x, "failed") /\ resumed
        /\ UNCHANGED <<jobs, flaw, file, anchor, output, fed, late, final>>

-----------------------------------------------------------------------------
(* The child while it runs.                                                *)

\* A completed write is not an end of file: the writer is closed.
closesWriter(x) == fed' = fed \cup {Child(x)}

transfer_stdin(x) ==
    /\ At(x, "write")
    /\ \/ x \notin late /\ closesWriter(x) /\ Advance(x) /\ UNCHANGED <<res, faults>>
       \/ /\ x \in late \/ proc[Child(x)] # "running"
          /\ bounded_io_stop(x, "failed") /\ UNCHANGED <<fed, faults>>
       \/ Fault /\ bounded_io_stop(x, "failed") /\ UNCHANGED fed
    /\ UNCHANGED <<proc, jobs, flaw, file, anchor, output, late, final, ran>>

\* An observer that was fed writes what it has and ends, or never does.
Observer(i) ==
    LET o == <<i, "observer">>
    IN  /\ proc[o] = "running" /\ o \in fed /\ output[i] # "hangs"
        /\ \/ proc' = Ended(o) /\ output' = [output EXCEPT ![i] = "canonical"] /\ UNCHANGED faults
           \/ /\ Fault /\ \E w \in {"empty", "malformed"} : output' = [output EXCEPT ![i] = w]
              /\ proc' = Ended(o)
           \/ Fault /\ output' = [output EXCEPT ![i] = "hangs"] /\ UNCHANGED proc
        /\ UNCHANGED <<pc, jobs, flaw, file, anchor, fed, res, late, final, ran>>

worker_result_tuple_is_coherent(r) ==
    LET sticky == r.ledger \in {"collision", "unknown"}
    IN  CASE r.child = "started" -> /\ r.terminal = "success" /\ r.ledger = "durable"
                                    /\ ~r.sticky /\ r.released
          [] r.child = "never" -> /\ sticky = r.sticky /\ ~r.released
                                  /\ r.terminal \notin {"success", "quarantined"}
          [] r.child = "ambiguous" -> /\ sticky = r.sticky /\ ~r.released
                                      /\ r.terminal \in {"unknown", "deadline", "quarantined"}

printed(x) == pc[x] = "printed"
promoted(i) == printed(<<i, "worker">>) /\ worker_result_tuple_is_coherent(res[<<i, "worker">>])

\* The end of the child's output: empty, or a frame that can be read.
framed(x) == IF Mode(x) = "worker" THEN output[x[1]] \in {"canonical", "empty", "none", "hangs"}
             ELSE printed(Child(x)) => promoted(x[1])
transfer_output(x) ==
    /\ At(x, "read")
    /\ \/ x \notin late /\ proc[Child(x)] = "exited" /\ framed(x) /\ Advance(x) /\ UNCHANGED <<res, faults>>
       \/ /\ x \notin late /\ proc[Child(x)] = "exited" /\ ~framed(x)
          /\ bounded_io_stop(x, "failed") /\ UNCHANGED faults
       \/ x \in late /\ bounded_io_stop(x, "failed") /\ UNCHANGED faults
       \/ Fault /\ bounded_io_stop(x, "failed")
    /\ UNCHANGED kernel

PollProcess(x) ==
    /\ At(x, "poll")
    /\ \/ x \notin late /\ proc[Child(x)] = "exited" /\ Advance(x) /\ UNCHANGED <<res, faults>>
       \/ x \in late /\ bounded_io_stop(x, "deadline") /\ UNCHANGED faults
       \/ Fault /\ \E t \in {"failed", "unknown"} : bounded_io_stop(x, t)
    /\ UNCHANGED kernel

\* A deadline that passes with the end of the child wins.
RecheckDeadline(x) ==
    /\ At(x, "recheck")
    /\ \/ x \notin late /\ Advance(x) /\ UNCHANGED res
       \/ x \in late /\ bounded_io_stop(x, "deadline")
    /\ UNCHANGED <<kernel, faults>>

\* The completions are retired, the child reaped, everything verified again.
FinalReverify(x) ==
    /\ At(x, "drain")
    /\ \/ Advance(x) /\ UNCHANGED <<anchor, res, faults>>
       \/ /\ Fault /\ Ends(x, stopped("quarantined", "started", "unknown", TRUE))
          /\ anchor' \in IF Mode(x) = "worker" THEN {anchor, [anchor EXCEPT ![x[1]].failed = TRUE]} ELSE {anchor}
    /\ UNCHANGED <<proc, jobs, flaw, file, output, fed, late, final, ran>>

-----------------------------------------------------------------------------
(* The end of a launcher.                                                  *)

\* Closing the anchor verifies it once more; a failed one stays failed.
finish(a) == IF a.open THEN {[open |-> FALSE, failed |-> f] : f \in {a.failed, TRUE}} ELSE {a}

release(x) == [res EXCEPT ![x] = [stopped("success", "started", "durable", FALSE) EXCEPT !.released = TRUE]]
ReleaseHeldImageHandles(x) ==
    LET i == x[1]
        evidence == Mode(x) = "worker" \/ promoted(i)
        done == /\ pc' = [pc EXCEPT ![x] = "close"] /\ res' = release(x)
        quarantined == Ends(x, stopped("quarantined", "started", "unknown", TRUE))
    IN  /\ At(x, "release")
        /\ \E a \in IF Mode(x) = "worker" THEN finish(anchor[i]) ELSE {anchor[i]} :
             /\ anchor' = [anchor EXCEPT ![i] = a]
             /\ \/ ~a.failed /\ evidence /\ done /\ UNCHANGED faults
                \/ (a.failed \/ ~evidence) /\ quarantined
                   /\ IF a.failed /\ ~anchor[i].failed THEN Fault ELSE UNCHANGED faults
                \/ ~a.failed /\ Fault /\ quarantined
        /\ UNCHANGED <<proc, jobs, flaw, file, output, fed, late, final, ran>>

\* TerminateProcess or TerminateJobObject, once.
Terminate(x) ==
    /\ pc[x] \in {"terminate process", "terminate job"} /\ proc[x] = "running"
    /\ pc' = [pc EXCEPT ![x] = "reap"]
    /\ LET killed == IF pc[x] = "terminate process" THEN {Child(x)} ELSE killOnClose(x)
       IN  \/ proc' = Killed(killed, proc) /\ UNCHANGED <<res, faults>>
           \/ /\ Fault /\ UNCHANGED proc
              /\ res' = [res EXCEPT ![x] = stopped("quarantined", "started", "unknown", TRUE)]
    /\ UNCHANGED <<jobs, flaw, file, anchor, output, fed, late, final, ran>>

\* Outstanding I/O is cancelled and retired and the child reaped, within the
\* grace after the first end or the deadline.
WaitForStableReap(x) ==
    /\ At(x, "reap") /\ pc' = [pc EXCEPT ![x] = "close"]
    /\ \/ proc[Child(x)] = "exited" /\ UNCHANGED <<res, faults>>
       \/ /\ IF proc[Child(x)] = "exited" THEN Fault ELSE UNCHANGED faults
          /\ res' = [res EXCEPT ![x] = stopped("quarantined", "started", "unknown", TRUE)]
    /\ UNCHANGED kernel

\* The anchor of an observer that has not ended is not closed: the jobs go first.
maySettle(x) == proc[Child(x)] \in {"none", "exited"} \/ res[x].child = "ambiguous"

finalize_invocation(x) ==
    LET i == x[1]
        guarded == Mode(x) = "worker" /\ anchor[i].open
        failedRes == stopped("quarantined", res[x].child, "unknown", TRUE)
    IN  /\ At(x, "close") /\ pc' = [pc EXCEPT ![x] = "result"]
        /\ IF ~guarded THEN /\ UNCHANGED <<anchor, faults>>
                            /\ res' = IF Mode(x) = "worker" /\ anchor[i].failed
                                      THEN [res EXCEPT ![x] = failedRes] ELSE res
           ELSE IF ~maySettle(x)
                THEN /\ anchor' = [anchor EXCEPT ![i].failed = TRUE]
                     /\ res' = [res EXCEPT ![x] = failedRes] /\ UNCHANGED faults
                ELSE \E a \in finish(anchor[i]) :
                       /\ anchor' = [anchor EXCEPT ![i] = a]
                       /\ res' = IF a.failed THEN [res EXCEPT ![x] = failedRes] ELSE res
                       /\ IF a.failed /\ ~anchor[i].failed THEN Fault ELSE UNCHANGED faults
        /\ UNCHANGED <<proc, jobs, flaw, file, output, fed, late, final, ran>>

\* The supervisor answers with the worker's evidence, which it must have to
\* say that its child started, and with the worker's outcome.
snapshot_evidence(x) ==
    LET r == res[x]
        w == res[<<x[1], "worker">>]
    IN  IF r.child # "started" THEN [terminal |-> r.terminal, child |-> r.child, evidence |-> r.child]
        ELSE IF ~promoted(x[1])
             THEN [terminal |-> "quarantined", child |-> "started", evidence |-> "ambiguous"]
             ELSE [terminal |-> IF r.terminal = "success" THEN w.terminal ELSE r.terminal,
                   child |-> "started", evidence |-> w.child]

\* The kernel is dropped, which closes the jobs and then the anchor.
drop(x) ==
    /\ proc' = Ended(x)
    /\ anchor' = IF Mode(x) = "worker" THEN [anchor EXCEPT ![x[1]].open = FALSE] ELSE anchor

\* That happens before the result is printed and the process ends.
run_and_close(x) ==
    /\ At(x, "result") /\ pc' = [pc EXCEPT ![x] = "printed"]
    /\ drop(x)
    /\ final' = IF Mode(x) = "supervisor" THEN [final EXCEPT ![x[1]] = snapshot_evidence(x)] ELSE final
    /\ UNCHANGED <<jobs, flaw, file, output, fed, res, late, ran, faults>>

-----------------------------------------------------------------------------
Reduce(x) ==
    \/ main(x) \/ Prepare(x) \/ CreateDurableLedger(x) \/ FlushAndReopen(x) \/ create_suspended(x)
    \/ assign_child(x) \/ verify(x) \/ ResumePrimaryThread(x) \/ transfer_stdin(x)
    \/ transfer_output(x) \/ PollProcess(x) \/ RecheckDeadline(x) \/ FinalReverify(x)
    \/ ReleaseHeldImageHandles(x) \/ Terminate(x) \/ WaitForStableReap(x)
    \/ finalize_invocation(x) \/ run_and_close(x)

Next ==
    \/ \E x \in Launchers : Reduce(x) \/ Expire(x) \/ Crash(x)
    \/ \E p \in Procs : Die(p)
    \/ \E i \in Inv : Launch(i) \/ Observer(i)
    \/ PowerLoss

Spec == Init /\ [][Next]_vars

-----------------------------------------------------------------------------
(* Properties.                                                             *)

States == {"none", "suspended", "running", "dying", "exited"}
\* The state is well formed, and a launcher says that its handles are released
\* exactly when it reports a success.
TypeOK ==
    /\ proc \in [Procs -> States] /\ jobs \in [Procs -> SUBSET {"outer", "inner"}]
    /\ flaw \in [Procs -> Flaws \cup {"none"}] /\ file \in [Modes -> {"absent", "created", "durable"}]
    /\ anchor \in [Inv -> [open : BOOLEAN, failed : BOOLEAN]]
    /\ res \in [Launchers -> ReducerResult] /\ late \subseteq Launchers /\ fed \subseteq Procs
    /\ ran \subseteq Inv /\ faults \in 0..MaxFaults
    /\ \A x \in Launchers : res[x].released <=> res[x].terminal = "success"

observer(i) == <<i, "observer">>
supervisor(i) == <<i, "supervisor">>

\* An observer that runs is in both jobs, has the image, the token and the
\* container it must have, and was started on surfaces that had not drifted,
\* whatever was wrong with the process the system created.
Confined ==
    \A i \in Inv : proc[observer(i)] = "running" =>
        jobs[observer(i)] = {"outer", "inner"} /\ flaw[observer(i)] = "none"

\* The handle that pins the observer's drive is open as long as it can run.
DriveStaysBound ==
    \A i \in Inv : proc[observer(i)] = "running" => anchor[i].open

\* One request runs its observer at most once, whatever is launched again,
\* together or after a crash or a loss of power.
ObserverOnce == Cardinality(ran) <= 1

\* Nothing runs on when the supervisor is gone, however it ended.
NothingLeftRunning ==
    \A i \in Inv : proc[supervisor(i)] = "exited" =>
        proc[observer(i)] # "running" /\ proc[<<i, "worker">>] # "running"

\* A printed success stands for an observer that ran and ended by itself, and
\* printed evidence that it never started is never wrong.
Truthful ==
    \A i \in Inv :
        /\ final[i].terminal = "success" => /\ i \in ran /\ output[i] \in {"canonical", "empty"}
                                           /\ final[i].evidence = "started"
        /\ final[i].evidence = "never" => i \notin ran

\* Every supervisor ends, though its worker or the observer never does.
Launched(i) == proc[supervisor(i)] = "running"
Returned(i) == proc[supervisor(i)] = "exited"

\* A launch that meets no fault and no deadline succeeds: nobody waits for
\* somebody who waits in turn.
Completed == faults > 0 \/ late # {} \/ \E i \in Inv : final[i].terminal = "success"
=============================================================================
