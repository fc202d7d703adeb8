------------------------------- MODULE MCHost -------------------------------
(* The components around the host and the programs of the phase-3 runner: the    *)
(* sizes of their instances for TLC and the properties checked of them, by promise *)
(* as in MCGateway.                                                               *)
EXTENDS Parts

(* A result of two parts; a crash.                                               *)
SchedulesSizes == {
    [Executions |-> {"e1"}, Parts |-> 2, MaxCrashes |-> 0],
    [Executions |-> {"e1"}, Parts |-> 1, MaxCrashes |-> 1]}

(* Two recipients; an attachment and a crash; two approvals of a revised batch,   *)
(* with and without an attachment.                                               *)
OutreachSizes == {
    [Recipients |-> {"r1", "r2"}, Attached |-> {}, Proposals |-> 1, MaxRevisions |-> 1,
     MaxChanges |-> 1, MaxCrashes |-> 0],
    [Recipients |-> {"r1"}, Attached |-> {"r1"}, Proposals |-> 1, MaxRevisions |-> 1,
     MaxChanges |-> 2, MaxCrashes |-> 1],
    [Recipients |-> {"r1"}, Attached |-> {"r1"}, Proposals |-> 1, MaxRevisions |-> 2,
     MaxChanges |-> 2, MaxCrashes |-> 0],
    [Recipients |-> {"r1"}, Attached |-> {}, Proposals |-> 2, MaxRevisions |-> 2,
     MaxChanges |-> 0, MaxCrashes |-> 0]}

(* A send beside a message of the owner, with a hold and a queue of one.         *)
AdapterSizes == {
    [Effects |-> {"e1"}, Owned |-> {"o1"}, HoldLimit |-> 1, QueueLimit |-> 1, MaxFaults |-> 1]}

(* Four messages and a control for two handlers and a queue of two.              *)
IntakeSizes == {
    [Ordinary |-> {"m1", "m2", "m3", "m4"}, Controls |-> {"c1"}, Concurrency |-> 2, QueueLimit |-> 2]}

(* Both versions: two attempts on one carrier, a guard and two guest commands, or   *)
(* two guards and one, any of whose files may be left from before; in version 2    *)
(* time runs beyond the deadline, version 1 looks only at a clock that may fail.   *)
HardeningSizes == {
    [Attempts |-> {"a1", "a2"}, Guards |-> 1, Mutators |-> 2, V2 |-> FALSE, Stale |-> 0..3,
     MaxClock |-> 1],
    [Attempts |-> {"a1", "a2"}, Guards |-> 2, Mutators |-> 1, V2 |-> FALSE, Stale |-> 0..3,
     MaxClock |-> 1],
    [Attempts |-> {"a1", "a2"}, Guards |-> 1, Mutators |-> 2, V2 |-> TRUE, Stale |-> 0..3,
     MaxClock |-> 4]}

(* Two calls; three, with a generation for one.                                  *)
SidecarSizes == {
    [Calls |-> {"c1", "c2"}, MaxGeneration |-> 2], [Calls |-> {"c1", "c2", "c3"}, MaxGeneration |-> 1]}

(* A read and two creations.                                                     *)
ObserverSizes == {[Reads |-> {"r1"}, Creates |-> {"w1", "w2"}]}

(* One launch with two faults; two launches of one request.                      *)
LauncherSizes == {[Inv |-> {"a"}, MaxFaults |-> 2], [Inv |-> {"a", "b"}, MaxFaults |-> 0]}

(* A child that writes twice what is accepted.                                   *)
IoSizes == {[Cap |-> 1, MaxWrites |-> 2, MaxFaults |-> 2]}

(* A read of a file of one to three chunks and a creation of nothing or of two,  *)
(* beside two edits of others.                                                   *)
FileSizes == {
    [Operations |-> {"read-bound-file"}, Contents |-> {0}, Files |-> {1, 2, 3}, Cap |-> 2, Edits |-> 2],
    [Operations |-> {"create-new-durable-file"}, Contents |-> {0, 2}, Files |-> {2}, Cap |-> 2,
     Edits |-> 2]}

(* Two streams, one over the cap; two runners of requests that may be the same.  *)
RunSizes == {
    [Runners |-> {"r1"}, Requests |-> {"q1"}, Streams |-> {"stdout", "stderr"}, Cap |-> 1,
     Output |-> 2, Faults |-> 2],
    [Runners |-> {"r1", "r2"}, Requests |-> {"q1", "q2"}, Streams |-> {"stdout"}, Cap |-> 1,
     Output |-> 1, Faults |-> 0]}

ASSUME SizesAreLegal ==
    /\ \A s \in SchedulesSizes : Schedules(s)!PartsAssumption
    /\ \A s \in OutreachSizes : Outreach(s)!AttachedAssumption
    /\ \A s \in AdapterSizes : Adapter(s)!AdapterAssumption
    /\ \A s \in IntakeSizes : Intake(s)!IntakeAssumption
    /\ \A s \in HardeningSizes : Hardening(s)!HardeningAssumption
    /\ \A s \in SidecarSizes : Sidecar(s)!GenerationAssumption
    /\ \A s \in ObserverSizes : Observer(s)!RequestsAssumption
    /\ \A s \in LauncherSizes : Launcher(s)!LauncherAssumption
    /\ \A s \in IoSizes : Io(s)!IoAssumption
    /\ \A s \in FileSizes : File(s)!CapAssumption
    /\ \A s \in RunSizes : Run(s)!BoundsAssumption

------------------------------------------------------------------------------
Init == \/ \E s \in SchedulesSizes : Runs("schedules", s) /\ Schedules(s)!Init /\ Starts(16)
        \/ \E s \in OutreachSizes : Runs("outreach", s) /\ Outreach(s)!Init /\ Starts(16)
        \/ \E s \in AdapterSizes : Runs("adapter", s) /\ Adapter(s)!Init /\ Starts(18)
        \/ \E s \in IntakeSizes : Runs("intake", s) /\ Intake(s)!Init /\ Starts(11)
        \/ \E s \in HardeningSizes : Runs("hardening", s) /\ Hardening(s)!Init /\ Starts(11)
        \/ \E s \in SidecarSizes : Runs("sidecar", s) /\ Sidecar(s)!Init /\ Starts(11)
        \/ \E s \in ObserverSizes : Runs("observer", s) /\ Observer(s)!Init /\ Starts(8)
        \/ \E s \in LauncherSizes : Runs("launcher", s) /\ Launcher(s)!Init /\ Starts(13)
        \/ \E s \in IoSizes : Runs("io", s) /\ Io(s)!Init /\ Starts(15)
        \/ Runs("ledger", 0) /\ Ledger!Init /\ Starts(7)
        \/ \E s \in FileSizes : Runs("file", s) /\ File(s)!Init /\ Starts(17)
        \/ \E s \in RunSizes : Runs("run", s) /\ Run(s)!Init /\ Starts(16)

Next == \/ \E s \in SchedulesSizes : Runs("schedules", s) /\ Schedules(s)!Next /\ Steps(16)
        \/ \E s \in OutreachSizes : Runs("outreach", s) /\ Outreach(s)!Next /\ Steps(16)
        \/ \E s \in AdapterSizes : Runs("adapter", s) /\ Adapter(s)!Next /\ Steps(18)
        \/ \E s \in IntakeSizes : Runs("intake", s) /\ Intake(s)!Next /\ Steps(11)
        \/ \E s \in HardeningSizes : Runs("hardening", s) /\ Hardening(s)!Next /\ Steps(11)
        \/ \E s \in SidecarSizes : Runs("sidecar", s) /\ Sidecar(s)!Next /\ Steps(11)
        \/ \E s \in ObserverSizes : Runs("observer", s) /\ Observer(s)!Next /\ Steps(8)
        \/ \E s \in LauncherSizes : Runs("launcher", s) /\ Launcher(s)!Next /\ Steps(13)
        \/ \E s \in IoSizes : Runs("io", s) /\ Io(s)!Next /\ Steps(15)
        \/ Runs("ledger", 0) /\ Ledger!Next /\ Steps(7)
        \/ \E s \in FileSizes : Runs("file", s) /\ File(s)!Next /\ Steps(17)
        \/ \E s \in RunSizes : Runs("run", s) /\ Run(s)!Next /\ Steps(16)

Spec == Init /\ [][Next]_vars

------------------------------------------------------------------------------
(* Properties.                                                              *)

\* The records of every component are well formed.
HostTypes ==
    /\ \A s \in SchedulesSizes : Runs("schedules", s) => Schedules(s)!TypeOK
    /\ \A s \in OutreachSizes : Runs("outreach", s) => Outreach(s)!TypeOK
    /\ \A s \in AdapterSizes : Runs("adapter", s) => Adapter(s)!TypeOK
    /\ \A s \in IntakeSizes : Runs("intake", s) => Intake(s)!TypeOK
    /\ \A s \in HardeningSizes : Runs("hardening", s) => Hardening(s)!TypeOK
    /\ \A s \in SidecarSizes : Runs("sidecar", s) => Sidecar(s)!TypeOK
    /\ \A s \in ObserverSizes : Runs("observer", s) => Observer(s)!TypeOK
    /\ \A s \in LauncherSizes : Runs("launcher", s) => Launcher(s)!TypeOK
    /\ \A s \in IoSizes : Runs("io", s) => Io(s)!TypeOK
    /\ Runs("ledger", 0) => Ledger!TypeOK
    /\ \A s \in FileSizes : Runs("file", s) => File(s)!TypeOK
    /\ \A s \in RunSizes : Runs("run", s) => Run(s)!TypeOK

\* Only what was approved acts: a live token belongs to an active schedule and a
\* callback runs once; a recipient gets what the owner selected for that revision
\* and, after a withdrawal, at most the operation whose check was under way.
OnlyApprovedActs ==
    /\ \A s \in SchedulesSizes :
           Runs("schedules", s) => Schedules(s)!LiveNeedsActive /\ Schedules(s)!CallbackOnce
    /\ \A s \in OutreachSizes :
           Runs("outreach", s) => Outreach(s)!OnlyApprovedIsSent /\ Outreach(s)!AtMostOneAfterWithdrawal

\* What the host reports is so, while the broker's recovery puts its records back:
\* of the delivery of a result, of the operations of a batch, of a send; and nothing
\* the agent sent is taken for its owner's word.
ReceiptsAreTrue ==
    /\ \A s \in SchedulesSizes : Runs("schedules", s) => Schedules(s)!DeliveryIsTruthful
    /\ \A s \in OutreachSizes : Runs("outreach", s) => Outreach(s)!ReportIsTruthful
    /\ \A s \in AdapterSizes :
           Runs("adapter", s) => Adapter(s)!ReceiptsAreTrue /\ Adapter(s)!NeverSpeaksAsOwner

\* What arrives is served: a message that reached the intake is durable or was
\* handled, a waiting observation has all handlers busy, and connections and the
\* profile are given up only when no handler is left.
ArrivalsAreKept ==
    /\ \A s \in AdapterSizes : Runs("adapter", s) => Adapter(s)!ArrivedIsKept
    /\ \A s \in IntakeSizes : Runs("intake", s) =>
           Intake(s)!WaitsForRoom /\ Intake(s)!ClosedWhenQuiet /\ Intake(s)!FreedWhenClosed

\* A withdrawal holds: while a schedule is paused or cancelled, or about to be, no
\* part of a result leaves, and one the host withdrew never acts again
\* (schedules.ts), although deliveries and creations were under way.
WithdrawalHolds ==
    [][\A s \in SchedulesSizes : Runs("schedules", s) =>
           Schedules(s)!NothingSentWhileWithheld /\ Schedules(s)!WithdrawalIsFinal]_vars

\* In every step of the host what was attempted keeps its outcome, an effect is
\* handed to Telegram once, and a durable observation stays so until it is handled.
AttemptsAreKept ==
    [][ /\ \A s \in OutreachSizes : Runs("outreach", s) => Outreach(s)!AttemptsAreKept
        /\ \A s \in AdapterSizes :
               Runs("adapter", s) => Adapter(s)!SentOnce /\ Adapter(s)!KeptUntilHandled ]_vars

\* A carrier, a request and a child have one attempt: commands run once, in order
\* and under one attempt, an observer and a runner's child once per request, one
\* sidecar and one child at a time, and a lease in quarantine comes back.
OneAttempt ==
    /\ \A s \in HardeningSizes : Runs("hardening", s) => Hardening(s)!OneAttemptInOrder
    /\ \A s \in SidecarSizes : Runs("sidecar", s) => Sidecar(s)!OneLiveChild /\ Sidecar(s)!QuarantineEnds
    /\ \A s \in ObserverSizes : Runs("observer", s) => Observer(s)!NoLauncherAfterDoubt
    /\ \A s \in LauncherSizes : Runs("launcher", s) => Launcher(s)!ObserverOnce
    /\ \A s \in RunSizes : Runs("run", s) => Run(s)!RunsOnce /\ Run(s)!OneAtATime

\* Nothing acts outside its bounds: a controller changes the guest only after the
\* guards and under the marker and calls itself refused only when nothing it did
\* is in doubt, and an observer runs only confined, on a drive that is held.
ActsWithinBounds ==
    /\ \A s \in HardeningSizes : Runs("hardening", s) =>
           Hardening(s)!MutatesUnderMarker /\ Hardening(s)!RefusedIsKnown
    /\ \A s \in LauncherSizes : Runs("launcher", s) => Launcher(s)!Confined /\ Launcher(s)!DriveStaysBound

\* What the phase-3 programs say of an effect is so: a clear run ran the whole
\* carrier, a result is the child's own whole evidence, a success stands for the
\* whole output, and what is called not created, not started or refused is not
\* there, whatever outlived its call or was lost with the power.
EvidenceIsTrue ==
    /\ \A s \in HardeningSizes : Runs("hardening", s) => Hardening(s)!ClearIsWhole
    /\ \A s \in SidecarSizes : Runs("sidecar", s) => Sidecar(s)!ResultIsEvidence
    /\ \A s \in ObserverSizes : Runs("observer", s) => Observer(s)!EffectIsTruthful
    /\ \A s \in LauncherSizes : Runs("launcher", s) => Launcher(s)!Truthful
    /\ \A s \in IoSizes : Runs("io", s) => Io(s)!WholeOutput
    /\ Runs("ledger", 0) => Ledger!RefusalIsClean
    /\ \A s \in FileSizes : Runs("file", s) =>
           File(s)!EffectIsTruthful /\ File(s)!ReadIsSnapshot /\ File(s)!TraceIsSafe
    /\ \A s \in RunSizes : Runs("run", s) => Run(s)!EvidenceIsTrue /\ Run(s)!AckedIsDurable

\* Nothing is left behind: no process runs on after the one that answers for it,
\* no memory or handle is released under an operation that is pending, handles go
\* in the reverse of their order, and a privilege is given back.
NothingIsLeft ==
    /\ \A s \in LauncherSizes : Runs("launcher", s) => Launcher(s)!NothingLeftRunning
    /\ \A s \in IoSizes : Runs("io", s) => Io(s)!NoUseAfterFree
    /\ Runs("ledger", 0) => Ledger!PrivilegeGoesBack
    /\ \A s \in FileSizes : Runs("file", s) => File(s)!ReleasedInOrder
    /\ \A s \in RunSizes : Runs("run", s) => Run(s)!NoChildOutlives

\* A step that concludes has the right to: a version-2 run becomes clear within its
\* deadline, a known result was obtained undisturbed and nothing new is launched
\* after a stop, and a creation is concluded over the very file, whole.
ConcludesInTime ==
    [][ /\ \A s \in HardeningSizes : Runs("hardening", s) /\ s.V2 => Hardening(s)!ClearInTime
        /\ \A s \in ObserverSizes :
               Runs("observer", s) => Observer(s)!StopIsFinal /\ Observer(s)!KnownIsUndisturbed
        /\ \A s \in FileSizes : Runs("file", s) => File(s)!CreationIsWhole ]_vars
==============================================================================
