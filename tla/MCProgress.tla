------------------------------ MODULE MCProgress ------------------------------
(* What must come about, in the components in which something is waited for:     *)
(* the sizes of their instances for TLC, the fairness the code's scheduling      *)
(* justifies, which never makes another party act, fail or end, and what is      *)
(* promised under it.                                                            *)
EXTENDS Parts

Broker(s) == INSTANCE EffectBroker WITH
    Tasks <- s.Tasks, Grants <- s.Grants, Tokens <- s.Tokens, CronRuns <- s.CronRuns, Keys <- s.Keys,
    Scopes <- s.Scopes, MaxRevision <- s.MaxRevision, MaxGrantRevision <- s.MaxGrantRevision,
    MaxEffects <- s.MaxEffects, MaxCrashes <- s.MaxCrashes,
    task <- x1, grant <- x2, context <- x3, effects <- x4, ownOutputs <- x5, inFlight <- x6,
    listing <- x7, reconciling <- x8, wire <- x9, sends <- x10, crashes <- x11

StandingSize ==
    [N |-> 1, MaxCrashes |-> 0, MaxRestores |-> 0, MaxReconnects |-> 1]
RowsSize ==
    [N |-> 3, Service |-> {}, PageLimit |-> 2, MaxRecent |-> 1, MaxCrashes |-> 1, MaxDeletes |-> 0]
AlertSize ==
    [Batches |-> 2, Cases |-> {"k1", "k2"}, Calls |-> {"c1"}, MaxCases |-> 1, MaxFaults |-> 1]
ReadingSize ==
    [Tasks |-> {1}, MaxId |-> 2, FromDate |-> 2, ToDate |-> 2, Limit |-> 1, MaxPages |-> 2,
    ForegroundLimit |-> 1, MaxFaults |-> 0]
TasksSize ==
    [Tasks |-> {1, 2}, MaxId |-> 0, FromDate |-> 2, ToDate |-> 2, Limit |-> 1, MaxPages |-> 1,
    ForegroundLimit |-> 1, MaxFaults |-> 0]
DeliverySize ==
    [Bodies |-> {"b1", "b2"}, Long |-> {"b1"}, MaxParts |-> 3, MaxFaults |-> 1]
AnalysisSize ==
    [Nodes |-> 1, Plans |-> {"p"}, Outputs |-> {"x"}, MaxNoOutput |-> 2, MaxAttempts |-> 4,
    MaxFaults |-> 2]
WaveSize ==
    [Leaves |-> 2, Width |-> 2, MaxNoOutput |-> 2, MaxEpochs |-> 6, MaxFaults |-> 1]
EpochSize ==
    [Requests |-> 1, TurnLimit |-> 1, CallLimit |-> 1, MaxFaults |-> 0]
AdapterSize ==
    [Effects |-> {"e1"}, Owned |-> {"o1"}, HoldLimit |-> 1, QueueLimit |-> 3, MaxFaults |-> 0]
IntakeSize ==
    [Ordinary |-> {"m1", "m2", "m3"}, Controls |-> {"c1"}, Concurrency |-> 1, QueueLimit |-> 1]
BusySize ==
    [Ordinary |-> {"m1", "m2", "m3"}, Controls |-> {"c1"}, Concurrency |-> 1, QueueLimit |-> 2]
SidecarSize ==
    [Calls |-> {1, 2}, MaxGeneration |-> 2]
LauncherSize ==
    [Inv |-> {1}, MaxFaults |-> 1]
PromptSize ==
    [Inv |-> {1}, MaxFaults |-> 1]
IoSize ==
    [Cap |-> 1, MaxWrites |-> 2, MaxFaults |-> 1]
RunSize ==
    [Runners |-> {1}, Requests |-> {"q1"}, Streams |-> {"stdout", "stderr"}, Cap |-> 1,
    Output |-> 2, Faults |-> 1]
BrokerSize ==
    [Tasks |-> {"t1"}, Grants |-> {"g1"}, Tokens |-> {"k1"}, CronRuns |-> {}, Keys |-> {1, 2},
    Scopes |-> {"dm"}, MaxRevision |-> 1, MaxGrantRevision |-> 1, MaxEffects |-> 2, MaxCrashes |-> 1]

-------------------------------------------------------------------------------
Init ==
    \/ Runs("standing", 1) /\ Standing(StandingSize)!Init /\ Starts(20)
    \/ (\E m \in 1..RowsSize.N : Runs("rows", m)) /\ Rows(RowsSize)!Init /\ Starts(9)
    \/ Runs("alert", 1) /\ Alert(AlertSize)!Init /\ Starts(15)
    \/ Runs("reading", 1) /\ Reading(ReadingSize)!Init /\ Starts(10)
    \/ Runs("tasks", 1) /\ Reading(TasksSize)!Init /\ Starts(10)
    \/ Runs("delivery", 1) /\ Delivery(DeliverySize)!Init /\ Starts(11)
    \/ Runs("analysis", 1) /\ Analysis(AnalysisSize)!Init /\ Starts(14)
    \/ Runs("wave", 1) /\ Wave(WaveSize)!Init /\ Starts(15)
    \/ Runs("epoch", 1) /\ Epoch(EpochSize)!Init /\ Starts(20)
    \/ Runs("adapter", 1) /\ Adapter(AdapterSize)!Init /\ Starts(18)
    \/ Runs("intake", 1) /\ Intake(IntakeSize)!Init /\ Starts(11)
    \/ Runs("busy", 1) /\ Intake(BusySize)!Init /\ Starts(11)
    \/ Runs("sidecar", 1) /\ Sidecar(SidecarSize)!Init /\ Starts(11)
    \/ Runs("launcher", 1) /\ Launcher(LauncherSize)!Init /\ Starts(13)
    \/ Runs("prompt", 1) /\ Launcher(PromptSize)!Init /\ Starts(13)
    \/ Runs("io", 1) /\ Io(IoSize)!Init /\ Starts(15)
    \/ Runs("run", 1) /\ Run(RunSize)!Init /\ Starts(16)
    \/ Runs("broker", 1) /\ Broker(BrokerSize)!Init /\ Starts(11)

Next ==
    \/ part = "standing" /\ Standing(StandingSize)!Next /\ Steps(20)
    \/ part = "rows" /\ Rows(RowsSize)!Next /\ Steps(9)
    \/ part = "alert" /\ Alert(AlertSize)!Next /\ Steps(15)
    \/ part = "reading" /\ Reading(ReadingSize)!Next /\ Steps(10)
    \/ part = "tasks" /\ Reading(TasksSize)!Next /\ Steps(10)
    \/ part = "delivery" /\ Delivery(DeliverySize)!Next /\ Steps(11)
    \/ part = "analysis" /\ Analysis(AnalysisSize)!Next /\ Steps(14)
    \/ part = "wave" /\ Wave(WaveSize)!Next /\ Steps(15)
    \/ part = "epoch" /\ Epoch(EpochSize)!Next /\ Steps(20)
    \/ part = "adapter" /\ Adapter(AdapterSize)!Next /\ Steps(18)
    \/ part = "intake" /\ Intake(IntakeSize)!Next /\ Steps(11)
    \/ part = "busy" /\ Intake(BusySize)!Next /\ Steps(11)
    \/ part = "sidecar" /\ Sidecar(SidecarSize)!Next /\ Steps(11)
    \/ part = "launcher" /\ Launcher(LauncherSize)!Next /\ Steps(13)
    \/ part = "prompt" /\ Launcher(PromptSize)!Next /\ Steps(13)
    \/ part = "io" /\ Io(IoSize)!Next /\ Steps(15)
    \/ part = "run" /\ Run(RunSize)!Next /\ Steps(16)
    \/ part = "broker" /\ Broker(BrokerSize)!Next /\ Steps(11)

\* Every wait of the service is bounded by a timer or the abort signal.
StandingDuty(n) ==
    \/ n = 1 /\ Standing(StandingSize)!Service

\* The service gives the observer an idle turn again and again.
RowsDuty(n) ==
    \/ n = 1 /\ Rows(RowsSize)!Observer

\* The service drives the observer and Telegram answers.
AlertDuty(n) ==
    \/ n = 1 /\ Alert(AlertSize)!Observer /\ Alert(AlertSize)!fine
    \/ n = 2 /\ Alert(AlertSize)!Telegram

\* The runner's store calls and reads are bounded by timers.
ReadingDuty(s) == Reading(s)!Runner /\ Reading(s)!fine

\* The service serves ready tasks; the lease and Telegram answer.
DeliveryDuty(n) ==
    \/ n = 1 /\ Delivery(DeliverySize)!Deliver /\ Delivery(DeliverySize)!fine
    \/ n = 2 /\ Delivery(DeliverySize)!Lease /\ Delivery(DeliverySize)!fine
    \/ n = 3 /\ Delivery(DeliverySize)!Post

\* The service polls, a tool call that runs goes on, a turn ends in time, and an
\* owner that was released or lost is settled.
AnalysisDuty(n) ==
    \/ n = 1 /\ (Analysis(AnalysisSize)!Runner \/ Analysis(AnalysisSize)!NextStep \/ Analysis(AnalysisSize)!Recovery) /\ Analysis(AnalysisSize)!fine
    \/ n = 2 /\ (Analysis(AnalysisSize)!commitHeads \/ Analysis(AnalysisSize)!prepare \/ Analysis(AnalysisSize)!commitReheads \/ Analysis(AnalysisSize)!commitPrepared \/ Analysis(AnalysisSize)!commitRecord) /\ Analysis(AnalysisSize)!fine
    \/ n = 3 /\ (Analysis(AnalysisSize)!Completed \/ Analysis(AnalysisSize)!Aborted) /\ Analysis(AnalysisSize)!fine
    \/ n = 4 /\ (Analysis(AnalysisSize)!SettleOrphan \/ Analysis(AnalysisSize)!RotateEpoch)

\* Turns are bounded in time and owners nobody holds are ended.
WaveDuty(n) ==
    \/ n = 1 /\ Wave(WaveSize)!Step /\ Wave(WaveSize)!fine
    \/ n = 2 /\ (\E o \in Wave(WaveSize)!Ordinals : Wave(WaveSize)!Lane(o)) /\ Wave(WaveSize)!fine
    \/ n = 3 /\ \E e \in Wave(WaveSize)!Epochs : Wave(WaveSize)!SettleOrphan(e)

\* Every wait of the session is bounded by a timer, the two threads of the guest run
\* and the epoch runs out; nothing makes the model or a tool answer.
EpochDuty(n) ==
    \/ n = 1 /\ Epoch(EpochSize)!Join
    \/ n = 2 /\ (Epoch(EpochSize)!Receive \/ Epoch(EpochSize)!NoFrame)
    \/ n = 3 /\ (Epoch(EpochSize)!Write \/ Epoch(EpochSize)!WriteFails) /\ Epoch(EpochSize)!fine
    \/ n = 4 /\ Epoch(EpochSize)!Ending
    \/ n = 5 /\ Epoch(EpochSize)!Expire

\* The sidecar answers what it was asked, the chain and the consumer are promises of
\* a running process, and the broker handles what it is given.
AdapterDuty(n) ==
    \/ n = 1 /\ (\E e \in AdapterSize.Effects : Adapter(AdapterSize)!Invoke(e) \/ Adapter(AdapterSize)!Accept(e) \/ Adapter(AdapterSize)!Refuse(e) \/ Adapter(AdapterSize)!Answer(e))
    \/ n = 2 /\ (Adapter(AdapterSize)!Run \/ Adapter(AdapterSize)!Skip \/ Adapter(AdapterSize)!Emit \/ Adapter(AdapterSize)!Push \/ Adapter(AdapterSize)!Release)
    \/ n = 3 /\ (Adapter(AdapterSize)!StartFeed \/ Adapter(AdapterSize)!Replay \/ Adapter(AdapterSize)!ReplayEnds \/ Adapter(AdapterSize)!Consume \/ Adapter(AdapterSize)!FeedFails \/ Adapter(AdapterSize)!Restart)
    \/ n = 4 /\ \E o \in Adapter(AdapterSize)!Observations : Adapter(AdapterSize)!Handle(o) \/ Adapter(AdapterSize)!Acknowledge(o)

\* Every handler ends, and so do the steps that stop the host.
IntakeDuty(n) ==
    \/ n = 1 /\ (\E o \in Intake(IntakeSize)!Observations : Intake(IntakeSize)!Handled(o) \/ Intake(IntakeSize)!Fails(o))
    \/ n = 2 /\ (\E o \in IntakeSize.Controls : Intake(IntakeSize)!Feed(o))
    \/ n = 3 /\ (Intake(IntakeSize)!FeedEnds \/ Intake(IntakeSize)!Settle \/ Intake(IntakeSize)!Started \/ Intake(IntakeSize)!PollEnds)
    \/ n = 4 /\ (Intake(IntakeSize)!RaceEnds \/ Intake(IntakeSize)!Stopping \/ Intake(IntakeSize)!Close \/ Intake(IntakeSize)!Finish)

\* The handlers of controls end; an ordinary one may wait as long as it likes.
BusyDuty(n) ==
    \/ n = 1 /\ (\E o \in BusySize.Controls : Intake(BusySize)!Feed(o))
    \/ n = 2 /\ \E o \in BusySize.Controls : Intake(BusySize)!Handled(o) \/ Intake(BusySize)!Fails(o)

\* The adapter runs and its timers fire; nothing makes the child end.
SidecarDuty(n) ==
    \/ n = 1 /\ (\E c \in SidecarSize.Calls : Sidecar(SidecarSize)!verifyExactRegularFile(c) \/ Sidecar(SidecarSize)!allocateSidecarGeneration(c))
    \/ n = 2 /\ (\E c \in SidecarSize.Calls : Sidecar(SidecarSize)!requestTermination(c))
    \/ n = 3 /\ (\E c \in SidecarSize.Calls : Sidecar(SidecarSize)!finishTermination(c))
    \/ n = 4 /\ (\E c \in SidecarSize.Calls : Sidecar(SidecarSize)!onChildClose(c))
    \/ n = 5 /\ \E c \in SidecarSize.Calls : Sidecar(SidecarSize)!invokeRustSidecarExclusive(c)

\* A launcher takes its steps and its time passes; the system ends what it was told
\* to end, and an observer that does not hang ends.
LauncherDuty(n) ==
    \/ n = 1 /\ (\E x \in Launcher(LauncherSize)!Launchers : Launcher(LauncherSize)!Reduce(x)) /\ Launcher(LauncherSize)!fine
    \/ n = 2 /\ (\E x \in Launcher(LauncherSize)!Launchers : Launcher(LauncherSize)!Expire(x))
    \/ n = 3 /\ (\E p \in Launcher(LauncherSize)!Procs : Launcher(LauncherSize)!Die(p))
    \/ n = 4 /\ (\E i \in LauncherSize.Inv : Launcher(LauncherSize)!Observer(i)) /\ Launcher(LauncherSize)!fine

\* The same, and time need not pass.
PromptDuty(n) ==
    \/ n = 1 /\ (\E x \in Launcher(PromptSize)!Launchers : Launcher(PromptSize)!Reduce(x)) /\ Launcher(PromptSize)!fine
    \/ n = 2 /\ (\E p \in Launcher(PromptSize)!Procs : Launcher(PromptSize)!Die(p))
    \/ n = 3 /\ (\E i \in PromptSize.Inv : Launcher(PromptSize)!Observer(i)) /\ Launcher(PromptSize)!fine

\* The reducer takes the step it can take and time passes.
IoDuty(n) ==
    \/ n = 1 /\ Io(IoSize)!Reducer /\ Io(IoSize)!fine
    \/ n = 2 /\ Io(IoSize)!Tick

\* The runner, its threads and its timers are scheduled.
RunDuty(n) ==
    \/ n = 1 /\ (\E r \in RunSize.Runners : Run(RunSize)!Runner(r)) /\ Run(RunSize)!fine
    \/ n = 2 /\ (\E r \in RunSize.Runners : Run(RunSize)!stdin_thread(r))
    \/ n = 3 /\ (\E r \in RunSize.Runners : Run(RunSize)!Expire(r))
    \/ n = 4 /\ \E r \in RunSize.Runners, t \in RunSize.Streams : Run(RunSize)!spawn_capture(r, t)

\* The polling loop starts a pass every 750 ms and awaits it; each executor call
\* returns, because the transport bounds every request.
BrokerDuty(n) ==
    \/ n = 1 /\ Broker(BrokerSize)!Recovery

\* The n-th duty of the component that runs.
Duty(n) ==
    \/ part = "standing" /\ StandingDuty(n) /\ Steps(20)
    \/ part = "rows" /\ RowsDuty(n) /\ Steps(9)
    \/ part = "alert" /\ AlertDuty(n) /\ Steps(15)
    \/ part = "reading" /\ n = 1 /\ ReadingDuty(ReadingSize) /\ Steps(10)
    \/ part = "tasks" /\ n = 1 /\ ReadingDuty(TasksSize) /\ Steps(10)
    \/ part = "delivery" /\ DeliveryDuty(n) /\ Steps(11)
    \/ part = "analysis" /\ AnalysisDuty(n) /\ Steps(14)
    \/ part = "wave" /\ WaveDuty(n) /\ Steps(15)
    \/ part = "epoch" /\ EpochDuty(n) /\ Steps(20)
    \/ part = "adapter" /\ AdapterDuty(n) /\ Steps(18)
    \/ part = "intake" /\ IntakeDuty(n) /\ Steps(11)
    \/ part = "busy" /\ BusyDuty(n) /\ Steps(11)
    \/ part = "sidecar" /\ SidecarDuty(n) /\ Steps(11)
    \/ part = "launcher" /\ LauncherDuty(n) /\ Steps(13)
    \/ part = "prompt" /\ PromptDuty(n) /\ Steps(13)
    \/ part = "io" /\ IoDuty(n) /\ Steps(15)
    \/ part = "run" /\ RunDuty(n) /\ Steps(16)
    \/ part = "broker" /\ BrokerDuty(n) /\ Steps(11)

Duties == 1..5

Spec == Init /\ [][Next]_vars /\ \A n \in Duties : WF_vars(Duty(n))

-------------------------------------------------------------------------------
(* Properties.                                                               *)

\* Whoever is called or told to stop comes back: a call of the sidecar, a launcher and
\* a runner whose child never ends, the pipes though nothing completes, the close of
\* an epoch, the gateway's service and the host though requests are unanswered.
Called ==
    \/ part = "sidecar" /\ Sidecar(SidecarSize)!CallAdmitted(1)
    \/ part = "launcher" /\ Launcher(LauncherSize)!Launched(1)
    \/ part = "run" /\ Run(RunSize)!Started(1)
    \/ part = "io"
    \/ part = "epoch" /\ Epoch(EpochSize)!CloseAsked
    \/ part = "standing" /\ Standing(StandingSize)!StopAsked
    \/ part = "intake" /\ Intake(IntakeSize)!StopDue
Returned ==
    \/ part = "sidecar" /\ Sidecar(SidecarSize)!CallReturned(1)
    \/ part = "launcher" /\ Launcher(LauncherSize)!Returned(1)
    \/ part = "run" /\ Run(RunSize)!Returned(1)
    \/ part = "io" /\ Io(IoSize)!IoEnded
    \/ part = "epoch" /\ Epoch(EpochSize)!CloseEnded
    \/ part = "standing" /\ Standing(StandingSize)!StopComplete
    \/ part = "intake" /\ Intake(IntakeSize)!Stopped
CallsReturn == Called ~> Returned

\* Work that was begun is finished: rows above the watermark, the pages of a task
\* however many others there are, an analysis, waves, a report, batches of alerts, an
\* epoch in the guest, and an effect whose dispatch a crash cut off (broker.ts:228).
Begun ==
    \/ part = "rows" /\ Rows(RowsSize)!Waiting(pick)
    \/ part = "reading" /\ Reading(ReadingSize)!Readable(1)
    \/ part = "tasks" /\ Reading(TasksSize)!Readable(1)
    \/ part \in {"delivery", "analysis", "alert", "wave", "epoch"}
    \/ part = "broker" /\ \E o \in Broker(BrokerSize)!Operations : o.key = 1 /\ Broker(BrokerSize)!Orphan(o)
Finished ==
    \/ part = "rows" /\ Rows(RowsSize)!CaughtUp(pick)
    \/ part = "reading" /\ Reading(ReadingSize)!ReadToEnd(1)
    \/ part = "tasks" /\ Reading(TasksSize)!ReadToEnd(1)
    \/ part = "analysis" /\ Analysis(AnalysisSize)!AnalysisEnded
    \/ part = "delivery" /\ Delivery(DeliverySize)!Delivered
    \/ part = "alert" /\ Alert(AlertSize)!BatchesEnded
    \/ part = "wave" /\ Wave(WaveSize)!WavesEnded
    \/ part = "epoch" /\ Epoch(EpochSize)!GuestEnded
    \/ part = "broker" /\ \A o \in Broker(BrokerSize)!Operations : o.key = 1 => Broker(BrokerSize)!Reconciled(o)
WorkIsFinished == Begun ~> Finished

\* Nobody is held up by others: the owner is heard although the agent's own sends are
\* looked for first, a control passes all waiting messages, the sidecar's lease is free
\* once its child has ended, and a launch without a fault or a deadline succeeds.
Waits ==
    \/ part = "adapter" /\ Adapter(AdapterSize)!OwnerWrote("o1")
    \/ part = "busy" /\ Intake(BusySize)!ControlGiven("c1")
    \/ part = "sidecar" /\ Sidecar(SidecarSize)!LeaseDue(1)
    \/ part = "prompt" /\ Launcher(PromptSize)!Launched(1)
Served ==
    \/ part = "adapter" /\ Adapter(AdapterSize)!OwnerHeard("o1")
    \/ part = "busy" /\ Intake(BusySize)!ControlPassed("c1")
    \/ part = "sidecar" /\ Sidecar(SidecarSize)!LeaseFree(1)
    \/ part = "prompt" /\ Launcher(PromptSize)!Completed
NobodyIsHeldUp == Waits ~> Served
===============================================================================
