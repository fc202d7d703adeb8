# Neurobro: TLA+ specifications

These modules specify what is stateful and concurrent in this repository: the
personal agent (`src/packages/personal-agent`), the standing service of the
Telegram group gateway (`src/packages/telegram-gateway`) with the warm model
epoch it talks to, and the phase-3 programs (`src/packages/rm0032-phase3-runner`
and the three Rust crates).  The TypeScript is single-threaded: an action is
what the code does between two awaits, and all the difficulty is in what happens
at the awaits.  In the Rust programs an action is a call of the operating system
with what follows it up to the next one.

## The system

| Part | State it keeps | Operations | Talks to |
| --- | --- | --- | --- |
| effect broker (`core/broker.ts`) | contexts (tokens), effects, in-flight set | issue, revoke, execute, settle, recover | executor (Telegram), controller |
| task controller (`core/controller.ts`) | tasks, grants, controls, admissions, runs, child stops, observations, own outputs | ingest, admit, correct, cancel, hold, poll, recover | engine, broker, host |
| host (`host.ts`) | sources, manifests, notices, invalidation marks | ingest lock, context maintenance, lifecycle notices | controller, memory, artifacts |
| intake and loop (`ingress.ts`, `app.ts`) | queue of observations, abort, lease | side-by-side handlers, controls at once, a poll every 750 ms, stop | host, Telegram adapter |
| native schedules (`hermes/schedules.ts`, `schedule-delivery.ts`) | schedule records, executions, deliveries | create, control, withdraw, admit, complete, deliver | native cron, broker |
| outreach, owner controls (`outreach/`, `owner-controls/`) | batches, proposals, receipts, progress | propose, revise, confirm, attach, drain, revoke | broker, Telegram |
| Telegram adapter (`telegram/`) | receipts, spool, holds, queue | dispatch, reconcile, observations, replay | TDLib sidecar, intake |
| group service (`standing-service.ts`) | cursor, journal, process lock | select, journal, admit a turn, reply, reconnect, stop | model owner, outboxes |
| media and reply outboxes (`standing-artifact-*`, pilot replies) | one directory per attempt | reserve, send, read back, settle, inspect | Telegram client |
| community observer and alerts (`standing-community-*`) | rows, watermark, settings, case outbox | poll, assess, reserve a case, alert | source, model owner, Telegram |
| history reading, analysis, waves, delivery (`standing-history-*`) | control and page slots, attempt and work journals, nodes, report slot | create, cancel, read a page, analyse, project, deliver, recover | chat, model owner, reply lease |
| epoch session (`standing-epoch-*`, `rm-0032-native-epoch-session.py`) | the session's phase, frames in both directions, the driver's turn | turn, tool call, scope, answer, release, close, abort | service, guest |
| hardening controllers (`phase3-hardening-controller*.ts`) | carrier, attempt marker, request files | validate, guard, mark, run | sidecar adapter, native observer |
| sidecar and observer adapters (`rust-sidecar-adapter.ts`, `phase3-native-observer-*`) | the process-wide lease; the stop for good | invoke, terminate, quarantine | child processes |
| observer launcher, file observer, runner (Rust) | ledger record, jobs, pipes, marker, evidence | create, verify, resume, capture, terminate, reap | the operating system |

What is hard here: several actors (owner, loop, model, Telegram, children,
timers) interleave at every await; listings made before an await are used after
it; processes die, and files are torn, with a send under way; answers are lost
or come after a timeout; and nothing that acts on the outside may be done twice
or reported untruthfully.  `PROJECT.json` lists these hazards at their lines with
the properties that watch them.

## Modules

### Personal agent

* `EffectLedger` – what the broker promises: an operation belongs to a revision
  of a task, is attempted at most once and only under that revision's live
  authority, and is then reported as open, verified or failed.
* `EffectBroker` – the broker with tokens, grants, the dispatch transaction,
  settlement, recovery passes over stale listings, and crashes.  `task`,
  `grant`, `context`, `effects` and `ownOutputs` are the collections of the
  store, `inFlight`, `listing` and `reconciling` the memory of the process,
  `wire` the outside, `sends` a history variable.  The controller's operations
  appear as far as they change authority.
* `EffectBrokerProofs` – theorems about it, see below; `PersonalAgentProofs` has
  those of the controller.
* `PersonalAgent` – the controller.  `revision` .. `received` are collections
  of the store, `calls` holds a frame for each call in progress (a command, the
  loop, the maintenance): its place, the await it is in, and the values it read
  before and uses after.  `engine` and `requested` are the outside.  The
  broker's effects shrink to one per revision, open until settled.
* `NativeSchedules` – one cron job bound to a task.  `rec`, `exec`, `delivery`
  and `effect` are stored; `op` is the one serialised operation that awaits the
  native service, `pc` the completions, which are not serialised; `native` and
  `late` say what the service has and may still create.  The broker's records of
  the parts are `effect`, what became of a part outside is `wire`, and `pass` is a
  recovery pass of the broker that works through a stale listing.
* `OwnerOutreach` – a batch with its proposals and the owner's receipts.
  `confirming`, `attaching` and `draining` are the three calls that await
  Telegram; `after` counts what was sent under a receipt the owner took back;
  `effect`, `wire` and `pass` are as in `NativeSchedules`.
* `TelegramAdapter` – the adapter of the owner's account.  `receipts`, `pending`
  (in the order of the spool) and `held` are durable, `chain` is what is queued on
  the promise chain and `job` the task it runs: a task that throws leaves the chain
  rejected, and whoever chained the next one catches that (`catches`, `Skip`).
  `queue`, `feed` and `taken` are the way of an observation to the intake; a start
  replays the oldest page of the spool, the rest waits for a later one.
* `ObservationIntake` – `consumeObservations`, the polling loop and
  `startApplication`: what ends what, and when connections and lease are given
  back.  What a handler does is in `PersonalAgent`.

Correspondence worth knowing when reading `PersonalAgent`:

| Code | Model |
| --- | --- |
| `await prepareAuthority`, `await prepareInput`, `await engine.submit` in `admit` | `pc` = prepare, input, submit |
| `await engine.cancel` after a revoked submission | undo |
| `await onTaskStop` of a hold, a cancellation, a correction | held, cancel, correct |
| `await engine.cancel` in a cancellation, a correction | cancelRuns, cancelOld |
| loops of `recover` and `poll` over listings | `at` and `todo` of the loop's frame; the stages `replay` .. `deliver` |
| `queued`, `running`, `waiting` | running |
| `failed`, `interrupted`, `cancelled` | stopped |
| child stop `pending`, `unknown` | pending |
| `heldAt` with `resumeWhenSettled` | `control` = resume |

The revision a grant gets when it is revoked is not kept: a revoked grant is
never made good again.  Which task a message means and which operation it asks
for is a free choice; `Script` limits it.

### Group gateway

* `StandingService` – the service: `cursor`, `journal` and `lock` survive the
  process; `pc`, `sel`, `reply`, `verdict` and `client` are the turn it is in.
* `OneShotLedger` – what an outbox promises: a slot is claimed once, sent at most
  once under a durable mark, and its outcome is true.
* `MediaDelivery` – replies, images and files: the directory of an attempt
  (`disk`), the call that delivers it (`pc`) and the transport's own promise
  (`raw`), which outlives an aborted call.  Implements `OneShotLedger`.
* `CommunityRows` – the poll of the source, the retained rows and the watermark,
  while messages are posted and deleted.
* `CommunityAlert` – the assessment of a batch, the outbox of cases, and the
  settings the owner of the group changes beside it.  Implements `OneShotLedger`.
* `HistoryReading` – tasks, their control and page slots, the manager's calls
  and the runner's pulses; the chat changes while it is read.
* `HistoryAnalysis` – serial turns: the journal of attempts, the prepared output,
  nodes, the native owner and its epochs.
* `OrderedPublication` – what both kinds of analysis promise: one accepted output
  for each place of the report, published in order.
* `HistoryWave` – parallel turns: the work journal, lanes, projection into nodes.
  It and `HistoryAnalysis` implement the ordered publication.
* `HistoryDelivery` – the report in parts: descriptor, planned, sending and
  terminal records, cancellation, and the recovery with the original random id.
* `EpochSession` – the host's session and the guest's driver with a queue of
  frames in each direction and a clock on each side.
* `MediaDeliveryProofs`, `StandingServiceProofs`, `CommunityAlertProofs`,
  `HistoryAnalysisProofs`, `HistoryWaveProofs` – theorems about these five.

### Phase 3

* `HardeningRun` – both controllers over one carrier (`V2` tells them apart).
* `RustSidecar` – the lease, the outer deadline, the one kill request and the
  quarantine until the close of exactly that child.
* `NativeObserver` – one invocation at a time, stopped for good at the first
  result that is not certain, with launchers that outlive their call.
* `ObserverLauncher` – the reducer of supervisor and worker; `proc`, `jobs`,
  `flaw` and `file` are the system's.
* `LauncherIo` – the overlapped operations on the pipes: who owns a buffer, and
  what may complete when.
* `LedgerCreation` – the privileged creation of the durable record.
* `FileObserver` – reading and creating a file below held directories, and the
  classifier of traces the crate carries.
* `ProcessRunner` – runners of requests: mutex, marker, evidence, child in a job,
  threads of its streams.
* `Phase3Proofs` – theorems about `RustSidecar`, `LauncherIo` and `HardeningRun`.
  It extends the first and instantiates the other two; their variables are apart.

### Instances

`MCEffectBroker` and `MCPersonalAgent` are instances of one module each.
`Parts` puts the other components side by side: `part` names the component a
behaviour is of, `pick` the sizes of its instance, and the slots `x1` .. `x20`
are its variables.  The components in `Parts` share no state; where two of them
meet, each models the other's part of the protocol as free choices.  `MCGateway`
and `MCHost` check safety of them, `MCProgress` liveness.  A property there
names a promise and says, for each component that has a share in it, what the
share is; the shares are the operators defined and commented at the end of the
component's own module.

A definition no action uses, just before one it resembles, is a plausible bug of
that one ("Slip" or "Mutant" where a comment marks it); the properties are
checked to notice it.

## Runs

| Run | Instance | Shows |
| --- | --- | --- |
| `broker` | 1 task, 2 revisions, 2 grants, 2 tokens, 1 cron run, 2 scopes, 2 crashes | nothing is handed over twice or without current authority, records are true, own messages stay recognised; the broker implements `EffectLedger` |
| `agent_safety` | 1 task: create, correct, cancel | one live run; submission under authority |
| `agent_recovery` | 1 task: create, then correct or delete; maintenance, a scope change, an effect, a crash | one live run, one submission, owned reservations, a successor that starts alone |
| `agent_progress` | create and correct, one crash, fair | every command gets a result |
| `gateway` | the nine parts of the gateway, sizes in `MCGateway` | acts once, true records, order, bounded turns, nothing lost, stores that open again, alerts under the policy, quiet after a cancellation; four refinements |
| `host` | schedules, outreach, Telegram, intake and the eight phase-3 programs, sizes in `MCHost` | only approved acts, true receipts and evidence, one attempt, bounds kept, nothing left behind |
| `progress` | eighteen instances of fifteen parts, sizes in `MCProgress`, fair | calls return, begun work is finished, nobody is held up |
| `broker_finality`, `agent_cancellation`, `agent_resume`, `agent_maintenance`, `adapter_mapping` | the smallest that show it | violations, see below |

The shares of a promise are easiest to read in the order of the modules: for
instance `ActsOnce` is `AnsweredOnce` of the service, `SoleClient` of the
outboxes, `AssessedOnce` of the rows, `UpdateOnce` and `Spacing` of the alerts,
`AskedAgainOnlyByRecovery` of the delivery, `OneOutputPerNode` of the analysis
and `OneTurnPerLeaf` of the waves.

**Bounds.**  Two revisions are the least with a predecessor and a successor; two
operations the least for which a recovery pass awaits one while the other
changes; a token may be issued at any moment, so it is as old as any; one crash
may happen at every await.  `broker` and `agent_recovery` explore two halves of
their state space each (`BoundedSpec` of `MCEffectBroker`, the state constraint
`Bounded` of `MCPersonalAgent`): authority that changes at will with one
token and one effect, or two effects and two crashes under one grant; a
correction with effects and a crash, or a deletion with maintenance and changes
of scope.  In the sizes of `MCGateway` and `MCHost` each component has the least
with which its cases happen: a second message, part, leaf, row page, attempt or
recipient where order matters, queues and caps that overflow (`QueueLimit`,
`HoldLimit`, `MaxRecent`, `Cap` below what is written), retries up to
`MaxNoOutput`, and one to three faults, so that a crash may follow a failed write
and a recovery may itself be cut off.  `MaxFaults`, `MaxCrashes`,
`MaxDeletes` and `Edits` bound only how often the surroundings misbehave; `MaxEpochs`,
`MaxTurns`, `MaxChanges`, `MaxClock` only how often the same step is
repeated.
Symmetry is used for tokens, keys and grants in `broker_finality` only.

**Deadlock** is checked in `broker`, `broker_finality`, `agent_safety`,
`agent_progress` and the three other agent runs.  It is switched off where an
instance really stops: programs that end (`host`, `progress`), stores that refuse
after an uncertain write and services that are closed (`gateway`), a fault that
ends the adapter (`adapter_mapping`), and the halves of `agent_recovery`.

**Fairness.**  The code bounds its waits by timers and abort signals; that is
what `progress` assumes, and no more.  Each component has at most five duties,
each fair as a whole, so a fair duty may always take the same of its actions:

| Component | Fair | Never fair |
| --- | --- | --- |
| service | its steps: every wait has a timer or the abort signal | Telegram, the operator |
| rows, alerts | idle turns of the service, answers of Telegram | deletions, the owner's calls, faults |
| reading | the runner's store calls and reads | the manager, faults |
| analysis, waves | polls, running tool calls, the end of a turn in time, settlement of owners nobody holds | that the model commits an output, the manager, faults |
| delivery | the service, the lease, the posting of what was asked | faults, the manager |
| epoch | the session's timers, threads of the guest, the end of the epoch | that the model or a tool answers |
| Telegram adapter | answers of the sidecar, the chain, the consumer, handlers | that Telegram delivers, that the owner writes |
| intake | ends of handlers; in `busy` only of controls | arrival of ordinary messages |
| sidecar, runner | their steps and timers | that a child ends |
| launcher | its reducer, time, the end of what was terminated, an observer that does not hang | faults |
| pipes | the reducer and time | completions of the system |
| broker | recovery passes (`app.ts` starts one every 750 ms and awaits it) and the executor calls in them, bounded by `telegram/transport.ts` (30 s) | dispatches, crashes |

`FairSpec` of `PersonalAgent` (`agent_progress`) assumes that the awaits of a
call come back and that the loop goes on, or is started again after a crash;
nothing of the engine's runs, the owner or the maintenance.  `CommandsComplete`
excepts commands whose call threw: intake then stops the service and the next
start replays them.  `Completed` and the like except instances in which a fault
happened, and blocked tasks, which the code leaves to a person.

### What the modules assume of the surroundings

* `StandingService`: the operator may put a checkpoint back or remove a stale
  lock between two runs.  `MediaDelivery`: the kill switch is released only
  between two runs.
* `CommunityRows`: the byte budget of a page is a smaller row cap; the revision
  compared before a commit always matches, as one process owns the store; edits
  of messages are left out.
* `CommunityAlert`: time passes between steps; failures of the row store are in
  `CommunityRows`.
* `HistoryReading`: dates do not decrease with ids; an inexact answer may omit
  any messages; one runner; all tasks share one period.
* `HistoryAnalysis`: the pages are complete; one task; a new connection may bring
  any unused epoch, or refuse because the prior owner is not proved settled.
* `HistoryWave`: `Width` divides `Leaves` (a single leaf left over is a serial
  turn); the material was shown before a commit; both stores share one tail.
* `HistoryDelivery`: one delivery call at a time; recovery is host maintenance;
  Telegram posts at most one message for a random id; a report that is long has
  `MaxParts` parts.
* `EpochSession`: the session with one purpose; requests come in order; the two
  clocks are independent; a frame whose write failed may have been delivered.
  Images, the bound on discarded frames and frame sizes are left out.
* `NativeSchedules`: a creation that timed out may be carried out later.
* `OwnerOutreach`: a batch starts with its first proposal.  In both an operation
  handed over arrives or not, which is settled at the hand-over; what is answered
  of it is that or nothing certain (`ReceiptsAreTrue` of `TelegramAdapter`).  The
  broker's recovery visits its listing in any order.  A report read while a pass
  has put an operation back shows it as unknown until it is read again: true, but
  less than was known, as in `broker_finality`.
* `TelegramAdapter`: one peer; after a restart TDLib may report a terminal under
  the temporary id it had; frames of a dead process are lost; a crash or a full
  queue during a send leaves its hold until reconciliation.
* `HardeningRun`: any of the files may be left from before, which no controller
  looks at; a collision is `created === false` of the boundary.  An attempt that
  meets the request of a later command ends as refused although it has changed the
  guest; `RefusedIsKnown` says what a refusal does mean.
* `NativeObserver`: the launcher and the observer report the truth, which
  `ObserverLauncher` and `FileObserver` check.
* `ObserverLauncher`: a created process has at most one flaw; a verification
  before the creation fails at will; a suspended orphan never runs; a reap may
  time out at any moment.
* `LauncherIo`: a short write ends as a broken pipe.  `LedgerCreation`: any
  adjustment of a privilege and any read-back may fail.
* `FileObserver`: every write of another process changes the last-write time; a
  directory that was moved away does not come back; a CREATE_NEW that failed with
  an error created nothing.
* `ProcessRunner`: `late` stands for the deadline and the waits of five seconds.

### What the code does otherwise than it says

* `broker_finality`: a recovery pass may put `unknown` over a record that was
  verified after the pass had listed it.  The guard of `settle` is bypassed;
  `VerifiedStaysRecognised` still holds, because the registration survives.
* `agent_cancellation`: a correction that was awaiting when the owner cancelled
  deletes the cancellation, and the loop then starts the task.
* `agent_resume`: a correction made while the first admission prepares its
  input loses its resumable hold to the older admission's hold and stays held.
* `agent_maintenance`: a task held while another is refreshed is regenerated
  from its stale listed state.
* `adapter_mapping`: when a request times out after its update was read, the
  catch writes the receipt of before the request, and the id the update had put
  into it is gone.

Two more were met while modelling `FileObserver` and are not runs: the crate's
classifier of traces asks for other orders of deadline samples than
`execute_native_create` produces.  A creation of content samples the deadline
between CREATE_NEW and the write (`main.rs:2534`), which `main.rs:2059` and the
vector at `tests/observer-contract-vectors.rs:1566` do not have; and after a
collision the sample comes only after the revalidation (`main.rs:2507`), where
`main.rs:2003` and the vector at 1811 want one before.  `TraceIsSafe` checks what
follows: the classifier never makes more of a trace than happened.

## Proofs

Eight modules prove theorems, for every value of the constants.  All have the
same plan: an inductive invariant `IndInv` that was checked by TLC on small sizes
before it was proved, a lemma for every action that it is kept, and then the
properties, each from `IndInv` alone or from `IndInv` before a step and the
step.  A refinement adds a lemma for each action: a step of the abstract module
or a stutter.

| Module | Theorem | States `Spec =>` |
| --- | --- | --- |
| `EffectBrokerProofs` | `TypeCorrect` | `[]TypeOK` |
| | `DispatchedOnce` | `[]AtMostOnceDispatched` |
| | `Truthful` | `[]SettledTruthfully` |
| | `CurrentAuthority` | `DispatchUnderCurrentAuthority` |
| | `StaysRecognised` | `VerifiedStaysRecognised` |
| | `Refinement` | `ImplementsLedger` |
| `PersonalAgentProofs` | `TypesHold` | `[]TypeOK` |
| | `NeverTwoLiveRuns` | `[]OneLiveRun` |
| | `NeverSubmittedTwice` | `[]SubmittedOnce` |
| | `NoReservationIsOrphaned` | `[]ReservationsAreOwned` |
| | `RunsStartUnderAuthority` | `SubmitUnderAuthority` |
| | `SuccessorsStartAlone` | `SuccessorStartsAlone` |
| `StandingServiceProofs` | `TypesHold` | `[]TypeOK` |
| | `MessagesAreAnsweredOnce` | `[]AnsweredOnce` |
| | `OutcomesAreTrue` | `[]OutcomeIsTrue` |
| | `CursorIsAhead` | `[]CursorPrecedesTurn` |
| | `ClientsFollowOneAnother` | `[]SettledBeforeReconnect` |
| `MediaDeliveryProofs` | `TypesHold` | `[]TypeOK` |
| | `InspectionTellsTheTruth` | `[]InspectionIsTruthful` |
| | `OneSendAtATime` | `[]SoleClient` |
| | `FilesGoInOrder` | `[][NothingAfterUncertain]_vars` |
| | `ImplementsLedger` | `OneShotLedger` over `record` |
| `CommunityAlertProofs` | `TypesHold` | `[]TypeOK` |
| | `AlertsObeyThePolicy` | `[]DispatchedUnderPolicy` |
| | `NothingIsHeldWhenIdle` | `[]IdleOwnsNothing` |
| | `AlertsKeepTheirDistance` | `[]Spacing` |
| | `CallsAreAppliedOnce` | `[]UpdateOnce` |
| | `ImplementsLedger` | `OneShotLedger` over the cases |
| `HistoryAnalysisProofs` | `TypesHold` | `[]TypeOK` |
| | `NodesHaveOneOutput` | `[]OneOutputPerNode` |
| | `TurnsFollowOneAnother` | `[]PredecessorsSettled` |
| | `OutputsComeFromMaterial` | `[]PreparedFromMaterial` |
| | `TheJournalReopens` | `[]JournalReopens` |
| | `GivenUpWithoutOutput` | `[]BlockedHasNoOutput` |
| | `TurnsAreBounded` | `[]BoundedTurns` |
| | `CancellationIsTheEnd` | `[][QuietAfterCancel]_vars` |
| | `ImplementsPublication` | `OrderedPublication` over `attempts`, `nodes` |
| `HistoryWaveProofs` | `TypesHold` | `[]TypeOK` |
| | `NoTwoTurnsForALeaf` | `[]OneTurnPerLeaf` |
| | `TheSpendIsBounded` | `[]SpendBound` |
| | `NothingRunsBehindANode` | `[]QuietWhenPublished` |
| | `CancellationStops` | `[]CancelStops` |
| | `ImplementsPublication` | `OrderedPublication` over `tree` |
| `Phase3Proofs`, sidecar | `TypesHold` | `[]TypeOK` |
| | `OneChildAtATime` | `[]OneLiveChild` |
| | `LeasesComeBack` | `[]QuarantineEnds` |
| | `ResultsAreEvidence` | `[]ResultIsEvidence` |
| `Phase3Proofs`, pipes | `PendingIsAlive` | `[]NoUseAfterFree` |
| | `SuccessIsWhole` | `[]WholeOutput` |
| `Phase3Proofs`, controllers | `CarriersRunOnce` | `[]OneAttemptInOrder` |
| | `MutationsAreGuarded` | `[](MutatesUnderMarker /\ RefusedIsKnown)` |
| | `ClearRunsAreWhole` | `[]ClearIsWhole`, in version 2 `[][ClearInTime]_vars` |

Each module also states `Spec => []IndInv` (`Invariance`, `IndInvariant`; the
three of `Phase3Proofs` are `IndInvariant`, `IoInvariance`, `HardeningInvariance`,
and the last two theorems of the controllers hold of both versions).  The
theorems of the first two modules name the properties of the runs.  Those of the
others are the shares that the promises of `MCGateway` and `MCHost` conjoin; the
promise itself instantiates a module once for each size (`Wave(s) == INSTANCE
HistoryWave WITH ..`), and the prover cannot use a theorem through an instance
that has a parameter.  `SizesAreLegal` there checks that each size satisfies the
assumption of the theorems, so they hold of it.

**Assumptions.**  `EffectBroker`: the bounds are numbers (`BoundsAssumption`).
`PersonalAgent`: `ControllerAssumption`, the bounds, and that the loop, the
maintenance and the commands are different handlers, as they are different call
chains in the code.  `StandingService`: `BoundsAssumption`, a message and bounds.
`MediaDelivery`: `KindsAssumption` and `SlotsAssumption`, kinds of attempts the
module knows, a slot for a file and bounds.  `CommunityAlert`:
`AlertAssumption`, room for a case, bounds, and that silence is no case.
`HistoryAnalysis`: `AnalysisAssumption`, a node and
an attempt at least, a plan, bounds, and that no output is none.
`HistoryWave`: `WaveAssumption`, positive sizes and whole waves.  `RustSidecar`:
`GenerationAssumption`, that the last generation is a number and the absence of a
call none.  `LauncherIo`: `IoAssumption`, that the limit of the capture and the
bounds are numbers.  `HardeningRun`: `HardeningAssumption`, a guard and a command
at least, a bound on the clock, and that the files left from before (any of them) are
numbered like the commands (0 is the marker).  No theorem bounds the sets of tasks, commands, messages,
cases, calls or attempts.

**What the invariants add.**

* `EffectBroker`: a task and a context refer to grants that exist (`RefersOK`)
  and belong to the task (`GrantsOwned`), so that the token's grant is the task's
  current one; no durable record is `prepared` (`NeverPrepared`), since the
  transaction overwrites it; an operation was handed over exactly if it has a
  record (`RecordedOnce`), which is why a lookup of the record is enough to send
  once; what is in memory is of recorded operations (`MemoryOK`); a verified
  record has a receipt (`EvidenceOK`); a listed copy is of an operation that is
  recorded (`ListedOK`).
* `PersonalAgent`: `OneLiveRun` is kept only because a revision is submitted when
  everything before it is over (`Clear`), and that must already be known when
  the call prepares, two awaits earlier.  `Authority` says so of every call whose
  token still resolves: a correction, a hold or a cancellation that comes between
  takes the token away before it awaits anything.  `Reservations` says whose a
  reserved admission is, for which at most one call may be on its way to the
  engine; `RunsOK` that the store's view of a run is true, which is what the
  loop decides on after a listing; `JournalOK` that what a replay does again is
  about a task that exists.
* `StandingService`: `MessageOK` reads the files of a message as evidence (no
  admission, no turn and no send), `SelectionOK` says at each await what of that
  the turn in progress has already made true, `ClientOK` where a client may be.
  A restored checkpoint moves the cursor back, and `MessageOK` is what still
  keeps the turn from being given twice.
* `MediaDelivery`: `DiskOK`, `RawOK` and `WireOK` bound how far the directory of
  an attempt, the transport's promise and Telegram can be apart, a promise whose
  call gave up included; `OneEngaged` says that one attempt at a time has either.
  `FilesGoInOrder` needs a second invariant on top, `SlotsOK`: the file being
  sent found its predecessors settled.
* `CommunityAlert`: `MarksOK` ties the mark of a case to the settings of its
  revision, `DeliveryOK` carries the policy from the assessment through each
  await of the delivery to the send, `IntervalOK` says that a step before its
  send finds an interval without an alert, `CallsOK` that a retried call was
  written at most once, at the revision it quoted.
* `HistoryAnalysis`: the journal is a history, and most of the invariant says what
  it may look like at rest and in the middle of a turn.  `JournalOK`: an attempt
  with an output is the last one for its node, any other continues the one before
  (same node, same plan, another epoch).  `RetriesOK`: attempts of one node lie
  closely together, which bounds the turns.  `NodesOK`: the last attempt is for
  the next node unless its own output is there already, so a recovery appends
  it exactly once.  `PredecessorsOK`: every attempt but the last is closed, and
  before a successor is reserved the last one is too, three awaits earlier.
  `StepOK`, `HostOK`, `TurnOK` and `ToolOK` say what may be in progress at each
  place: a commit call may outlive the native turn, up to the cleanup that joins
  it, so an attempt whose turn has ended can still get its output.
* `HistoryWave`: `NodesOK` says that the tree ends inside the wave, at the first
  work without a node; `WorksOK` that a work's output is the accepted one and how
  its turns are counted; `RunningOK` that what runs is the current attempt of a
  leaf not yet published, under an owner that lives; `LaneOK` and `ProjectionOK`
  what the step may rely on at each place.
* `RustSidecar`: `CallOK` has the cases of a call, its lease and its child, in
  particular that a call that has returned and still holds the lease has a child
  that nobody saw close.
* `LauncherIo`: `OperationOK` says what the system may still have of an operation
  in each of its states, `PlaceOK` which operations are known to be retired when
  the reducer goes from one to the next, `ReadOK` where the bytes of a stream are:
  with the program, in its buffer or in the pipe.  A read that found the pipe
  broken means that the child is gone and the pipe empty; nothing less would make
  the success whole.
* `HardeningRun`: `HoldersOK` is the argument for one attempt.  An attempt holds
  the carrier once it has created the first request, which nobody else can do
  after it; which of the other files exist does not matter.
  `RanOK` and `AttemptOK` tie what was asked of the sidecar to the counts of the
  attempt, which are all that the code looks at, and say of a refusal that its
  counts agree and which file it met.

**What the proofs found in the models.**  In `HistoryWave` the last look at the
control slot and the append of a node were one action, so the invariant had no
late node at all, where `CancelStops` allows one: the code checks the slot
(`standing-history-analysis-step.ts:527`) and appends later
(`standing-history-analysis-store.ts:280`).  They are `admitLeaf` and
`appendLeaf` now.  In `MediaDelivery` two alternatives of the mapping `record`
overlapped and TLC had taken the first; they exclude each other now.  In
`HistoryAnalysis` the bounds on attempts and faults were not said to be numbers,
nor that there is a plan at all, and the first form of the invariant allowed a
step that had called the model before it reserved the turn: no reachable state,
but one from which a step leads out.  The assumptions on handlers, fault bounds,
the absent call and the clock of `HardeningRun` were used silently and are stated.

**Only model-checked.**  All liveness (`agent_progress`, `progress`): it needs
fairness and ENABLED, which are out of the prover's reach.  The runs that expect
a violation.  The promises of `MCGateway` and `MCHost` as conjunctions, and in
them the shares of the components without a module of proofs: `CommunityRows`,
the reading and delivery of histories, `EpochSession`, and of the
programs of `MCHost` all but the three of `Phase3Proofs`.  The invariants and
action properties of the components with a module of proofs are all proved.

## Not modelled, and the plan

Not modelled, because they keep no state a property could be about, or only
translate: encryption and the store's own implementation, parsing of messages,
wording of notices, tool schemas, HTTP and process adapters, learning notes,
fetchers, formatting, command lines and wiring.  Left out of modelled parts: the
parts of one delivery and the two controls of the resume stage in
`PersonalAgent`; source plans and monitor policies; edits, deletions and folders
in `TelegramAdapter` and edits in `CommunityRows`
(`standing-community-observer-state.ts:343`); reuse of an earlier chronicle and
period notes in the analysis; epochs with several purposes and image transfer.

Hazards without a property: the resume stage that trusts listed controls of
later tasks (`controller.ts:644`, two held tasks are beyond the bounds), a
delivery that goes on after its first unverified part (465), a crash between two
writes of one step (384), the alert budget of a monitor page
(`capabilities/jobs.ts:354`); and, not listed, follow-ups that arrive out of
their authored order (`controller.ts:295`).

In order of importance:

1. `PersonalAgent`: two tasks in the resume stage, crashes between two writes,
   several parts of one delivery, the order of follow-ups.
2. `MonitorJobs` (`capabilities/jobs.ts`): no change is lost or alerted twice
   under the page, alert and retention limits.
3. The lease (`lease.ts`) of two processes, source plans and monitor policies.
4. Proofs: `AskedAgainOnlyByRecovery` of the history delivery, then the ledger of
   the launcher (`ObserverOnce`) and the runner's `RunsOnce`.
