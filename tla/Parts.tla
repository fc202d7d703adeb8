-------------------------------- MODULE Parts --------------------------------
(* Components that share no state, side by side.  A behaviour is one of a single *)
(* component: part names it, pick holds what was picked for it, the sizes of its *)
(* instance or the item to watch, and neither changes.  x1, x2, ... are the      *)
(* component's variables in the order in which its module lists them in vars; a  *)
(* component with fewer leaves the others at 0.  What is checked of the whole is *)
(* checked of each component's own instance, all of them in one state space.     *)
EXTENDS Naturals, Sequences, FiniteSets

CONSTANT None   \* no message, task, recipient or call

VARIABLES part, pick,
          x1, x2, x3, x4, x5, x6, x7, x8, x9, x10,
          x11, x12, x13, x14, x15, x16, x17, x18, x19, x20

vars == <<part, pick, x1, x2, x3, x4, x5, x6, x7, x8, x9, x10,
          x11, x12, x13, x14, x15, x16, x17, x18, x19, x20>>

\* The component runs, with s picked for it.
Runs(name, s) == part = name /\ pick = s

\* A component of n variables starts, takes a step.
Starts(n) == /\ (n < 8 => x8 = 0)
             /\ (n < 9 => x9 = 0)
             /\ (n < 10 => x10 = 0)
             /\ (n < 11 => x11 = 0)
             /\ (n < 12 => x12 = 0)
             /\ (n < 13 => x13 = 0)
             /\ (n < 14 => x14 = 0)
             /\ (n < 15 => x15 = 0)
             /\ (n < 16 => x16 = 0)
             /\ (n < 17 => x17 = 0)
             /\ (n < 18 => x18 = 0)
             /\ (n < 19 => x19 = 0)
             /\ (n < 20 => x20 = 0)

Steps(n) == /\ UNCHANGED <<part, pick>>
            /\ (n < 8 => UNCHANGED x8)
            /\ (n < 9 => UNCHANGED x9)
            /\ (n < 10 => UNCHANGED x10)
            /\ (n < 11 => UNCHANGED x11)
            /\ (n < 12 => UNCHANGED x12)
            /\ (n < 13 => UNCHANGED x13)
            /\ (n < 14 => UNCHANGED x14)
            /\ (n < 15 => UNCHANGED x15)
            /\ (n < 16 => UNCHANGED x16)
            /\ (n < 17 => UNCHANGED x17)
            /\ (n < 18 => UNCHANGED x18)
            /\ (n < 19 => UNCHANGED x19)
            /\ (n < 20 => UNCHANGED x20)

------------------------------------------------------------------------------
(* The gateway.                                                             *)

Standing(s) == INSTANCE StandingService WITH
    N <- s.N, MaxCrashes <- s.MaxCrashes, MaxRestores <- s.MaxRestores,
    MaxReconnects <- s.MaxReconnects,
    cursor <- x1, journal <- x2, lock <- x3, pc <- x4, sel <- x5, fresh <- x6, tries <- x7,
    reply <- x8, verdict <- x9, claims <- x10, client <- x11, reconnect <- x12,
    blocked <- x13, failures <- x14, stopping <- x15, turns <- x16, sends <- x17,
    wire <- x18, crashes <- x19, restores <- x20

Media(s) == INSTANCE MediaDelivery WITH
    Messages <- s.Messages, Kinds <- s.Kinds, FileSlots <- s.FileSlots,
    MaxCrashes <- s.MaxCrashes, MaxTurns <- s.MaxTurns, NoMessage <- None,
    disk <- x1, pc <- x2, intent <- x3, raw <- x4, wire <- x5, turn <- x6, aborted <- x7,
    killed <- x8, active <- x9, blocked <- x10, crashes <- x11, turns <- x12

Rows(s) == INSTANCE CommunityRows WITH
    N <- s.N, Service <- s.Service, PageLimit <- s.PageLimit, MaxRecent <- s.MaxRecent,
    MaxCrashes <- s.MaxCrashes, MaxDeletes <- s.MaxDeletes,
    top <- x1, gone <- x2, disk <- x3, pc <- x4, page <- x5, seen <- x6, done <- x7,
    assessed <- x8, crashes <- x9

Alert(s) == INSTANCE CommunityAlert WITH
    Batches <- s.Batches, Cases <- s.Cases, Calls <- s.Calls, MaxCases <- s.MaxCases,
    MaxFaults <- s.MaxFaults,
    settings <- x1, calls <- x2, notify <- x3, through <- x4, reserved <- x5, obs <- x6,
    owner <- x7, lease <- x8, ledger <- x9, wire <- x10, fresh <- x11, broken <- x12,
    marked <- x13, applied <- x14, faults <- x15

Reading(s) == INSTANCE HistoryReading WITH
    Tasks <- s.Tasks, MaxId <- s.MaxId, FromDate <- s.FromDate, ToDate <- s.ToDate,
    Limit <- s.Limit, MaxPages <- s.MaxPages, ForegroundLimit <- s.ForegroundLimit,
    MaxFaults <- s.MaxFaults, NoTask <- None,
    chat <- x1, control <- x2, pages <- x3, run <- x4, mgr <- x5, scan <- x6,
    foreground <- x7, answered <- x8, last <- x9, faults <- x10

Delivery(s) == INSTANCE HistoryDelivery WITH
    Bodies <- s.Bodies, Long <- s.Long, MaxParts <- s.MaxParts, MaxFaults <- s.MaxFaults,
    control <- x1, head <- x2, disposed <- x3, slot <- x4, parts <- x5, svc <- x6,
    call <- x7, asked <- x8, posted <- x9, mgr <- x10, faults <- x11

Analysis(s) == INSTANCE HistoryAnalysis WITH
    Nodes <- s.Nodes, Plans <- s.Plans, Outputs <- s.Outputs, MaxNoOutput <- s.MaxNoOutput,
    MaxAttempts <- s.MaxAttempts, MaxFaults <- s.MaxFaults,
    control <- x1, nodes <- x2, attempts <- x3, torn <- x4, disposition <- x5, st <- x6,
    tool <- x7, turn <- x8, host <- x9, settled <- x10, mgr <- x11, seen <- x12,
    turns <- x13, faults <- x14

Wave(s) == INSTANCE HistoryWave WITH
    Leaves <- s.Leaves, Width <- s.Width, MaxNoOutput <- s.MaxNoOutput,
    MaxEpochs <- s.MaxEpochs, MaxFaults <- s.MaxFaults,
    tree <- x1, works <- x2, nodeCount <- x3, tail <- x4, control <- x5, step <- x6,
    lane <- x7, fresh <- x8, released <- x9, owner <- x10, running <- x11, accepted <- x12,
    late <- x13, turns <- x14, faults <- x15

Epoch(s) == INSTANCE EpochSession WITH
    Requests <- s.Requests, TurnLimit <- s.TurnLimit, CallLimit <- s.CallLimit,
    MaxFaults <- s.MaxFaults,
    phase <- x1, poisoned <- x2, closing <- x3, closeSent <- x4, closed <- x5, op <- x6,
    turns <- x7, calls <- x8, scope <- x9, closer <- x10, chain <- x11, held <- x12,
    outcome <- x13, wire <- x14, toGuest <- x15, toHost <- x16, guest <- x17, late <- x18,
    left <- x19, faults <- x20

------------------------------------------------------------------------------
(* The host.                                                                *)

Schedules(s) == INSTANCE NativeSchedules WITH
    Executions <- s.Executions, Parts <- s.Parts, MaxCrashes <- s.MaxCrashes,
    rec <- x1, exec <- x2, delivery <- x3, effect <- x4, op <- x5, pc <- x6, arg <- x7,
    part <- x8, scope <- x9, native <- x10, late <- x11, calls <- x12, restoring <- x13,
    crashes <- x14, wire <- x15, pass <- x16

Outreach(s) == INSTANCE OwnerOutreach WITH
    Recipients <- s.Recipients, Attached <- s.Attached, Proposals <- s.Proposals,
    MaxRevisions <- s.MaxRevisions, MaxChanges <- s.MaxChanges, MaxCrashes <- s.MaxCrashes,
    NoRecipient <- None,
    batch <- x1, prog <- x2, effect <- x3, proposal <- x4, receipt <- x5, message <- x6,
    source <- x7, flow <- x8, confirming <- x9, attaching <- x10, draining <- x11,
    scope <- x12, after <- x13, crashes <- x14, wire <- x15, pass <- x16

Adapter(s) == INSTANCE TelegramAdapter WITH
    Effects <- s.Effects, Owned <- s.Owned, HoldLimit <- s.HoldLimit,
    QueueLimit <- s.QueueLimit, MaxFaults <- s.MaxFaults,
    receipts <- x1, pending <- x2, held <- x3, call <- x4, native <- x5, written <- x6,
    chain <- x7, job <- x8, unmatched <- x9, queue <- x10, feed <- x11, replayed <- x12,
    taken <- x13, fault <- x14, broken <- x15, heard <- x16, arrived <- x17, faults <- x18

Intake(s) == INSTANCE ObservationIntake WITH
    Ordinary <- s.Ordinary, Controls <- s.Controls, Concurrency <- s.Concurrency,
    QueueLimit <- s.QueueLimit,
    unfed <- x1, waiting <- x2, active <- x3, handled <- x4, failure <- x5, intake <- x6,
    polling <- x7, aborted <- x8, app <- x9, closed <- x10, lease <- x11

------------------------------------------------------------------------------
(* The phase-3 runner.                                                      *)

Hardening(s) == INSTANCE HardeningRun WITH
    Attempts <- s.Attempts, Guards <- s.Guards, Mutators <- s.Mutators, V2 <- s.V2,
    Stale <- s.Stale, MaxClock <- s.MaxClock,
    carrier <- x1, files <- x2, ran <- x3, clock <- x4, pc <- x5, ord <- x6, acc <- x7,
    rust <- x8, marked <- x9, started <- x10, outcome <- x11

Sidecar(s) == INSTANCE RustSidecar WITH
    Calls <- s.Calls, MaxGeneration <- s.MaxGeneration, NoCall <- None,
    active <- x1, lastGen <- x2, lease <- x3, pc <- x4, trigger <- x5, kills <- x6,
    child <- x7, closeSeen <- x8, cause <- x9, evidence <- x10, ack <- x11

Observer(s) == INSTANCE NativeObserver WITH
    Reads <- s.Reads, Creates <- s.Creates,
    stopped <- x1, inFlight <- x2, pc <- x3, late <- x4, evidence <- x5, result <- x6,
    launcher <- x7, file <- x8

Launcher(s) == INSTANCE ObserverLauncher WITH
    Inv <- s.Inv, MaxFaults <- s.MaxFaults,
    pc <- x1, proc <- x2, jobs <- x3, flaw <- x4, file <- x5, anchor <- x6, output <- x7,
    fed <- x8, res <- x9, late <- x10, final <- x11, ran <- x12, faults <- x13

Io(s) == INSTANCE LauncherIo WITH
    Cap <- s.Cap, MaxWrites <- s.MaxWrites, MaxFaults <- s.MaxFaults,
    pc <- x1, op <- x2, os <- x3, mem <- x4, handle <- x5, retired <- x6, child <- x7,
    fed <- x8, wrote <- x9, pipe <- x10, captured <- x11, late <- x12, over <- x13,
    result <- x14, faults <- x15

Ledger == INSTANCE LedgerCreation WITH
    pc <- x1, before <- x2, enabled <- x3, file <- x4, mine <- x5, created <- x6,
    result <- x7

File(s) == INSTANCE FileObserver WITH
    Operations <- s.Operations, Contents <- s.Contents, Files <- s.Files, Cap <- s.Cap,
    Edits <- s.Edits,
    operation <- x1, content <- x2, dirs <- x3, path <- x4, files <- x5, edits <- x6,
    late <- x7, pc <- x8, held <- x9, mine <- x10, created <- x11, before <- x12,
    again <- x13, snapshot <- x14, got <- x15, trace <- x16, result <- x17

Run(s) == INSTANCE ProcessRunner WITH
    Runners <- s.Runners, Requests <- s.Requests, Streams <- s.Streams, Cap <- s.Cap,
    Output <- s.Output, Faults <- s.Faults,
    request <- x1, pc <- x2, mutex <- x3, marker <- x4, evidence <- x5, child <- x6,
    assigned <- x7, threads <- x8, wrote <- x9, got <- x10, late <- x11, override <- x12,
    outcome <- x13, acked <- x14, runs <- x15, faults <- x16
==============================================================================
