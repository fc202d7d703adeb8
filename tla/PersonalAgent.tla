---------------------------- MODULE PersonalAgent ---------------------------
(***************************************************************************)
(* The controller of the personal agent (core/controller.ts): owner tasks, *)
(* their revisions and grants, the admission of one engine run for each    *)
(* revision, corrections, cancellations, holds, the polling loop and the   *)
(* recovery after a crash.                                                 *)
(*                                                                         *)
(* Owner commands are handled concurrently with each other, with the       *)
(* polling loop and with the host's context maintenance; they interleave   *)
(* at every await.  What a call does between two awaits is one action.     *)
(* A call in progress is a frame: where it is (at), which await it is in   *)
(* (pc; "ret" when the procedure it called is back) and the values it read *)
(* before and uses after.                                                  *)
(*                                                                         *)
(* The effects themselves are EffectBroker's; here a revision has one,     *)
(* which is open (dispatching or unknown) until it is settled.             *)
(***************************************************************************)
EXTENDS Naturals, Sequences, FiniteSets

CONSTANTS
  Tasks,           \* task ids
  Commands,        \* owner observations, numbered by the time of writing
  Loop,            \* the handler that recovers after a start and then polls
  Maintenance,     \* the handler of the host's context maintenance
  Script(_),       \* what the owner may order by a command: operations of the four below
  Maintained,      \* tasks whose context may become invalid
  MaxRevision,     \* bound: revisions of a task
  Ends,            \* how a run may end: completed or (failed, interrupted, cancelled:) stopped
  MaxEffects,      \* bound: effects of all tasks
  MaxScopeChanges, \* bound: scope changes of one grant by prepareAuthority
  MaxCrashes       \* bound: crashes of the process

ASSUME ControllerAssumption ==
  /\ Commands \subseteq Nat \ {0}
  /\ Loop # Maintenance /\ {Loop, Maintenance} \cap Commands = {}
  /\ \A c \in Commands : Script(c) \subseteq {"create", "correct", "cancel", "delete"}
  /\ Maintained \subseteq Tasks
  /\ MaxRevision \in Nat \ {0}
  /\ Ends \subseteq {"completed", "stopped"}
  /\ MaxEffects \in Nat
  /\ MaxScopeChanges \in Nat
  /\ MaxCrashes \in Nat

Revisions == 1..MaxRevision
Handlers  == Commands \cup {Loop, Maintenance}
NoTask    == "noTask"
NoToken   == [grant |-> 0, revision |-> 0]

VARIABLES
  \* the store
  revision,    \* revision[t]: current revision of task t, 0 before it exists
  grants,      \* grants[t]: the grants of t in the order of their making; the last is current
  control,     \* control[t]: none, cancelled, held, or resume (held, resumeWhenSettled)
  admissions,  \* admissions[t][r]: state of the one admission of revision r, and its token
  runs,        \* runs[t][r]: the last snapshot of the run of revision r
  childStops,  \* childStops[t][r]: none, pending (or unknown: no code tells them apart) or settled
  effects,     \* effects[t][r]: none, open or settled
  ownerChange, \* ownerChange[t]: the newest owner message applied to t
  applied,     \* commands in appliedChanges
  journal,     \* journal[c]: the received observation, and whether it has a result
  received,    \* the order in which observations were received
  \* the process
  calls,       \* calls[h]: the frame of handler h
  phase,       \* down, recovering or up
  crashes,
  \* outside
  requested,   \* requested[t][r]: how often engine.submit was called
  engine,      \* engine[t][r]: absent, live, completed or stopped
  \* history
  withdrawn,   \* tasks whose last owner order was a cancellation
  rejected     \* commands whose call threw

history == <<withdrawn, rejected>>
store   == <<revision, grants, control, admissions, runs, childStops, effects>>
log     == <<ownerChange, applied, journal, received>>
process == <<phase, crashes>>
outside == <<requested, engine>>
vars    == <<store, log, calls, process, outside, history>>

SnapshotStates == {"running", "unknown", "completed", "stopped"}
Nonterminal == {"running", "unknown"}

Idle == [at |-> "idle", pc |-> "ret", task |-> NoTask, revision |-> 0, grant |-> 0,
         token |-> NoToken, copy |-> "none", settled |-> TRUE, left |-> {}, todo |-> {}]

Init ==
  /\ revision = [t \in Tasks |-> 0]
  /\ grants = [t \in Tasks |-> <<>>]
  /\ control = [t \in Tasks |-> "none"]
  /\ admissions = [t \in Tasks |-> [r \in Revisions |-> [state |-> "none", token |-> NoToken]]]
  /\ runs = [t \in Tasks |-> [r \in Revisions |-> "none"]]
  /\ childStops = [t \in Tasks |-> [r \in Revisions |-> "none"]]
  /\ effects = [t \in Tasks |-> [r \in Revisions |-> "none"]]
  /\ ownerChange = [t \in Tasks |-> 0]
  /\ applied = {}
  /\ journal = [c \in Commands |-> [state |-> "new", op |-> "none", task |-> NoTask]]
  /\ received = <<>>
  /\ calls = [h \in Handlers |-> Idle]
  /\ phase = "down"
  /\ crashes = 0
  /\ requested = [t \in Tasks |-> [r \in Revisions |-> 0]]
  /\ engine = [t \in Tasks |-> [r \in Revisions |-> "absent"]]
  /\ withdrawn = {}
  /\ rejected = {}

-----------------------------------------------------------------------------
(* Grants and tokens                                                       *)

NewGrant == [revision |-> 0, revoked |-> FALSE]

Newest(t) == Len(grants[t])
Revoked(t) == grants[t][Newest(t)].revoked
revokeCurrent(t) == [grants EXCEPT ![t][Newest(t)].revoked = TRUE]
CurrentToken(t) == [grant |-> Newest(t), revision |-> grants[t][Newest(t)].revision]

(* broker.resolve of a token issued for revision r of t.                   *)
resolves(t, r, token) == revision[t] = r /\ token = CurrentToken(t) /\ ~Revoked(t)

-----------------------------------------------------------------------------
(* Procedures.  They take the frame f of the calling handler h, and those  *)
(* parts of the store that the calling step has already changed: stops,    *)
(* the child stops, and ctl, the control of t.                             *)

In(h, f, pc, t, r) == calls' = [calls EXCEPT ![h] = [f EXCEPT !.pc = pc, !.task = t, !.revision = r]]

(* The procedure is over; the frame keeps its place and its list.          *)
Leave(h, f) == calls' = [calls EXCEPT ![h] = [Idle EXCEPT !.at = f.at, !.todo = f.todo]]

openEffects(t) == \E r \in Revisions : effects[t][r] = "open"
EffectsMade == Cardinality({x \in Tasks \X Revisions : effects[x[1]][x[2]] # "none"})
unsettledStops(stops, t) == \E r \in Revisions : stops[t][r] = "pending"

unresolvedPriorWork(t, r, snapshots) ==
  \/ \E q \in 1..(r - 1) : \/ admissions[t][q].state \in {"unknown", "reserved"}
                           \/ snapshots[t][q] \in Nonterminal
  \/ openEffects(t)

(* hold: a cancelled task stays cancelled; in any case its children are    *)
(* asked to stop, and the call waits for them.                             *)
hold(h, f, t, kind, ctl, stops) ==
  /\ control' = [control EXCEPT ![t] = IF ctl = "cancelled" THEN ctl ELSE kind]
  /\ grants' = IF ctl = "cancelled" THEN grants ELSE revokeCurrent(t)
  /\ childStops' = [stops EXCEPT ![t][revision[t]] = "pending"]
  /\ In(h, f, "held", t, revision[t])

(* admit up to its first await, of a task without control: only the        *)
(* current revision, with every child settled and its grant not revoked.   *)
admit(h, f, t, r, g, stops) ==
  CASE revision[t] # r ->
         /\ control' = [control EXCEPT ![t] = "none"]
         /\ childStops' = stops
         /\ Leave(h, f)
         /\ UNCHANGED grants
    [] revision[t] = r /\ unsettledStops(stops, t) -> hold(h, f, t, "resume", "none", stops)
    [] revision[t] = r /\ ~unsettledStops(stops, t) /\ Revoked(t) ->
         hold(h, f, t, "held", "none", stops)
    [] OTHER ->
         /\ control' = [control EXCEPT ![t] = "none"]
         /\ childStops' = stops
         /\ calls' = [calls EXCEPT ![h] =
              [f EXCEPT !.pc = "prepare", !.task = t, !.revision = r, !.grant = g,
                        !.token = CurrentToken(t)]]
         /\ UNCHANGED grants

(* applyCorrection after the old run and the children were asked to stop.  *)
(* snapshots: the runs as the calling step leaves them.                    *)
correctionSettles(h, f, stops, snapshots) ==
  LET t == f.task
      base == [Idle EXCEPT !.at = f.at, !.todo = f.todo]
      stay == control' = control /\ childStops' = stops /\ UNCHANGED grants /\ Leave(h, f)
      wait == hold(h, base, t, "resume", control[t], stops)
  IN IF openEffects(t) THEN wait
     ELSE IF f.copy = "none" /\ admissions[t][f.revision - 1].state \in {"unknown", "reserved"} THEN wait
     ELSE IF ~f.settled \/ revision[t] # f.revision THEN stay
     ELSE IF unresolvedPriorWork(t, f.revision, snapshots) THEN wait
     ELSE IF phase = "recovering"
          THEN control' = [control EXCEPT ![t] = "none"] /\ childStops' = stops
               /\ UNCHANGED grants /\ Leave(h, f)
     ELSE admit(h, base, t, f.revision, f.grant, stops)

-----------------------------------------------------------------------------
(* processObservation, up to the first await of the command c = [op, task] *)

(* A fresh command; its source message makes one task only.                *)
create(h, f, t, c) ==
  /\ IF revision[t] > 0
     THEN Leave(h, f) /\ UNCHANGED <<revision, grants, ownerChange>>
     ELSE /\ revision' = [revision EXCEPT ![t] = 1]
          /\ grants' = [grants EXCEPT ![t] = <<NewGrant>>]
          /\ ownerChange' = [ownerChange EXCEPT ![t] = c]
          /\ IF phase = "recovering" THEN Leave(h, f)
             ELSE calls' = [calls EXCEPT ![h] =
                    [f EXCEPT !.pc = "prepare", !.task = t, !.revision = 1, !.grant = 1,
                              !.token = [grant |-> 1, revision |-> 0]]]
  /\ UNCHANGED <<control, childStops, applied, withdrawn>>

(* The transaction of applyCorrection and the start of stopChildren.       *)
correction(h, f, t) ==
  /\ revision[t] < MaxRevision
  /\ revision' = [revision EXCEPT ![t] = @ + 1]
  /\ grants' = [grants EXCEPT ![t] = Append(revokeCurrent(t)[t], NewGrant)]
  /\ control' = [control EXCEPT ![t] = "resume"]
  /\ childStops' = [childStops EXCEPT ![t][revision[t]] = "pending"]
  /\ calls' = [calls EXCEPT ![h] =
       [f EXCEPT !.pc = "correct", !.task = t, !.revision = revision[t] + 1,
                 !.grant = Newest(t) + 1, !.copy = runs[t][revision[t]]]]

(* A follow-up of the owner.  One that is older than the newest applied    *)
(* message, or that is applied already, changes nothing.                   *)
correct(h, f, t, c) ==
  IF c < ownerChange[t] \/ c \in applied
  THEN /\ Leave(h, f)
       /\ UNCHANGED <<revision, grants, control, childStops, ownerChange, applied, withdrawn>>
  ELSE /\ correction(h, f, t)
       /\ ownerChange' = [ownerChange EXCEPT ![t] = c]
       /\ applied' = applied \cup {c}
       /\ withdrawn' = withdrawn \ {t}

(* The transaction of applyCancellation and the start of stopChildren.     *)
cancel(h, f, t) ==
  /\ grants' = revokeCurrent(t)
  /\ control' = [control EXCEPT ![t] = "cancelled"]
  /\ childStops' = [childStops EXCEPT ![t][revision[t]] = "pending"]
  /\ In(h, f, "cancel", t, revision[t])
  /\ withdrawn' = withdrawn \cup {t}
  /\ UNCHANGED <<revision, ownerChange, applied>>

(* The source message was deleted, or edited so that it is no command.     *)
delete(h, f, t) ==
  /\ hold(h, f, t, "held", control[t], childStops)
  /\ UNCHANGED <<revision, ownerChange, applied, withdrawn>>

processObservation(h, f, c, op, t) ==
  /\ \/ op = "create" /\ create(h, f, t, c)
     \/ op = "correct" /\ correct(h, f, t, c)
     \/ op = "cancel" /\ cancel(h, f, t)
     \/ op = "delete" /\ delete(h, f, t)
  /\ UNCHANGED <<admissions, runs, effects, process, outside, rejected>>

(* ingest: the observation is saved before it is processed.                *)
Received(c, op, t) ==
  /\ phase = "up"
  /\ journal[c].state = "new"
  /\ op \in Script(c)
  /\ (op = "create") <=> (revision[t] = 0)
  /\ journal' = [journal EXCEPT ![c] = [state |-> "logged", op |-> op, task |-> t]]
  /\ received' = Append(received, c)

Ingest(c, op, t) ==
  /\ Received(c, op, t)
  /\ processObservation(c, [Idle EXCEPT !.at = "command"], c, op, t)

(* The result is saved.                                                    *)
Ingested(c) ==
  /\ calls[c].at = "command" /\ calls[c].pc = "ret"
  /\ journal' = [journal EXCEPT ![c].state = "done"]
  /\ calls' = [calls EXCEPT ![c] = Idle]
  /\ UNCHANGED <<store, ownerChange, applied, received, process, outside, history>>

-----------------------------------------------------------------------------
(* The awaits of admit                                                     *)

(* Slip: a reservation is overwritten.                                     *)
reservable(t, r) == TRUE

(* The insert of the admission: a revision has one.                        *)
unreserved(t, r) == admissions[t][r].state = "none"

(* prepareAuthority is back.  fails: it threw, or the grant has expired.   *)
(* changed: it asks for another scope, which is a new grant revision.  The *)
(* current grant is prepared, then the grant the call began with is used.  *)
PrepareReturns(h, fails, changed) ==
  LET f == calls[h]
      t == f.task
      r == f.revision
      base == [Idle EXCEPT !.at = f.at, !.todo = f.todo]
      bumped == IF changed THEN [grants EXCEPT ![t][Newest(t)].revision = @ + 1] ELSE grants
      token == [grant |-> Newest(t), revision |-> bumped[t][Newest(t)].revision]
      blocked == hold(h, base, t, "held", control[t], childStops) /\ UNCHANGED <<admissions, rejected>>
  IN /\ f.pc = "prepare"
     /\ changed => ~fails /\ grants[t][Newest(t)].revision < MaxScopeChanges
     /\ CASE revision[t] # r ->
               Leave(h, f) /\ UNCHANGED <<grants, control, childStops, admissions, rejected>>
          [] revision[t] = r /\ (fails \/ ~resolves(t, r, f.token) \/ grants[t][f.grant].revoked) ->
               blocked
          [] OTHER ->
               /\ grants' = bumped
               /\ UNCHANGED <<control, childStops>>
               /\ IF f.grant # Newest(t)   \* issue rejects: the call throws
                  THEN /\ calls' = [calls EXCEPT ![h] = Idle]
                       /\ rejected' = rejected \cup ({h} \cap Commands)
                       /\ UNCHANGED admissions
                  ELSE IF ~unreserved(t, r)
                  THEN Leave(h, f) /\ UNCHANGED <<admissions, rejected>>
                  ELSE /\ UNCHANGED rejected
                       /\ admissions' = [admissions EXCEPT ![t][r] = [state |-> "reserved", token |-> token]]
                       /\ calls' = [calls EXCEPT ![h] = [f EXCEPT !.pc = "input", !.token = token]]
     /\ UNCHANGED <<revision, runs, effects, log, process, outside, withdrawn>>

(* Slip: authority is not looked at again after the preparation.           *)
submitAnyway(t, r, token) == TRUE

(* The recheck before the provider can start.                              *)
stillAuthorised(t, r, token) == resolves(t, r, token)

(* prepareInput is back: submit, or block the admission.                   *)
InputReturns(h, fails) ==
  LET f == calls[h]
      t == f.task
      r == f.revision
      base == [Idle EXCEPT !.at = f.at, !.todo = f.todo]
  IN /\ f.pc = "input"
     /\ IF fails \/ ~stillAuthorised(t, r, f.token)
        THEN /\ admissions' = [admissions EXCEPT ![t][r].state = "blocked"]
             /\ hold(h, base, t, "held", control[t], childStops)
             /\ UNCHANGED requested
        ELSE /\ requested' = [requested EXCEPT ![t][r] = @ + 1]
             /\ calls' = [calls EXCEPT ![h].pc = "submit"]
             /\ UNCHANGED <<admissions, grants, control, childStops>>
     /\ UNCHANGED <<revision, runs, effects, log, process, engine, history>>

(* What the engine may report of a run that it has: `running' may be late, *)
(* an end is final; it may also not know.                                  *)
Snapshots(t, r) ==
  IF engine[t][r] = "absent" THEN {}
  ELSE {"running", "unknown"} \cup (IF engine[t][r] = "live" THEN {} ELSE {engine[t][r]})

(* submit answers.  A token that was revoked meanwhile gets its run        *)
(* cancelled; the binding is kept.                                         *)
SubmitReturns(h, snapshot) ==
  LET f == calls[h]
      t == f.task
      r == f.revision
  IN /\ f.pc = "submit"
     /\ snapshot \in Snapshots(t, r)
     /\ runs' = [runs EXCEPT ![t][r] = snapshot]
     /\ admissions' = [admissions EXCEPT ![t][r].state = "bound"]
     /\ IF resolves(t, r, f.token) THEN Leave(h, f) ELSE In(h, f, "undo", t, r)
     /\ UNCHANGED <<revision, grants, control, childStops, effects, log, process, outside, history>>

(* submit fails or its answer is lost; the engine may have the run.        *)
SubmitFails(h) ==
  LET f == calls[h]
  IN /\ f.pc = "submit"
     /\ admissions' = [admissions EXCEPT ![f.task][f.revision].state = "unknown"]
     /\ Leave(h, f)
     /\ UNCHANGED <<revision, grants, control, runs, childStops, effects, log, process, outside, history>>

(* engine.cancel of the run just submitted answers, or fails.              *)
UndoReturns(h, snapshot) ==
  LET f == calls[h]
  IN /\ f.pc = "undo"
     /\ snapshot \in Snapshots(f.task, f.revision) \cup {runs[f.task][f.revision]}
     /\ runs' = [runs EXCEPT ![f.task][f.revision] = snapshot]
     /\ Leave(h, f)
     /\ UNCHANGED <<revision, grants, control, admissions, childStops, effects, log, process, outside, history>>

-----------------------------------------------------------------------------
(* The awaits of stopChildren and of engine.cancel                         *)

(* Slip: a state that nothing waits for.                                   *)
otherSettlement(f, r, settled) ==
  [childStops EXCEPT ![f.task][r] = IF settled THEN "settled" ELSE "failed"]

settlement(f, r, settled) ==
  [childStops EXCEPT ![f.task][r] = IF settled THEN "settled" ELSE "pending"]

(* A hold, or a stop that the polling loop repeats, is over.               *)
StopReturns(h, settled) ==
  LET f == calls[h]
  IN /\ f.pc = "held"
     /\ childStops' = settlement(f, f.revision, settled)
     /\ Leave(h, f)
     /\ UNCHANGED <<revision, grants, control, admissions, runs, effects, log, process, outside, history>>

(* The loop of a cancellation over the runs that are left.                 *)
cancelNext(h, f, left) ==
  IF left = {} THEN Leave(h, f)
  ELSE calls' = [calls EXCEPT ![h] = [f EXCEPT !.pc = "cancelRuns", !.left = left]]

(* In a cancellation the runs of the task that have not ended come next.   *)
CancelStopReturns(h, settled) ==
  LET f == calls[h]
      live == {r \in Revisions : runs[f.task][r] \in Nonterminal}
  IN /\ f.pc = "cancel"
     /\ childStops' = settlement(f, f.revision, settled)
     /\ cancelNext(h, f, live)
     /\ UNCHANGED <<revision, grants, control, admissions, runs, effects, log, process, outside, history>>

CancelRunReturns(h, r, snapshot) ==
  LET f == calls[h]
  IN /\ f.pc = "cancelRuns" /\ r \in f.left
     /\ snapshot \in Snapshots(f.task, r) \cup {"unknown"}
     /\ runs' = [runs EXCEPT ![f.task][r] = snapshot]
     /\ cancelNext(h, f, f.left \ {r})
     /\ UNCHANGED <<revision, grants, control, admissions, childStops, effects, log, process, outside, history>>

(* In a correction the run read before the transaction is cancelled next,  *)
(* if it had not ended then.                                               *)
CorrectStopReturns(h, settled) ==
  LET f == [calls[h] EXCEPT !.settled = settled]
      stops == settlement(f, f.revision - 1, settled)
  IN /\ f.pc = "correct"
     /\ IF f.copy \in Nonterminal
        THEN /\ childStops' = stops
             /\ calls' = [calls EXCEPT ![h] = [f EXCEPT !.pc = "cancelOld"]]
             /\ UNCHANGED <<grants, control>>
        ELSE correctionSettles(h, f, stops, runs)
     /\ UNCHANGED <<revision, admissions, runs, effects, log, process, outside, history>>

(* engine.cancel of the old run answers.                                   *)
CancelOldReturns(h, snapshot) ==
  LET f == calls[h]
      t == f.task
      base == [Idle EXCEPT !.at = f.at, !.todo = f.todo]
      snapshots == [runs EXCEPT ![t][f.revision - 1] = snapshot]
  IN /\ f.pc = "cancelOld"
     /\ snapshot \in Snapshots(t, f.revision - 1)
     /\ runs' = snapshots
     /\ IF snapshot \in Nonterminal
        THEN hold(h, base, t, "resume", control[t], childStops)
        ELSE correctionSettles(h, f, childStops, snapshots)
     /\ UNCHANGED <<revision, admissions, effects, log, process, outside, history>>

CancelOldFails(h) ==
  LET f == calls[h]
      base == [Idle EXCEPT !.at = f.at, !.todo = f.todo]
  IN /\ f.pc = "cancelOld"
     /\ hold(h, base, f.task, "resume", control[f.task], childStops)
     /\ UNCHANGED <<revision, admissions, runs, effects, log, process, outside, history>>

-----------------------------------------------------------------------------
(* The main loop.  A stage works through the list it made when it began    *)
(* (todo), in any order, with awaits between the elements.                 *)

Main == calls[Loop]
AtStage(stage) == Main.at = stage /\ Main.pc = "ret"
Stage(stage, todo) == calls' = [calls EXCEPT ![Loop] = [Idle EXCEPT !.at = stage, !.todo = todo]]
Taken(x) == [Main EXCEPT !.todo = @ \ {x}]

ListedRuns(states) == {x \in Tasks \X Revisions : runs[x[1]][x[2]] \in states}
ListedStops == {x \in Tasks \X Revisions : childStops[x[1]][x[2]] = "pending"}
ListedIntents == {<<t, revision[t], Newest(t)>> : t \in {t \in Tasks : revision[t] > 0}}
ListedResumes == {t \in Tasks : control[t] = "resume"}

(* status: completed runs of the current revision of uncontrolled tasks.   *)
ListedDeliveries ==
  {<<t, revision[t], Newest(t)>> :
     t \in {t \in Tasks : /\ revision[t] > 0 /\ control[t] = "none"
                          /\ runs[t][revision[t]] = "completed"}}

(* Slip: nothing is replayed.                                              *)
NothingUnfinished == {}

Unfinished == {i \in 1..Len(received) : journal[received[i]].state = "logged"}

Recovering == <<"replay", "restop", "reinspect", "readmit">>
Polling    == <<"idle", "inspect", "stop", "resume", "deliver">>

Listing(stage) ==
  CASE stage \in {"restop", "stop"} -> ListedStops
    [] stage = "reinspect" -> ListedRuns(SnapshotStates)
    [] stage = "readmit"   -> ListedIntents
    [] stage = "inspect"   -> ListedRuns(Nonterminal)
    [] stage = "resume"    -> ListedResumes
    [] stage = "deliver"   -> ListedDeliveries

(* The list is done: on to the next stage that has something to do, whose  *)
(* list is made now, or to the end of the recovery or of the poll.         *)
NextStage ==
  LET stages == IF phase = "recovering" THEN Recovering ELSE Polling
      later == {j \in 2..Len(stages) :
                  /\ \A i \in j..Len(stages) : stages[i] # Main.at
                  /\ Listing(stages[j]) # {}}
  IN /\ phase # "down"
     /\ Main.pc = "ret" /\ Main.todo = {}
     /\ AtStage("replay") => Unfinished = {}
     /\ \/ /\ later = {}
           /\ Stage("idle", {})
           /\ phase' = "up"
        \/ \E j \in later : /\ \A i \in later : j <= i
                           /\ Stage(stages[j], Listing(stages[j]))
                           /\ UNCHANGED phase
     /\ UNCHANGED <<store, log, crashes, outside, history>>

(* Slip: a reservation of a dead process is left as it is.                *)
LeftReserved(a) == a

(* What was reserved when the process died may have reached the engine.    *)
Interrupted(a) == IF a.state = "reserved" THEN [a EXCEPT !.state = "unknown"] ELSE a

RecoverStart ==
  /\ phase = "down"
  /\ phase' = "recovering"
  /\ admissions' = [t \in Tasks |-> [r \in Revisions |-> Interrupted(admissions[t][r])]]
  /\ Stage("replay", {})
  /\ UNCHANGED <<revision, grants, control, runs, childStops, effects, log, crashes, outside, history>>

(* Observations without a result are processed again, in their order.      *)
Replay(c) ==
  /\ AtStage("replay") /\ Main.todo = {}
  /\ \E i \in Unfinished : c = received[i] /\ \A j \in Unfinished : i <= j
  /\ processObservation(Loop, [Idle EXCEPT !.at = "replay", !.todo = {c}], c, journal[c].op, journal[c].task)
  /\ UNCHANGED <<journal, received>>

Replayed(c) ==
  /\ AtStage("replay") /\ c \in Main.todo
  /\ journal' = [journal EXCEPT ![c].state = "done"]
  /\ Stage("replay", {})
  /\ UNCHANGED <<store, ownerChange, applied, received, process, outside, history>>

(* refresh: inspect answers, or the snapshot becomes unknown.              *)
InspectReturns(x, snapshot) ==
  /\ AtStage("inspect") \/ AtStage("reinspect")
  /\ x \in Main.todo
  /\ snapshot \in Snapshots(x[1], x[2]) \cup {"unknown"}
  /\ runs' = [runs EXCEPT ![x[1]][x[2]] = snapshot]
  /\ calls' = [calls EXCEPT ![Loop] = Taken(x)]
  /\ UNCHANGED <<revision, grants, control, admissions, childStops, effects, log, process, outside, history>>

(* A listed stop is asked for again.                                       *)
StopAgain(x) ==
  /\ AtStage("stop") \/ AtStage("restop")
  /\ x \in Main.todo
  /\ childStops' = [childStops EXCEPT ![x[1]][x[2]] = "pending"]
  /\ In(Loop, Taken(x), "held", x[1], x[2])
  /\ UNCHANGED <<revision, grants, control, admissions, runs, effects, log, process, outside, history>>

(* recover: a task without admission and control is admitted now.          *)
Readmit(x) ==
  LET t == x[1]
      r == x[2]
  IN /\ AtStage("readmit") /\ x \in Main.todo
     /\ IF admissions[t][r].state # "none" \/ control[t] # "none"
        THEN calls' = [calls EXCEPT ![Loop] = Taken(x)] /\ UNCHANGED <<grants, control, childStops>>
        ELSE IF unresolvedPriorWork(t, r, runs)
        THEN hold(Loop, Taken(x), t, "resume", control[t], childStops)
        ELSE admit(Loop, Taken(x), t, r, x[3], childStops)
     /\ UNCHANGED <<revision, admissions, runs, effects, log, process, outside, history>>

(* Slips: the old run, or what it may have sent, is not waited for.        *)
runsOverlooked(t) == ~unsettledStops(childStops, t) /\ ~openEffects(t)
effectsOverlooked(t) ==
  /\ ~unsettledStops(childStops, t)
  /\ \A q \in 1..(revision[t] - 1) : admissions[t][q].state \notin {"unknown", "reserved"}
  /\ \A q \in Revisions : runs[t][q] \notin Nonterminal

(* resumeSettledCorrections, for one listed control: everything but the    *)
(* control itself is looked at again.                                      *)
settledForResume(t) ==
  /\ ~unsettledStops(childStops, t)
  /\ \A q \in 1..(revision[t] - 1) : admissions[t][q].state \notin {"unknown", "reserved"}
  /\ \A q \in Revisions : runs[t][q] \notin Nonterminal
  /\ ~openEffects(t)

Resume(t) ==
  /\ AtStage("resume") /\ t \in Main.todo
  /\ IF settledForResume(t)
     THEN /\ grants' = [grants EXCEPT ![t] = Append(@, NewGrant)]
          /\ control' = [control EXCEPT ![t] = "none"]
          /\ calls' = [calls EXCEPT ![Loop] =
               [Taken(t) EXCEPT !.pc = "prepare", !.task = t, !.revision = revision[t],
                                !.grant = Newest(t) + 1,
                                !.token = [grant |-> Newest(t) + 1, revision |-> 0]]]
     ELSE calls' = [calls EXCEPT ![Loop] = Taken(t)] /\ UNCHANGED <<grants, control>>
  /\ UNCHANGED <<revision, admissions, runs, childStops, effects, log, process, outside, history>>

(* poll hands the output of a completed run to the broker, once, if the    *)
(* listed grant and then the current authority allow it.                   *)
Deliver(x) ==
  LET t == x[1]
      r == x[2]
      allowed == /\ ~grants[t][x[3]].revoked
                 /\ revision[t] = r /\ ~Revoked(t)
                 /\ effects[t][r] = "none" /\ EffectsMade < MaxEffects
  IN /\ AtStage("deliver") /\ x \in Main.todo
     /\ effects' = IF allowed THEN [effects EXCEPT ![t][r] = "open"] ELSE effects
     /\ calls' = [calls EXCEPT ![Loop] = Taken(x)]
     /\ UNCHANGED <<revision, grants, control, admissions, runs, childStops, log, process, outside, history>>

-----------------------------------------------------------------------------
(* The host's context maintenance (host.ts): tasks that were accepted or   *)
(* working when it listed them are refreshed one after the other.          *)

Regenerable(t) ==
  /\ revision[t] > 0 /\ control[t] = "none"
  /\ ~unsettledStops(childStops, t) /\ ~openEffects(t)
  /\ admissions[t][revision[t]].state \in {"reserved", "bound", "blocked"}
  /\ runs[t][revision[t]] \in {"none", "running"}

(* One task of the list, made when the maintenance begins, is refreshed.   *)
RefreshContext(t) ==
  LET f == calls[Maintenance]
      listed == IF f = Idle THEN {u \in Maintained : Regenerable(u)} ELSE f.todo
  IN /\ phase = "up" /\ f.pc = "ret"
     /\ t \in listed
     /\ correction(Maintenance, [Idle EXCEPT !.at = "invalidate", !.todo = listed \ {t}], t)
     /\ UNCHANGED <<admissions, runs, effects, log, process, outside, history>>

(* The contexts of the remaining tasks are valid.                          *)
HostEnds ==
  /\ calls[Maintenance].at = "invalidate" /\ calls[Maintenance].pc = "ret"
  /\ calls' = [calls EXCEPT ![Maintenance] = Idle]
  /\ UNCHANGED <<store, log, process, outside, history>>

-----------------------------------------------------------------------------
(* Outside                                                                 *)

EngineAccepts(t, r) ==
  /\ requested[t][r] > 0 /\ engine[t][r] = "absent"
  /\ engine' = [engine EXCEPT ![t][r] = "live"]
  /\ UNCHANGED <<store, log, calls, process, requested, history>>

EngineEnds(t, r, how) ==
  /\ engine[t][r] = "live"
  /\ engine' = [engine EXCEPT ![t][r] = how]
  /\ UNCHANGED <<store, log, calls, process, requested, history>>

(* A live run makes its effect with the token of its admission.            *)
ToolEffect(t, r) ==
  /\ phase = "up"
  /\ engine[t][r] = "live" /\ effects[t][r] = "none" /\ EffectsMade < MaxEffects
  /\ resolves(t, r, admissions[t][r].token)
  /\ effects' = [effects EXCEPT ![t][r] = "open"]
  /\ UNCHANGED <<revision, grants, control, admissions, runs, childStops, log, calls, process, outside, history>>

EffectSettles(t, r) ==
  /\ phase # "down" /\ effects[t][r] = "open"
  /\ effects' = [effects EXCEPT ![t][r] = "settled"]
  /\ UNCHANGED <<revision, grants, control, admissions, runs, childStops, log, calls, process, outside, history>>

Dies ==
  /\ phase # "down" /\ crashes < MaxCrashes
  /\ phase' = "down"
  /\ crashes' = crashes + 1
  /\ calls' = [h \in Handlers |-> Idle]

(* The process dies between two awaits.                                    *)
Crash == Dies /\ UNCHANGED <<store, log, outside, history>>

(* It dies in ingest, when the observation is saved and nothing is done.   *)
CrashInIngest(c, op, t) ==
  /\ Received(c, op, t)
  /\ Dies
  /\ UNCHANGED <<store, ownerChange, applied, outside, history>>

-----------------------------------------------------------------------------
Admission(h) ==
  \/ \E fails, changed \in BOOLEAN : PrepareReturns(h, fails, changed)
  \/ \E fails \in BOOLEAN : InputReturns(h, fails)
  \/ \E s \in SnapshotStates : SubmitReturns(h, s) \/ UndoReturns(h, s)
  \/ SubmitFails(h)

Stopping(h) ==
  \/ \E settled \in BOOLEAN :
       StopReturns(h, settled) \/ CancelStopReturns(h, settled) \/ CorrectStopReturns(h, settled)
  \/ \E s \in SnapshotStates :
       CancelOldReturns(h, s) \/ \E r \in Revisions : CancelRunReturns(h, r, s)
  \/ CancelOldFails(h)

Call(h) == Admission(h) \/ Stopping(h)

MainLoop ==
  \/ NextStage \/ RecoverStart
  \/ \E c \in Commands : Replay(c) \/ Replayed(c)
  \/ \E x \in Tasks \X Revisions :
       \/ \E s \in SnapshotStates : InspectReturns(x, s)
       \/ StopAgain(x)
  \/ \E x \in Main.todo : AtStage("readmit") /\ Readmit(x)
  \/ \E t \in Tasks : Resume(t)
  \/ \E x \in Main.todo : AtStage("deliver") /\ Deliver(x)

Host == HostEnds \/ \E t \in Maintained : RefreshContext(t)

Owner == \E c \in Commands, t \in Tasks : \E op \in Script(c) : Ingest(c, op, t)

Outside == \/ \E t \in Tasks, r \in Revisions :
                \/ EngineAccepts(t, r) \/ ToolEffect(t, r) \/ EffectSettles(t, r)
                \/ \E how \in Ends : EngineEnds(t, r, how)
           \/ Crash
           \/ \E c \in Commands, t \in Tasks : \E op \in Script(c) : CrashInIngest(c, op, t)

Next == \/ \E h \in Handlers : Call(h)
        \/ \E c \in Commands : Ingested(c)
        \/ MainLoop \/ Host \/ Owner \/ Outside

Spec == Init /\ [][Next]_vars

(* Every await of a call comes back: requests to the engine and to the     *)
(* transport have deadlines.  A dead process is started again and its loop *)
(* goes on.                                                                *)
Fairness == /\ \A c \in Commands : WF_vars(Call(c) \/ Ingested(c))
            /\ WF_vars(Call(Loop) \/ MainLoop)

FairSpec == Spec /\ Fairness

-----------------------------------------------------------------------------
(* Properties                                                              *)

Places == {"idle", "command", "replay", "restop", "reinspect", "readmit", "inspect", "stop",
           "resume", "deliver", "invalidate"}
Awaits == {"prepare", "input", "submit", "undo", "held", "cancel", "cancelRuns", "correct",
           "cancelOld"}
GrantRecords == [revision : 0..MaxScopeChanges, revoked : BOOLEAN]
TokenRecords == [grant : Nat, revision : 0..MaxScopeChanges]

FrameOK(f) ==
  /\ f.at \in Places
  /\ f.pc \in Awaits \cup {"ret"}
  /\ f.task \in Tasks \cup {NoTask}
  /\ f.pc # "ret" => f.task \in Tasks /\ f.revision \in 1..revision[f.task]
  /\ f.token \in TokenRecords
  /\ f.copy \in SnapshotStates \cup {"none"}
  /\ f.left \subseteq Revisions

(* Every variable has its type.                                            *)
TypeOK ==
  /\ revision \in [Tasks -> 0..MaxRevision]
  /\ control \in [Tasks -> {"none", "cancelled", "held", "resume"}]
  /\ admissions \in [Tasks -> [Revisions ->
       [state : {"none", "reserved", "bound", "unknown", "blocked"},
        token : TokenRecords]]]
  /\ runs \in [Tasks -> [Revisions -> SnapshotStates \cup {"none"}]]
  /\ childStops \in [Tasks -> [Revisions -> {"none", "pending", "settled"}]]
  /\ effects \in [Tasks -> [Revisions -> {"none", "open", "settled"}]]
  /\ phase \in {"down", "recovering", "up"}
  /\ \A t \in Tasks : /\ \A i \in 1..Len(grants[t]) : grants[t][i] \in GrantRecords
                      /\ revision[t] > 0 <=> grants[t] # <<>>
  /\ \A h \in Handlers : FrameOK(calls[h])

(* The barrier of a correction: the engine never has two live runs of one  *)
(* task, although submissions may be lost, late or unknown, cancellations  *)
(* may fail, and commands, polls and restarts interleave.                  *)
OneLiveRun ==
  \A t \in Tasks : \A q, r \in Revisions :
    engine[t][q] = "live" /\ engine[t][r] = "live" => q = r

(* A run starts only for the current revision of a task that is neither    *)
(* cancelled nor held, although preparing its authority and its input took *)
(* two awaits in which the owner could speak.                              *)
Submits(t, r) == requested'[t][r] # requested[t][r]

SubmitUnderAuthority ==
  [][\A t \in Tasks, r \in Revisions :
       Submits(t, r) => revision[t] = r /\ control[t] = "none" /\ ~Revoked(t)]_vars

(* A revision is submitted only when the earlier ones have left nothing    *)
(* behind: no run that the engine has or may still accept, and no effect   *)
(* of unknown outcome.                                                     *)
SuccessorStartsAlone ==
  [][\A t \in Tasks, r \in Revisions :
       Submits(t, r) =>
         \A q \in 1..(r - 1) :
           /\ engine[t][q] # "live"
           /\ engine[t][q] = "absent" => requested[t][q] = 0
           /\ effects[t][q] # "open"]_vars

(* No revision is submitted twice: not by a replayed command, not by a     *)
(* correction and the polling loop that both resume it, not after a crash  *)
(* between the reservation and the answer.                                 *)
SubmittedOnce == \A t \in Tasks, r \in Revisions : requested[t][r] <= 1

(* A reservation is never orphaned: as long as it is there, some call is   *)
(* between preparing the input and the answer of submit.  An orphan would  *)
(* block every later revision of its task.                                 *)
ReservationsAreOwned ==
  phase = "up" =>
    \A t \in Tasks, r \in Revisions :
      admissions[t][r].state = "reserved" =>
        \E h \in Handlers : /\ calls[h].pc \in {"input", "submit"}
                            /\ calls[h].task = t /\ calls[h].revision = r

(* Every observation that was saved gets a result, by its own call or by   *)
(* the replay after a crash, unless its call threw.                        *)
CommandsComplete ==
  \A c \in Commands :
    journal[c].state = "logged" ~> journal[c].state = "done" \/ c \in rejected

(* Cancellation revokes subsequent authority: after the owner cancelled a  *)
(* task, no run of it starts until the owner corrects it.                  *)
CancellationIsKept ==
  [][\A t \in Tasks, r \in Revisions : Submits(t, r) => t \notin withdrawn]_vars

(* The context maintenance never regenerates a held task.                  *)
HeldIsNotRegenerated ==
  [][\A t \in Tasks :
       control[t] = "held" /\ revision'[t] # revision[t] => UNCHANGED calls[Maintenance]]_vars

(* The newest revision, waiting for older work to settle, may resume: an   *)
(* older revision whose admission is blocked meanwhile does not take that  *)
(* away from it, once the correction's own call has ended.                 *)
NewestMayResume ==
  [][\A t \in Tasks, h \in Handlers :
       /\ calls[h].pc = "input" /\ calls[h].task = t /\ calls[h].revision < revision[t]
       /\ calls'[h].pc # "input"
       /\ \A i \in Handlers : calls[i].pc \notin {"correct", "cancelOld"}
       /\ control[t] = "resume"
       => control'[t] = "resume"]_vars
=============================================================================
