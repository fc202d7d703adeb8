-------------------------- MODULE HistoryAnalysis --------------------------
(***************************************************************************)
(* Analysis of one history task: the runner's quanta, the analysis step,   *)
(* the tools it gives to the native model turn, and the journal of         *)
(* attempts.  Each node of the analysis is written by one model turn.  A   *)
(* turn is reserved on disk before it is started, with the plan of its     *)
(* input and the epoch of its native owner; the output the model hands in  *)
(* is saved as prepared before it is appended as a node; the outcome of    *)
(* the turn is saved as observed, refused or unknown.  An attempt without  *)
(* output is followed by another one with the same plan, in a new epoch,   *)
(* only after its owner was proved settled, and at most MaxNoOutput times. *)
(* A prepared output is committed later without another model turn.        *)
(*                                                                         *)
(* The tool call runs beside the step: the turn may fail, the owner of the *)
(* group may cancel and the process may stop while it writes.  The pages   *)
(* are complete; waves of parallel turns and the reuse of remembered       *)
(* leaves are left out.                                                    *)
(***************************************************************************)
EXTENDS Naturals, Sequences, FiniteSets, FiniteSetsExt

CONSTANTS Nodes,         \* nodes the planner asks for
          Plans,         \* inputs it may choose for one node
          Outputs,       \* outputs the model may hand in
          MaxNoOutput,   \* STANDING_HISTORY_ANALYSIS_MAX_NO_OUTPUT, 3 in the code
          MaxAttempts,   \* MAX_ATTEMPTS of the journal
          MaxFaults      \* bound on stops, failed writes, broken turns and lost owners

AnalysisAssumption ==
    /\ Nodes \in Nat \ {0} /\ MaxNoOutput \in Nat \ {0} /\ MaxAttempts \in Nat /\ MaxFaults \in Nat
    /\ Plans # {} /\ "none" \notin Outputs

VARIABLES
    control,      \* the control slot: "queued" or "cancelled"
    nodes,        \* the analysis store: the plan and the output of every node
    attempts,     \* the journal of attempts
    torn,         \* the stores with a torn file, which open as tail-refused
    disposition,  \* the recorded blockage of the task
    st,           \* the quantum of the runner and its analysis step
    tool,         \* the commit call of the model
    turn,         \* what the runtime knows of the current turn
    host,         \* the native owner and its epoch
    settled,      \* epochs whose owner is proved settled
    mgr,          \* the manager's cancellation
    seen,         \* attempts whose model was sent the material
    turns,        \* turns[i]: turns started for attempt i
    faults

vars == <<control, nodes, attempts, torn, disposition, st, tool, turn, host, settled, mgr, seen, turns, faults>>
disk == <<nodes, attempts, torn, disposition>>
native == <<host, settled>>
ghosts == <<seen, turns>>

Outcomes == {"none", "observed", "refused", "unknown"}
Attempt == [node : 1..Nodes, plan : Plans, epoch : 1..MaxAttempts, original : Outcomes \cup {"new"},
            prepared : Outputs \cup {"none"}, committed : BOOLEAN, native : Outcomes]
NoTurn == [live |-> FALSE, shown |-> "none", commitStarted |-> FALSE]
NoTool == [pc |-> "none", output |-> "none"]
NoStep == [pc |-> "idle", plan |-> CHOOSE p \in Plans : TRUE, retry |-> FALSE, reserved |-> 0, called |-> FALSE,
           outcome |-> "none", release |-> FALSE, tail |-> FALSE, abort |-> FALSE, skipped |-> FALSE,
           stale |-> FALSE]
Stops == {"idle", "next", "acquire", "owner", "reserve", "settle", "successor", "begin", "turn", "turning",
          "outcome", "control", "release", "finish", "unknown", "cleanup", "recover", "recoverOutcome", "recoverCommit",
          "recoverNode", "stale"}

TypeOK ==
    /\ control \in {"queued", "cancelled"} /\ torn \subseteq {"attempts", "analysis"}
    /\ nodes \in Seq([plan : Plans, output : Outputs]) /\ Len(nodes) <= Nodes
    /\ attempts \in Seq(Attempt) /\ Len(attempts) <= MaxAttempts
    /\ disposition \in {"none", "consumed-without-prepared", "stale"}
    /\ st.pc \in Stops /\ st.plan \in Plans /\ st.reserved \in 0..MaxAttempts /\ st.outcome \in Outcomes
    /\ {st.retry, st.called, st.release, st.tail, st.abort, st.skipped, st.stale} \subseteq BOOLEAN
    /\ tool.pc \in {"none", "heads", "prepare", "reheads", "append", "node"} /\ tool.output \in Outputs \cup {"none"}
    /\ turn.shown \in {"none", "staged", "shown"} /\ {turn.live, turn.commitStarted} \subseteq BOOLEAN
    /\ host.state \in {"none", "free", "leased", "busy", "ended"} /\ host.epoch \in 0..MaxAttempts
    /\ settled \subseteq 1..MaxAttempts /\ mgr \in {"idle", "revoke", "join", "answered"}
    /\ seen \subseteq 1..MaxAttempts /\ turns \in [1..MaxAttempts -> Nat] /\ faults \in 0..MaxFaults

Init ==
    /\ control = "queued" /\ nodes = <<>> /\ attempts = <<>> /\ torn = {} /\ disposition = "none"
    /\ st = NoStep /\ tool = NoTool /\ turn = NoTurn
    /\ host = [state |-> "none", epoch |-> 0] /\ settled = {} /\ mgr = "idle"
    /\ seen = {} /\ turns = [i \in 1..MaxAttempts |-> 0] /\ faults = 0

fault == faults < MaxFaults /\ faults' = faults + 1
fine == UNCHANGED faults

------------------------------------------------------------------------------
(* The journal. *)

some == attempts # <<>>
last == attempts[Len(attempts)]

\* Any attempt that left no output, whatever is known of its turn.
isRetryableNoOutput(a) == a.prepared = "none" /\ ~a.committed
successorCandidate(a) == isRetryableNoOutput(a)

noOutputCount ==
    Len(attempts) - Max({0} \cup {i \in 1..Len(attempts) : ~successorCandidate(attempts[i])})
canContinueNoOutput == isRetryableNoOutput(last) /\ noOutputCount < MaxNoOutput

\* The epochs of the attempts a successor would follow.
consecutive == {i \in 1..Len(attempts) : i > Len(attempts) - noOutputCount}
verifySuccessor(plan, epoch) ==
    successorCandidate(last) =>
        /\ noOutputCount < MaxNoOutput
        /\ plan = last.plan
        /\ \A i \in consecutive : attempts[i].epoch # epoch

\* A first attempt for a node follows a complete one.
previousComplete == some => last.native \in {"observed", "unknown"} /\ last.prepared # "none" /\ last.committed

continuationRecord(a) == a.native
\* A store is opened up to a torn file and is then not ready.
journalOpens == "attempts" \notin torn
analysisOpens == "analysis" \notin torn

\* Every operation of the handle fails once a write failed, or while another is active.
operationActive == tool.pc \in {"prepare", "append", "node"}
ready == ~st.tail /\ ~operationActive

\* A write that fails may have left nothing, a torn file or the whole file.
written(journal) == attempts' = journal /\ UNCHANGED <<nodes, torn, disposition>> /\ fine
failed(journal) ==
    /\ fault /\ UNCHANGED <<nodes, disposition>>
    /\ \/ UNCHANGED <<attempts, torn>>
       \/ UNCHANGED attempts /\ torn' = torn \cup {"attempts"}
       \/ attempts' = journal /\ UNCHANGED torn
with(changes) == Append(SubSeq(attempts, 1, Len(attempts) - 1), changes)

------------------------------------------------------------------------------
(* The runner: one quantum inspects the task and gives it to the step. *)

goto(pc) == st' = [st EXCEPT !.pc = pc]
guard == ~st.abort
queued == guard /\ control = "queued"

\* An error: a reservation whose turn was never called is saved as unknown first.
afterError == IF host.state \in {"leased", "busy", "ended"} THEN "cleanup" ELSE "idle"
throw == st' = [st EXCEPT !.pc = IF st.reserved # 0 /\ ~st.called THEN "unknown" ELSE afterError]
throwTail == st' = [st EXCEPT !.tail = TRUE, !.pc = afterError]
\* A check against the control head of the quantum finds a cancellation as a stale head.
throwChecked ==
    LET stale == guard /\ control # "queued"
    IN st' = [st EXCEPT !.stale = stale,
                        !.pc = IF st.reserved # 0 /\ ~st.called THEN "unknown"
                               ELSE IF afterError = "idle" /\ stale THEN "stale" ELSE afterError]

blocked == disposition # "none" /\ ~(disposition = "consumed-without-prepared" /\ some /\ canContinueNoOutput)
pending == some /\ (~last.committed \/ last.native = "none") /\ ~canContinueNoOutput

Inspect ==
    /\ st.pc = "idle" /\ ~st.skipped /\ control = "queued" /\ journalOpens /\ analysisOpens /\ ~blocked
    /\ IF pending THEN last.prepared # "none" ELSE Len(nodes) < Nodes
    /\ st' = [NoStep EXCEPT !.pc = IF pending THEN "recover" ELSE "next"]
    /\ fine /\ UNCHANGED <<control, nodes, attempts, torn, disposition, tool, turn, host, settled, mgr, seen, turns>>

\* The task is recorded as blocked: the last attempt is consumed and left nothing.
consumedWithoutPrepared == pending /\ last.prepared = "none"
blockConsumed ==
    /\ st.pc = "idle" /\ ~st.skipped /\ control = "queued" /\ journalOpens /\ analysisOpens /\ ~blocked /\ consumedWithoutPrepared
    /\ \/ fine /\ disposition' = "consumed-without-prepared"
       \/ fault /\ UNCHANGED disposition
    /\ UNCHANGED <<control, nodes, attempts, torn, st, tool, turn, host, settled, mgr, seen, turns>>

------------------------------------------------------------------------------
(* StandingHistoryAnalysisStep.next *)

\* The plan of a retry is the saved one; any other comes from the planner.
restoredPlan(p) == (some /\ isRetryableNoOutput(last)) => p = last.plan
planNext ==
    /\ st.pc = "next"
    /\ IF queued /\ (~some \/ canContinueNoOutput \/ previousComplete)
       THEN \E p \in Plans :
                /\ restoredPlan(p)
                /\ st' = [st EXCEPT !.pc = "acquire", !.plan = p, !.retry = some /\ isRetryableNoOutput(last)]
       ELSE throw
    /\ fine /\ UNCHANGED <<control, disk, tool, turn, native, mgr, ghosts>>

\* The connection gives the released owner again or a new epoch.  An owner in another
\* state may be given too: the step proves the settlement of its predecessor itself.
newEpoch == Max({0} \cup {attempts[i].epoch : i \in DOMAIN attempts}) + 1
Acquire ==
    /\ st.pc = "acquire"
    /\ \/ /\ guard /\ host.state = "free" /\ ~st.retry
          /\ host' = [host EXCEPT !.state = "leased"] /\ UNCHANGED settled /\ goto("owner")
       \/ /\ guard /\ (host.state = "free" => st.retry) /\ newEpoch <= MaxAttempts
          /\ host' = [state |-> "leased", epoch |-> newEpoch]
          /\ settled' = (settled \cup (IF host.state = "free" THEN {host.epoch} ELSE {})) \ {newEpoch}
          /\ goto("owner")
       \/ /\ guard /\ some /\ last.epoch \notin settled /\ host.state = "none"   \* PRIOR_OWNER_UNAVAILABLE
          /\ st' = [NoStep EXCEPT !.skipped = TRUE] /\ UNCHANGED native
       \/ /\ ~guard /\ UNCHANGED native /\ throw
    /\ fine /\ UNCHANGED <<control, disk, tool, turn, mgr, ghosts>>

verifiedSettlement == last.epoch \in settled
CheckOwner ==
    /\ st.pc = "owner"
    /\ IF queued /\ ((some /\ ~st.retry /\ last.native # "observed") => verifiedSettlement)
       THEN goto("reserve") ELSE throwChecked
    /\ fine /\ UNCHANGED <<control, disk, tool, turn, native, mgr, ghosts>>

reservation(original) ==
    Append(attempts, [node |-> Len(nodes) + 1, plan |-> st.plan, epoch |-> host.epoch, original |-> original,
                      prepared |-> "none", committed |-> FALSE, native |-> "none"])
reserved == st' = [st EXCEPT !.pc = "begin", !.reserved = Len(attempts) + 1]
admitted == ready /\ Len(attempts) < MaxAttempts

reserve ==
    /\ st.pc = "reserve" /\ ~st.retry
    /\ \/ /\ admitted /\ previousComplete /\ (some => verifySuccessor(st.plan, host.epoch))
          /\ \/ written(reservation("new")) /\ reserved
             \/ failed(reservation("new")) /\ throwTail
       \/ ~(admitted /\ previousComplete) /\ UNCHANGED disk /\ fine /\ throw
    /\ UNCHANGED <<control, tool, turn, native, mgr, ghosts>>

\* The first phase; the owner is joined outside the operation of the store.
reserveSuccessor ==
    /\ st.pc = "reserve" /\ st.retry
    /\ IF admitted /\ successorCandidate(last) /\ verifySuccessor(st.plan, host.epoch) THEN goto("settle") ELSE throw
    /\ fine /\ UNCHANGED <<control, disk, tool, turn, native, mgr, ghosts>>

SettlePredecessor ==
    /\ st.pc = "settle"
    /\ IF verifiedSettlement /\ queued THEN goto("successor") ELSE throwChecked
    /\ fine /\ UNCHANGED <<control, disk, tool, turn, native, mgr, ghosts>>

\* The second phase checks the whole journal again before it writes.
ReserveSettled ==
    /\ st.pc = "successor"
    /\ LET allowed == admitted /\ successorCandidate(last) /\ verifySuccessor(st.plan, host.epoch)
           record == reservation(continuationRecord(last))
       IN \/ allowed /\ written(record) /\ reserved
          \/ allowed /\ failed(record) /\ throwTail
          \/ ~allowed /\ UNCHANGED disk /\ fine /\ throw
    /\ UNCHANGED <<control, tool, turn, native, mgr, ghosts>>

\* runtime.begin: the tools of the turn become usable once the heads were read.
begin ==
    /\ st.pc = "begin"
    /\ IF queued /\ Len(nodes) + 1 = attempts[st.reserved].node
       THEN goto("turn") /\ turn' = [NoTurn EXCEPT !.live = TRUE]
       ELSE throwChecked /\ UNCHANGED turn
    /\ fine /\ UNCHANGED <<control, disk, tool, native, mgr, ghosts>>

turnAnalysis ==
    /\ st.pc = "turn"
    /\ IF guard
       THEN /\ st' = [st EXCEPT !.pc = "turning", !.called = TRUE]
            /\ host' = [host EXCEPT !.state = "busy"]
            /\ turns' = [turns EXCEPT ![st.reserved] = @ + 1]
       ELSE throw /\ UNCHANGED <<host, turns>>
    /\ fine /\ UNCHANGED <<control, disk, tool, turn, settled, mgr, seen>>

------------------------------------------------------------------------------
(* The native turn and its tool calls. *)

toolUsable == turn.live /\ guard /\ tool.pc = "none" /\ ~turn.commitStarted /\ host.state = "busy"

callMaterial ==
    /\ toolUsable /\ turn.shown = "none" /\ control = "queued"
    /\ turn' = [turn EXCEPT !.shown = "staged"]
    /\ fine /\ UNCHANGED <<control, disk, st, tool, native, mgr, ghosts>>

\* The supports and the material count only after the answer was sent.
onToolResultSent ==
    /\ turn.live /\ guard /\ turn.shown = "staged" /\ host.state = "busy"
    /\ turn' = [turn EXCEPT !.shown = "shown"] /\ seen' = seen \cup {st.reserved}
    /\ fine /\ UNCHANGED <<control, disk, st, tool, native, mgr, turns>>

materialShown == turn.shown = "shown"
\* A commit call: the heads are read, the output is prepared, the heads are read again.
callCommit ==
    /\ toolUsable /\ materialShown
    /\ \E o \in Outputs : tool' = [pc |-> "heads", output |-> o]
    /\ fine /\ UNCHANGED <<control, disk, st, turn, native, mgr, ghosts>>

heads == guard /\ turn.live /\ control = "queued" /\ Len(nodes) + 1 = attempts[st.reserved].node
commitHeads ==
    /\ tool.pc = "heads"
    /\ IF heads /\ ready /\ attempts[st.reserved].native \in {"none", "observed"}
       THEN tool' = [tool EXCEPT !.pc = "prepare"] /\ turn' = [turn EXCEPT !.commitStarted = TRUE]
       ELSE tool' = NoTool /\ turn' = [turn EXCEPT !.commitStarted = heads]
    /\ fine /\ UNCHANGED <<control, disk, st, native, mgr, ghosts>>

prepare ==
    /\ tool.pc = "prepare"
    /\ \/ written(with([last EXCEPT !.prepared = tool.output])) /\ UNCHANGED st
          /\ tool' = [tool EXCEPT !.pc = "reheads"]
       \/ failed(with([last EXCEPT !.prepared = tool.output])) /\ st' = [st EXCEPT !.tail = TRUE] /\ tool' = NoTool
    /\ UNCHANGED <<control, turn, native, mgr, ghosts>>

commitReheads ==
    /\ tool.pc = "reheads"
    /\ tool' = IF heads /\ ready THEN [tool EXCEPT !.pc = "append"] ELSE NoTool
    /\ fine /\ UNCHANGED <<control, disk, st, turn, native, mgr, ghosts>>

\* The node is appended at the exact head, unless it is there already.
appendNode ==
    /\ IF Len(nodes) >= last.node THEN UNCHANGED nodes
       ELSE nodes' = Append(nodes, [plan |-> last.plan, output |-> last.prepared])
    /\ UNCHANGED <<attempts, torn, disposition>>
verifyNode == nodes[last.node].plan = last.plan /\ nodes[last.node].output = last.prepared
appendFailed ==
    /\ fault /\ UNCHANGED <<attempts, disposition>>
    /\ \/ UNCHANGED <<nodes, torn>>
       \/ UNCHANGED nodes /\ torn' = torn \cup {"analysis"}
       \/ Len(nodes) < last.node /\ nodes' = Append(nodes, [plan |-> last.plan, output |-> last.prepared])
          /\ UNCHANGED torn
committedRecord == with([last EXCEPT !.committed = TRUE])

commitPrepared ==
    /\ tool.pc = "append"
    /\ \/ fine /\ appendNode /\ tool' = [tool EXCEPT !.pc = "node"]
       \/ appendFailed /\ tool' = NoTool
    /\ UNCHANGED <<control, st, turn, native, mgr, ghosts>>

commitRecord ==
    /\ tool.pc = "node" /\ tool' = NoTool
    /\ \/ verifyNode /\ written(committedRecord) /\ UNCHANGED st
       \/ verifyNode /\ failed(committedRecord) /\ st' = [st EXCEPT !.tail = TRUE]
       \/ ~verifyNode /\ UNCHANGED disk /\ fine /\ UNCHANGED st
    /\ UNCHANGED <<control, turn, native, mgr, ghosts>>

\* The turn is over: completed, not admitted at all, or broken at any moment.
endTurn(outcome) ==
    /\ st.pc = "turning" /\ host.state = "busy"
    /\ st' = [st EXCEPT !.pc = "outcome", !.outcome = outcome]
    /\ host' = [host EXCEPT !.state = "ended"]
    /\ UNCHANGED <<control, disk, tool, turn, settled, mgr, ghosts>>
Completed == guard /\ tool.pc = "none" /\ fine /\ endTurn("observed")
NotAdmitted == turn.shown = "none" /\ tool.pc = "none" /\ fault /\ endTurn("refused")
Broken == fault /\ endTurn("unknown")
\* The signal of the call aborts the owner, which ends the turn.
Aborted == ~guard /\ fine /\ endTurn("unknown")

------------------------------------------------------------------------------
(* After the turn. *)

outcomeSaved(outcome) == with([last EXCEPT !.native = outcome])
recordModelOutcome ==
    /\ st.pc = "outcome"
    /\ \/ ready /\ written(outcomeSaved(st.outcome)) /\ goto("control")
       \/ ready /\ failed(outcomeSaved(st.outcome)) /\ throwTail
       \/ ~ready /\ UNCHANGED disk /\ fine /\ throw
    /\ UNCHANGED <<control, tool, turn, native, mgr, ghosts>>

afterControl ==
    /\ st.pc = "control"
    /\ goto(IF st.outcome = "observed" /\ queued THEN "release" ELSE "finish")
    /\ fine /\ UNCHANGED <<control, disk, tool, turn, native, mgr, ghosts>>

releaseAnalysis ==
    /\ st.pc = "release"
    /\ \/ fine /\ st' = [st EXCEPT !.pc = "finish", !.release = TRUE]
       \/ fault /\ goto("finish")
    /\ UNCHANGED <<control, disk, tool, turn, native, mgr, ghosts>>

\* finish() stops the turn's tools and joins the call that is still running.
toolJoined == tool.pc = "none"
finish ==
    /\ st.pc = "finish" /\ toolJoined
    /\ turn' = NoTurn /\ goto("cleanup")
    /\ fine /\ UNCHANGED <<control, disk, tool, native, mgr, ghosts>>

\* An error after the reservation and before the turn.
recordUnknown ==
    /\ st.pc = "unknown"
    /\ \/ ready /\ written(outcomeSaved("unknown")) /\ goto("cleanup")
       \/ ready /\ failed(outcomeSaved("unknown")) /\ st' = [st EXCEPT !.tail = TRUE, !.pc = "cleanup"]
       \/ ~ready /\ UNCHANGED disk /\ fine /\ goto("cleanup")
    /\ UNCHANGED <<control, tool, turn, native, mgr, ghosts>>

\* The finally block: the runtime is finished, the owner aborted and joined unless it was
\* released, the lease closed; a step that cannot be used again is closed by the runner.
cleanup ==
    /\ st.pc = "cleanup" /\ toolJoined
    /\ turn' = NoTurn
    /\ st' = IF st.stale THEN [NoStep EXCEPT !.pc = "stale", !.abort = st.abort] ELSE NoStep
    /\ \/ /\ st.release /\ guard /\ fine
          /\ host' = [host EXCEPT !.state = "free"] /\ UNCHANGED settled
       \/ /\ ~(st.release /\ guard) /\ fine
          /\ host' = [host EXCEPT !.state = "none"] /\ settled' = settled \cup {host.epoch}
       \/ /\ fault /\ host' = [host EXCEPT !.state = "none"] /\ UNCHANGED settled    \* not joined
    /\ UNCHANGED <<control, disk, tool, mgr, ghosts>>

\* The runner records a stale head as a blockage of the task, unless it was revoked.
recordStale ==
    /\ st.pc = "stale" /\ st' = NoStep
    /\ \/ fine /\ disposition' = IF guard THEN "stale" ELSE disposition
       \/ fault /\ UNCHANGED disposition
    /\ UNCHANGED <<control, nodes, attempts, torn, tool, turn, native, mgr, ghosts>>

------------------------------------------------------------------------------
(* StandingHistoryAnalysisStep.recoverPrepared: no model turn. *)

recoverPrepared ==
    /\ st.pc = "recover"
    /\ IF last.native # "refused" /\ verifiedSettlement /\ queued THEN goto("recoverOutcome") ELSE throwChecked
    /\ fine /\ UNCHANGED <<control, disk, tool, turn, native, mgr, ghosts>>

recoverOutcome ==
    /\ st.pc = "recoverOutcome"
    /\ \/ last.native # "none" /\ UNCHANGED disk /\ fine /\ IF queued THEN goto("recoverCommit") ELSE throwChecked
       \/ last.native = "none" /\ written(outcomeSaved("unknown")) /\ IF queued THEN goto("recoverCommit") ELSE throwChecked
       \/ last.native = "none" /\ failed(outcomeSaved("unknown")) /\ throwTail
    /\ UNCHANGED <<control, tool, turn, native, mgr, ghosts>>

recoverCommit ==
    /\ st.pc = "recoverCommit"
    /\ \/ fine /\ appendNode /\ goto("recoverNode")
       \/ appendFailed /\ throw
    /\ UNCHANGED <<control, tool, turn, native, mgr, ghosts>>

recoverNode ==
    /\ st.pc = "recoverNode"
    /\ \/ verifyNode /\ written(committedRecord) /\ st' = NoStep
       \/ verifyNode /\ failed(committedRecord) /\ st' = NoStep
       \/ ~verifyNode /\ UNCHANGED disk /\ fine /\ st' = NoStep
    /\ UNCHANGED <<control, tool, turn, native, mgr, ghosts>>

------------------------------------------------------------------------------
(* The manager, the native host and the process. *)

Cancel ==
    /\ mgr = "idle" /\ control = "queued" /\ control' = "cancelled" /\ mgr' = "revoke"
    /\ fine /\ UNCHANGED <<disk, st, tool, turn, native, ghosts>>
revoke ==
    /\ mgr = "revoke" /\ mgr' = "join"
    /\ st' = [st EXCEPT !.abort = st.pc # "idle"]
    /\ fine /\ UNCHANGED <<control, disk, tool, turn, native, ghosts>>
revokeJoined ==
    /\ mgr = "join" /\ st.pc = "idle" /\ mgr' = "answered"
    /\ fine /\ UNCHANGED <<control, disk, st, tool, turn, native, ghosts>>

\* A released owner is replaced when its epoch is full or the service closes the connection,
\* as it does after an error of a quantum; the owner of a stopped process is settled later.
RotateEpoch ==
    /\ host.state = "free" /\ host' = [host EXCEPT !.state = "none"] /\ settled' = settled \cup {host.epoch}
    /\ fine /\ UNCHANGED <<control, disk, st, tool, turn, mgr, ghosts>>
SettleOrphan ==
    /\ some /\ last.epoch \notin settled /\ (host.state = "none" \/ host.epoch # last.epoch)
    /\ settled' = settled \cup {last.epoch}
    /\ fine /\ UNCHANGED <<control, disk, st, tool, turn, host, mgr, ghosts>>

\* The process stops; it starts again with a new connection.
Stop ==
    /\ fault /\ st' = NoStep /\ tool' = NoTool /\ turn' = NoTurn
    /\ host' = [host EXCEPT !.state = "none"] /\ mgr' = IF mgr = "idle" THEN "idle" ELSE "answered"
    /\ UNCHANGED <<control, disk, settled, ghosts>>

Runner == Inspect \/ blockConsumed \/ recordStale
NextStep == planNext \/ Acquire \/ CheckOwner \/ reserve \/ reserveSuccessor \/ SettlePredecessor \/ ReserveSettled
            \/ begin \/ turnAnalysis \/ recordModelOutcome \/ afterControl \/ releaseAnalysis \/ finish
            \/ recordUnknown \/ cleanup
Recovery == recoverPrepared \/ recoverOutcome \/ recoverCommit \/ recoverNode
Tools == callMaterial \/ onToolResultSent \/ callCommit \/ commitHeads \/ prepare \/ commitReheads
         \/ commitPrepared \/ commitRecord
TurnEnds == Completed \/ NotAdmitted \/ Broken \/ Aborted
Manager == Cancel \/ revoke \/ revokeJoined
Host == RotateEpoch \/ SettleOrphan

Next == Runner \/ NextStep \/ Recovery \/ Tools \/ TurnEnds \/ Manager \/ Host \/ Stop
Spec == Init /\ [][Next]_vars

------------------------------------------------------------------------------
(* Properties. *)

\* No node has outputs of two attempts: once an output is prepared no other attempt is made for
\* its node, and the node that is appended, in the turn or by a recovery, is exactly that output
\* with the plan of its reservation.
OneOutputPerNode ==
    /\ \A i, j \in DOMAIN attempts :
           attempts[i].node = attempts[j].node /\ attempts[i].prepared # "none" => j <= i
    /\ \A k \in DOMAIN nodes :
           \E i \in DOMAIN attempts : /\ attempts[i].node = k /\ attempts[i].prepared = nodes[k].output
                                      /\ attempts[i].plan = nodes[k].plan

\* For each node one output is accepted, and the nodes are the accepted outputs in their order,
\* whatever is torn, stops or is recovered.
acceptedOutputs ==
    [k \in 1..Nodes |-> {attempts[i].prepared : i \in {j \in DOMAIN attempts : attempts[j].node = k}} \ {"none"}]
publishedOutputs == [k \in DOMAIN nodes |-> nodes[k].output]
Publication == INSTANCE OrderedPublication WITH
    Leaves <- Nodes, accepted <- acceptedOutputs, published <- publishedOutputs
PublicationStart == Publication!Init
PublicationStep == [Publication!Next]_(Publication!vars)

\* The model is asked at most MaxNoOutput times for a node, however often the process stops, and
\* never twice for one reservation.
BoundedTurns ==
    /\ \A i \in DOMAIN turns : turns[i] <= 1
    /\ \A k \in 1..Nodes :
           Cardinality({i \in DOMAIN attempts : attempts[i].node = k /\ turns[i] > 0}) <= MaxNoOutput

\* While a turn runs, every earlier attempt that did not end observed with its node has a settled
\* owner: two turns of the task never work at the same time.
PredecessorsSettled ==
    host.state = "busy" =>
        \A i \in 1..(Len(attempts) - 1) :
            (attempts[i].native = "observed" /\ attempts[i].committed) \/ attempts[i].epoch \in settled

\* A prepared output was handed in by a model that had been sent the material.
PreparedFromMaterial == \A i \in DOMAIN attempts : attempts[i].prepared # "none" => i \in seen

\* The journal opens again after any stop: every continuation quotes its predecessor as it is
\* stored now, with the same plan and another epoch, and follows fewer than MaxNoOutput attempts.
JournalReopens ==
    \A i \in DOMAIN attempts :
        /\ attempts[i].committed => attempts[i].prepared # "none"
        /\ attempts[i].original # "new" =>
               /\ attempts[i - 1].node = attempts[i].node
               /\ attempts[i - 1].native = attempts[i].original /\ attempts[i - 1].prepared = "none"
               /\ attempts[i - 1].plan = attempts[i].plan /\ attempts[i - 1].epoch # attempts[i].epoch
        /\ (attempts[i].original = "new" /\ i > 1) => attempts[i - 1].committed

\* The runner never gives up a task whose last attempt holds an output.
BlockedHasNoOutput == disposition = "consumed-without-prepared" => last.prepared = "none"

\* Once a cancellation is answered nothing more is written for the task.
QuietAfterCancel == mgr = "answered" => UNCHANGED disk

stuck == control = "cancelled" \/ torn # {} \/ disposition # "none" \/ st.skipped
\* Every task is analysed in the end, or it is cancelled, damaged or recorded as blocked.
AnalysisEnded == stuck \/ (Len(nodes) = Nodes /\ some /\ last.committed /\ last.native # "none")
==============================================================================
