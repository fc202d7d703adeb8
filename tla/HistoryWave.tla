---------------------------- MODULE HistoryWave ----------------------------
(***************************************************************************)
(* The parallel waves of a history analysis.  Up to Width leaves are       *)
(* reserved in one event of the work journal, each is given a turn of its  *)
(* own under one native owner, the turns prepare their outputs through a   *)
(* tool call, and when all have one the outputs are projected, in order,   *)
(* as nodes of the analysis.  A work without an output gets a successor    *)
(* under a new epoch, a few times and only when the owner of the turn      *)
(* before it is proved settled; an output is never asked for again.        *)
(*                                                                         *)
(* HistoryAnalysis has the serial turns of the same step, and the reading  *)
(* of the material inside a turn, which here has been shown.  A single     *)
(* leaf left over is a serial turn, so Width divides Leaves.               *)
(***************************************************************************)
EXTENDS Integers, Sequences, FiniteSets, FiniteSetsExt

CONSTANTS Leaves,        \* leaves of the saved source
          Width,         \* leaves of a wave, up to 8 in the code
          MaxNoOutput,   \* attempts of a work without an output, 3 in the code
          MaxEpochs,     \* bound on the epochs of native owners
          MaxFaults      \* bound on failed writes and calls, timeouts and stops

WaveAssumption ==
    {Leaves, Width, MaxNoOutput, MaxEpochs} \subseteq Nat \ {0} /\ MaxFaults \in Nat /\ Leaves % Width = 0

VARIABLES
    tree,       \* the analysis store: the output of every leaf node
    works,      \* the wave of the journal, <<>> before the first
    nodeCount,  \* the nodes before the wave
    tail,       \* the stores: "ready", "refused" after an uncertain write, "torn" for good
    control,    \* the control slot: "queued" or "cancelled"
    step,       \* the call of the analysis step
    lane,       \* lane[o]: the turn of ordinal o, as the step sees it
    fresh,      \* ordinals this handle of the journal has reserved and not prepared
    released,   \* works whose release the connection acknowledged
    owner,      \* the native owner of every epoch
    running,    \* native turns: leaf and epoch
    accepted,   \* outputs ever durable for a leaf
    late,       \* nodes appended after the cancellation
    turns,      \* turns started for a leaf
    faults

vars == <<tree, works, nodeCount, tail, control, step, lane, fresh, released, owner, running, accepted, late, turns, faults>>
disk == <<tree, works, nodeCount, tail>>
native == <<owner, running, turns>>
ghosts == <<accepted, late>>

Epochs == 1..MaxEpochs
Ordinals == 1..Width
Outputs == (1..Leaves) \X Epochs     \* the leaf and the epoch of its turn
Outcomes == {"none", "observed", "refused", "unknown"}
NoLane == [pc |-> "none", commit |-> "none", outcome |-> "none", released |-> FALSE]
NoStep == [pc |-> "idle", epoch |-> 0, retry |-> 0, abort |-> FALSE, broken |-> FALSE, warm |-> FALSE]
Work == [out : 0..MaxEpochs, outcome : Outcomes, prior : 0..(MaxNoOutput - 1), epoch : Epochs,
         past : SUBSET Epochs, proj : BOOLEAN, node : BOOLEAN]
Stops == {"idle", "acquire", "settle", "reserve", "turns", "join", "project", "outcome", "select", "verify",
          "intent", "append", "appending", "node", "cleanup", "consumed", "blocked"}

TypeOK ==
    /\ tree \in Seq(Outputs) /\ Len(tree) <= Leaves
    /\ works \in Seq(Work) /\ Len(works) \in {0, Width} /\ nodeCount \in 0..Leaves
    /\ tail \in {"ready", "refused", "torn"} /\ control \in {"queued", "cancelled"}
    /\ step.pc \in Stops /\ step.epoch \in 0..MaxEpochs /\ step.retry \in 0..Width
    /\ {step.abort, step.broken, step.warm} \subseteq BOOLEAN
    /\ \A o \in Ordinals : /\ lane[o].pc \in {"none", "begin", "turn", "finish", "record", "release", "done"}
                           /\ lane[o].commit \in {"none", "started", "ended"}
                           /\ lane[o].outcome \in Outcomes /\ lane[o].released \in BOOLEAN
    /\ fresh \subseteq Ordinals /\ released \subseteq (1..Leaves) \X Epochs
    /\ owner \in [Epochs -> {"none", "live", "settled"}] /\ running \subseteq (1..Leaves) \X Epochs
    /\ accepted \in [1..Leaves -> SUBSET Outputs] /\ late \in Nat /\ turns \in [1..Leaves -> Nat]
    /\ faults \in 0..MaxFaults

Init ==
    /\ tree = <<>> /\ works = <<>> /\ nodeCount = 0 /\ tail = "ready" /\ control = "queued"
    /\ step = NoStep /\ lane = [o \in Ordinals |-> NoLane] /\ fresh = {} /\ released = {}
    /\ owner = [e \in Epochs |-> "none"] /\ running = {}
    /\ accepted = [l \in 1..Leaves |-> {}] /\ late = 0 /\ turns = [l \in 1..Leaves |-> 0] /\ faults = 0

fault == faults < MaxFaults /\ faults' = faults + 1
fine == UNCHANGED faults
goto(pc) == step' = [step EXCEPT !.pc = pc]
throws == step' = [step EXCEPT !.pc = "cleanup", !.abort = TRUE]

------------------------------------------------------------------------------
(* The journal and the tree. *)

unprojected == {o \in DOMAIN works : ~works[o].node}
leafOf(o) == nodeCount + o

\* The current attempt is counted before its outcome is known.
countsEnded(w) == w.prior + (IF w.outcome = "none" THEN 0 ELSE 1)
successorDebit(w) == w.prior + 1
noOutputCount(w) == IF w.out # 0 THEN 0 ELSE successorDebit(w)
missing == {o \in DOMAIN works : works[o].out = 0}
retryable(w) == ~w.proj /\ ~w.node /\ noOutputCount(w) < MaxNoOutput

\* An append is written and read back; when it fails the handle refuses until it is opened again.
append(new) == tail = "ready" /\ fine /\ works' = new /\ UNCHANGED tail
appendFails(new) ==
    \/ tail # "ready" /\ fine /\ UNCHANGED <<works, tail>>
    \/ /\ tail = "ready" /\ fault
       /\ \/ works' \in {works, new} /\ tail' = "refused"
          \/ UNCHANGED works /\ tail' = "torn"

newWork(e) == [out |-> 0, outcome |-> "none", prior |-> 0, epoch |-> e, past |-> {}, proj |-> FALSE, node |-> FALSE]
successor(w, e) == [w EXCEPT !.outcome = "none", !.prior = successorDebit(w), !.epoch = e, !.past = @ \cup {w.epoch}]

------------------------------------------------------------------------------
(* A call of the step: what to do next. *)

leafWave == unprojected = {} /\ Len(tree) < Leaves
retries == missing # {} /\ \A o \in missing : retryable(works[o])
next ==
    /\ step.pc = "idle" /\ control = "queued" /\ tail = "ready"
    /\ \/ leafWave /\ goto("acquire")
       \/ unprojected # {} /\ retries /\ step' = [step EXCEPT !.pc = "acquire", !.retry = Min(missing)]
       \/ unprojected # {} /\ ~retries /\ goto("project")
    /\ fine /\ UNCHANGED <<disk, control, lane, fresh, released, native, ghosts>>

\* The connection hands out the live owner or starts one; a retry asks for a new epoch.
acquire ==
    /\ step.pc = "acquire"
    /\ \/ /\ fine
          /\ \E e \in Epochs :
                 /\ \/ owner[e] = "live" /\ step.retry = 0 /\ \A t \in running : t[2] # e
                    \/ owner[e] = "none" /\ (e > 1 => owner[e - 1] # "none")
                 /\ owner' = [owner EXCEPT ![e] = "live"]
                 /\ step' = [step EXCEPT !.epoch = e, !.abort = control # "queued",
                                         !.pc = IF control # "queued" THEN "cleanup"
                                                ELSE IF step.retry = 0 THEN "reserve" ELSE "settle"]
       \/ fault /\ goto("consumed") /\ UNCHANGED owner
    /\ UNCHANGED <<disk, control, lane, fresh, released, running, turns, ghosts>>

\* A successor waits for the proof that the owner of the attempt before it is settled.
proved(e) == owner[e] = "settled"
settle ==
    /\ step.pc = "settle"
    /\ \/ fine /\ proved(works[step.retry].epoch) /\ IF control = "queued" THEN goto("reserve") ELSE throws
       \/ fault /\ throws
    /\ UNCHANGED <<disk, control, lane, fresh, released, native, ghosts>>

begins(o) == step.retry \in {0, o}
startLanes == /\ lane' = [o \in Ordinals |-> IF begins(o) THEN [NoLane EXCEPT !.pc = "begin"] ELSE NoLane]
              /\ fresh' = fresh \cup {o \in Ordinals : begins(o)}

\* All reservations of a wave are one event, before the first native turn.
reserve ==
    /\ step.pc = "reserve"
    /\ LET new == IF step.retry = 0 THEN [o \in Ordinals |-> newWork(step.epoch)]
                  ELSE [works EXCEPT ![step.retry] = successor(@, step.epoch)]
       IN \/ append(new) /\ goto("turns") /\ startLanes
          \/ appendFails(new) /\ throws /\ UNCHANGED <<lane, fresh>>
    /\ nodeCount' = IF step.retry = 0 /\ works' # works THEN Len(tree) ELSE nodeCount
    /\ UNCHANGED <<tree, control, released, native, ghosts>>

------------------------------------------------------------------------------
(* The turns, one lane each. *)

here(o, pc) == step.pc = "turns" /\ lane[o].pc = pc
to(o, pc) == lane' = [lane EXCEPT ![o].pc = pc]
ends(o, outcome) == lane' = [lane EXCEPT ![o].pc = "finish", ![o].outcome = outcome]
native_turn(o) == <<leafOf(o), step.epoch>>
abortGroup == step' = [step EXCEPT !.abort = TRUE]

begin(o) ==
    /\ here(o, "begin")
    /\ \/ /\ fine /\ ~step.abort /\ control = "queued" /\ to(o, "turn") /\ running' = running \cup {native_turn(o)}
          /\ turns' = [turns EXCEPT ![leafOf(o)] = @ + 1] /\ UNCHANGED step
       \/ /\ step.abort \/ control # "queued"
          /\ fine /\ (ends(o, "refused") \/ ends(o, "unknown")) /\ abortGroup /\ UNCHANGED <<running, turns>>
       \/ /\ ~step.abort /\ control = "queued"
          /\ fault /\ ends(o, "refused") /\ abortGroup /\ UNCHANGED <<running, turns>>
    /\ UNCHANGED <<disk, control, fresh, released, owner, ghosts>>

\* The model commits its output; after the last look at the heads nothing stops the write.
commit(o) ==
    /\ here(o, "turn") /\ native_turn(o) \in running /\ lane[o].commit = "none" /\ ~step.abort /\ control = "queued"
    /\ o \in fresh /\ lane' = [lane EXCEPT ![o].commit = "started"]
    /\ fine /\ UNCHANGED <<disk, control, step, fresh, released, native, ghosts>>

prepare(o) ==
    /\ step.pc = "turns" /\ lane[o].commit = "started" /\ lane' = [lane EXCEPT ![o].commit = "ended"]
    /\ LET new == [works EXCEPT ![o].out = works[o].epoch]
       IN \/ append(new) /\ accepted' = [accepted EXCEPT ![leafOf(o)] = @ \cup {native_turn(o)}] /\ fresh' = fresh \ {o}
          \/ /\ appendFails(new) /\ UNCHANGED fresh
             /\ accepted' = [accepted EXCEPT ![leafOf(o)] = @ \cup (IF works' = new THEN {native_turn(o)} ELSE {})]
    /\ UNCHANGED <<tree, nodeCount, control, step, released, native, late>>

\* A turn ends by itself, is aborted, or its answer is lost while it goes on.
turnEnds(o) ==
    /\ here(o, "turn")
    /\ \/ fine /\ lane[o].commit # "started" /\ running' = running \ {native_turn(o)} /\ ends(o, "observed") /\ UNCHANGED step
       \/ fine /\ step.abort /\ ends(o, "unknown") /\ UNCHANGED <<running, step>>
       \/ fault /\ ~step.abort /\ ends(o, "unknown") /\ abortGroup /\ UNCHANGED running
    /\ UNCHANGED <<disk, control, fresh, released, owner, turns, ghosts>>

\* The running tool call is joined before the outcome is written.
finish(o) ==
    /\ here(o, "finish") /\ lane[o].commit # "started" /\ to(o, "record")
    /\ fine /\ UNCHANGED <<disk, control, step, fresh, released, native, ghosts>>

recordModelOutcome(o) ==
    /\ here(o, "record")
    /\ LET new == [works EXCEPT ![o].outcome = lane[o].outcome]
       IN \/ /\ append(new) /\ UNCHANGED step
             /\ to(o, IF lane[o].outcome = "observed" /\ ~step.abort THEN "release" ELSE "done")
          \/ appendFails(new) /\ to(o, "done") /\ step' = [step EXCEPT !.broken = TRUE]
    /\ UNCHANGED <<tree, nodeCount, control, fresh, released, native, ghosts>>

releaseAnalysis(o) ==
    /\ here(o, "release")
    /\ \/ /\ fine /\ lane' = [lane EXCEPT ![o].pc = "done", ![o].released = TRUE]
          /\ released' = released \cup {native_turn(o)} /\ UNCHANGED step
       \/ fault /\ to(o, "done") /\ abortGroup /\ UNCHANGED released
    /\ UNCHANGED <<disk, control, fresh, native, ghosts>>

\* When every lane has ended, a cancellation or a missing release aborts the group.
settled ==
    /\ step.pc = "turns" /\ \A o \in Ordinals : begins(o) => lane[o].pc = "done"
    /\ LET cancelled == control # "queued"
           unreleased == \E o \in Ordinals : begins(o) /\ ~lane[o].released
       IN step' = [step EXCEPT !.abort = @ \/ cancelled \/ unreleased \/ step.broken,
                               !.pc = IF step.broken \/ cancelled THEN "cleanup" ELSE "join"]
    /\ fine /\ UNCHANGED <<disk, control, lane, fresh, released, native, ghosts>>

\* An aborted group is joined: its turns have ended and its owner is settled.
joined == /\ owner' = [owner EXCEPT ![step.epoch] = "settled"]
          /\ running' = {t \in running : t[2] # step.epoch}
join ==
    /\ step.pc = "join"
    /\ \/ fine /\ ~step.abort /\ step' = [step EXCEPT !.pc = "project", !.warm = TRUE] /\ UNCHANGED <<owner, running>>
       \/ fine /\ step.abort /\ joined /\ goto("project")
       \/ fault /\ goto("consumed") /\ UNCHANGED <<owner, running>>
    /\ UNCHANGED <<disk, control, lane, fresh, released, turns, ghosts>>

------------------------------------------------------------------------------
(* The projection. *)

\* Without all outputs there is nothing to project; when nothing may be retried either the task is blocked.
refusals == {o \in DOMAIN works : works[o].outcome = "refused"}
projectParallel ==
    /\ step.pc = "project"
    /\ goto(IF missing \cup refusals = {} THEN "outcome" ELSE IF step.epoch = 0 THEN "blocked" ELSE "consumed")
    /\ fine /\ UNCHANGED <<disk, control, lane, fresh, released, native, ghosts>>

withoutOutcome == {o \in DOMAIN works : works[o].outcome = "none"}

\* An outcome lost with the process stays unknown; its output may be used once the owner is settled.
recoverOutcome ==
    /\ withoutOutcome # {}
    /\ LET o == Min(withoutOutcome)
           new == [works EXCEPT ![o].outcome = "unknown"]
       IN \/ proved(works[o].epoch) /\ append(new) /\ UNCHANGED step
          \/ proved(works[o].epoch) /\ appendFails(new) /\ goto("consumed")
          \/ fault /\ goto("consumed") /\ UNCHANGED <<works, tail>>
outcomes ==
    /\ step.pc = "outcome"
    /\ \/ recoverOutcome
       \/ withoutOutcome = {} /\ fine /\ goto("select") /\ UNCHANGED <<works, tail>>
    /\ UNCHANGED <<tree, nodeCount, control, lane, fresh, released, native, ghosts>>

\* Between two works the control slot is read again.
queued == control = "queued"
select ==
    /\ step.pc = "select"
    /\ IF ~queued THEN goto("consumed")
       ELSE IF unprojected = {} THEN step' = NoStep ELSE goto("verify")
    /\ fine /\ UNCHANGED <<disk, control, lane, fresh, released, native, ghosts>>

current == Min(unprojected)
useWarm == step.warm /\ begins(current)
verified == IF useWarm THEN <<leafOf(current), works[current].epoch>> \in released ELSE proved(works[current].epoch)
verify ==
    /\ step.pc = "verify"
    /\ \/ fine /\ verified /\ goto(IF works[current].proj THEN "append" ELSE "intent")
       \/ fault /\ goto("consumed")
    /\ UNCHANGED <<disk, control, lane, fresh, released, native, ghosts>>

\* The intent is durable before the node is, so that an uncertain node is found by its index.
intent ==
    /\ step.pc = "intent"
    /\ LET new == [works EXCEPT ![current].proj = TRUE]
       IN \/ append(new) /\ goto("append")
          \/ appendFails(new) /\ goto("consumed")
    /\ UNCHANGED <<tree, nodeCount, control, lane, fresh, released, native, ghosts>>

isNew == Len(tree) < leafOf(current)
output == <<leafOf(current), works[current].out>>
\* The step looks at the control slot once more and then writes; a cancellation may fall in between.
admitLeaf ==
    /\ step.pc = "append" /\ goto(IF ~isNew THEN "node" ELSE IF queued THEN "appending" ELSE "consumed")
    /\ fine /\ UNCHANGED <<disk, control, lane, fresh, released, native, ghosts>>

appendLeaf ==
    /\ step.pc = "appending"
    /\ LET new == Append(tree, output)
           counted == late' = late + (IF control = "cancelled" /\ tree' = new THEN 1 ELSE 0)
       IN \/ control = "cancelled" /\ fine /\ goto("consumed") /\ UNCHANGED <<tree, tail, late>>
          \/ fine /\ tree' = new /\ goto("node") /\ counted /\ UNCHANGED tail
          \/ /\ fault /\ goto("consumed")
             /\ \/ tree' \in {tree, new} /\ tail' = "refused"
                \/ UNCHANGED tree /\ tail' = "torn"
             /\ counted
    /\ UNCHANGED <<works, nodeCount, control, lane, fresh, released, native, accepted>>

node ==
    /\ step.pc = "node"
    /\ LET new == [works EXCEPT ![current].node = TRUE]
       IN \/ tree[leafOf(current)] = output /\ append(new) /\ goto("select")
          \/ tree[leafOf(current)] # output /\ fine /\ goto("consumed") /\ UNCHANGED <<works, tail>>
          \/ appendFails(new) /\ goto("consumed")
    /\ UNCHANGED <<tree, nodeCount, control, lane, fresh, released, native, ghosts>>

------------------------------------------------------------------------------
(* The end of a call, cancellation and the end of the process. *)

cleanup ==
    /\ step.pc = "cleanup" /\ goto("consumed")
    /\ \/ fine /\ joined
       \/ fault /\ UNCHANGED <<owner, running>>
    /\ UNCHANGED <<disk, control, lane, fresh, released, turns, ghosts>>

forgotten == step' = NoStep /\ lane' = [o \in Ordinals |-> NoLane] /\ fresh' = {}
opened == tail' = IF tail = "torn" THEN tail ELSE "ready"

\* A consumed step is closed with its stores and opened again.
reopen ==
    /\ step.pc = "consumed" /\ forgotten /\ opened
    /\ fine /\ UNCHANGED <<tree, works, nodeCount, control, released, native, ghosts>>

cancel == /\ control = "queued" /\ control' = "cancelled"
          /\ fine /\ UNCHANGED <<disk, step, lane, fresh, released, native, ghosts>>

crash == /\ fault /\ forgotten /\ opened /\ released' = {}
         /\ UNCHANGED <<tree, works, nodeCount, control, native, ghosts>>

\* An owner that no group holds is ended by the connection, with its turns.
held(e) == step.epoch = e /\ step.pc \in {"settle", "reserve", "turns", "join", "cleanup"}
SettleOrphan(e) ==
    /\ owner[e] = "live" /\ ~held(e) /\ owner' = [owner EXCEPT ![e] = "settled"]
    /\ running' = {t \in running : t[2] # e}
    /\ fine /\ UNCHANGED <<disk, control, step, lane, fresh, released, turns, ghosts>>

Lane(o) == begin(o) \/ prepare(o) \/ turnEnds(o) \/ finish(o) \/ recordModelOutcome(o) \/ releaseAnalysis(o)
Step == next \/ acquire \/ settle \/ reserve \/ settled \/ join \/ projectParallel \/ outcomes \/ select
        \/ verify \/ intent \/ admitLeaf \/ appendLeaf \/ node \/ cleanup \/ reopen
Next == Step \/ (\E o \in Ordinals : Lane(o) \/ commit(o)) \/ cancel \/ crash \/ \E e \in Epochs : SettleOrphan(e)
Spec == Init /\ [][Next]_vars

------------------------------------------------------------------------------
(* Properties. *)

\* For each leaf one output is accepted, whatever fails and however often the leaf is attempted, and
\* the nodes of the analysis are the accepted outputs in the order of the leaves.
Publication == INSTANCE OrderedPublication WITH published <- tree
PublicationStart == Publication!Init
PublicationStep == [Publication!Next]_(Publication!vars)

\* No two native turns for a leaf ever run side by side, in this process or one before it.
OneTurnPerLeaf == \A t, u \in running : t[1] = u[1] => t = u

\* A leaf costs at most MaxNoOutput turns.
SpendBound == \A l \in 1..Leaves : turns[l] <= MaxNoOutput

\* When the node of a leaf is published no turn for it is running, so nothing can come after it.
QuietWhenPublished == \A t \in running : t[1] > Len(tree)

\* After a cancellation no more than the node being appended is published.
CancelStops == late <= 1

\* Every leaf is published in the end, unless the task is cancelled or blocked, a store is torn or
\* the bound on epochs is reached.
WavesEnded == Len(tree) = Leaves \/ control = "cancelled" \/ step.pc = "blocked" \/ tail = "torn"
              \/ owner[MaxEpochs] # "none"
=============================================================================
