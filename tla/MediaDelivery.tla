--------------------------- MODULE MediaDelivery ---------------------------
(***************************************************************************)
(* Replies, generated images and files the standing Telegram service sends *)
(* into the group.  Every send owns an attempt: a directory created        *)
(* exclusively, with one file each for the plan, the sending mark and the  *)
(* terminal.  An image is keyed by the message answered, a file by the     *)
(* message and the number of the operation; a text gets a fresh directory  *)
(* in every turn (StandingService shows that its message is answered once).*)
(* The raw request runs as a promise of its own, which outlives an abort   *)
(* of the call that waits.                                                 *)
(*                                                                         *)
(* Calls are interleaved at their awaits; a crash loses the memory and     *)
(* leaves the file being written absent, torn or whole.                    *)
(***************************************************************************)
EXTENDS Naturals, FiniteSets

CONSTANTS Messages,     \* group messages that are answered
          Kinds,        \* what is sent: "text", "image", "file"
          FileSlots,    \* file operations of one turn (32 in the code)
          MaxCrashes,   \* bound on crashes
          MaxTurns,     \* bound on turns begun
          NoMessage

KindsAssumption == Kinds \subseteq {"text", "image", "file"}
SlotsAssumption == FileSlots \in Nat \ {0} /\ MaxTurns \in Nat /\ MaxCrashes \in Nat

Attempts == [message : Messages, kind : Kinds \cap {"image"}, slot : {0}]
            \cup [message : Messages, kind : Kinds \cap {"text"}, slot : 0..(MaxTurns - 1)]
            \cup [message : Messages, kind : Kinds \cap {"file"}, slot : 0..(FileSlots - 1)]

VARIABLES
    disk,       \* disk[a]: the attempt's directory and its three files
    pc,         \* pc[a]: where the call that delivers a is suspended
    intent,     \* intent[a]: the terminal its call is writing
    raw,        \* raw[a]: the transport's own promise and the stage it is in
    wire,       \* wire[a]: external: what Telegram was asked and did
    turn,       \* [message, phase, slots]: the current selection
    aborted,    \* abort signals: "no", the "turn"'s or the "host"'s
    killed,     \* the kill switch
    active,     \* the selection is still the adapter's active one
    blocked,    \* standing-artifact-runtime: an outcome is uncertain
    crashes, turns

vars == <<disk, pc, intent, raw, wire, turn, aborted, killed, active, blocked, crashes, turns>>

Terminals == {"verified", "unknown", "failed_terminal"}
Files == {"none", "torn", "whole"}
Absent == [dir |-> FALSE, plan |-> "none", sending |-> "none", terminal |-> "none"]
NoTurn == [message |-> NoMessage, phase |-> "none", slots |-> 0]

\* Stages of createStandingArtifactTelegramTransport, in their order, after
\* the microtask in which the call starts it.
Before == {"admission", "before", "upload", "after"}
Stages == {"start"} \cup Before \cup {"send", "read"}
Quiet == [stage |-> "start", state |-> "none"]
Writing == [planning |-> "plan", marking |-> "sending", settling |-> "terminal"]
Stops == {"idle", "opening", "waiting", "reading", "closing"} \cup DOMAIN Writing

TypeOK ==
    /\ disk \in [Attempts -> [dir : BOOLEAN, plan : Files, sending : Files,
                              terminal : {"none", "torn"} \cup Terminals]]
    /\ pc \in [Attempts -> Stops]
    /\ intent \in [Attempts -> Terminals]
    /\ raw \in [Attempts -> [stage : Stages, state : {"none", "live", "failed", "done"}]]
    /\ wire \in [Attempts -> {"none", "invoked", "done"}]
    /\ turn \in [message : Messages \cup {NoMessage}, phase : {"none", "tools", "reply", "replied"},
                 slots : 0..FileSlots]
    /\ aborted \in {"no", "turn", "host"}
    /\ \A f \in {killed, active, blocked} : f \in BOOLEAN
    /\ crashes \in 0..MaxCrashes /\ turns \in 0..MaxTurns

Init ==
    /\ disk = [a \in Attempts |-> Absent]
    /\ pc = [a \in Attempts |-> "idle"]
    /\ intent = [a \in Attempts |-> "unknown"]
    /\ raw = [a \in Attempts |-> Quiet]
    /\ wire = [a \in Attempts |-> "none"]
    /\ turn = NoTurn
    /\ aborted = "no" /\ killed = FALSE /\ active = FALSE /\ blocked = FALSE
    /\ crashes = 0 /\ turns = 0

stopped == aborted # "no" \/ killed
Busy == {a \in Attempts : pc[a] # "idle"}
Live(a) == raw[a].state = "live"
failedAt(a, stages) == raw[a].state = "failed" /\ raw[a].stage \in stages
step(a, to) == pc' = [pc EXCEPT ![a] = to]
goOn(a, to) == step(a, to) /\ UNCHANGED intent
settle(a, v) == step(a, "settling") /\ intent' = [intent EXCEPT ![a] = v]
file(a, f, v) == disk' = [disk EXCEPT ![a][f] = v]
poison(a) == blocked' = (blocked \/ a.kind = "file")

-----------------------------------------------------------------------------
(* A turn: standing-artifact-runtime begin / finish, then the one reply.   *)

begin(m) ==
    /\ turn = NoTurn /\ Busy = {} /\ ~blocked /\ ~stopped
    /\ turns < MaxTurns
    /\ turns' = turns + 1
    /\ turn' = [message |-> m, phase |-> "tools", slots |-> 0]
    /\ active' = TRUE
    /\ UNCHANGED <<disk, pc, intent, raw, wire, aborted, killed, blocked, crashes>>

\* joinTurn aborts the turn's signal at once and joins the admitted call.
finish ==
    /\ turn.phase = "tools"
    /\ \/ /\ Busy # {} /\ aborted = "no"
          /\ aborted' = "turn" /\ UNCHANGED turn
       \/ /\ Busy = {}
          /\ turn' = [turn EXCEPT !.phase = "reply"]
          /\ aborted' = IF aborted = "turn" THEN "no" ELSE aborted
    /\ UNCHANGED <<disk, pc, intent, raw, wire, killed, active, blocked, crashes, turns>>

\* The service goes on to the next message when the reply call has returned
\* and the adapter has joined what it lent.
Release ==
    /\ turn.phase \in {"reply", "replied"} /\ Busy = {}
    /\ \A a \in Attempts : ~Live(a)
    /\ turn' = NoTurn /\ active' = FALSE
    /\ UNCHANGED <<disk, pc, intent, raw, wire, aborted, killed, blocked, crashes, turns>>

\* The tool's busy latch, the slot bound and the runtime's block.
send(a) ==
    /\ a.kind = "file"
    /\ turn.phase = "tools" /\ turn.message = a.message
    /\ turn.slots = a.slot
    /\ Busy = {} /\ ~blocked /\ ~stopped
    /\ turn' = [turn EXCEPT !.slots = @ + 1]
    /\ step(a, "opening")
    /\ UNCHANGED <<disk, intent, raw, wire, aborted, killed, active, blocked, crashes, turns>>

\* The service sends a text or an image, never both, after artifacts.finish.
reply(a) ==
    /\ a.kind # "file"
    /\ a.kind = "text" => a.slot = turns - 1     \* state.newOutbox
    /\ turn.phase = "reply" /\ turn.message = a.message
    /\ Busy = {} /\ ~stopped
    /\ turn' = [turn EXCEPT !.phase = "replied"]
    /\ step(a, "opening")
    /\ UNCHANGED <<disk, intent, raw, wire, aborted, killed, active, blocked, crashes, turns>>

-----------------------------------------------------------------------------
(* The stores: exclusive creation, one file per state, no overwrite.       *)

reserveExisting(a) ==
    /\ pc[a] = "opening"
    /\ file(a, "dir", TRUE) /\ step(a, "planning")
    /\ UNCHANGED <<intent, raw, wire, turn, aborted, killed, active, blocked, crashes, turns>>

\* mkdir of the attempt; EEXIST always refuses, even an empty directory.
reserve(a) ==
    /\ pc[a] = "opening"
    /\ \/ /\ stopped
          /\ step(a, "closing") /\ UNCHANGED <<disk, blocked>>
       \/ /\ ~stopped /\ ~disk[a].dir
          /\ file(a, "dir", TRUE) /\ step(a, "planning") /\ UNCHANGED blocked
       \/ \* consumed, or a store that cannot be opened
          /\ step(a, "closing") /\ poison(a) /\ UNCHANGED disk
    /\ UNCHANGED <<intent, raw, wire, turn, aborted, killed, active, crashes, turns>>

\* A failing write may leave nothing, a torn file or the whole of it.
leaves(a, f, v) == \E left \in {"none", "torn", v} : file(a, f, left)

\* The rest of reserve, and the check that follows it.
writePlan(a) ==
    /\ pc[a] = "planning"
    /\ \/ /\ file(a, "plan", "whole") /\ UNCHANGED blocked
          /\ IF stopped THEN settle(a, "failed_terminal") ELSE goOn(a, "marking")
       \/ leaves(a, "plan", "whole") /\ goOn(a, "closing") /\ poison(a)
    /\ UNCHANGED <<raw, wire, turn, aborted, killed, active, crashes, turns>>

\* append("sending"): the transport is not called before it is synced.
writeSending(a) ==
    /\ pc[a] = "marking"
    /\ \/ /\ file(a, "sending", "whole") /\ UNCHANGED blocked
          /\ \/ stopped /\ settle(a, "failed_terminal") /\ UNCHANGED raw
             \/ /\ ~stopped /\ goOn(a, "waiting")
                /\ raw' = [raw EXCEPT ![a] = [stage |-> "start", state |-> "live"]]
       \/ leaves(a, "sending", "whole") /\ goOn(a, "closing") /\ poison(a) /\ UNCHANGED raw
    /\ UNCHANGED <<wire, turn, aborted, killed, active, crashes, turns>>

\* append(terminal).  An unknown outcome blocks the runtime.
writeTerminal(a) ==
    /\ pc[a] = "settling"
    /\ \/ /\ file(a, "terminal", intent[a])
          /\ IF intent[a] = "unknown" THEN poison(a) ELSE UNCHANGED blocked
       \/ leaves(a, "terminal", intent[a]) /\ poison(a)
    /\ goOn(a, "closing")
    /\ UNCHANGED <<raw, wire, turn, aborted, killed, active, crashes, turns>>

\* inspect of the artifact and the image outbox.
inspect(a) ==
    LET d == disk[a]
    IN IF ~d.dir THEN "absent"
       ELSE IF \/ d.plan # "whole" \/ d.sending = "torn" \/ d.terminal = "torn"
               \/ d.terminal \in {"verified", "unknown"} /\ d.sending = "none"
            THEN "unknown"
       ELSE IF d.terminal # "none" THEN d.terminal
       ELSE IF d.sending = "whole" THEN "sending" ELSE "planned"

-----------------------------------------------------------------------------
(* The transport's promise.  check looks at the abort signal and at the    *)
(* selection, not at the kill switch.                                      *)

check == aborted = "no" /\ active
Following == [start |-> "admission", admission |-> "before", before |-> "upload",
              upload |-> "after", after |-> "send"]

\* Text has no upload and one revalidation.
nextStage(a) == IF a.kind = "text" /\ raw[a].stage = "before" THEN "send"
                ELSE Following[raw[a].stage]

\* One stage of sendOnce; entering "send" is SendMedia or SendMessage.
sendOnce(a) ==
    /\ Live(a) /\ raw[a].stage \in DOMAIN Following
    /\ IF raw[a].stage = "start" THEN ~stopped ELSE check
    /\ raw' = [raw EXCEPT ![a].stage = nextStage(a)]
    /\ wire' = IF nextStage(a) = "send" THEN [wire EXCEPT ![a] = "invoked"] ELSE wire
    /\ UNCHANGED <<disk, pc, intent, turn, aborted, killed, active, blocked, crashes, turns>>

\* A refused check, a changed primary, a failed part, a lost answer or one
\* that proves nothing: every failure latches with the stage it happened in.
refuse(a) ==
    /\ Live(a)
    /\ raw[a].stage = "start" => stopped
    /\ raw' = [raw EXCEPT ![a].state = "failed"]
    /\ UNCHANGED <<disk, pc, intent, wire, turn, aborted, killed, active, blocked, crashes, turns>>

parseAck(a) ==
    /\ Live(a) /\ raw[a].stage = "send" /\ wire[a] = "done" /\ check
    /\ raw' = [raw EXCEPT ![a].state = "done"]
    /\ UNCHANGED <<disk, pc, intent, wire, turn, aborted, killed, active, blocked, crashes, turns>>

\* messageProof of a fresh read of the acknowledged message.
readExact(a) ==
    /\ Live(a) /\ raw[a].stage = "read" /\ check
    /\ raw' = [raw EXCEPT ![a].state = "done"]
    /\ UNCHANGED <<disk, pc, intent, wire, turn, aborted, killed, active, blocked, crashes, turns>>

\* External: Telegram carries the request out, if it ever does.
Happen(a) ==
    /\ wire[a] = "invoked"
    /\ wire' = [wire EXCEPT ![a] = "done"]
    /\ UNCHANGED <<disk, pc, intent, raw, turn, aborted, killed, active, blocked, crashes, turns>>

-----------------------------------------------------------------------------
(* The waiting call: it races its promise against the abort signal.        *)

\* The failures that prove no dispatch: a file trusts the stages before
\* SendMedia; a text trusts the adapter's pre-dispatch error, one of the ways
\* to fail there; an image trusts nothing.
artifactPreDispatch(a) == failedAt(a, Before)
pilotPreDispatch(a) == failedAt(a, Before)
preDispatch(a) == \/ a.kind = "file" /\ artifactPreDispatch(a)
                  \/ a.kind = "text" /\ pilotPreDispatch(a)

awaitSend(a) ==
    /\ pc[a] = "waiting"
    /\ \/ /\ raw[a] = [stage |-> "send", state |-> "done"] /\ (a.kind # "text" => ~stopped)
          /\ goOn(a, "reading")
          /\ raw' = [raw EXCEPT ![a] = [stage |-> "read", state |-> "live"]]
       \/ /\ preDispatch(a)
          /\ settle(a, "failed_terminal") /\ UNCHANGED raw
       \/ /\ \/ aborted # "no"
             \/ failedAt(a, Stages) /\ (a.kind = "file" => ~preDispatch(a))
             \/ raw[a].state = "done" /\ a.kind # "text" /\ stopped
          /\ settle(a, "unknown") /\ UNCHANGED raw
    /\ UNCHANGED <<disk, wire, turn, aborted, killed, active, blocked, crashes, turns>>

\* A text is verified although the service was stopped meanwhile.
readVerdict(a) ==
    IF raw[a].state = "done" /\ (a.kind = "text" \/ ~stopped) THEN "verified" ELSE "unknown"

awaitRead(a) ==
    /\ pc[a] = "reading"
    /\ ~Live(a) \/ aborted # "no"
    /\ settle(a, readVerdict(a))
    /\ UNCHANGED <<disk, raw, wire, turn, aborted, killed, active, blocked, crashes, turns>>

\* A file's call returns only when its settlement is joined and the lease is
\* closed; the others return at once.
settlement(a) == a.kind # "file" \/ ~Live(a)
close(a) ==
    /\ pc[a] = "closing" /\ settlement(a)
    /\ step(a, "idle")
    /\ UNCHANGED <<disk, intent, raw, wire, turn, aborted, killed, active, blocked, crashes, turns>>

-----------------------------------------------------------------------------
(* The environment.                                                        *)

\* The epoch gives up the tool call, or the host is stopped.
Abort == /\ turn # NoTurn /\ aborted # "host"
         /\ aborted' \in {"host"} \cup (IF turn.phase = "tools" THEN {"turn"} ELSE {})
         /\ UNCHANGED <<disk, pc, intent, raw, wire, turn, killed, active, blocked, crashes, turns>>
KillSwitch == /\ ~killed /\ killed' = TRUE
              /\ UNCHANGED <<disk, pc, intent, raw, wire, turn, aborted, active, blocked, crashes, turns>>
Deselect == /\ active /\ active' = FALSE
            /\ UNCHANGED <<disk, pc, intent, raw, wire, turn, aborted, killed, blocked, crashes, turns>>

Crash ==
    /\ crashes < MaxCrashes
    /\ crashes' = crashes + 1
    /\ \E left \in Files :
           disk' = [a \in Attempts |->
               IF pc[a] \notin DOMAIN Writing THEN disk[a]
               ELSE [disk[a] EXCEPT ![Writing[pc[a]]] =
                        IF left = "whole" /\ pc[a] = "settling" THEN intent[a] ELSE left]]
    /\ pc' = [a \in Attempts |-> "idle"]
    /\ intent' = [a \in Attempts |-> "unknown"]
    /\ raw' = [a \in Attempts |-> Quiet]
    /\ turn' = NoTurn
    /\ aborted' = "no" /\ active' = FALSE /\ blocked' = FALSE
    /\ killed' = FALSE   \* the operator releases the kill switch between two runs
    /\ UNCHANGED <<wire, turns>>

Deliver(a) ==
    \/ send(a) \/ reply(a) \/ reserve(a) \/ writePlan(a) \/ writeSending(a)
    \/ writeTerminal(a) \/ sendOnce(a) \/ refuse(a) \/ parseAck(a) \/ readExact(a)
    \/ awaitSend(a) \/ awaitRead(a) \/ close(a) \/ Happen(a)

Next == \/ \E m \in Messages : begin(m)
        \/ \E a \in Attempts : Deliver(a)
        \/ finish \/ Release \/ Abort \/ KillSwitch \/ Deselect \/ Crash

Spec == Init /\ [][Next]_vars

-----------------------------------------------------------------------------
(* Properties.                                                             *)

Slots == Attempts
record == [a \in Attempts |->
    LET d == disk[a]
    IN IF ~d.dir THEN "absent"
       ELSE IF d.terminal = "failed_terminal" THEN "refused"
       ELSE IF d.terminal \in {"verified", "unknown"} THEN d.terminal
       ELSE IF d.sending = "none" THEN "claimed" ELSE "sending"]
Ledger == INSTANCE OneShotLedger

\* Replies, images and files together implement the one-shot ledger, through
\* crashes, torn files and restarts that count their operations from 0 again:
\* nothing is sent twice, sent unmarked or settled untruthfully.
LedgerStart == Ledger!Init
LedgerStep == [Ledger!Next]_(Ledger!vars)

\* What inspect reports is what Telegram saw: an attempt found absent, planned
\* or failed was never dispatched, and one found verified is in the group.
InspectionIsTruthful ==
    \A a \in Attempts :
        /\ inspect(a) \in {"absent", "planned", "failed_terminal"} => wire[a] = "none"
        /\ inspect(a) = "verified" => wire[a] = "done"

\* The sole client never carries two sends: a call whose waiter gave up is
\* joined before anything else of the process is sent.
SoleClient == \A a, b \in Attempts : Live(a) /\ Live(b) => a = b

Settled(a) == disk[a].terminal \in {"verified", "failed_terminal"}

\* No file follows one whose outcome is uncertain: when slot n is dispatched
\* every earlier slot of that message is settled or was never claimed, even
\* when a restart answers the message anew.
NothingAfterUncertain ==
    \A a, b \in Attempts :
          a.kind = "file" /\ b.kind = "file" /\ a.message = b.message /\ a.slot < b.slot
          /\ wire[b] = "none" /\ wire'[b] = "invoked"
          => ~disk[a].dir \/ Settled(a)
=============================================================================
