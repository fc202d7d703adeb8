---------------------------- MODULE EpochSession ----------------------------
(***************************************************************************)
(* One epoch of a warm model: the session of the host (openStandingEpoch-  *)
(* Session over createEpochWire) and the driver in the guest (run_session),*)
(* with a queue of frames in each direction.  A turn is sent, calls tools, *)
(* names its scope and completes; the host delivers the answer and only    *)
(* then releases the turn.  Either side may stop in between: a limit of    *)
(* the epoch, an abort, lost custody, a broken pipe, a late answer.        *)
(***************************************************************************)
EXTENDS Naturals, Sequences, FiniteSets

CONSTANTS
    Requests,    \* how many turns the owner asks for, numbered in order
    TurnLimit,   \* turns of an epoch
    CallLimit,   \* tool calls of a turn
    MaxFaults    \* how often a write, a callback, the model or the guest fails

EpochAssumption == Requests \in Nat /\ TurnLimit \in Nat /\ CallLimit \in Nat /\ MaxFaults \in Nat

VARIABLES
    phase, poisoned, closing, closeSent, closed,   \* the session, as in the code
    op,          \* where its one active operation waits
    turns, calls, scope,                           \* turns of the epoch; of this turn
    closer,      \* where close() waits
    chain,       \* writeChain: frames not written yet, the first being written
    held,        \* custody is held and the signal not aborted
    outcome,     \* what the owner was told of each request
    wire,        \* the host's end of the pipes: "open" or "faulted"
    toGuest, toHost,
    guest,       \* the driver in the guest
    late,        \* less than a turn is left of the epoch, for the host
    left,        \* the same for the guest: "enough", "short", "over"
    faults

pipes == <<wire, toGuest, toHost>>
clocks == <<late, left>>
vars == <<phase, poisoned, closing, closeSent, closed, op, turns, calls, scope, closer, chain, held, outcome,
          wire, toGuest, toHost, guest, late, left, faults>>

Frame(kind, ref, x, n) == [kind |-> kind, ref |-> ref, x |-> x, n |-> n, poisoned |-> FALSE, unreleased |-> FALSE]
Unclosed == Frame("none", 0, "", 0)

Init ==
    /\ phase = "opening" /\ poisoned = FALSE /\ closing = FALSE /\ closeSent = FALSE /\ closed = Unclosed
    /\ op = "opening" /\ turns = 0 /\ calls = 0 /\ scope = FALSE /\ closer = "none" /\ chain = <<>>
    /\ held = TRUE /\ outcome = [k \in 1..Requests |-> "none"]
    /\ wire = "open" /\ toGuest = <<>> /\ toHost = <<>>
    /\ guest = [pc |-> "ready", phase |-> "idle", box |-> <<>>, stop |-> "", outstanding |-> FALSE,
                poisoned |-> FALSE, begun |-> {}, ref |-> 0, calls |-> 0, unknown |-> FALSE]
    /\ late = FALSE /\ left = "enough" /\ faults = 0

\* The request the session works on: requests are asked in order, and each that is
\* not refused by the session itself is registered in seen.
current == CHOOSE k \in 1..Requests : outcome[k] \in {"asked", "answered"}
told(k, what) == outcome' = [outcome EXCEPT ![k] = what]
fault == faults < MaxFaults /\ faults' = faults + 1
fine == UNCHANGED faults

-----------------------------------------------------------------------------
(* The session of the host.                                                *)

CloseFrame == Frame("close", 0, "", 0)
\* Closing revokes admission; the frame goes out once, and not after the end.
sendClose(rest, over) ==
    /\ closing' = TRUE
    /\ IF closeSent \/ over THEN chain' = rest /\ UNCHANGED closeSent
       ELSE chain' = Append(rest, CloseFrame) /\ closeSent' = TRUE
send(frame) == chain' = Append(chain, frame) /\ UNCHANGED <<closing, closeSent>>
keep == UNCHANGED <<closing, closeSent, chain>>
\* An operation that fails poisons the session and closes it.
opFails(rest) ==
    /\ poisoned' = TRUE /\ op' = "none" /\ sendClose(rest, closed' # Unclosed)
    /\ IF op = "opening" THEN UNCHANGED outcome
       ELSE told(current, IF phase = "delivery" THEN "unreleased" ELSE "failed")
    /\ phase' = IF op = "opening" THEN "failed" ELSE IF closed' # Unclosed THEN "closed" ELSE phase

ready(f) ==
    /\ op = "opening" /\ UNCHANGED <<turns, calls, scope, closer>>
    /\ IF f.kind = "ready" /\ held
       THEN phase' = "idle" /\ op' = "none" /\ keep /\ UNCHANGED <<poisoned, outcome>>
       ELSE opFails(chain)

\* A turn that would not fit is refused before anything is written.
Turn ==
    /\ phase = "idle" /\ op = "none" /\ ~closing /\ ~poisoned /\ held
    /\ \E k \in 1..Requests :
        /\ outcome[k] = "none" /\ \A j \in 1..(k - 1) : outcome[j] # "none"
        /\ IF turns >= TurnLimit \/ late
           THEN told(k, "notAdmitted") /\ keep /\ UNCHANGED <<phase, op, turns, calls, scope>>
           ELSE /\ told(k, "asked") /\ turns' = turns + 1 /\ phase' = "turn" /\ op' = "turnSend"
                /\ calls' = 0 /\ scope' = FALSE /\ send(Frame("turn", k, "", 0))
    /\ UNCHANGED <<poisoned, closed, closer, held, pipes, guest, clocks, faults>>

\* What each frame must be to be taken during a turn; any other fails it.
notAdmitted(f) == f.kind = "notAdmitted" /\ ~scope /\ calls = 0 /\ f.ref = current /\ f.n = turns - 1
tool(f) == f.kind = "tool" /\ ~scope /\ f.ref = current /\ calls < CallLimit
scoped(f) == f.kind = "scope" /\ ~scope /\ f.ref = current /\ f.n = turns
completed(f) == f.kind = "completed" /\ scope /\ f.ref = current /\ f.n = calls
active == ~poisoned /\ ~closing /\ held
duringTurn(f) ==
    /\ op = "turn" /\ UNCHANGED <<turns, closer>>
    /\ \/ /\ notAdmitted(f) \/ tool(f) \/ scoped(f)
          /\ op' = IF notAdmitted(f) THEN "refused" ELSE IF tool(f) /\ ~closing THEN "tool" ELSE op
          /\ calls' = (IF tool(f) THEN calls + 1 ELSE calls) /\ scope' = (scope \/ scoped(f))
          /\ keep /\ UNCHANGED <<phase, poisoned, outcome>>
       \/ /\ completed(f) /\ active /\ told(current, "answered") /\ phase' = "delivery" /\ op' = "none"
          /\ keep /\ UNCHANGED <<poisoned, calls, scope>>
       \/ ~(notAdmitted(f) \/ tool(f) \/ scoped(f) \/ (completed(f) /\ active)) /\ opFails(chain) /\ UNCHANGED <<calls, scope>>

byCode(f) == f.kind = "closed" /\ f.x = "EPOCH_LIMIT"
\* The refusal stands when the guest then ends in order and without that turn; one
\* for the number of turns never does, for the session refuses that itself.
proves(f) == byCode(f) /\ ~poisoned /\ ~f.poisoned /\ ~f.unreleased /\ f.n = turns - 1
afterRefusal(f) ==
    /\ op = "refused" /\ UNCHANGED <<turns, calls, scope, closer>>
    /\ IF proves(f)
       THEN /\ told(current, "notAdmitted") /\ phase' = "closed" /\ closing' = TRUE /\ op' = "none"
            /\ UNCHANGED <<poisoned, closeSent, chain>>
       ELSE opFails(chain)

\* A tool of the host returns, and its answer is sent unless the session closes.
ToolEnds ==
    /\ op = "tool" /\ UNCHANGED <<closed, turns, calls, scope, closer, held, pipes, guest, clocks>>
    /\ \/ closing /\ op' = "turn" /\ keep /\ fine /\ UNCHANGED <<phase, poisoned, outcome>>
       \/ ~closing /\ op' = "toolSend" /\ send(Frame("toolResult", current, "", 0)) /\ fine /\ UNCHANGED <<phase, poisoned, outcome>>
       \/ fault /\ opFails(chain)

\* The owner joined the delivery of the answer before it releases the turn.
Release ==
    /\ phase = "delivery" /\ op = "none" /\ ~closing
    /\ \E d \in {"settled", "unknown"} : send(Frame("release", current, d, 0))
    /\ op' = "releaseSend"
    /\ UNCHANGED <<phase, poisoned, closed, turns, calls, scope, closer, held, outcome, pipes, guest, clocks, faults>>
released(f) ==
    /\ op \in {"settled", "unknown"} /\ UNCHANGED <<turns, calls, scope, closer>>
    /\ \/ (f.kind # "released" \/ f.ref # current \/ f.x # op) /\ opFails(chain)
       \/ /\ f.kind = "released" /\ f.ref = current /\ f.x = op /\ op = "unknown"
          /\ closing' = TRUE /\ poisoned' = TRUE /\ op' = "drain" /\ UNCHANGED <<phase, closeSent, chain, outcome>>
       \/ /\ f.kind = "released" /\ f.ref = current /\ f.x = op /\ op = "settled"
          /\ told(current, "released") /\ phase' = "idle" /\ op' = "none" /\ keep /\ UNCHANGED poisoned

Crossing == {"scope", "tool", "completed", "released"}
orderly(f) == f.kind = "closed" /\ ~f.poisoned /\ ~f.unreleased /\ f.x \in {"CLOSED", "EPOCH_LIMIT", "TURN_LIMIT"}
\* What crossed the close is dropped and poisons; it is never taken for an answer.
drain(f) ==
    /\ op = "drain" \/ (op = "none" /\ closer = "draining")
    /\ poisoned' = (poisoned \/ ~orderly(f)) /\ phase' = (IF f.kind = "closed" THEN "closed" ELSE phase)
    /\ keep /\ UNCHANGED <<turns, calls, scope>>
    /\ \/ f.kind \in Crossing /\ UNCHANGED <<op, closer, outcome>>
       \/ /\ f.kind \notin Crossing /\ op = "drain" /\ op' = "none" /\ UNCHANGED closer
          /\ told(current, IF f.kind = "closed" THEN "released" ELSE "unreleased")
       \/ /\ f.kind \notin Crossing /\ op = "none" /\ UNCHANGED <<op, outcome>>
          /\ closer' = IF f.kind = "closed" THEN "proved" ELSE "failed"

\* One reader: the operation that waits, or close().  The receipt of the guest is
\* kept whoever reads it.
Receive ==
    /\ wire = "open" /\ toHost # <<>> /\ toHost' = Tail(toHost)
    /\ LET f == Head(toHost) IN
        /\ closed' = IF f.kind = "closed" THEN f ELSE closed
        /\ ready(f) \/ duringTurn(f) \/ afterRefusal(f) \/ released(f) \/ drain(f)
    /\ UNCHANGED <<held, wire, toGuest, guest, clocks, faults>>

reading == {"opening", "turn", "refused", "settled", "unknown", "drain"}
\* Nothing came in time, the pipe is faulted or the guest ended without a receipt.
NoFrame ==
    /\ UNCHANGED <<closed, turns, calls, scope, held, pipes, guest, clocks, faults>>
    /\ \/ op \in reading /\ opFails(chain) /\ UNCHANGED closer
       \/ /\ op = "none" /\ closer = "draining" /\ closer' = "failed" /\ poisoned' = TRUE
          /\ keep /\ UNCHANGED <<phase, op, outcome>>

\* The first frame of the chain is written; who waited for it goes on.
Write ==
    /\ chain # <<>> /\ wire = "open"
    /\ LET f == Head(chain) IN
        /\ toGuest' = Append(toGuest, f) /\ chain' = Tail(chain)
        /\ op' = IF f.kind = "close" THEN op ELSE IF f.kind = "release" THEN f.x ELSE "turn"
        /\ closer' = IF f.kind = "close" /\ closer = "sending" THEN "joining" ELSE closer
    /\ UNCHANGED <<phase, poisoned, closing, closeSent, closed, turns, calls, scope, held, outcome, wire, toHost, guest, clocks, faults>>
\* Its time is up before it is written, or the pipe faults with it written or not.
WriteFails ==
    /\ chain # <<>> /\ (IF wire = "open" /\ guest.pc # "gone" THEN fault ELSE fine)
    /\ UNCHANGED <<closed, turns, calls, scope, held, toHost, guest, clocks>>
    /\ \/ UNCHANGED <<wire, toGuest>>
       \/ wire = "open" /\ wire' = "faulted" /\ toGuest' \in {toGuest, Append(toGuest, Head(chain))}
    /\ IF Head(chain).kind # "close" THEN opFails(Tail(chain)) /\ UNCHANGED closer
       ELSE /\ poisoned' = TRUE /\ chain' = Tail(chain) /\ UNCHANGED <<phase, op, closing, closeSent, outcome>>
            /\ closer' = IF closer = "sending" THEN "failed" ELSE closer

\* close(), once: told that the peer ended, it writes nothing more into it.
Close ==
    /\ closer = "none" /\ phase \notin {"opening", "failed"}
    /\ \E ended \in {FALSE, guest.pc = "gone"} :
        /\ sendClose(chain, ended \/ closed # Unclosed)
        /\ closer' = IF closed # Unclosed THEN "proved" ELSE IF closeSent \/ ended THEN "chain" ELSE "sending"
    /\ UNCHANGED <<phase, poisoned, closed, op, turns, calls, scope, held, outcome, pipes, guest, clocks, faults>>
\* The active operation drains its own answer first, or its time is up and the end
\* stays unknown.
Join ==
    /\ \/ closer = "chain" /\ chain = <<>> /\ closer' = "joining" /\ UNCHANGED poisoned
       \/ /\ closer = "joining" /\ op = "none" /\ UNCHANGED poisoned
          /\ closer' = IF closed # Unclosed THEN "proved" ELSE "draining"
       \/ closer = "joining" /\ op # "none" /\ closer' = "failed" /\ poisoned' = TRUE
    /\ UNCHANGED <<phase, closing, closeSent, closed, op, turns, calls, scope, chain, held, outcome, pipes, guest, clocks, faults>>

\* The signal of the owner closes the session; custody that is lost only revokes.
Revoke ==
    /\ held /\ held' = FALSE
    /\ keep \/ (phase \notin {"closed", "failed"} /\ sendClose(chain, FALSE))
    /\ UNCHANGED <<phase, poisoned, closed, op, turns, calls, scope, closer, outcome, pipes, guest, clocks, faults>>
Late == ~late /\ late' = TRUE /\ UNCHANGED <<phase, poisoned, closing, closeSent, closed, op, turns, calls, scope, closer, chain,
                                            held, outcome, pipes, guest, left, faults>>

-----------------------------------------------------------------------------
(* The driver in the guest: a thread that pumps frames in and one that runs *)
(* the turns.                                                              *)

session == <<phase, poisoned, closing, closeSent, closed, op, turns, calls, scope, closer, chain, held, outcome>>
emit(frame) == toHost' = Append(toHost, frame)
silent == UNCHANGED toHost
running == guest.pc \in {"model", "call"}
\* request_stop: the first reason stays; a turn that runs poisons the engine.
stopped(code) == [guest EXCEPT !.stop = IF @ = "" THEN code ELSE @, !.poisoned = @ \/ (guest.stop = "" /\ running)]
\* check_stop: the main thread is at this point and no stop is set.
at(pc) == guest.pc = pc /\ guest.stop = ""

Expected == [idle |-> "turn", tool |-> "toolResult", release |-> "release"]
\* receive_pump: what the phase does not expect stops the session, and so does EOF.
Pump ==
    /\ guest.stop = "" /\ guest.pc \notin {"ready", "final", "gone"} /\ silent /\ fine /\ UNCHANGED <<session, wire, clocks>>
    /\ \/ /\ toGuest # <<>> /\ toGuest' = Tail(toGuest)
          /\ LET f == Head(toGuest) IN
             guest' = IF f.kind = "close" THEN stopped("CLOSED")
                      ELSE IF guest.phase \in DOMAIN Expected /\ f.kind = Expected[guest.phase] /\ guest.box = <<>>
                      THEN [guest EXCEPT !.phase = "queued", !.box = <<f>>]
                      ELSE stopped("PROTOCOL_REFUSED")
       \/ toGuest = <<>> /\ wire = "faulted" /\ guest' = stopped("IO_UNKNOWN") /\ UNCHANGED toGuest

Ready ==
    /\ at("ready") /\ emit(Frame("ready", 0, "", 0)) /\ guest' = [guest EXCEPT !.pc = "read"]

\* The main thread at one of its points; it leaves for the end when a stop is set.
Leaves == guest.stop # "" /\ guest.pc \notin {"final", "gone"} /\ guest' = [guest EXCEPT !.pc = "final"] /\ silent

Read ==
    /\ at("read") /\ guest.box # <<>> /\ silent
    /\ LET f == Head(guest.box) IN
       guest' = IF f.kind = "turn" THEN [guest EXCEPT !.box = <<>>, !.phase = "turn", !.pc = "begin", !.ref = f.ref, !.calls = 0]
                ELSE [guest EXCEPT !.box = <<>>, !.outstanding = FALSE, !.pc = "ack", !.unknown = f.x = "unknown",
                                   !.poisoned = f.x = "unknown", !.phase = IF f.x = "unknown" THEN "closing" ELSE "idle"]
\* Conservative marker: a turn counts as outstanding from here on.
Begin == at("begin") /\ silent /\ guest' = [guest EXCEPT !.outstanding = TRUE, !.pc = "admit"]
spent == Cardinality(guest.begun) >= TurnLimit
refusable == left # "enough" \/ spent
\* turn() of the engine: the one atomic check that proves that no turn began.
Admit ==
    /\ at("admit") /\ silent
    /\ guest' = IF refusable THEN [guest EXCEPT !.pc = "refuse"]
                ELSE [guest EXCEPT !.begun = @ \cup {guest.ref}, !.pc = "model"]
\* A stop meanwhile wins over the refusal.
Refuse == at("refuse") /\ silent /\ guest' = [guest EXCEPT !.outstanding = FALSE, !.phase = "closing", !.pc = "refusal"]
Refusal ==
    /\ at("refusal") /\ emit(Frame("notAdmitted", guest.ref, IF spent THEN "turns" ELSE "time", Cardinality(guest.begun)))
    /\ guest' = [guest EXCEPT !.stop = IF spent THEN "TURN_LIMIT" ELSE "EPOCH_LIMIT", !.pc = "final"]
Call ==
    /\ at("model") /\ guest.calls < CallLimit /\ emit(Frame("tool", guest.ref, "", 0))
    /\ guest' = [guest EXCEPT !.phase = "tool", !.pc = "call", !.calls = @ + 1]
Result == at("call") /\ guest.box # <<>> /\ silent /\ guest' = [guest EXCEPT !.box = <<>>, !.phase = "turn", !.pc = "model"]
Scope ==
    /\ at("model") /\ emit(Frame("scope", guest.ref, "", Cardinality(guest.begun)))
    /\ guest' = [guest EXCEPT !.phase = "exporting", !.pc = "answer"]
Answer ==
    /\ at("answer") /\ emit(Frame("completed", guest.ref, "", guest.calls))
    /\ guest' = [guest EXCEPT !.phase = "release", !.pc = "read"]
Acknowledge ==
    /\ at("ack") /\ emit(Frame("released", guest.ref, IF guest.unknown THEN "unknown" ELSE "settled", 0))
    /\ guest' = IF guest.unknown THEN [guest EXCEPT !.stop = "RELEASE_UNKNOWN", !.pc = "final"] ELSE [guest EXCEPT !.pc = "read"]
\* The receipt: what became of the turns, after both threads were joined.
Final ==
    /\ guest.pc = "final"
    /\ emit([Frame("closed", 0, guest.stop, Cardinality(guest.begun)) EXCEPT !.poisoned = guest.poisoned, !.unreleased = guest.outstanding])
    /\ guest' = [guest EXCEPT !.pc = "gone", !.box = <<>>]

quiet == fine /\ UNCHANGED <<session, wire, toGuest, clocks>>
Main == quiet /\ (Ready \/ Read \/ Begin \/ Admit \/ Refuse \/ Refusal \/ Call \/ Result \/ Scope \/ Answer \/ Acknowledge)
Ending == quiet /\ (Leaves \/ Final)

\* The epoch runs out, at first for a further turn and then for all.
Expire ==
    /\ \/ left = "enough" /\ left' = "short" /\ UNCHANGED guest
       \/ left = "short" /\ left' = "over" /\ guest' = IF guest.pc \in {"final", "gone"} THEN guest ELSE stopped("EPOCH_LIMIT")
    /\ UNCHANGED <<session, pipes, late, faults>>
\* The engine fails, a write of the guest fails, or the guest is killed.
Breaks ==
    /\ guest.pc # "gone" /\ fault /\ silent /\ UNCHANGED <<session, wire, toGuest, clocks>>
    /\ guest' \in {[stopped("NATIVE_UNKNOWN") EXCEPT !.poisoned = @ \/ running], [guest EXCEPT !.pc = "gone"]}

Host == Turn \/ ToolEnds \/ Release \/ Receive \/ NoFrame \/ Write \/ WriteFails \/ Close \/ Join \/ Revoke \/ Late
Guest == Pump \/ Main \/ Ending \/ Expire \/ Breaks
Next == Host \/ Guest
Spec == Init /\ [][Next]_vars

-----------------------------------------------------------------------------
(* Properties.                                                             *)

Frames == [kind : {"none", "ready", "turn", "tool", "toolResult", "scope", "completed", "release", "released", "notAdmitted", "close", "closed"},
           ref : 0..Requests, x : STRING, n : Nat, poisoned : BOOLEAN, unreleased : BOOLEAN]
\* The frames of the wire and the states of both ends are well formed, at most one
\* frame waits to be written beside the close, and no frame of the guest is lost in
\* a queue at its bound of 32.
TypeOK ==
    /\ phase \in {"opening", "failed", "idle", "turn", "delivery", "closed"} /\ closed \in Frames
    /\ outcome \in [1..Requests -> {"none", "asked", "notAdmitted", "answered", "released", "unreleased", "failed"}]
    /\ Len(chain) <= 2 /\ Len(guest.box) <= 1 /\ Len(toHost) <= 32 /\ Len(toGuest) <= 3
    /\ \A i \in 1..Len(toHost) : toHost[i] \in Frames
    /\ turns \in 0..TurnLimit /\ calls \in 0..CallLimit

\* A question whose turn the session calls not admitted may be asked again elsewhere:
\* its turn never began in the guest and never will.
RefusedNeverBegan == \A k \in 1..Requests : outcome[k] = "notAdmitted" => k \notin guest.begun

\* A session that ends clean leaves nothing open: every turn that began in the guest
\* was answered to the owner and released after a delivery that is known, and the
\* guest's thread is at its end.
CleanEndAccounts ==
    closer = "proved" /\ ~poisoned => /\ guest.pc = "gone"
                                      /\ \A k \in guest.begun : outcome[k] = "released"

\* close() comes back whatever the guest does, and the guest comes to its end.
CloseAsked == closer # "none"
CloseEnded == closer \in {"proved", "failed"}
GuestEnded == guest.pc = "gone"
=============================================================================
