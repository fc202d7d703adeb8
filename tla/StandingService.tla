-------------------------- MODULE StandingService --------------------------
(***************************************************************************)
(* The standing Telegram service: one owner of one session that selects a  *)
(* message of the group, runs one model turn for it and sends one reply,   *)
(* reconnecting when it must.  What survives the process is the cursor and *)
(* the journal, whose files are exclusive, immutable and possibly torn by  *)
(* a crash; the outbox of a text is new for every reply, so nothing but    *)
(* the cursor and the journal keeps a message from being answered twice.   *)
(***************************************************************************)
EXTENDS Naturals, FiniteSets

CONSTANTS N,              \* messages of the group, in their order
          MaxCrashes,     \* bound on crashes
          MaxRestores,    \* bound on checkpoints the operator puts back
          MaxReconnects   \* bound on reconnections of one process

BoundsAssumption == /\ N \in Nat \ {0}
                    /\ MaxCrashes \in Nat /\ MaxRestores \in Nat /\ MaxReconnects \in Nat

Messages == 1..N

VARIABLES
    cursor,     \* standing-state: the durable checkpoint
    journal,    \* journal[m]: the three files kept for message m
    lock,       \* the process lock is on disk
    pc,         \* where the service is
    sel,        \* the message it works on, 0 for none
    fresh,      \* recordQuestion created the question of sel
    claims,     \* messages whose outcome this process may write
    tries,      \* admissions of the native turn tried for sel
    reply,      \* what is to be sent for sel
    verdict,    \* what became of it
    client,     \* the Telegram client of this connection
    reconnect, blocked, stopping, failures,
    turns,      \* turns[m]: model turns begun for m
    sends,      \* sends[m]: replies handed to Telegram for m
    wire,       \* wire[m]: external: what Telegram did with them
    crashes, restores

durable == <<cursor, journal, lock>>
work == <<sel, fresh, tries, reply, verdict>>
outside == <<turns, sends, wire>>
bounds == <<crashes, restores>>
flags == <<reconnect, blocked, failures>>
vars == <<durable, pc, work, claims, client, flags, stopping, outside, bounds>>

NoFiles == [question |-> "none", admission |-> "none", outcome |-> "none"]
Outcomes == {"not-sent", "unknown", "verified"}

TypeOK ==
    /\ cursor \in 0..N /\ sel \in 0..N
    /\ journal \in [Messages -> [question : {"none", "torn", "whole"},
                                 admission : {"none", "torn", "whole"},
                                 outcome : {"none", "torn"} \cup Outcomes]]
    /\ pc \in {"down", "connect", "poll", "question", "checkpoint", "selected", "admission",
               "model", "turn", "compose", "dispatch", "sent", "outcome", "release", "closing",
               "joining", "ended"}
    /\ claims \subseteq Messages
    /\ tries \in 0..2
    /\ reply \in {"none", "answer", "deferred", "notice", "too large", "silence"}
    /\ verdict \in Outcomes \cup {"refused"}
    /\ client \in {"none", "live", "settled"}
    /\ {lock, fresh, reconnect, blocked, stopping} \subseteq BOOLEAN
    /\ failures \in 0..MaxReconnects
    /\ turns \in [Messages -> Nat] /\ sends \in [Messages -> Nat]
    /\ wire \in [Messages -> {"none", "invoked", "done"}]
    /\ crashes \in 0..MaxCrashes /\ restores \in 0..MaxRestores

Init ==
    /\ cursor = 0 /\ journal = [m \in Messages |-> NoFiles] /\ lock = FALSE
    /\ pc = "down" /\ sel = 0 /\ fresh = FALSE /\ claims = {} /\ tries = 0
    /\ reply = "none" /\ verdict = "not-sent" /\ client = "none"
    /\ reconnect = FALSE /\ blocked = FALSE /\ stopping = FALSE /\ failures = 0
    /\ turns = [m \in Messages |-> 0] /\ sends = [m \in Messages |-> 0]
    /\ wire = [m \in Messages |-> "none"]
    /\ crashes = 0 /\ restores = 0

go(to) == pc' = to
put(f, v) == journal' = [journal EXCEPT ![sel][f] = v]

\* The three ways out of the message loop.
leave == go("closing") /\ UNCHANGED <<blocked, reconnect>>
again == go("closing") /\ reconnect' = TRUE /\ UNCHANGED blocked
refuse == go("closing") /\ blocked' = (blocked \/ ~stopping) /\ UNCHANGED reconnect

-----------------------------------------------------------------------------
(* The process: lock, connection, closing.                                 *)

\* acquireProcessLock: a lock found on disk is never taken over.
acquireLock ==
    /\ pc = "down" /\ ~lock
    /\ lock' = TRUE /\ go("connect")
    /\ UNCHANGED <<cursor, journal, work, claims, client, flags, stopping, outside, bounds>>

\* createClient and connect; a socket failure is retried, a refusal is not.
connect ==
    /\ pc = "connect"
    /\ client' = "live" /\ reconnect' = FALSE
    /\ \/ ~stopping /\ go("poll") /\ UNCHANGED blocked
       \/ go("closing") /\ blocked' = (blocked \/ ~stopping)
    /\ UNCHANGED <<durable, work, claims, failures, stopping, outside, bounds>>

connectFails ==
    /\ pc = "connect" /\ ~stopping
    /\ client' = "live" /\ again
    /\ UNCHANGED <<durable, work, claims, failures, stopping, outside, bounds>>

\* createStandingInvokeOwner: destroy the client and join its requests, for
\* ten seconds at most.
settleClient ==
    /\ pc = "closing" /\ go("joining")
    /\ client' \in {"settled", "live"}
    /\ UNCHANGED <<durable, work, claims, flags, stopping, outside, bounds>>

\* The native owner, the tools and the leases are joined after the client; the
\* ones that fail, and all of them if the client did not settle, block.
joinOwners ==
    /\ pc = "joining" /\ go("ended")
    /\ \/ client = "settled" /\ UNCHANGED blocked
       \/ blocked' = TRUE
    /\ sel' = 0 /\ fresh' = FALSE /\ tries' = 0 /\ reply' = "none" /\ verdict' = "not-sent"
    /\ UNCHANGED <<durable, claims, client, reconnect, failures, stopping, outside, bounds>>

mayReconnect == client = "settled" /\ ~blocked /\ ~stopping /\ reconnect
Reconnect ==
    /\ pc = "ended" /\ mayReconnect /\ failures < MaxReconnects
    /\ failures' = failures + 1 /\ go("connect")
    /\ UNCHANGED <<durable, work, claims, client, reconnect, blocked, stopping, outside, bounds>>

\* The lock is released only when the client is settled and nothing is open.
releaseLock ==
    /\ pc = "ended" /\ ~mayReconnect
    /\ lock' = (client = "live" \/ blocked)
    /\ go("down") /\ client' = "none" /\ claims' = {}
    /\ reconnect' = FALSE /\ blocked' = FALSE /\ stopping' = FALSE /\ failures' = 0
    /\ UNCHANGED <<cursor, journal, work, outside, bounds>>

-----------------------------------------------------------------------------
(* The adapter's poll: question, then cursor, then the selection.          *)

\* A candidate beyond the cursor.  One that is obsolete or addresses nobody is
\* passed over by the cursor alone.
pollOne ==
    /\ pc = "poll" /\ ~stopping
    /\ \E m \in Messages :
           /\ m > cursor
           /\ \/ sel' = m /\ go("question") /\ UNCHANGED cursor
              \/ cursor' = m /\ UNCHANGED <<pc, sel>>
    /\ UNCHANGED <<journal, lock, fresh, tries, reply, verdict, claims, client, flags, stopping, outside, bounds>>

pollFails ==
    /\ pc = "poll" /\ \/ stopping /\ leave
                      \/ ~stopping /\ (again \/ refuse)
    /\ UNCHANGED <<durable, work, claims, client, failures, stopping, outside, bounds>>

recordQuestion ==
    /\ pc = "question"
    /\ \/ /\ journal[sel].question = "none"
          /\ put("question", "whole")
          /\ fresh' = TRUE /\ claims' = claims \cup {sel}
          /\ go("checkpoint") /\ UNCHANGED <<blocked, reconnect>>
       \/ /\ journal[sel].question = "whole"
          /\ fresh' = FALSE /\ go("checkpoint") /\ UNCHANGED <<journal, claims, blocked, reconnect>>
       \/ \* unreadable, edited since, or the write failed
          refuse /\ UNCHANGED <<journal, fresh, claims>>
    /\ UNCHANGED <<cursor, lock, sel, tries, reply, verdict, client, failures, stopping, outside, bounds>>

checkpointLater ==
    /\ pc = "checkpoint"
    /\ cursor' \in {cursor, sel} /\ go("selected")
    /\ UNCHANGED <<journal, lock, work, claims, client, flags, stopping, outside, bounds>>

checkpointCursor ==
    /\ pc = "checkpoint"
    /\ \/ cursor' = sel /\ go("selected") /\ UNCHANGED <<blocked, reconnect>>
       \/ UNCHANGED cursor /\ refuse
    /\ UNCHANGED <<journal, lock, work, claims, client, failures, stopping, outside, bounds>>

\* A stop before the admission is written down only for a new question.
decline(m) == fresh
selected ==
    /\ pc = "selected"
    /\ \/ /\ ~stopping
          /\ go("admission") /\ UNCHANGED <<reply, verdict, blocked, reconnect>>
       \/ /\ stopping /\ ~decline(sel)
          /\ leave /\ UNCHANGED <<reply, verdict>>
       \/ \* stopped, or the initiative is no longer allowed
          /\ decline(sel) /\ go("outcome") /\ verdict' = "not-sent"
          /\ reply' = (IF stopping THEN "none" ELSE "silence") /\ UNCHANGED <<blocked, reconnect>>
       \/ /\ ~stopping /\ ~decline(sel)
          /\ go("poll") /\ UNCHANGED <<reply, verdict, blocked, reconnect>>
    /\ UNCHANGED <<durable, sel, fresh, tries, claims, client, failures, stopping, outside, bounds>>

-----------------------------------------------------------------------------
(* The admission and the model turn.                                       *)

unanswered(m) == journal[m].outcome = "none"

\* Only the exclusive creation of the admission file admits a model turn.
unclaimed(m) == journal[m].outcome = "none" /\ journal[m].admission = "none"

recordModelAdmission ==
    /\ pc = "admission"
    /\ \/ /\ unclaimed(sel)
          /\ put("admission", "whole") /\ claims' = claims \cup {sel}
          /\ reply' = "none" /\ verdict' = "not-sent" /\ tries' = 0
          /\ go(IF stopping THEN "outcome" ELSE "model") /\ UNCHANGED <<blocked, reconnect>>
       \/ /\ ~unclaimed(sel) /\ "torn" \notin {journal[sel].outcome, journal[sel].admission}
          /\ claims' = claims \ {sel} /\ again /\ UNCHANGED <<journal, reply, verdict, tries>>
       \/ /\ refuse /\ UNCHANGED <<journal, claims, reply, verdict, tries>>
    /\ UNCHANGED <<cursor, lock, sel, fresh, client, failures, stopping, outside, bounds>>

\* conversation.prepare, the capabilities and turn; one fresh try after the
\* native owner proved that no turn began.
turn ==
    /\ pc = "model"
    /\ \/ /\ ~stopping /\ turns' = [turns EXCEPT ![sel] = @ + 1]
          /\ go("turn") /\ UNCHANGED <<tries, blocked, reconnect>>
       \/ /\ tries < 1 /\ tries' = tries + 1
          /\ UNCHANGED <<pc, turns, blocked, reconnect>>
       \/ (refuse \/ again) /\ UNCHANGED <<turns, tries>>
    /\ UNCHANGED <<durable, sel, fresh, reply, verdict, claims, client, failures, stopping, sends, wire, bounds>>

\* The input did not fit: a notice, without a turn.
inputTooLarge ==
    /\ pc = "model" /\ go("compose") /\ reply' = "too large"
    /\ UNCHANGED <<durable, sel, fresh, tries, verdict, claims, client, flags, stopping, outside, bounds>>

\* A completed turn; a turn that failed is consumed, and gets the fixed notice
\* only after its owner closed with proof.
turnCompleted ==
    /\ pc = "turn" /\ go("compose")
    /\ reply' \in {"answer", "deferred", "notice", "silence"}
    /\ UNCHANGED <<durable, sel, fresh, tries, verdict, claims, client, flags, stopping, outside, bounds>>

turnFailed ==
    /\ pc = "turn" /\ (again \/ refuse)
    /\ UNCHANGED <<durable, work, claims, client, failures, stopping, outside, bounds>>

-----------------------------------------------------------------------------
(* The reply.                                                              *)

\* finishCapabilities, then the last look at the stop signal.
compose ==
    /\ pc = "compose"
    /\ verdict' = "not-sent"
    /\ go(IF stopping \/ reply = "silence" THEN "outcome" ELSE "dispatch")
    /\ UNCHANGED <<durable, sel, fresh, tries, reply, claims, client, flags, stopping, outside, bounds>>

dispatch ==
    /\ pc = "dispatch"
    /\ \/ /\ sends' = [sends EXCEPT ![sel] = @ + 1] /\ wire' = [wire EXCEPT ![sel] = "invoked"]
          /\ go("sent") /\ UNCHANGED verdict
       \/ /\ verdict' \in {"not-sent", "refused"} /\ go("outcome") /\ UNCHANGED <<sends, wire>>
    /\ UNCHANGED <<durable, sel, fresh, tries, reply, claims, client, flags, stopping, turns, bounds>>

deliveredOrNot ==
    /\ pc = "sent"
    /\ verdict' = (IF wire[sel] = "done" THEN "verified" ELSE "not-sent")
    /\ go("outcome")
    /\ UNCHANGED <<durable, sel, fresh, tries, reply, claims, client, flags, stopping, outside, bounds>>

\* trackTextDelivery joins the raw promises before the verdict is used.
delivered ==
    /\ pc = "sent"
    /\ verdict' \in {"unknown"} \cup {v \in {"verified"} : wire[sel] = "done"}
    /\ go("outcome")
    /\ UNCHANGED <<durable, sel, fresh, tries, reply, claims, client, flags, stopping, outside, bounds>>

RecordedVerbatim == [v \in Outcomes \cup {"refused"} |-> v]
\* A claim is consumed before its outcome is written.
Recorded == [v \in Outcomes \cup {"refused"} |-> IF v = "refused" THEN "not-sent" ELSE v]
recordOutcome ==
    /\ pc = "outcome"
    /\ claims' = claims \ {sel}
    /\ \/ /\ sel \in claims /\ journal[sel].question = "whole" /\ journal[sel].outcome = "none"
          /\ put("outcome", Recorded[verdict]) /\ go("release") /\ UNCHANGED <<blocked, reconnect>>
       \/ UNCHANGED journal /\ refuse
    /\ UNCHANGED <<cursor, lock, work, client, failures, stopping, outside, bounds>>

\* finishCapabilities and conversation.release, then what the verdict says.
goesOn == reply = "silence" \/ (verdict = "verified" /\ reply \in {"answer", "too large"})
release ==
    /\ pc = "release"
    /\ \/ goesOn /\ go("poll") /\ UNCHANGED <<blocked, reconnect>>
       \/ \* unknown, refused before dispatch, a failed turn, or an uncertain tool operation
          /\ verdict # "not-sent" \/ reply \in {"notice", "silence", "too large"}
          /\ IF stopping THEN leave ELSE again
       \/ ~goesOn /\ stopping /\ leave
       \/ refuse
    /\ sel' = 0 /\ fresh' = FALSE /\ reply' = "none" /\ verdict' = "not-sent" /\ tries' = 0
    /\ UNCHANGED <<durable, claims, client, failures, stopping, outside, bounds>>

-----------------------------------------------------------------------------
(* The environment.                                                        *)

Happen(m) ==
    /\ wire[m] = "invoked" /\ wire' = [wire EXCEPT ![m] = "done"]
    /\ UNCHANGED <<durable, pc, work, claims, client, flags, stopping, turns, sends, bounds>>

Stop ==
    /\ pc \notin {"down", "ended"} /\ ~stopping /\ stopping' = TRUE
    /\ UNCHANGED <<durable, pc, work, claims, client, flags, outside, bounds>>

\* The process ends.  A journal file being written may be left torn.
WrittenAt == [question |-> "question", admission |-> "admission", outcome |-> "outcome"]
Crash ==
    /\ pc # "down" /\ crashes < MaxCrashes
    /\ crashes' = crashes + 1
    /\ \/ UNCHANGED journal
       \/ pc \in DOMAIN WrittenAt /\ journal[sel][WrittenAt[pc]] = "none"
          /\ put(WrittenAt[pc], "torn")
    /\ pc' = "down" /\ sel' = 0 /\ fresh' = FALSE /\ claims' = {} /\ tries' = 0
    /\ reply' = "none" /\ verdict' = "not-sent" /\ client' = "none"
    /\ reconnect' = FALSE /\ blocked' = FALSE /\ stopping' = FALSE /\ failures' = 0
    /\ UNCHANGED <<cursor, lock, outside, restores>>

\* The operator proves that the owner is gone and removes its lock.
ReconcileLock ==
    /\ pc = "down" /\ lock /\ lock' = FALSE
    /\ UNCHANGED <<cursor, journal, pc, work, claims, client, flags, stopping, outside, bounds>>

\* The operator restores an older checkpoint beside the newer journal.
RestoreCheckpoint ==
    /\ pc = "down" /\ restores < MaxRestores
    /\ restores' = restores + 1
    /\ \E c \in 0..N : c < cursor /\ cursor' = c
    /\ UNCHANGED <<journal, lock, pc, work, claims, client, flags, stopping, outside, crashes>>

Poll == pollOne \/ pollFails \/ recordQuestion \/ checkpointCursor \/ selected
Turn == recordModelAdmission \/ turn \/ inputTooLarge \/ turnCompleted \/ turnFailed
Reply == compose \/ dispatch \/ delivered \/ recordOutcome \/ release
Process == acquireLock \/ connect \/ connectFails \/ settleClient \/ joinOwners \/ Reconnect \/ releaseLock
Service == Poll \/ Turn \/ Reply \/ Process

Next == \/ Service \/ Stop \/ Crash \/ ReconcileLock \/ RestoreCheckpoint
        \/ \E m \in Messages : Happen(m)

Spec == Init /\ [][Next]_vars

-----------------------------------------------------------------------------
(* Properties.                                                             *)

\* A message gets at most one model turn and one reply, whatever crashes,
\* reconnections and restored checkpoints happen in between.
AnsweredOnce == \A m \in Messages : turns[m] <= 1 /\ sends[m] <= 1

\* The journal tells the truth about the group: an outcome "not-sent" was
\* never handed to Telegram, and "verified" arrived.
OutcomeIsTrue ==
    \A m \in Messages :
        /\ journal[m].outcome = "not-sent" => wire[m] = "none"
        /\ journal[m].outcome = "verified" => wire[m] = "done"

\* Without an operator at the checkpoint, no message that a turn was spent on
\* can be selected again: the cursor is past it before the turn begins.
CursorPrecedesTurn == restores = 0 => \A m \in Messages : turns[m] > 0 => m <= cursor

\* A new client is created only when the one before it is settled.
SettledBeforeReconnect == pc = "connect" => client \in {"none", "settled"}

\* A stop is always carried through to the end of the process, although a
\* request to Telegram may never be answered.
StopAsked == stopping
StopComplete == pc = "down"
=============================================================================
