-------------------------- MODULE TelegramAdapter --------------------------
(***************************************************************************)
(* The Telegram sidecar adapter of the personal agent                      *)
(* (personal-agent/src/telegram/index.ts, transport.ts, store.ts).         *)
(*                                                                         *)
(* The agent and its owner speak through one account: what the agent sends *)
(* comes back as an update of an own message, and only the durable receipt *)
(* of the send tells it from a message the owner wrote on a phone.  A send *)
(* is known by a sending id first, then by the temporary id of the update  *)
(* that announces it (or of the answer to the request), at last by the     *)
(* final id.  While a receipt knows no id, an own message without receipt  *)
(* is held durably instead of being handed on.  Observations are appended  *)
(* to the spool before they are queued, and leave it when the broker       *)
(* acknowledges them; a start replays the rest, a page of the oldest at a  *)
(* time.                                                                   *)
(*                                                                         *)
(* One peer.  Updates run one after the other on `chain`; the requests,    *)
(* the consumer and the handlers run beside it.  Edits and deletions take  *)
(* the way of `Emit` too and are left out, as are folders and the checks   *)
(* of a payload before its receipt is written.                             *)
(***************************************************************************)
EXTENDS Naturals, FiniteSets, Sequences, SequencesExt

CONSTANTS Effects,      \* the sends of the agent
          Owned,        \* the messages the owner writes elsewhere
          HoldLimit,    \* maxQueuedObservations, for the holds
          QueueLimit,   \* maxQueuedObservations, for the queue
          MaxFaults     \* bound: lost answers, sidecar faults, crashes, changed media

AdapterAssumption ==
       /\ Effects \cap Owned = {}
       /\ HoldLimit \in Nat \ {0} /\ QueueLimit \in Nat \ {0} /\ MaxFaults \in Nat

VARIABLES receipts,     \* receipt of each effect, durable
          pending,      \* observations of the spool in order, durable
          held,         \* held messages, durable
          call,         \* where the dispatch of each effect is
          native,       \* Telegram: what became of each send
          written,      \* Telegram: the owner's messages it has shown
          chain,        \* updates and tasks not run yet
          job,          \* the task the chain runs, or that its last one threw
          unmatched,    \* unmatchedTerminal
          queue,        \* observations for the consumer
          feed,         \* the observations() generator
          replayed,     \* what it has replayed
          taken,        \* observations the host is handling
          fault, broken,\* this.fault, this.transportFault
          heard,        \* history: the observations the host handled
          arrived,      \* history of this process: messages that reached Emit
          faults

durable == <<receipts, pending, held>>
wire == <<native, written>>
consumer == <<queue, feed, replayed, taken>>
vars == <<receipts, pending, held, call, native, written, chain, job, unmatched,
          queue, feed, replayed, taken, fault, broken, heard, arrived, faults>>

\* A message is a send under its temporary or its final id, or an owner's one.
Messages == (Effects \X {"temp", "final"}) \cup (Owned \X {"final"})
\* agentEffectId is given or it is not.
Observations == [m : Messages, own : BOOLEAN]
Terminal == {"verified", "failed"}

Receipt == [state : {"none", "dispatching", "pending", "unknown"} \cup Terminal,
            temp : BOOLEAN, final : BOOLEAN]
NoReceipt == [state |-> "none", temp |-> FALSE, final |-> FALSE]
Dispatching == [NoReceipt EXCEPT !.state = "dispatching"]
Idle == [step |-> "idle"]
Rejected == [step |-> "rejected"]
Task(kind, who) == [kind |-> kind, who |-> who]
Updates == {"new", "done", "owner"}
Mappings == {"mapping", "sent"}

Init == /\ receipts = [e \in Effects |-> NoReceipt]
        /\ pending = <<>> /\ held = {}
        /\ call = [e \in Effects |-> "idle"]
        /\ native = [e \in Effects |-> "none"] /\ written = {}
        /\ chain = <<>> /\ job = Idle /\ unmatched = {}
        /\ queue = <<>> /\ feed = "off" /\ replayed = {} /\ taken = {}
        /\ fault = FALSE /\ broken = FALSE
        /\ heard = {} /\ arrived = {} /\ faults = 0

------------------------------------------------------------------------------
(* Attribution.                                                             *)

ownReceipt(m) == /\ m[1] \in Effects
                 /\ IF m[2] = "temp" THEN receipts[m[1]].temp ELSE receipts[m[1]].final

unmappedSends == {e \in Effects : /\ receipts[e].state \in {"dispatching", "unknown"}
                                  /\ ~receipts[e].temp /\ ~receipts[e].final}

ambiguousAttribution(m) == ~ownReceipt(m) /\ unmappedSends # {}

observed(m) == [m |-> m, own |-> ownReceipt(m)]
queued(m) == \E i \in DOMAIN queue : queue[i].m = m
Full == Len(queue) >= QueueLimit

------------------------------------------------------------------------------
(* Dispatch.                                                                *)

\* dispatchBound: the receipt is durable before the request is handed over;
\* a receipt from before, of this process or another, is reconciled instead.
\* Mutant: only a settled receipt keeps a send from being repeated.
unsettled(e) == receipts[e].state \notin Terminal
unseen(e) == receipts[e].state = "none"

Dispatch(e) ==
    /\ call[e] = "idle" /\ unseen(e) /\ ~fault /\ ~broken
    /\ receipts' = [receipts EXCEPT ![e] = Dispatching]
    /\ call' = [call EXCEPT ![e] = "admitted"]
    /\ UNCHANGED <<pending, held, wire, chain, job, unmatched, consumer, fault, broken,
                   heard, arrived, faults>>

\* assertApprovedMedia fails: nothing was invoked.
MediaChanged(e) ==
    /\ call[e] = "admitted" /\ faults < MaxFaults /\ faults' = faults + 1
    /\ receipts' = [receipts EXCEPT ![e].state = "failed"]
    /\ call' = [call EXCEPT ![e] = "idle"]
    /\ UNCHANGED <<pending, held, wire, chain, job, unmatched, consumer, fault, broken,
                   heard, arrived>>

\* The catch of dispatchBound puts the receipt it wrote before the request,
\* whatever updates have put since.
caught(e, outcome) == /\ receipts' = [receipts EXCEPT ![e] = [Dispatching EXCEPT !.state = outcome]]
                      /\ call' = [call EXCEPT ![e] = "idle"]

\* What is said of a request that was written and not answered.
\* Mutant: it is called failed.
pessimistic(e) == "failed"
unanswered(e) == "unknown"

\* transport.invoke: refused before the write when the sidecar is down.
Invoke(e) ==
    /\ call[e] = "admitted"
    /\ IF broken THEN caught(e, unanswered(e)) /\ UNCHANGED native
       ELSE /\ call' = [call EXCEPT ![e] = "invoked"]
            /\ native' = [native EXCEPT ![e] = "requested"]
            /\ UNCHANGED receipts
    /\ UNCHANGED <<pending, held, written, chain, job, unmatched, consumer, fault, broken,
                   heard, arrived, faults>>

\* The request times out or is aborted, or the sidecar fails with it pending.
TimedOut(e) ==
    /\ call[e] = "invoked" /\ caught(e, unanswered(e))
    /\ \/ broken /\ UNCHANGED faults
       \/ ~broken /\ faults < MaxFaults /\ faults' = faults + 1
    /\ UNCHANGED <<pending, held, wire, chain, job, unmatched, consumer, fault, broken,
                   heard, arrived>>

\* The answer is the message under its temporary id or, without sending_state,
\* the sent message; its mapping is chained behind the updates read meanwhile.
Answer(e) ==
    /\ call[e] = "invoked" /\ ~broken
    /\ native[e] \in {"sending", "delivered", "undelivered"}
    /\ \/ chain' = Append(chain, Task("mapping", e))
       \/ native[e] = "delivered" /\ chain' = Append(chain, Task("sent", e))
    /\ call' = [call EXCEPT ![e] = "mapping"]
    /\ UNCHANGED <<durable, wire, job, unmatched, consumer, fault, broken,
                   heard, arrived, faults>>

\* reconcile: the message under the final id is read back.  It awaits the chain
\* and throws with it.
reads(e) == native[e] = "delivered"
Reconcile(e) ==
    /\ call[e] = "idle" /\ ~fault /\ ~broken /\ chain = <<>> /\ job = Idle
    /\ receipts[e].state \notin (Terminal \cup {"none"}) /\ receipts[e].final /\ reads(e)
    /\ receipts' = [receipts EXCEPT ![e].state = "verified"]
    /\ UNCHANGED <<pending, held, call, wire, chain, job, unmatched, consumer, fault,
                   broken, heard, arrived, faults>>

------------------------------------------------------------------------------
(* Telegram and the sidecar.                                                *)

Shows(kind, who) == chain' = Append(chain, Task(kind, who))

Accept(e) ==
    /\ native[e] = "requested" /\ ~broken
    /\ native' = [native EXCEPT ![e] = "sending"] /\ Shows("new", e)
    /\ UNCHANGED <<durable, call, written, job, unmatched, consumer, fault, broken,
                   heard, arrived, faults>>

\* An error answer to a request still pending is the failure of the send.
Refuse(e) ==
    /\ native[e] = "requested" /\ ~broken /\ faults < MaxFaults /\ faults' = faults + 1
    /\ native' = [native EXCEPT ![e] = "refused"]
    /\ IF call[e] = "invoked" THEN caught(e, "failed") ELSE UNCHANGED <<receipts, call>>
    /\ UNCHANGED <<pending, held, written, chain, job, unmatched, consumer, fault, broken,
                   heard, arrived>>

Finish(e) ==
    /\ native[e] = "sending" /\ ~broken
    /\ \/ native' = [native EXCEPT ![e] = "delivered"]
       \/ native' = [native EXCEPT ![e] = "undelivered"]
    /\ Shows("done", e)
    /\ UNCHANGED <<durable, call, written, job, unmatched, consumer, fault, broken,
                   heard, arrived, faults>>

OwnerWrites(o) ==
    /\ o \notin written /\ ~broken
    /\ written' = written \cup {o} /\ Shows("owner", o)
    /\ UNCHANGED <<durable, call, native, job, unmatched, consumer, fault, broken,
                   heard, arrived, faults>>

\* transport.fail: pending requests are uncertain, no frame comes any more.
SidecarFails ==
    /\ ~broken /\ faults < MaxFaults /\ faults' = faults + 1
    /\ broken' = TRUE
    /\ UNCHANGED <<durable, call, wire, chain, job, unmatched, consumer, fault,
                   heard, arrived>>

------------------------------------------------------------------------------
(* The chain.                                                               *)

mapNew(e) == IF receipts[e].state \in (Terminal \cup {"none"}) \/ receipts[e].final
             THEN receipts[e]
             ELSE [receipts[e] EXCEPT !.state = "pending", !.temp = TRUE]

mapDone(r, e) == [state |-> IF r.state \in Terminal THEN r.state
                            ELSE IF native[e] = "delivered" THEN "pending" ELSE "failed",
                  temp |-> TRUE, final |-> TRUE]
mapAnswer(t) == [state |-> IF receipts[t.who].state \in Terminal THEN receipts[t.who].state
                           ELSE "pending",
                 temp  |-> receipts[t.who].temp \/ t.kind = "mapping",
                 final |-> receipts[t.who].final \/ t.kind = "sent"]

\* A task emits a message or goes on to the holds.  The task of an answer keeps
\* the receipt it has written.
emits(t, m) == [step |-> "emit", by |-> t, m |-> m]
releases(t) == [step |-> "release", by |-> t]
answering(t) == [kind |-> t.kind, who |-> t.who, receipt |-> mapAnswer(t)]

Step(t) ==
    LET e == t.who
        late == t.kind = "mapping" /\ e \in unmatched IN
    \/ /\ t.kind = "new"
       /\ receipts' = [receipts EXCEPT ![e] = mapNew(e)]
       /\ job' = emits(t, <<e, "temp">>) /\ UNCHANGED unmatched
    \/ /\ t.kind = "done" /\ receipts[e].temp
       /\ receipts' = [receipts EXCEPT ![e] = mapDone(@, e)]
       /\ job' = emits(t, <<e, "final">>) /\ UNCHANGED unmatched
    \/ /\ t.kind = "done" /\ ~receipts[e].temp
       /\ unmatched' = unmatched \cup {e} /\ UNCHANGED <<receipts, job>>
    \/ /\ t.kind \in Mappings
       /\ receipts' = [receipts EXCEPT ![e] =
                         IF late THEN mapDone(mapAnswer(t), e) ELSE mapAnswer(t)]
       /\ unmatched' = IF late THEN unmatched \ {e} ELSE unmatched
       /\ job' = IF late THEN emits(answering(t), <<e, "final">>) ELSE releases(answering(t))
    \/ /\ t.kind = "owner"
       /\ job' = emits(t, <<e, "final">>) /\ UNCHANGED <<receipts, unmatched>>
    \/ /\ t.kind = "release"
       /\ job' = releases(t) /\ UNCHANGED <<receipts, unmatched>>

Run == /\ job = Idle /\ chain # <<>>
       /\ chain' = Tail(chain) /\ Step(Head(chain))
       /\ UNCHANGED <<pending, held, call, wire, consumer, fault, broken, heard, arrived,
                      faults>>

\* Whoever chained a task that throws, or that a rejected chain skips, catches:
\* an update the fault of the adapter, which resolves the chain; an answer the
\* receipt it wrote last, as unknown; the generator its end.
catches(t) ==
    IF t.kind \in Updates
    THEN fault' = TRUE /\ job' = Idle /\ UNCHANGED <<receipts, call, feed>>
    ELSE /\ job' = Rejected /\ UNCHANGED fault
         /\ IF t.kind = "release" THEN feed' = "failed" /\ UNCHANGED <<receipts, call>>
            ELSE /\ receipts' = [receipts EXCEPT ![t.who] = [t.receipt EXCEPT !.state = "unknown"]]
                 /\ call' = [call EXCEPT ![t.who] = "idle"]
                 /\ UNCHANGED feed

\* The receipt of an answer whose mapping never ran is the one of the dispatch.
Skip == /\ job = Rejected /\ chain # <<>> /\ chain' = Tail(chain)
        /\ LET t == Head(chain) IN
           catches(IF t.kind \in Mappings
                   THEN [kind |-> t.kind, who |-> t.who, receipt |-> Dispatching] ELSE t)
        /\ UNCHANGED <<pending, held, wire, unmatched, queue, replayed, taken, broken, heard,
                       arrived, faults>>

\* The bound of the holds.
overflows(m) == Cardinality(held) >= HoldLimit /\ m \notin held

\* The spool keeps an observation it has at its place and puts a new one last.
spooled(o) == IF \E i \in DOMAIN pending : pending[i].m = o.m
              THEN [i \in DOMAIN pending |-> IF pending[i].m = o.m THEN o ELSE pending[i]]
              ELSE Append(pending, o)
unspooled(m) == SelectSeq(pending, LAMBDA o : o.m # m)

\* emit: hold an ambiguous message, append any other to the spool.
hold(m) == held' = held \cup {m} /\ pending' = unspooled(m)
append(o) == pending' = spooled(o) /\ UNCHANGED held
throws == catches(job.by) /\ UNCHANGED <<held, pending>>
goesOn(next) == job' = next /\ UNCHANGED <<fault, receipts, call, feed>>

Emit ==
    /\ job.step = "emit" /\ arrived' = arrived \cup {job.m}
    /\ \/ /\ ambiguousAttribution(job.m) /\ overflows(job.m) /\ throws
       \/ /\ ambiguousAttribution(job.m) /\ ~overflows(job.m)
          /\ hold(job.m) /\ goesOn(releases(job.by))
       \/ /\ ~ambiguousAttribution(job.m)
          /\ append(observed(job.m))
          /\ goesOn([step |-> "push", by |-> job.by, o |-> observed(job.m)])
    /\ UNCHANGED <<wire, chain, unmatched, queue, replayed, taken, broken, heard, faults>>

Push ==
    /\ job.step = "push"
    /\ \/ Full /\ throws /\ UNCHANGED queue
       \/ /\ ~Full /\ queue' = Append(queue, job.o)
          /\ goesOn(releases(job.by)) /\ UNCHANGED <<held, pending>>
    /\ UNCHANGED <<wire, chain, unmatched, replayed, taken, broken, heard, arrived, faults>>

\* releaseAttributionHolds: one hold after the other, none that is ambiguous.
\* Mutant: only what turned out to be a send is released.
releasableSends == {m \in held : ownReceipt(m)}
releasable == {m \in held : ~ambiguousAttribution(m)}
unheld(m) == held' = held \ {m} /\ pending' = spooled(observed(m))

\* With the last of them the task is over, and who awaits it goes on.
over(t) ==
    /\ job' = Idle /\ UNCHANGED <<fault, receipts>>
    /\ call' = IF t.kind \in Mappings THEN [call EXCEPT ![t.who] = "idle"] ELSE call
    /\ feed' = IF t.kind = "release" THEN "replay" ELSE feed

Release ==
    /\ job.step = "release"
    /\ \/ releasable # {} /\ Full /\ throws /\ UNCHANGED queue
       \/ /\ ~Full /\ goesOn(job)
          /\ \E m \in releasable : unheld(m) /\ queue' = Append(queue, observed(m))
       \/ releasable = {} /\ over(job.by) /\ UNCHANGED <<held, pending, queue>>
    /\ UNCHANGED <<wire, chain, unmatched, replayed, taken, broken, heard, arrived, faults>>

------------------------------------------------------------------------------
(* The observations() generator and the host.                               *)

StartFeed ==
    /\ feed = "off" /\ feed' = "waiting"
    /\ chain' = Append(chain, Task("release", "feed"))
    /\ UNCHANGED <<durable, call, wire, job, unmatched, queue, replayed, taken, fault,
                   broken, heard, arrived, faults>>

\* The oldest of the spool, up to the limit of the queue, in their order.
page == SubSeq(pending, 1, IF Len(pending) < QueueLimit THEN Len(pending) ELSE QueueLimit)
unreplayed == SelectSeq(page, LAMBDA o : o.m \notin replayed)

\* A pending observation is judged again: its send may still be unmapped.  What
\* it throws ends the generator.
Replay ==
    /\ feed = "replay" /\ unreplayed # <<>>
    /\ LET o == Head(unreplayed)
           doubtful == ~o.own /\ ambiguousAttribution(o.m) IN
       /\ replayed' = replayed \cup {o.m}
       /\ \/ queued(o.m) /\ UNCHANGED <<pending, held, feed, taken>>
          \/ /\ ~queued(o.m) /\ doubtful /\ overflows(o.m)
             /\ feed' = "failed" /\ UNCHANGED <<pending, held, taken>>
          \/ /\ ~queued(o.m) /\ doubtful /\ ~overflows(o.m)
             /\ hold(o.m) /\ UNCHANGED <<feed, taken>>
          \/ /\ ~queued(o.m) /\ ~doubtful
             /\ taken' = taken \cup {[o EXCEPT !.own = @ \/ ownReceipt(o.m)]}
             /\ UNCHANGED <<pending, held, feed>>
    /\ UNCHANGED <<receipts, call, wire, chain, job, unmatched, queue, fault, broken,
                   heard, arrived, faults>>

\* What is behind the page waits for a later start.
ReplayEnds ==
    /\ feed = "replay" /\ unreplayed = <<>> /\ feed' = "live"
    /\ UNCHANGED <<durable, call, wire, chain, job, unmatched, queue, replayed, taken,
                   fault, broken, heard, arrived, faults>>

Consume ==
    /\ feed = "live" /\ ~fault /\ ~broken /\ queue # <<>>
    /\ queue' = Tail(queue) /\ taken' = taken \cup {Head(queue)}
    /\ UNCHANGED <<durable, call, wire, chain, job, unmatched, feed, replayed, fault,
                   broken, heard, arrived, faults>>

FeedFails ==
    /\ feed = "live" /\ (fault \/ broken) /\ feed' = "failed"
    /\ UNCHANGED <<durable, call, wire, chain, job, unmatched, queue, replayed, taken,
                   fault, broken, heard, arrived, faults>>

\* The broker stores what it made of the observation, then acknowledges it.
Handle(o) ==
    /\ o \in taken \ heard /\ heard' = heard \cup {o}
    /\ UNCHANGED <<durable, call, wire, chain, job, unmatched, consumer, fault, broken,
                   arrived, faults>>

stored(o) == o \in heard

Acknowledge(o) ==
    /\ o \in taken /\ stored(o)
    /\ taken' = taken \ {o}
    /\ pending' = unspooled(o.m)
    /\ UNCHANGED <<receipts, held, call, wire, chain, job, unmatched, queue, feed, replayed,
                   fault, broken, heard, arrived, faults>>

\* What memory held is gone; a request in the sidecar's pipe may be lost or
\* accepted, its update in neither case seen again.
Fresh == /\ call' = [e \in Effects |-> "idle"]
         /\ native' \in [Effects -> {"none", "requested", "sending", "delivered",
                                     "undelivered", "refused", "lost"}]
         /\ \A e \in Effects : IF native[e] = "requested" THEN native'[e] \in {"sending", "lost"}
                               ELSE native'[e] = native[e]
         /\ chain' = <<>> /\ job' = Idle /\ unmatched' = {}
         /\ queue' = <<>> /\ feed' = "off" /\ replayed' = {} /\ taken' = {}
         /\ fault' = FALSE /\ broken' = FALSE /\ arrived' = {}
         /\ UNCHANGED <<durable, written, heard>>

Crash == faults < MaxFaults /\ faults' = faults + 1 /\ Fresh
\* The application stops when its feed fails, closes and is started again.
Restart == /\ feed = "failed" /\ taken = {} /\ chain = <<>> /\ job \in {Idle, Rejected}
           /\ Fresh /\ UNCHANGED faults

Next == \/ \E e \in Effects : \/ Dispatch(e) \/ MediaChanged(e) \/ Invoke(e) \/ Answer(e)
                              \/ TimedOut(e) \/ Reconcile(e)
                              \/ Accept(e) \/ Refuse(e) \/ Finish(e)
        \/ \E o \in Owned : OwnerWrites(o)
        \/ SidecarFails \/ Run \/ Skip \/ Emit \/ Push \/ Release
        \/ StartFeed \/ Replay \/ ReplayEnds \/ Consume \/ FeedFails
        \/ \E o \in taken : Handle(o) \/ Acknowledge(o)
        \/ Crash \/ Restart

Spec == Init /\ [][Next]_vars

------------------------------------------------------------------------------
(* Properties.                                                              *)

TypeOK == /\ receipts \in [Effects -> Receipt]
          /\ pending \in Seq(Observations) /\ held \subseteq Messages
          /\ call \in [Effects -> {"idle", "admitted", "invoked", "mapping"}]
          /\ native \in [Effects -> {"none", "requested", "sending", "delivered",
                                     "undelivered", "refused", "lost"}]
          /\ written \subseteq Owned /\ unmatched \subseteq Effects
          /\ queue \in Seq(Observations) /\ Len(queue) <= QueueLimit
          /\ Cardinality(held) <= HoldLimit
          /\ feed \in {"off", "waiting", "replay", "live", "failed"}
          /\ taken \subseteq Observations /\ heard \subseteq Observations
          /\ replayed \subseteq Messages /\ arrived \subseteq Messages
          /\ fault \in BOOLEAN /\ broken \in BOOLEAN /\ faults \in 0..MaxFaults

\* What the agent sent is never handed to the host as a message of its owner,
\* whatever order the updates, the answer and the restarts come in.
NeverSpeaksAsOwner == \A o \in taken \cup heard : o.m[1] \in Effects => o.own

\* An effect is handed to Telegram once, also after a lost answer or a restart.
SentOnce == \A e \in Effects :
    call[e] # "invoked" /\ call'[e] = "invoked" => native[e] = "none"

\* A receipt that calls a send verified or failed says what Telegram did.
ReceiptsAreTrue ==
    \A e \in Effects :
        /\ receipts[e].state = "verified" => native[e] = "delivered"
        /\ receipts[e].state = "failed" => native[e] \in {"none", "undelivered", "refused"}

Kept(m) == m \in held \/ (\E i \in DOMAIN pending : pending[i].m = m) \/ (\E o \in heard : o.m = m)

\* A message that reached the intake is in the spool, held, or was handled;
\* otherwise the adapter is in fault and hands nothing more to the host.
ArrivedIsKept == \A m \in arrived : Kept(m) \/ fault
\* Once durable a message stays so until the host has handled it, through
\* holds, releases, replays, full queues and crashes.
KeptUntilHandled == \A m \in Messages : Kept(m) => Kept(m)'

\* A message of the owner that was shown to the sidecar, and the handling it
\* is to come to when nothing fails.
OwnerWrote(o) == o \in written
OwnerHeard(o) == \E h \in heard : h.m[1] = o

\* "updates still reconcile mappings" (transport.ts:106): an id an update has
\* given to a receipt is not lost again.
MappingsKept == [][\A e \in Effects : /\ receipts[e].temp => receipts'[e].temp
                                      /\ receipts[e].final => receipts'[e].final]_vars
==============================================================================
