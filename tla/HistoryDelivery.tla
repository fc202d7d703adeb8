-------------------------- MODULE HistoryDelivery --------------------------
(***************************************************************************)
(* Delivery of the report of one history task.  The task has one slot: a   *)
(* directory with the descriptor, which fixes the text of every part, and  *)
(* for each part the records of its pilot reply (planned, sending,         *)
(* terminal), the result with the proof that its lease was joined, and at  *)
(* most one recovery.  A call sends at most one part.  Long reports are    *)
(* sent in several parts by several calls, with crashes between any two    *)
(* steps; a recovery sends a part whose outcome is unknown once more with  *)
(* its original random id.                                                 *)
(*                                                                         *)
(* The send runs as a callback beside the call: an abort ends the wait of  *)
(* the call at once, and the callback is joined before the result is       *)
(* written.  The owner may cancel the task at any await of an ordinary     *)
(* delivery; recovery is host maintenance and runs without the manager.    *)
(***************************************************************************)
EXTENDS Naturals, Sequences, FiniteSets

CONSTANTS Bodies,      \* texts a final report may have
          Long,        \* the texts that need MaxParts messages, the others one
          MaxParts,    \* 16 in the code
          MaxFaults    \* bound on crashes, failed calls and moved heads

BodiesAssumption == Long \subseteq Bodies /\ MaxParts \in Nat \ {0, 1}

VARIABLES
    control,   \* the control slot of the task: "queued" or "cancelled"
    head,      \* the head of its pages and analysis
    disposed,  \* the task was recorded as undeliverable
    slot,      \* the slot: its state and its descriptor
    parts,     \* parts[i]: the records of part i
    svc,       \* the one delivery call
    call,      \* its callback into the reply lease
    asked,     \* requests made of Telegram, in order
    posted,    \* messages of the chat, in order
    mgr,       \* the manager's cancellation
    faults

vars == <<control, head, disposed, slot, parts, svc, call, asked, posted, mgr, faults>>
disk == <<slot, parts>>
wire == <<asked, posted>>

Indices == 1..MaxParts
Files == {"none", "torn", "ok"}
Descriptors == [body : Bodies, head : 0..MaxFaults]
NoDescriptor == [body |-> CHOOSE b \in Bodies : TRUE, head |-> 0]   \* never read
NoPart == [dir |-> FALSE, planned |-> "none", randomId |-> 0, sending |-> "none", terminal |-> "none",
           result |-> "none", recovery |-> "none"]
NoSvc == [pc |-> "idle", recovering |-> FALSE, part |-> 0, descriptor |-> NoDescriptor,
          fresh |-> FALSE, abort |-> FALSE, result |-> "none"]
CallStops == {"none", "preflight", "anchor", "asked", "acked", "reading", "read", "failed"}

TypeOK ==
    /\ control \in {"queued", "cancelled"} /\ head \in 0..MaxFaults /\ disposed \in BOOLEAN
    /\ slot.state \in {"absent", "dir", "torn", "ready"} /\ slot.descriptor \in Descriptors \cup {NoDescriptor}
    /\ parts \in [Indices -> [dir : BOOLEAN, planned : Files, randomId : 0..MaxParts, sending : Files,
                              terminal : {"none", "torn", "verified", "unknown", "failed_terminal"},
                              result : {"none", "torn", "verified", "unknown", "failed_terminal", "refused"},
                              recovery : {"none", "dir", "torn", "intent", "dispatch", "verified", "unknown"}]]
    /\ svc.pc \in {"idle", "open", "claim", "descriptor", "part", "reserve", "sending", "send", "wait", "readback",
                   "terminal", "join", "result", "recover", "intent", "dispatch", "resend"}
    /\ svc.part \in 0..MaxParts /\ svc.abort \in BOOLEAN /\ svc.recovering \in BOOLEAN
    /\ call \in CallStops
    /\ mgr \in {"idle", "abort", "join", "answered"}
    /\ faults \in 0..MaxFaults

Init ==
    /\ control = "queued" /\ head = 0 /\ disposed = FALSE
    /\ slot = [state |-> "absent", descriptor |-> NoDescriptor]
    /\ parts = [i \in Indices |-> NoPart]
    /\ svc = NoSvc /\ call = "none" /\ asked = <<>> /\ posted = <<>>
    /\ mgr = "idle" /\ faults = 0

fault == faults < MaxFaults /\ faults' = faults + 1
fine == UNCHANGED faults

\* Calls that fail leave a file out, torn, or written but not confirmed.
Failed(old, new) == {old, "torn", new}

----------------------------------------------------------------------------
\* Reading a slot.

partsTotal(d) == IF d.body \in Long THEN MaxParts ELSE 1
multipart(d) == partsTotal(d) > 1

torn(p) == "torn" \in {p.planned, p.sending, p.terminal, p.result, p.recovery}

\* The records of a pilot reply follow one another and carry one random id.
pilotRecord(p) == /\ p.planned = "none" => p.sending = "none" /\ p.terminal = "none"
                  /\ p.terminal \in {"verified", "unknown"} => p.sending = "ok"

\* The proof that the original operation ended with an unknown outcome.
binding(p) == p.planned = "ok" /\ p.sending = "ok" /\ p.terminal = "unknown" /\ p.result = "unknown"

consistent(p) == /\ ~torn(p) /\ pilotRecord(p)
                 /\ p.result = "verified" => p.terminal = "verified"
                 /\ p.result = "failed_terminal" => p.terminal = "failed_terminal"
                 /\ p.result = "refused" => p.terminal # "verified"
                 /\ p.recovery # "none" => binding(p)

\* A complete, verified recovery stands in for the observation, not the record.
recovered(p) == p.recovery = "verified"
readPart(p) == IF recovered(p) THEN "verified"
               ELSE IF p.result = "unknown" THEN "unknown"
               ELSE IF p.terminal = "verified" THEN "verified"
               ELSE IF p.terminal = "failed_terminal" THEN "failed-terminal" ELSE "unknown"

unavailable == [storage |-> "unavailable", delivery |-> "not-inspected", verified |-> 0, next |-> 0]

\* How many leading parts are verified; a further part may exist only after them.
prefix == LET ok(n) == \A i \in 1..n : parts[i].dir /\ readPart(parts[i]) = "verified"
          IN  CHOOSE n \in 0..MaxParts : ok(n) /\ (n < MaxParts => ~ok(n + 1))

readMultipart ==
    IF (\E i \in Indices : parts[i].dir /\ (~consistent(parts[i]) \/ i > prefix + 1)) THEN unavailable
    ELSE [storage |-> "ready", verified |-> prefix,
          delivery |-> IF prefix = MaxParts THEN "verified"
                       ELSE IF parts[prefix + 1].dir THEN readPart(parts[prefix + 1]) ELSE "partial",
          next |-> IF prefix < MaxParts /\ ~parts[prefix + 1].dir THEN prefix + 1 ELSE 0]

readDelivery ==
    IF slot.state = "absent" THEN [storage |-> "absent", delivery |-> "not-attempted", verified |-> 0, next |-> 0]
    ELSE IF slot.state # "ready" THEN unavailable
    ELSE IF multipart(slot.descriptor) THEN readMultipart
    ELSE IF ~consistent(parts[1]) THEN unavailable
    ELSE [storage |-> "ready", delivery |-> readPart(parts[1]), verified |-> 0, next |-> 0]

----------------------------------------------------------------------------
\* An ordinary delivery.

goes(pc) == svc' = [svc EXCEPT !.pc = pc]

\* The call throws: the lease is closed and the callback joined on the way out.
throws == svc' = NoSvc

\* A throw that belongs to the task and not to the service is remembered.
refuses(code) == throws /\ disposed' = (disposed \/ (code \in {"stale", "coverage"} /\ ~svc.recovering))

\* The service delivers a task the runner found ready, unless its slot is
\* consumed.  Only a new slot takes a report; an old one keeps its body.
ready ==
    /\ svc.pc = "idle" /\ ~disposed
    /\ LET st == readDelivery
       IN  \/ /\ st.storage = "absent"
              /\ \E b \in Bodies : svc' = [NoSvc EXCEPT !.pc = "open", !.fresh = TRUE, !.part = 1,
                                                        !.descriptor = [body |-> b, head |-> head]]
           \/ /\ st.next # 0
              /\ svc' = [NoSvc EXCEPT !.pc = "open", !.part = st.next,
                                      !.descriptor = [body |-> slot.descriptor.body, head |-> head]]
    /\ fine /\ UNCHANGED <<control, head, disposed, disk, call, wire, mgr>>

\* Fresh authenticated heads and control, or the code of the refusal.
freshHeads == IF svc.abort \/ control # "queued" THEN "cancelled"
              ELSE IF svc.descriptor.head # head THEN "stale" ELSE "ok"

\* The coverage of the root must be that of the pages read.
coverageCheck == fault /\ refuses("coverage")

\* Control, heads, coverage and the owner's settlement are checked, and the
\* descriptor compared with the one on disk.
open ==
    /\ svc.pc = "open"
    /\ \/ freshHeads # "ok" /\ refuses(freshHeads) /\ fine
       \/ freshHeads = "ok" /\ (coverageCheck \/ (fault /\ refuses("owner")))
       \/ /\ freshHeads = "ok" /\ fine /\ UNCHANGED disposed
          /\ IF ~svc.fresh /\ slot.descriptor # svc.descriptor THEN throws
             ELSE goes(IF svc.recovering THEN "recover" ELSE IF svc.fresh THEN "claim" ELSE "part")
    /\ UNCHANGED <<control, head, disk, call, wire, mgr>>

\* The slot is made exclusively.
claim ==
    /\ svc.pc = "claim"
    /\ \/ freshHeads # "ok" /\ refuses(freshHeads) /\ fine /\ UNCHANGED slot
       \/ /\ freshHeads = "ok" /\ UNCHANGED disposed
          /\ \/ fault /\ throws /\ UNCHANGED slot
             \/ fine /\ goes("descriptor") /\ slot' = [slot EXCEPT !.state = "dir"]
    /\ UNCHANGED <<control, head, parts, call, wire, mgr>>

writeDescriptor ==
    /\ svc.pc = "descriptor"
    /\ \/ fine /\ goes("part") /\ slot' = [state |-> "ready", descriptor |-> svc.descriptor]
       \/ fault /\ throws /\ \E s \in Failed("dir", "ready") :
             slot' = [state |-> s, descriptor |-> IF s = "ready" THEN svc.descriptor ELSE NoDescriptor]
    /\ UNCHANGED <<control, head, disposed, parts, call, wire, mgr>>

\* A part of several has a directory of its own, made only when it is next.
claimPart ==
    /\ svc.pc = "part"
    /\ \/ freshHeads # "ok" /\ refuses(freshHeads) /\ fine /\ UNCHANGED parts
       \/ /\ freshHeads = "ok" /\ UNCHANGED disposed
          /\ \/ multipart(svc.descriptor) /\ readDelivery.next # svc.part /\ throws /\ fine /\ UNCHANGED parts
             \/ fault /\ throws /\ UNCHANGED parts
             \/ /\ multipart(svc.descriptor) => readDelivery.next = svc.part
                /\ fine /\ goes("reserve")
                /\ parts' = [parts EXCEPT ![svc.part].dir = multipart(svc.descriptor)]
    /\ UNCHANGED <<control, head, slot, call, wire, mgr>>

stopped == svc.abort
settles(r) == svc' = [svc EXCEPT !.pc = "join", !.result = r]

\* The planned record fixes the random id: one for each part.
reserve ==
    /\ svc.pc = "reserve"
    /\ \/ stopped /\ settles("refused") /\ fine /\ UNCHANGED parts
       \/ /\ ~stopped /\ fine /\ goes("sending")
          /\ parts' = [parts EXCEPT ![svc.part].planned = "ok", ![svc.part].randomId = svc.part]
       \/ /\ ~stopped /\ fault /\ settles("refused")
          /\ \E f \in Failed("none", "ok") :
                parts' = [parts EXCEPT ![svc.part].planned = f, ![svc.part].randomId = svc.part]
    /\ UNCHANGED <<control, head, disposed, slot, call, wire, mgr>>

\* persist(v): the terminal record of the pilot reply and the result it means.
persist(v) ==
    \/ fine /\ settles(v) /\ parts' = [parts EXCEPT ![svc.part].terminal = v]
    \/ /\ fault /\ settles("unknown")
       /\ \E f \in Failed("none", v) : parts' = [parts EXCEPT ![svc.part].terminal = f]

markSending ==
    /\ svc.pc = "sending"
    /\ \/ stopped /\ persist("failed_terminal")
       \/ ~stopped /\ fine /\ goes("send") /\ parts' = [parts EXCEPT ![svc.part].sending = "ok"]
       \/ /\ ~stopped /\ fault /\ settles("unknown")
          /\ \E f \in Failed("none", "ok") : parts' = [parts EXCEPT ![svc.part].sending = f]
    /\ UNCHANGED <<control, head, disposed, slot, call, wire, mgr>>

send ==
    /\ svc.pc = "send"
    /\ \/ stopped /\ persist("failed_terminal") /\ UNCHANGED call
       \/ ~stopped /\ fine /\ goes("wait") /\ call' = "preflight" /\ UNCHANGED parts
    /\ UNCHANGED <<control, head, disposed, slot, wire, mgr>>

\* The wait for the send, and for the readback, ends at once on an abort.
wait ==
    /\ svc.pc = "wait" /\ ~svc.recovering
    /\ svc.abort \/ call \in {"failed", "acked"}
    /\ IF call = "acked" /\ ~svc.abort THEN goes("readback") /\ call' = "reading"
       ELSE goes("terminal") /\ UNCHANGED call
    /\ fine /\ UNCHANGED <<control, head, disposed, disk, wire, mgr>>

readback ==
    /\ svc.pc = "readback" /\ ~svc.recovering
    /\ svc.abort \/ call \in {"failed", "read"}
    /\ IF call = "read" /\ ~svc.abort THEN persist("verified")
       ELSE goes("terminal") /\ fine /\ UNCHANGED parts
    /\ UNCHANGED <<control, head, disposed, slot, call, wire, mgr>>

terminal ==
    /\ svc.pc = "terminal" /\ persist("unknown")
    /\ UNCHANGED <<control, head, disposed, slot, call, wire, mgr>>

\* Every callback settles before the lease counts as joined.
settled == call \in {"none", "acked", "read", "failed"}
join ==
    /\ svc.pc = "join" /\ settled
    /\ goes("result") /\ call' = "none" /\ fine
    /\ UNCHANGED <<control, head, disposed, disk, wire, mgr>>

writeResult ==
    /\ svc.pc = "result" /\ ~svc.recovering
    /\ throws
    /\ \/ fine /\ parts' = [parts EXCEPT ![svc.part].result = svc.result]
       \/ fault /\ \E f \in Failed("none", svc.result) : parts' = [parts EXCEPT ![svc.part].result = f]
    /\ UNCHANGED <<control, head, disposed, slot, call, wire, mgr>>

----------------------------------------------------------------------------
\* The callback: the preflight of the delivery and the task-reply lease.

\* The requests of a part carry its random id.
request == [part |-> svc.part, body |-> slot.descriptor.body, randomId |-> parts[svc.part].randomId]

\* An ordinary send repeats the checks of the task; a recovery did so before.
preflight ==
    /\ call = "preflight" /\ fine
    /\ call' = IF freshHeads = "ok"
                  /\ (multipart(svc.descriptor) /\ ~svc.recovering => readDelivery.verified = svc.part - 1)
               THEN "anchor" ELSE "failed"
    /\ UNCHANGED <<control, head, disposed, disk, svc, wire, mgr>>

\* A revoked lease makes no further request and hands nothing back.
localCheck == ~svc.abort

\* The lease reads the message to reply to and sends, unless it was revoked.
sendOnce ==
    /\ call = "anchor"
    /\ \/ ~localCheck /\ call' = "failed" /\ fine /\ UNCHANGED asked
       \/ localCheck /\ call' = "failed" /\ fault /\ UNCHANGED asked
       \/ localCheck /\ call' = "asked" /\ fine /\ asked' = Append(asked, request)
    /\ UNCHANGED <<control, head, disposed, disk, svc, posted, mgr>>

\* The acknowledgement names the message with this random id.
acknowledge ==
    /\ call = "asked"
    /\ \/ /\ \E k \in DOMAIN posted : posted[k].randomId = request.randomId
          /\ call' = (IF localCheck THEN "acked" ELSE "failed") /\ fine
       \/ call' = "failed" /\ fault
    /\ UNCHANGED <<control, head, disposed, disk, svc, wire, mgr>>

readExact ==
    /\ call = "reading"
    /\ \/ call' = (IF localCheck THEN "read" ELSE "failed") /\ fine
       \/ call' = "failed" /\ fault
    /\ UNCHANGED <<control, head, disposed, disk, svc, wire, mgr>>

\* External: Telegram posts what it was asked, once for each random id.
Post ==
    /\ \E k \in DOMAIN asked :
          /\ \A j \in DOMAIN posted : posted[j].randomId # asked[k].randomId
          /\ posted' = Append(posted, asked[k])
    /\ fine /\ UNCHANGED <<control, head, disposed, disk, svc, call, asked, mgr>>

----------------------------------------------------------------------------
\* Recovery of one part whose outcome is unknown.

recover ==
    /\ svc.pc = "idle" /\ mgr \in {"idle", "answered"}
    /\ \E i \in Indices :
          /\ readDelivery.storage = "ready" /\ readDelivery.delivery = "unknown"
          /\ binding(parts[i]) /\ parts[i].recovery = "none"
          /\ svc' = [NoSvc EXCEPT !.pc = "open", !.recovering = TRUE, !.part = i,
                                  !.descriptor = [body |-> slot.descriptor.body, head |-> head]]
    /\ fine /\ UNCHANGED <<control, head, disposed, disk, call, wire, mgr>>

\* One step of the recovery's own records, each behind the fresh heads and the
\* unchanged original records.
recoveryGuard == freshHeads = "ok" /\ binding(parts[svc.part])
recoveryStep(pc, record, next) ==
    /\ svc.pc = pc
    /\ \/ ~recoveryGuard /\ throws /\ fine /\ UNCHANGED parts
       \/ recoveryGuard /\ fine /\ goes(next) /\ parts' = [parts EXCEPT ![svc.part].recovery = record]
       \/ /\ recoveryGuard /\ fault /\ throws
          /\ \E f \in Failed(parts[svc.part].recovery, record) : parts' = [parts EXCEPT ![svc.part].recovery = f]
    /\ UNCHANGED <<control, head, disposed, slot, call, wire, mgr>>
recoveryDirectory == recoveryStep("recover", "dir", "intent")
recoveryIntent == recoveryStep("intent", "intent", "dispatch")
recoveryDispatch == recoveryStep("dispatch", "dispatch", "resend")

\* The original request again; whatever fails leaves the outcome unknown.
resend ==
    /\ svc.pc = "resend" /\ fine
    /\ IF recoveryGuard THEN goes("wait") /\ call' = "preflight" ELSE settles("unknown") /\ UNCHANGED call
    /\ UNCHANGED <<control, head, disposed, disk, wire, mgr>>
recoveryWait ==
    /\ svc.pc \in {"wait", "readback"} /\ svc.recovering /\ fine
    /\ \/ call = "acked" /\ svc.pc = "wait" /\ goes("readback") /\ call' = "reading"
       \/ call = "failed" /\ settles("unknown") /\ UNCHANGED call
       \/ call = "read" /\ settles("verified") /\ UNCHANGED call
    /\ UNCHANGED <<control, head, disposed, disk, wire, mgr>>
recoveryResult ==
    /\ svc.pc = "result" /\ svc.recovering /\ throws
    /\ \/ ~recoveryGuard /\ fine /\ UNCHANGED parts
       \/ recoveryGuard /\ fine /\ parts' = [parts EXCEPT ![svc.part].recovery = svc.result]
       \/ /\ recoveryGuard /\ fault
          /\ \E f \in Failed("dispatch", svc.result) : parts' = [parts EXCEPT ![svc.part].recovery = f]
    /\ UNCHANGED <<control, head, disposed, slot, call, wire, mgr>>

----------------------------------------------------------------------------
\* Cancellation, crashes, and changes of the task's stores.

\* The cancellation is durable before anything is told of it.
cancel ==
    /\ mgr = "idle" /\ ~svc.recovering
    /\ control' = "cancelled" /\ mgr' = "abort" /\ fine
    /\ UNCHANGED <<head, disposed, disk, svc, call, wire>>

answersAtOnce ==
    /\ mgr = "abort" /\ fine
    /\ mgr' = "answered"
    /\ UNCHANGED <<control, head, disposed, disk, svc, call, wire>>

\* onCancelled: the active delivery is aborted and its settlement awaited.
onCancelled ==
    /\ mgr = "abort" /\ fine
    /\ mgr' = "join" /\ svc' = IF svc.pc = "idle" THEN svc ELSE [svc EXCEPT !.abort = TRUE]
    /\ UNCHANGED <<control, head, disposed, disk, call, wire>>
settlement ==
    /\ mgr = "join" /\ svc.pc = "idle" /\ settled /\ fine
    /\ mgr' = "answered"
    /\ UNCHANGED <<control, head, disposed, disk, svc, call, wire>>

\* The service stops: its signal aborts the call.
stop ==
    /\ svc.pc # "idle" /\ ~svc.abort /\ fault
    /\ svc' = [svc EXCEPT !.abort = TRUE]
    /\ UNCHANGED <<control, head, disposed, disk, call, wire, mgr>>

crash ==
    /\ fault /\ svc' = NoSvc /\ call' = "none" /\ mgr' = IF mgr = "answered" THEN mgr ELSE "idle"
    /\ UNCHANGED <<control, head, disposed, disk, wire>>

\* External: pages or nodes are added to the task.
Advance ==
    /\ fault /\ head' = head + 1
    /\ UNCHANGED <<control, disposed, disk, svc, call, wire, mgr>>

Deliver == ready \/ open \/ claim \/ writeDescriptor \/ claimPart \/ reserve \/ markSending \/ send
           \/ wait \/ readback \/ terminal \/ join \/ writeResult
Lease == preflight \/ sendOnce \/ acknowledge \/ readExact
Recovery == recover \/ recoveryDirectory \/ recoveryIntent \/ recoveryDispatch \/ resend \/ recoveryWait
            \/ recoveryResult
Next == Deliver \/ Lease \/ Post \/ Recovery \/ cancel \/ onCancelled \/ settlement \/ stop \/ crash \/ Advance

Spec == Init /\ [][Next]_vars

----------------------------------------------------------------------------
\* Properties.

\* The messages of the chat are the parts of one report in their order, each
\* once, whatever report later calls were offered and wherever they stopped.
PostedIsOneReport ==
    \A k \in DOMAIN posted : posted[k].part = k /\ posted[k].body = slot.descriptor.body

\* What a reader of the slot is told is true: a verified part is in the chat,
\* and of a part that failed or was refused nothing was ever asked.
StatusIsTrue ==
    /\ readDelivery.verified <= Len(posted)
    /\ readDelivery.delivery = "verified" => Len(posted) = partsTotal(slot.descriptor)
    /\ \A i \in Indices : parts[i].terminal = "failed_terminal" \/ parts[i].result = "refused" =>
          \A k \in DOMAIN asked : asked[k].part # i

\* Telegram is asked for a part at most once by a delivery and once more by a
\* recovery, and the second time only when the first has been settled.
AskedAgainOnlyByRecovery ==
    \A i \in Indices : LET n == Cardinality({k \in DOMAIN asked : asked[k].part = i})
                       IN  n <= 2 /\ (n = 2 => parts[i].result = "unknown")

\* Once a cancellation was answered, nothing of the task is asked any more.
CancelStops == mgr = "answered" => UNCHANGED asked

\* Without faults and without a cancellation the whole report is delivered.
Delivered == faults > 0 \/ control # "queued" \/ readDelivery.delivery = "verified"
=============================================================================
