--------------------------- MODULE CommunityAlert ---------------------------
(***************************************************************************)
(* Alerts of the community observer.  A batch of observed rows is reserved *)
(* and assessed by one turn of the native owner; the answer is silence or  *)
(* an alert under a case key.  The outbox sends one message per case: the  *)
(* case is reserved, the lease opened, the sending mark written, and only  *)
(* then the policy is read once more.  The owner of the group may change   *)
(* the policy at any moment, which aborts the step that is running; calls  *)
(* to change it are retried when their answer is lost.                     *)
(*                                                                         *)
(* CommunityRows has the rows behind the batches; here a batch is a number *)
(* and its assessment any answer.                                          *)
(***************************************************************************)
EXTENDS Naturals, FiniteSets

CONSTANTS Batches,     \* batches of rows to assess
          Cases,       \* case keys the model may name
          Calls,       \* calls that change the settings
          MaxCases,    \* capacity of the outbox, 256 in the code
          MaxFaults    \* bound on failed writes and calls, lost answers and stops

AlertAssumption == Batches \in Nat /\ MaxCases \in Nat \ {0} /\ MaxFaults \in Nat /\ "silent" \notin Cases

VARIABLES
    settings,   \* the settings file: revision, mode and the call that wrote it
    calls,      \* the calls of the owner of the group
    notify,     \* a change was written and the observer not yet told
    through,    \* batches processed
    reserved,   \* the next batch is recorded as attempt-reserved
    obs,        \* the step of the observer
    owner,      \* the native owner of the assessment
    lease,      \* the alert lease is open
    ledger,     \* the outbox: state and policy revision of every case
    wire,       \* what Telegram was asked and did
    fresh,      \* cases whose time lies within the alert interval
    broken,     \* stores that refuse after an uncertain write
    marked,     \* the settings when the sending mark of a case was written
    applied,    \* times the change of a call was written
    faults

vars == <<settings, calls, notify, through, reserved, obs, owner, lease, ledger, wire, fresh, broken,
          marked, applied, faults>>
policyState == <<settings, calls, notify, applied>>
outbox == <<ledger, fresh, broken, marked>>
rows == <<through, reserved>>

Modes == {"off", "observe", "alert"}     \* alerts need observation
NoCall == "none"
NoStep == [pc |-> "idle", rev |-> 0, answer |-> "silent", verdict |-> "none", abort |-> FALSE,
           closing |-> FALSE, fatal |-> FALSE]
Stops == {"idle", "reserve", "prepare", "turn", "release", "closeTurn", "join", "decided", "case", "lease", "mark",
          "refresh", "send", "sent", "read", "close", "settle", "finish", "closed"}
States == {"absent", "reserved", "sending", "verified", "unknown", "not-sent"}

TypeOK ==
    /\ settings.mode \in Modes /\ settings.rev \in Nat /\ settings.by \in Calls \cup {NoCall}
    /\ calls \in [Calls -> [state : {"new", "issued", "ok", "conflict"}, expected : Nat, mode : Modes]]
    /\ {notify, reserved, lease, obs.abort, obs.closing, obs.fatal} \subseteq BOOLEAN
    /\ through \in 0..Batches /\ obs.pc \in Stops /\ obs.answer \in Cases \cup {"silent"}
    /\ obs.verdict \in {"none", "verified", "not-sent", "unknown"}
    /\ owner \in {"none", "held", "released", "lost"}
    /\ ledger \in [Cases -> [state : States, rev : Nat]] /\ Cardinality({k \in Cases : ledger[k].state # "absent"}) <= MaxCases
    /\ wire \in [Cases -> {"none", "invoked", "done"}] /\ fresh \subseteq Cases
    /\ broken \subseteq {"outbox", "settings"} /\ faults \in 0..MaxFaults

defaultSettings == [rev |-> 1, mode |-> "observe", by |-> NoCall]
Init ==
    /\ settings = defaultSettings
    /\ calls = [c \in Calls |-> [state |-> "new", expected |-> 0, mode |-> "observe"]]
    /\ notify = FALSE /\ through = 0 /\ reserved = FALSE /\ obs = NoStep /\ owner = "none" /\ lease = FALSE
    /\ ledger = [k \in Cases |-> [state |-> "absent", rev |-> 0]]
    /\ wire = [k \in Cases |-> "none"] /\ fresh = {} /\ broken = {}
    /\ marked = [k \in Cases |-> defaultSettings] /\ applied = [c \in Calls |-> 0] /\ faults = 0

fault == faults < MaxFaults /\ faults' = faults + 1
fine == UNCHANGED faults

------------------------------------------------------------------------------
(* The settings. *)

\* A call quotes the revision its sender saw.
issue(c) ==
    /\ calls[c].state = "new"
    /\ \E mode \in Modes : calls' = [calls EXCEPT ![c] = [state |-> "issued", expected |-> settings.rev, mode |-> mode]]
    /\ fine /\ UNCHANGED <<settings, notify, applied, rows, obs, owner, lease, outbox, wire>>

\* The change a call asks for is the last one already.
replay(c) == settings.rev = calls[c].expected + 1 /\ settings.mode = calls[c].mode /\ settings.by = c
candidate(c) == [rev |-> settings.rev + 1, mode |-> calls[c].mode, by |-> c]
answered(c, state) ==
    \/ fine /\ calls' = [calls EXCEPT ![c].state = state]
    \/ fault /\ UNCHANGED calls     \* the answer is lost and the call made again

policyReadable == "settings" \notin broken

update(c) ==
    /\ calls[c].state = "issued" /\ policyReadable
    /\ \/ /\ replay(c) /\ answered(c, "ok") /\ notify' = TRUE /\ UNCHANGED <<settings, applied, broken>>
       \/ /\ ~replay(c) /\ settings.rev # calls[c].expected
          /\ answered(c, "conflict") /\ UNCHANGED <<settings, applied, broken, notify>>
       \/ /\ ~replay(c) /\ settings.rev = calls[c].expected /\ settings' = candidate(c)
          /\ applied' = [applied EXCEPT ![c] = @ + 1]
          /\ \/ answered(c, "ok") /\ notify' = TRUE /\ UNCHANGED broken
             \/ fault /\ broken' = broken \cup {"settings"} /\ UNCHANGED <<calls, notify>>
       \/ /\ ~replay(c) /\ settings.rev = calls[c].expected    \* the write failed
          /\ fault /\ broken' = broken \cup {"settings"} /\ UNCHANGED <<settings, applied, calls, notify>>
    /\ UNCHANGED <<rows, obs, owner, lease, ledger, fresh, marked, wire>>

\* The observer is told after the file is written; it aborts the step and its lease.
policyChanged ==
    /\ notify /\ notify' = FALSE
    /\ obs' = [obs EXCEPT !.abort = @ \/ obs.pc \notin {"idle", "closed"}]
    /\ fine /\ UNCHANGED <<settings, calls, applied, rows, owner, lease, outbox, wire>>

------------------------------------------------------------------------------
(* The step of the observer. *)

goto(pc) == obs' = [obs EXCEPT !.pc = pc]
ended == IF obs.closing \/ obs.fatal THEN [NoStep EXCEPT !.pc = "closed"] ELSE NoStep
finishWith == obs' = [obs EXCEPT !.pc = "finish"]
processed == through' = through + 1 /\ reserved' = FALSE

used == {k \in Cases : ledger[k].state # "absent"}
capacityFull == Cardinality(used) >= MaxCases
\* What the outbox reports: an interrupted send counts as a possible one.
potentialSend(k) == ledger[k].state \in {"sending", "verified", "unknown"}
cooling(k) == k \in fresh /\ potentialSend(k)
suppressed == capacityFull \/ (\E k \in Cases : cooling(k)) \/ settings.mode # "alert"

\* A reservation found at the start is consumed, never assessed again.
step ==
    /\ obs.pc = "idle" /\ broken = {} /\ through < Batches
    /\ IF reserved \/ suppressed THEN processed /\ UNCHANGED obs
       ELSE obs' = [NoStep EXCEPT !.pc = "reserve", !.rev = settings.rev] /\ UNCHANGED rows
    /\ fine /\ UNCHANGED <<policyState, owner, lease, outbox, wire>>

reserveBatch ==
    /\ obs.pc = "reserve"
    /\ IF obs.abort \/ ~policyReadable THEN obs' = ended /\ UNCHANGED rows
       ELSE IF settings.rev # obs.rev THEN processed /\ obs' = ended
       ELSE reserved' = TRUE /\ UNCHANGED through /\ goto("prepare")
    /\ fine /\ UNCHANGED <<policyState, owner, lease, outbox, wire>>

\* The assessment port: prepare and acquire, one turn, release, close.
acquire ==
    /\ obs.pc = "prepare"
    /\ \/ obs.abort /\ fine /\ finishWith /\ UNCHANGED owner
       \/ ~obs.abort /\ fine /\ goto("turn") /\ owner' = "held"
       \/ ~obs.abort /\ fault /\ finishWith /\ UNCHANGED owner
    /\ UNCHANGED <<policyState, rows, lease, outbox, wire>>

turn ==
    /\ obs.pc = "turn"
    /\ \/ obs.abort /\ fine /\ goto("join")
       \/ ~obs.abort /\ fine /\ \E a \in Cases \cup {"silent"} : obs' = [obs EXCEPT !.pc = "release", !.answer = a]
       \/ ~obs.abort /\ fault /\ goto("join")
    /\ UNCHANGED <<policyState, rows, owner, lease, outbox, wire>>

release ==
    /\ obs.pc = "release"
    /\ \/ obs.abort /\ fine /\ goto("join") /\ UNCHANGED owner
       \/ ~obs.abort /\ fine /\ goto("closeTurn") /\ owner' = "released"
       \/ ~obs.abort /\ fault /\ goto("join") /\ UNCHANGED owner
    /\ UNCHANGED <<policyState, rows, lease, outbox, wire>>

closeOwned ==
    /\ obs.pc = "closeTurn"
    /\ \/ fine /\ owner' = "none" /\ IF obs.abort THEN finishWith ELSE goto("decided")
       \/ fault /\ owner' = "lost" /\ obs' = [obs EXCEPT !.pc = "finish", !.fatal = TRUE]
    /\ UNCHANGED <<policyState, rows, lease, outbox, wire>>

\* A turn that did not complete is joined with a proof of settlement, or the port is poisoned.
join ==
    /\ obs.pc = "join"
    /\ \/ fine /\ owner' = "none" /\ finishWith
       \/ fault /\ owner' = "lost" /\ obs' = [obs EXCEPT !.pc = "finish", !.fatal = TRUE]
    /\ UNCHANGED <<policyState, rows, lease, outbox, wire>>

unsent(k) == ledger[k].state = "absent"
decide ==
    /\ obs.pc = "decided"
    /\ IF ~obs.abort /\ obs.answer # "silent" /\ policyReadable /\ settings.rev = obs.rev /\ unsent(obs.answer)
       THEN goto("case") ELSE finishWith
    /\ fine /\ UNCHANGED <<policyState, rows, owner, lease, outbox, wire>>

finish ==
    /\ obs.pc = "finish" /\ obs' = ended
    /\ \/ fine /\ processed
       \/ fault /\ UNCHANGED rows
    /\ UNCHANGED <<policyState, owner, lease, outbox, wire>>

------------------------------------------------------------------------------
(* The outbox: deliver. *)

case == obs.answer
entered(state) == [ledger EXCEPT ![case].state = state]
\* The file is replaced as a whole; after a failed replacement the handle refuses.
writeLedger(new) == fine /\ ledger' = new /\ UNCHANGED broken
writeFails(new) == fault /\ ledger' \in {ledger, new} /\ broken' = broken \cup {"outbox"}

reserveCase ==
    /\ obs.pc = "case"
    /\ LET new == [ledger EXCEPT ![case] = [state |-> "reserved", rev |-> obs.rev]]
       IN \/ ~capacityFull /\ writeLedger(new) /\ goto("lease")
          \/ ~capacityFull /\ writeFails(new) /\ finishWith
          \/ capacityFull /\ fine /\ finishWith /\ UNCHANGED <<ledger, broken>>
    /\ fresh' = fresh \cup {case}
    /\ UNCHANGED <<policyState, rows, owner, lease, marked, wire>>

openAlert ==
    /\ obs.pc = "lease"
    /\ \/ obs.abort /\ fine /\ obs' = [obs EXCEPT !.pc = "settle", !.verdict = "not-sent"] /\ UNCHANGED lease
       \/ ~obs.abort /\ fine /\ lease' = TRUE /\ goto("mark")
       \/ ~obs.abort /\ fault /\ obs' = [obs EXCEPT !.pc = "settle", !.verdict = "not-sent"] /\ UNCHANGED lease
    /\ UNCHANGED <<policyState, rows, owner, outbox, wire>>

closeWith(verdict) == obs' = [obs EXCEPT !.pc = "close", !.verdict = verdict]

markSending ==
    /\ obs.pc = "mark"
    /\ \/ obs.abort /\ fine /\ closeWith("not-sent") /\ UNCHANGED <<ledger, broken, lease, marked>>
       \/ /\ ~obs.abort /\ writeLedger(entered("sending")) /\ goto("refresh") /\ UNCHANGED lease
          /\ marked' = [marked EXCEPT ![case] = settings]
       \/ /\ ~obs.abort /\ writeFails(entered("sending")) /\ finishWith /\ lease' = FALSE
          /\ marked' = [marked EXCEPT ![case] = settings]
    /\ UNCHANGED <<policyState, rows, owner, fresh, wire>>

\* The policy is read after the mark: nothing but the request itself follows it.
alertsOn == settings.mode = "alert"
policyStands == alertsOn /\ settings.rev = ledger[case].rev
policySame == policyReadable /\ policyStands
refreshPolicy ==
    /\ obs.pc = "refresh"
    /\ \/ fine /\ IF ~obs.abort /\ policySame THEN goto("send") ELSE closeWith("not-sent")
       \/ fault /\ closeWith("not-sent")
    /\ UNCHANGED <<policyState, rows, owner, lease, outbox, wire>>

\* An abort revokes the lease: a request not yet made is refused, one in flight is joined.
sendOnce ==
    /\ obs.pc = "send"
    /\ IF obs.abort THEN closeWith("unknown") /\ UNCHANGED wire
       ELSE goto("sent") /\ wire' = [wire EXCEPT ![case] = "invoked"]
    /\ fine /\ UNCHANGED <<policyState, rows, owner, lease, outbox>>

acknowledged ==
    /\ obs.pc = "sent"
    /\ \/ ~obs.abort /\ fine /\ wire[case] = "done" /\ goto("read")
       \/ obs.abort /\ fine /\ closeWith("unknown")
       \/ ~obs.abort /\ fault /\ closeWith("unknown")
    /\ UNCHANGED <<policyState, rows, owner, lease, outbox, wire>>

readExact ==
    /\ obs.pc = "read"
    /\ \/ fine /\ closeWith(IF obs.abort THEN "unknown" ELSE "verified")
       \/ fault /\ closeWith("unknown")
    /\ UNCHANGED <<policyState, rows, owner, lease, outbox, wire>>

closeLease ==
    /\ obs.pc = "close"
    /\ \/ fine /\ lease' = FALSE /\ goto("settle")
       \/ fault /\ obs' = [obs EXCEPT !.pc = "settle", !.verdict = "unknown", !.fatal = TRUE] /\ UNCHANGED lease
    /\ UNCHANGED <<policyState, rows, owner, outbox, wire>>

verdict == obs.verdict
settle ==
    /\ obs.pc = "settle"
    /\ writeLedger(entered(verdict)) \/ writeFails(entered(verdict))
    /\ finishWith /\ fresh' = fresh \cup {case}
    /\ UNCHANGED <<policyState, rows, owner, lease, marked, wire>>

------------------------------------------------------------------------------
(* Telegram, time, the end of the service and of the process. *)

Happen(k) ==
    /\ wire[k] = "invoked" /\ wire' = [wire EXCEPT ![k] = "done"]
    /\ fine /\ UNCHANGED <<policyState, rows, obs, owner, lease, outbox>>

\* The interval is longer than a delivery.
Tick == /\ obs.pc = "idle" /\ fresh # {} /\ fresh' = {}
        /\ fine /\ UNCHANGED <<policyState, rows, obs, owner, lease, ledger, broken, marked, wire>>

close ==
    /\ ~obs.closing /\ obs.pc # "closed"
    /\ obs' = IF obs.pc = "idle" THEN [NoStep EXCEPT !.pc = "closed"] ELSE [obs EXCEPT !.closing = TRUE, !.abort = TRUE]
    /\ fine /\ UNCHANGED <<policyState, rows, owner, lease, outbox, wire>>

Restart ==
    /\ fault /\ obs' = NoStep /\ owner' = "none" /\ lease' = FALSE /\ notify' = FALSE /\ broken' = {}
    /\ UNCHANGED <<settings, calls, applied, rows, ledger, fresh, marked, wire>>

Settings == \E c \in Calls : issue(c) \/ update(c)
Assess == acquire \/ turn \/ release \/ closeOwned \/ join
Deliver == reserveCase \/ openAlert \/ markSending \/ refreshPolicy \/ sendOnce \/ acknowledged \/ readExact
           \/ closeLease \/ settle
Observer == step \/ reserveBatch \/ Assess \/ decide \/ Deliver \/ finish
Telegram == \E k \in Cases : Happen(k)

Next == Settings \/ policyChanged \/ Observer \/ Telegram \/ Tick \/ close \/ Restart
Spec == Init /\ [][Next]_vars

------------------------------------------------------------------------------
(* Properties. *)

\* The outbox keeps the promise of every outbox of the gateway: each case is claimed once, sent at
\* most once and only under its mark, and "not-sent" and "verified" are true.
Said(state) == IF state = "reserved" THEN "claimed" ELSE IF state = "not-sent" THEN "refused" ELSE state
Ledger == INSTANCE OneShotLedger WITH
    Slots <- Cases, record <- [k \in Cases |-> Said(ledger[k].state)], wire <- wire
LedgerStart == Ledger!Init
LedgerStep == [Ledger!Next]_(Ledger!vars)

\* An alert is sent only if the policy that was in force when its sending mark became durable is the
\* one its rows were assessed under, with alerts enabled: no change answered before the mark is missed.
DispatchedUnderPolicy ==
    \A k \in Cases : wire[k] # "none" => marked[k].rev = ledger[k].rev /\ marked[k].mode = "alert"

\* Between two steps the observer owns nothing, neither a native owner nor an alert lease, unless
\* it stopped for good because a settlement could not be proved.
IdleOwnsNothing == obs.pc = "idle" => owner = "none" /\ ~lease

\* No two alerts are sent within one interval, with stops in between or without.
Spacing == Cardinality({k \in fresh : wire[k] # "none"}) <= 1

\* A call changes the settings once however often it is made, and only then it is answered as done.
UpdateOnce == \A c \in Calls : applied[c] <= 1 /\ (calls[c].state = "ok" => applied[c] = 1)

\* Every batch is processed in the end, unless the observer is closed or a store refuses.
BatchesEnded == through = Batches \/ obs.pc = "closed" \/ broken # {}
==============================================================================
