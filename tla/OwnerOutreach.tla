---------------------------- MODULE OwnerOutreach ----------------------------
(***************************************************************************)
(* Outreach of the personal agent: a batch of drafts is revised, proposed  *)
(* to the owner, confirmed by a message of the owner, attached as the      *)
(* batch's approval and drained, one operation at a time, through the      *)
(* broker.  OwnerControlService keeps proposals and receipts,              *)
(* OutreachService the batch and its progress.                             *)
(*                                                                         *)
(* The confirmation, the attaching of a receipt and the drain all await    *)
(* Telegram while the owner edits or deletes the confirmation, the batch   *)
(* is revised, cancelled or approved anew, and the scope of the task ends. *)
(* The broker's recovery works through the records it listed before, and   *)
(* may put "unknown" over one that was verified since.                     *)
(***************************************************************************)
EXTENDS Naturals, FiniteSets

CONSTANTS Recipients,   \* recipients of the batch
          Attached,     \* those whose draft has an attachment
          Proposals,    \* number of approvals that are proposed
          MaxRevisions, \* bound on revisions of the draft
          MaxChanges,   \* bound on answers the owner changes and approvals that expire
          MaxCrashes,   \* bound on crashes
          NoRecipient

AttachedAssumption == Attached \subseteq Recipients

VARIABLES
    batch,      \* [state, rev, receipt, selected]
    prog,       \* prog[r][o]: stored progress of operation o for recipient r
    effect,     \* effect[v][r][o]: the broker's record of that operation of revision v
    wire,       \* external: wire[v][r][o]: whether the operation, once handed over, arrives
    pass,       \* the broker's recovery: the operations it has yet to visit, the one it awaits
    proposal,   \* proposal[k]: [state, rev]
    receipt,    \* receipt[k]: [state, selected]: the owner's receipt
    message,    \* message[k]: external: the owner's answer at the server
    source,     \* source[k]: what the service knows of that answer
    flow,       \* flow[k]: workflowOwnerApprovals
    confirming, \* confirming[k]: where the confirmation of k is suspended
    attaching,  \* [at, k, fresh]: attachApproval
    draining,   \* [at, r, o, k, rev]: the one drain of the batch
    scope,      \* the task's authority is current
    after,      \* after[k]: operations sent under receipt k after the owner took it back
    crashes

vars == <<batch, prog, effect, proposal, receipt, message, source, flow,
          confirming, attaching, draining, scope, after, crashes, wire, pass>>
broker == <<effect, wire, pass>>
owner == <<proposal, receipt, message, source, confirming>>

Numbers == 1..Proposals
Revisions == 1..MaxRevisions
Ops(r) == IF r \in Attached THEN {"text", "file"} ELSE {"text"}
Everything == {"text", "file"}
Outcomes == {"verified", "failed", "unknown"}
RecipientStates == {"unselected", "pending", "dispatching", "cancelled"} \cup Outcomes
Terminal == {"verified", "failed", "unknown", "cancelled"}
Unselected == [r \in Recipients |-> [o \in Everything |->
                  [state |-> "unselected", effect |-> FALSE, rejected |-> FALSE]]]
Operations == Revisions \X Recipients \X Everything
NoPass == [listed |-> {}, at |-> {}]
NoAttach == [at |-> "idle", k |-> 1, fresh |-> FALSE]
NoDrain == [at |-> "idle", r |-> NoRecipient, o |-> "text", k |-> 1, rev |-> 1]

TypeOK ==
    /\ batch \in [state : {"draft", "approved", "sending", "completed", "partial", "unknown", "cancelled"},
                  rev : Revisions, receipt : 0..Proposals, selected : SUBSET Recipients]
    /\ prog \in [Recipients -> [Everything ->
                    [state : RecipientStates, effect : BOOLEAN, rejected : BOOLEAN]]]
    /\ effect \in [Revisions -> [Recipients -> [Everything -> {"none", "dispatching"} \cup Outcomes]]]
    /\ wire \in [Revisions -> [Recipients -> [Everything -> {"none", "delivered", "undelivered"}]]]
    /\ pass \in [listed : SUBSET Operations, at : SUBSET Operations]
    /\ proposal \in [Numbers -> [state : {"none", "pending", "accepted", "rejected", "expired"}, rev : Revisions]]
    /\ receipt \in [Numbers -> [state : {"none", "active", "revoked"}, selected : SUBSET Recipients]]
    /\ message \in [Numbers -> {"none", "yes", "no", "changed"}]
    /\ source \in [Numbers -> {"none", "active", "revoked"}]
    /\ flow \in [Numbers -> {"none", "prepared", "verified", "unknown"}]
    /\ confirming \in [Numbers -> {"idle", "reading", "read"}]
    /\ attaching \in [at : {"idle", "reading", "read", "drain"}, k : Numbers, fresh : BOOLEAN]
    /\ draining \in [at : {"idle", "reading", "read", "preparing", "reserved", "sending"},
                     r : Recipients \cup {NoRecipient}, o : Everything, k : Numbers, rev : Revisions]
    /\ scope \in BOOLEAN /\ after \in [Numbers -> 0..3] /\ crashes \in 0..MaxCrashes

Init ==
    /\ batch = [state |-> "draft", rev |-> 1, receipt |-> 0, selected |-> {}]
    /\ prog = Unselected
    /\ effect = [v \in Revisions |-> [r \in Recipients |-> [o \in Everything |-> "none"]]]
    /\ wire = effect /\ pass = NoPass
    /\ proposal = [k \in Numbers |-> [state |-> "none", rev |-> 1]]
    /\ receipt = [k \in Numbers |-> [state |-> "none", selected |-> {}]]
    /\ message = [k \in Numbers |-> "none"] /\ source = [k \in Numbers |-> "none"]
    /\ flow = [k \in Numbers |-> "none"] /\ confirming = [k \in Numbers |-> "idle"]
    /\ attaching = NoAttach /\ draining = NoDrain
    /\ scope = TRUE /\ after = [k \in Numbers |-> 0] /\ crashes = 0

-----------------------------------------------------------------------------
(* Projection of the broker's records.                                     *)

\* A reservation without a broker record is unknown unless its rejection
\* before the wire was recorded.
projectOperation(p, e) ==
    IF ~p.effect THEN p
    ELSE [p EXCEPT !.state = IF e # "none" THEN e ELSE IF p.rejected THEN "failed" ELSE "unknown"]
project(pr, eff, v) ==
    [r \in Recipients |-> [o \in Everything |-> projectOperation(pr[r][o], eff[v][r][o])]]

recipientState(pr, r) ==
    LET states == {pr[r][o].state : o \in Ops(r)}
    IN CASE "unknown" \in states -> "unknown"
         [] "unknown" \notin states /\ "dispatching" \in states -> "dispatching"
         [] states \cap {"unknown", "dispatching"} = {} /\ "failed" \in states -> "failed"
         [] states \cap {"unknown", "dispatching", "failed"} = {} /\ "cancelled" \in states -> "cancelled"
         [] states = {"verified"} -> "verified"
         [] states # {"verified"} /\ states \subseteq {"verified", "pending", "unselected"} ->
                IF "pending" \in states THEN "pending" ELSE "unselected"

settledState(pr, b) ==
    LET states == {recipientState(pr, r) : r \in b.selected}
    IN IF b.state = "cancelled" \/ states = {} THEN b.state
       ELSE IF states = {"verified"} THEN "completed"
       ELSE IF states \subseteq Terminal THEN IF "unknown" \in states THEN "unknown" ELSE "partial"
       ELSE b.state
\* Every change of the stored batch makes a suspended attachApproval stale.
stored(b, pr) ==
    /\ batch' = b /\ prog' = pr
    /\ attaching' = [attaching EXCEPT !.fresh = @ /\ b = batch /\ pr = prog]

\* inspect: project every recipient, then settle the batch.
inspected(b, pr, eff) ==
    LET p == project(pr, eff, b.rev) IN stored([b EXCEPT !.state = settledState(p, b)], p)

inspect ==
    /\ inspected(batch, prog, effect)
    /\ UNCHANGED <<broker, owner, flow, draining, scope, after, crashes>>

-----------------------------------------------------------------------------
(* Drafts, proposals and the owner's confirmation.                         *)

revise ==
    /\ scope /\ batch.rev < MaxRevisions /\ batch.state # "cancelled"
    /\ \A r \in Recipients : ~prog[r]["text"].effect
    /\ stored([state |-> "draft", rev |-> batch.rev + 1, receipt |-> 0, selected |-> {}], Unselected)
    /\ UNCHANGED <<broker, owner, flow, draining, scope, after, crashes>>

cancel ==
    /\ scope
    /\ inspected([batch EXCEPT !.state = "cancelled"],
                 [r \in Recipients |-> [o \in Everything |->
                     IF prog[r][o].state = "pending" /\ ~prog[r][o].effect
                     THEN [prog[r][o] EXCEPT !.state = "cancelled"] ELSE prog[r][o]]], effect)
    /\ UNCHANGED <<broker, owner, flow, draining, scope, after, crashes>>

requestApproval(k) ==
    /\ scope /\ batch.state # "cancelled" /\ proposal[k].state = "none"
    /\ \A j \in 1..(k - 1) : proposal[j].state # "none"
    /\ proposal' = [proposal EXCEPT ![k] = [state |-> "pending", rev |-> batch.rev]]
    /\ UNCHANGED <<batch, prog, broker, receipt, message, source, flow, confirming, attaching, draining, scope, after, crashes>>

Changes == Cardinality({k \in Numbers : message[k] = "changed"})
           + Cardinality({k \in Numbers : proposal[k].state = "expired" \/
                                          (receipt[k].state = "revoked" /\ source[k] = "active")})

\* External: the owner answers the card, later edits or deletes the answer.
OwnerSays(k) ==
    /\ \/ message[k] = "none" /\ proposal[k].state = "pending" /\ message' \in {[message EXCEPT ![k] = w] : w \in {"yes", "no"}}
       \/ message[k] = "yes" /\ Changes < MaxChanges /\ message' = [message EXCEPT ![k] = "changed"]
    /\ UNCHANGED <<batch, prog, broker, proposal, receipt, source, flow, confirming, attaching, draining, scope, after, crashes>>

\* processOwnerEvent up to the reads of the card and of the fresh answer.
prepareOwnerEvent(k) ==
    /\ message[k] \in {"yes", "no"} /\ source[k] = "none" /\ confirming[k] = "idle"
    /\ source' = [source EXCEPT ![k] = "active"]
    /\ confirming' = [confirming EXCEPT ![k] = "reading"]
    /\ UNCHANGED <<batch, prog, broker, proposal, receipt, message, flow, attaching, draining, scope, after, crashes>>

freshOwner(k) ==
    /\ confirming[k] = "reading"
    /\ confirming' = [confirming EXCEPT ![k] = IF message[k] = "changed" THEN "idle" ELSE "read"]
    /\ UNCHANGED <<batch, prog, broker, proposal, receipt, message, source, flow, attaching, draining, scope, after, crashes>>

\* The transaction of confirm: everything the reads took for granted is
\* looked at again.
stillConfirmable(k) == proposal[k].state = "pending" /\ source[k] = "active" /\ scope
confirm(k) ==
    /\ confirming[k] = "read"
    /\ confirming' = [confirming EXCEPT ![k] = "idle"]
    /\ IF stillConfirmable(k)
       THEN \/ /\ message[k] = "no"
               /\ proposal' = [proposal EXCEPT ![k].state = "rejected"] /\ UNCHANGED receipt
            \/ /\ message[k] # "no"
               /\ \E sel \in SUBSET Recipients \ {{}} :
                      receipt' = [receipt EXCEPT ![k] = [state |-> "active", selected |-> sel]]
               /\ proposal' = [proposal EXCEPT ![k].state = "accepted"]
       ELSE UNCHANGED <<proposal, receipt>>
    /\ UNCHANGED <<batch, prog, broker, message, source, flow, attaching, draining, scope, after, crashes>>

\* The edit or deletion is observed: the source and its receipts are revoked.
revoked(k) == /\ source' = [source EXCEPT ![k] = "revoked"]
              /\ receipt' = [receipt EXCEPT ![k].state = IF @ = "active" THEN "revoked" ELSE @]
revokeOwnerSource(k) ==
    /\ message[k] = "changed" /\ source[k] = "active"
    /\ revoked(k)
    /\ UNCHANGED <<batch, prog, broker, proposal, message, flow, confirming, attaching, draining, scope, after, crashes>>

\* Proposals and receipts expire.
Expire(k) ==
    /\ Changes < MaxChanges
    /\ \/ /\ proposal[k].state = "pending"
          /\ proposal' = [proposal EXCEPT ![k].state = "expired"] /\ UNCHANGED receipt
       \/ /\ receipt[k].state = "active"
          /\ receipt' = [receipt EXCEPT ![k].state = "revoked"] /\ UNCHANGED proposal
    /\ UNCHANGED <<batch, prog, broker, message, source, flow, confirming, attaching, draining, scope, after, crashes>>

-----------------------------------------------------------------------------
(* getOutreachApproval: an active receipt of this revision and selection,  *)
(* a fresh read of the owner's message, and the receipt once more.         *)

activeReceipt(k) == receipt[k].state = "active" /\ source[k] = "active" /\ scope
matching(k, v, sel) == activeReceipt(k) /\ proposal[k].rev = v /\ receipt[k].selected = sel

\* The workflow of an accepted receipt, once per receipt.
onOwnerControlEvent(k) ==
    /\ proposal[k].state = "accepted" /\ flow[k] = "none" /\ attaching.at = "idle"
    /\ IF batch.state # "cancelled" /\ matching(k, batch.rev, receipt[k].selected)
       THEN /\ attaching' = [at |-> "reading", k |-> k, fresh |-> TRUE]
            /\ flow' = [flow EXCEPT ![k] = "prepared"]
       ELSE flow' = [flow EXCEPT ![k] = "unknown"] /\ UNCHANGED attaching
    /\ UNCHANGED <<batch, prog, broker, owner, draining, scope, after, crashes>>

\* A changed answer revokes the source, and the workflow ends.
attachRead ==
    LET k == attaching.k
    IN /\ attaching.at = "reading"
       /\ IF message[k] = "changed"
          THEN revoked(k) /\ attaching' = NoAttach /\ flow' = [flow EXCEPT ![k] = "unknown"]
          ELSE attaching' = [attaching EXCEPT !.at = "read"] /\ UNCHANGED <<source, receipt, flow>>
       /\ UNCHANGED <<batch, prog, broker, proposal, message, confirming, draining, scope, after, crashes>>

\* Operations that were attempted keep what they have.
selectedProgress(sel) ==
    [r \in Recipients |->
        IF prog[r]["text"].effect THEN prog[r]
        ELSE [o \in Everything |-> [prog[r][o] EXCEPT !.state = IF r \in sel THEN "pending" ELSE "unselected"]]]

attachApproval ==
    LET k == attaching.k
    IN /\ attaching.at = "read"
       /\ IF activeReceipt(k) /\ attaching.fresh /\ batch.state # "cancelled"
          THEN /\ batch' = [batch EXCEPT !.state = "approved", !.receipt = k, !.selected = receipt[k].selected]
               /\ prog' = selectedProgress(receipt[k].selected)
               /\ attaching' = [attaching EXCEPT !.at = "drain"] /\ UNCHANGED flow
          ELSE attaching' = NoAttach /\ flow' = [flow EXCEPT ![k] = "unknown"] /\ UNCHANGED <<batch, prog>>
       /\ UNCHANGED <<broker, owner, draining, scope, after, crashes>>

\* The workflow drains until nothing is pending; an unknown outcome ends it.
workflowEnds ==
    LET states == {recipientState(prog, r) : r \in Recipients}
    IN /\ attaching.at = "drain" /\ draining.at = "idle"
       /\ flow' = [flow EXCEPT ![attaching.k] =
              IF states \cap {"unknown", "dispatching"} # {} \/ ~scope THEN "unknown" ELSE "verified"]
       /\ attaching' = NoAttach
       /\ UNCHANGED <<batch, prog, broker, owner, draining, scope, after, crashes>>

-----------------------------------------------------------------------------
(* drain, one operation: latched per batch, by the workflow or the tool.   *)

nextOp(r) == IF prog[r]["text"].state = "verified" THEN "file" ELSE "text"
Pending == {r \in batch.selected : recipientState(prog, r) = "pending"}

drain ==
    /\ draining.at = "idle" /\ scope
    /\ batch.state # "cancelled" /\ batch.receipt # 0
    /\ \E r \in Pending :
          LET d == [at |-> "reading", r |-> r, o |-> nextOp(r), k |-> batch.receipt, rev |-> batch.rev]
          IN /\ matching(d.k, d.rev, batch.selected)    \* else nothing new is sent
             /\ draining' = d
    /\ UNCHANGED <<batch, prog, broker, owner, flow, attaching, scope, after, crashes>>

readMessage == message[draining.k] # "changed"
drainRead ==
    /\ draining.at = "reading"
    /\ IF readMessage
       THEN draining' = [draining EXCEPT !.at = "read"] /\ UNCHANGED <<source, receipt>>
       ELSE revoked(draining.k) /\ draining' = NoDrain
    /\ UNCHANGED <<batch, prog, broker, proposal, message, flow, confirming, attaching, scope, after, crashes>>

\* The receipt once more, then the tool's authority and the attachment.
drainApproved ==
    /\ draining.at = "read"
    /\ IF activeReceipt(draining.k) THEN draining' = [draining EXCEPT !.at = "preparing"] ELSE draining' = NoDrain
    /\ UNCHANGED <<batch, prog, broker, owner, flow, attaching, scope, after, crashes>>

attachmentLost ==
    /\ draining.at = "preparing" /\ draining.o = "file" /\ draining.rev = batch.rev
    /\ stored(batch, [prog EXCEPT ![draining.r]["file"].state = "failed"])
    /\ draining' = NoDrain
    /\ UNCHANGED <<broker, owner, flow, scope, after, crashes>>

\* Nothing the awaits took for granted may have changed.
reservable == /\ batch.state # "cancelled" /\ batch.rev = draining.rev /\ batch.receipt = draining.k
              /\ prog[draining.r][draining.o].state = "pending"
reserve ==
    /\ draining.at = "preparing"
    /\ IF reservable
       THEN /\ stored([batch EXCEPT !.state = "sending"],
                      [prog EXCEPT ![draining.r][draining.o] =
                          [state |-> "dispatching", effect |-> TRUE, rejected |-> FALSE]])
            /\ draining' = [draining EXCEPT !.at = "reserved"]
       ELSE draining' = NoDrain /\ UNCHANGED <<batch, prog, attaching>>
    /\ UNCHANGED <<broker, owner, flow, scope, after, crashes>>

\* validateEffect: some active receipt selected this recipient of this revision.
validateEffect(v, r) == scope /\ \E k \in Numbers : activeReceipt(k) /\ proposal[k].rev = v /\ r \in receipt[k].selected

executeEffect ==
    LET d == draining
    IN /\ d.at = "reserved" /\ validateEffect(d.rev, d.r)
       /\ effect' = [effect EXCEPT ![d.rev][d.r][d.o] = "dispatching"]
       /\ \E fate \in {"delivered", "undelivered"} : wire' = [wire EXCEPT ![d.rev][d.r][d.o] = fate]
       /\ after' = [after EXCEPT ![d.k] = IF message[d.k] = "changed" THEN @ + 1 ELSE @]
       /\ draining' = [d EXCEPT !.at = "sending"]
       /\ UNCHANGED <<batch, prog, owner, flow, attaching, scope, crashes, pass>>

\* The loop goes on, or ends and inspects.
drained(pr, eff) ==
    /\ draining' = NoDrain
    /\ \/ stored(batch, [pr EXCEPT ![draining.r] = project(pr, eff, batch.rev)[draining.r]])
       \/ inspected(batch, pr, eff)

rejected ==
    /\ draining.at = "reserved" /\ ~validateEffect(draining.rev, draining.r)
    /\ drained([prog EXCEPT ![draining.r][draining.o].rejected = TRUE], effect)
    /\ UNCHANGED <<broker, owner, flow, scope, after, crashes>>

\* What Telegram can answer of an operation: the truth, or nothing that is
\* certain (module TelegramAdapter).  A verified record is not settled again.
answers(v, r, o) == {"unknown", IF wire[v][r][o] = "delivered" THEN "verified" ELSE "failed"}
settle(before, answer) == IF before = "verified" THEN before ELSE answer

settled ==
    LET d == draining
    IN /\ d.at = "sending"
       /\ \E answer \in answers(d.rev, d.r, d.o) :
             /\ effect' = [effect EXCEPT ![d.rev][d.r][d.o] = settle(@, answer)]
             /\ drained(prog, effect')
       /\ UNCHANGED <<owner, flow, scope, after, crashes, wire, pass>>

-----------------------------------------------------------------------------
(* A recovery pass of the broker, at start and at a poll (module           *)
(* EffectBroker): what it lists is visited later, each element after the   *)
(* reconciliation of those before it, of other tasks too.                  *)

inFlight(v, r, o) == draining.at = "sending" /\ draining.rev = v /\ draining.r = r /\ draining.o = o

recover ==
    /\ pass = NoPass
    /\ pass' = [pass EXCEPT !.listed = {<<v, r, o>> \in Operations : effect[v][r][o] \in {"dispatching", "unknown"}}]
    /\ UNCHANGED <<batch, prog, effect, wire, owner, flow, attaching, draining, scope, after, crashes>>

\* The listed copy is put back as unknown, whatever is stored by now, unless
\* its dispatch is in flight at that moment.
visit(v, r, o) ==
    LET x == <<v, r, o>>
    IN /\ pass.at = {} /\ x \in pass.listed
       /\ IF inFlight(v, r, o) THEN pass' = [pass EXCEPT !.listed = @ \ {x}] /\ UNCHANGED effect
          ELSE /\ pass' = [listed |-> pass.listed \ {x}, at |-> {x}]
               /\ effect' = [effect EXCEPT ![v][r][o] = "unknown"]
       /\ UNCHANGED <<batch, prog, wire, owner, flow, attaching, draining, scope, after, crashes>>

reconciled(v, r, o) ==
    /\ pass.at = {<<v, r, o>>}
    /\ pass' = [pass EXCEPT !.at = {}]
    /\ \E answer \in answers(v, r, o) : effect' = [effect EXCEPT ![v][r][o] = settle(@, answer)]
    /\ UNCHANGED <<batch, prog, wire, owner, flow, attaching, draining, scope, after, crashes>>

-----------------------------------------------------------------------------
ScopeEnds == /\ scope /\ scope' = FALSE
             /\ UNCHANGED <<batch, prog, broker, owner, flow, attaching, draining, after, crashes>>

Crash ==
    /\ crashes < MaxCrashes /\ crashes' = crashes + 1
    /\ confirming' = [k \in Numbers |-> "idle"]
    /\ attaching' = NoAttach /\ draining' = NoDrain
    /\ flow' = [k \in Numbers |-> IF flow[k] = "prepared" THEN "unknown" ELSE flow[k]]  \* the replay's
    /\ pass' = NoPass
    /\ UNCHANGED <<batch, prog, effect, wire, proposal, receipt, message, source, scope, after>>

Approval(k) == \/ requestApproval(k) \/ OwnerSays(k) \/ prepareOwnerEvent(k) \/ freshOwner(k) \/ confirm(k)
               \/ revokeOwnerSource(k) \/ Expire(k) \/ onOwnerControlEvent(k)

Next == \/ inspect \/ revise \/ cancel
        \/ \E k \in Numbers : Approval(k)
        \/ attachRead \/ attachApproval \/ workflowEnds
        \/ drain \/ drainRead \/ drainApproved \/ attachmentLost \/ reserve
        \/ executeEffect \/ rejected \/ settled
        \/ recover \/ ScopeEnds \/ Crash
        \/ \E v \in Revisions, r \in Recipients, o \in Everything : visit(v, r, o) \/ reconciled(v, r, o)

Spec == Init /\ [][Next]_vars

-----------------------------------------------------------------------------
(* Properties.                                                             *)

\* Once the owner has edited or deleted the confirmation at the server, at
\* most the one operation whose check was already under way still leaves,
\* however long the service takes to observe the change.
AtMostOneAfterWithdrawal == \A k \in Numbers : after[k] <= 1

Sent(v, r, o) == wire[v][r][o] # "none"

\* Recipients of one batch never get texts of two revisions, and nobody gets
\* anything the owner did not select for exactly that revision.
OnlyApprovedIsSent ==
    \A v \in Revisions, r \in Recipients, o \in Everything : Sent(v, r, o) =>
        /\ v = batch.rev
        /\ \E k \in Numbers : receipt[k].state # "none" /\ proposal[k].rev = v /\ r \in receipt[k].selected

\* The report is true of what happened, whatever the broker's recovery makes
\* of its records meanwhile: an operation reported as verified arrived and one
\* reported as failed did not, a completed batch reached everyone selected with
\* everything, and an operation reported as rejected was never sent.
ReportIsTruthful ==
    /\ \A r \in Recipients, o \in Everything :
        /\ prog[r][o].state = "verified" => wire[batch.rev][r][o] = "delivered"
        /\ prog[r][o].state = "failed" => wire[batch.rev][r][o] # "delivered"
        /\ prog[r][o].rejected => ~Sent(batch.rev, r, o)
    /\ batch.state = "completed" =>
        \A r \in batch.selected : \A o \in Ops(r) : wire[batch.rev][r][o] = "delivered"

\* An attempted operation keeps its outcome through cancellation, renewed
\* approval and revision of the batch: it is never pending again.
AttemptsAreKept ==
    \A r \in Recipients, o \in Everything : prog[r][o].effect =>
          /\ prog'[r][o].effect /\ batch'.rev = batch.rev
          /\ prog'[r][o].state \in {"dispatching"} \cup Outcomes
=============================================================================
