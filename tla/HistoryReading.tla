-------------------------- MODULE HistoryReading --------------------------
(***************************************************************************)
(* Durable reading of a period of the group's history.  A task has a       *)
(* control slot (its intent and at most one cancellation) and a page slot  *)
(* (its intent and a chain of page files).  The manager creates and        *)
(* cancels tasks for the foreground; the read runner, in the gaps of the   *)
(* foreground, discovers one task at a time and reads one page of it with  *)
(* the reader, which asks Telegram for messages older than the last one.   *)
(*                                                                         *)
(* Manager and runner interleave at their awaits.  Files are created       *)
(* exclusively and then written, so a crash leaves a file torn; the stores *)
(* refuse a torn slot or tail for good.  The chat changes meanwhile.       *)
(***************************************************************************)
EXTENDS Naturals, Sequences, FiniteSets, SequencesExt

CONSTANTS Tasks,            \* history tasks
          MaxId,            \* bound on the messages of the chat
          FromDate, ToDate, \* the period of every task
          Limit,            \* messages of one answer (100 in the code)
          MaxPages,         \* pages of one task (1024 in the code)
          ForegroundLimit,  \* foreground pulses that earn one background pulse
          MaxFaults,        \* bound on crashes, failed calls, odd answers, deletions
          NoTask

PeriodAssumption == FromDate \in Nat \ {0} /\ ToDate \in Nat /\ FromDate <= ToDate
LimitAssumption == {Limit, MaxPages, ForegroundLimit} \subseteq Nat \ {0}

VARIABLES
    chat,       \* external: chat[i], message i: its date, kind and whether it is still there
    control,    \* control[t]: the control slot
    pages,      \* pages[t]: the page slot, its pages, and whether a torn file follows them
    run,        \* the runner: the task it owns and where it is suspended
    mgr,        \* the manager's one operation
    scan,       \* tasks the current traversal of the page directory has not returned
    foreground, \* foreground pulses since the last background pulse
    answered,   \* tasks whose cancellation was answered (history)
    last,       \* what the runner's last pulse reported (history)
    faults

vars == <<chat, control, pages, run, mgr, scan, foreground, answered, last, faults>>
disk == <<control, pages>>

Ids == 1..MaxId
Dates == (FromDate - 1)..ToDate
Statuses == {"more", "lower-bound-reached", "empty-page", "inaccessible"}
Checkpoints == [offset : 0..MaxId, undated : 0..MaxId, inexact : BOOLEAN, pages : 0..MaxPages,
                upper : 0..MaxId, status : Statuses]
initial == [offset |-> 0, undated |-> 0, inexact |-> FALSE, pages |-> 0, upper |-> 0, status |-> "more"]
NoPage == [before |-> initial, next |-> initial, sources |-> <<>>, seen |-> {}]

NoRun == [pc |-> "idle", task |-> NoTask, abort |-> FALSE, head |-> 0, page |-> NoPage, from |-> 0]
NoCall == [pc |-> "idle", task |-> NoTask]
NoReport == [kind |-> "none", wrote |-> 0]
RunnerStops == {"idle", "control", "pages", "openControl", "openPages", "read", "close",
                "againControl", "againPages", "append", "create", "write", "verify"}

TypeOK ==
    /\ chat \in Seq([date : Dates, text : BOOLEAN, there : BOOLEAN]) /\ Len(chat) <= MaxId
    /\ control \in [Tasks -> {"none", "torn", "queued", "tornCancel", "cancelled"}]
    /\ \A t \in Tasks :
        /\ pages[t].slot \in {"none", "torn", "ready"} /\ pages[t].tail \in BOOLEAN
        /\ Len(pages[t].list) <= MaxPages
        /\ \A i \in DOMAIN pages[t].list :
            /\ {pages[t].list[i].before, pages[t].list[i].next} \subseteq Checkpoints
            /\ \A s \in Range(pages[t].list[i].sources) : s.id \in Ids
    /\ run.pc \in RunnerStops /\ run.task \in Tasks \cup {NoTask} /\ run.abort \in BOOLEAN
    /\ mgr.pc \in {"idle", "create", "intent", "slot", "slotIntent", "cancel", "cancelWrite",
                   "revoke", "joining", "confirm"}
    /\ scan \subseteq Tasks /\ foreground \in 0..ForegroundLimit /\ answered \subseteq Tasks
    /\ last.kind \in {"none", "skipped", "cancelled", "stale", "committed", "error"}
    /\ faults \in 0..MaxFaults

Init ==
    /\ chat \in UNION {[1..n -> [date : Dates, text : BOOLEAN, there : {TRUE}]] : n \in 0..MaxId}
    /\ \A i \in DOMAIN chat : i > 1 => chat[i - 1].date <= chat[i].date
    /\ control = [t \in Tasks |-> "none"]
    /\ pages = [t \in Tasks |-> [slot |-> "none", list |-> <<>>, tail |-> FALSE]]
    /\ run = NoRun /\ mgr = NoCall /\ scan = {} /\ foreground = 0
    /\ answered = {} /\ last = NoReport /\ faults = 0

fault == faults < MaxFaults /\ faults' = faults + 1
fine == UNCHANGED faults

----------------------------------------------------------------------------
\* Reading one page.

\* External: what Telegram may answer to GetHistory below a message (or at
\* or before the last date): a prefix of what is there, newest first.  An
\* inexact answer may leave messages out; a message may be shown as empty.
Below(cp) == {i \in DOMAIN chat : /\ chat[i].there
                                  /\ IF cp.offset = 0 THEN chat[i].date <= ToDate ELSE i < cp.offset}
Newest(S) == SetToSortSeq(S, >)
Answers(S) == {SubSeq(Newest(S), 1, n) : n \in (IF S = {} THEN {0} ELSE 1..Limit) \cap 0..Cardinality(S)}
Exact(cp) == {[ids |-> s, inexact |-> FALSE, hidden |-> {}] : s \in Answers(Below(cp))}
Odd(cp) == {[ids |-> s, inexact |-> TRUE, hidden |-> {}] : s \in UNION {Answers(S) : S \in SUBSET Below(cp)}}
           \cup {[ids |-> s, inexact |-> FALSE, hidden |-> {i}] : s \in Answers(Below(cp)), i \in Below(cp)}

\* The messages of an answer before the first that is older than the period.
tooOld(a, k) == a.ids[k] \notin a.hidden /\ chat[a.ids[k]].date < FromDate
within(a) == LET old == {k \in DOMAIN a.ids : tooOld(a, k)}
             IN  IF old = {} THEN Len(a.ids) ELSE (CHOOSE k \in old : \A j \in old : k <= j) - 1
projected(a, k) == a.ids[k] \notin a.hidden /\ chat[a.ids[k]].text

\* How many of them the page takes: all, or those before a text that does not fit.
fits(a) == {within(a)} \cup {k - 1 : k \in {j \in 2..within(a) : projected(a, j)}}

disposition(a, i) == IF i \in a.hidden THEN "unavailable" ELSE IF chat[i].text THEN "included" ELSE "nonText"
sourcesOf(a, n) == [k \in 1..n |-> [id |-> a.ids[k], disposition |-> disposition(a, a.ids[k])]]
unavailable(s) == Cardinality({k \in DOMAIN s : s[k].disposition = "unavailable"})

\* The checkpoint after a page with these sources.
checkpoint(cp, s, status, inexact) ==
    [offset |-> IF s = <<>> THEN cp.offset ELSE s[Len(s)].id,
     undated |-> cp.undated + unavailable(s),
     inexact |-> cp.inexact \/ inexact,
     pages |-> IF status = "inaccessible" THEN cp.pages ELSE cp.pages + 1,
     upper |-> IF cp.upper = 0 /\ s # <<>> THEN s[1].id ELSE cp.upper,
     status |-> status]

readPage(cp, a, n) ==
    LET s == sourcesOf(a, n)
        status == IF a.ids = <<>> THEN "empty-page"
                  ELSE IF n = within(a) /\ n < Len(a.ids) THEN "lower-bound-reached" ELSE "more"
    IN  [before |-> cp, next |-> checkpoint(cp, s, status, a.inexact), sources |-> s,
         seen |-> {i \in DOMAIN chat : chat[i].there /\ chat[i].text /\ chat[i].date \in FromDate..ToDate}]
inaccessible(cp) == [NoPage EXCEPT !.before = cp, !.next = checkpoint(cp, <<>>, "inaccessible", FALSE)]

\* The checkpoints that can be stored.
snapshotSelfHistoryTaskCheckpoint(cp) ==
    /\ cp.offset = 0 => cp.upper = 0 /\ cp.undated = 0 /\ (cp.pages = 0 \/ cp.status # "more")
    /\ cp.offset # 0 => cp.pages > 0 /\ cp.upper >= cp.offset
    /\ cp.undated <= cp.pages * Limit
    /\ cp.pages = 0 => cp.offset = 0 /\ ~cp.inexact /\ cp.status \in {"more", "inaccessible"}

\* What the store checks of a page before it is written and when it is read again.
snapshotStandingHistoryTaskPage(p) ==
    /\ snapshotSelfHistoryTaskCheckpoint(p.before) /\ snapshotSelfHistoryTaskCheckpoint(p.next)
    /\ p.before.status = "more"
    /\ p.before.inexact => p.next.inexact
    /\ \A k \in DOMAIN p.sources :
        LET previous == IF k = 1 THEN p.before.offset ELSE p.sources[k - 1].id
        IN  previous # 0 => p.sources[k].id < previous
    /\ [p.next EXCEPT !.inexact = FALSE] =
       [checkpoint(p.before, p.sources, p.next.status, FALSE) EXCEPT !.inexact = FALSE]
    /\ p.next.status = "more" => p.sources # <<>>
    /\ p.next.status \in {"empty-page", "inaccessible"} => p.sources = <<>>

traversalComplete(cp) == /\ cp.status \in {"lower-bound-reached", "empty-page"}
                         /\ cp.undated = 0 /\ ~cp.inexact

----------------------------------------------------------------------------
\* The page store.

head(t) == IF pages[t].list = <<>> THEN initial ELSE pages[t].list[Len(pages[t].list)].next
decode(t, i) == /\ snapshotStandingHistoryTaskPage(pages[t].list[i])
                /\ pages[t].list[i].before = IF i = 1 THEN initial ELSE pages[t].list[i - 1].next
storage(t) == IF pages[t].tail \/ \E i \in DOMAIN pages[t].list : ~decode(t, i)
              THEN "tail-refused" ELSE "ready"
readable(t) == pages[t].slot = "ready" /\ storage(t) = "ready"
quota(t) == Len(pages[t].list) >= MaxPages

\* What opening the control store finds.
controlStatus(t) == [storage |-> IF control[t] \in {"queued", "cancelled"} THEN "ready" ELSE "tail-refused",
                     state |-> IF control[t] = "cancelled" THEN "cancelled" ELSE "queued"]
queued(t) == controlStatus(t) = [storage |-> "ready", state |-> "queued"]

----------------------------------------------------------------------------
\* The read runner and its step.

goto(pc) == run' = [run EXCEPT !.pc = pc]

\* The end of the step: the owned task is given up and a revocation that
\* joins it goes on.
settle(kind) ==
    /\ run' = NoRun
    /\ last' = [kind |-> kind, wrote |-> Len(pages'[run.task].list) - run.from]
    /\ mgr' = IF mgr.pc = "joining" /\ mgr.task = run.task THEN [mgr EXCEPT !.pc = "confirm"] ELSE mgr
stay == UNCHANGED <<last, mgr>>

\* How a failed call of the step ends: a failure after the append was
\* admitted, or of a close, is reported as one.
caught(admitted, closing) == IF run.abort /\ ~admitted /\ ~closing THEN "cancelled" ELSE "error"

due == foreground >= ForegroundLimit

\* A pulse that serves the foreground.
serve ==
    /\ run.pc = "idle" /\ ~due
    /\ foreground' = (foreground + 1) % (ForegroundLimit + 1)
    /\ UNCHANGED <<chat, disk, run, mgr, scan, answered, last>> /\ fine

\* A background pulse: the next readable task of the traversal, if any; the
\* revocation is bound before any store of the task is opened.
traversal == IF scan = {} THEN {t \in Tasks : pages[t].slot # "none"} ELSE scan
found == {t \in traversal : pages[t].slot = "ready"}
readTask(t) == [NoRun EXCEPT !.pc = "control", !.task = t, !.from = Len(pages[t].list)]
background ==
    /\ run.pc = "idle" /\ foreground' = 0
    /\ IF found = {} THEN scan' = {} /\ UNCHANGED run
       ELSE \E t \in found : scan' = found \ {t} /\ run' = readTask(t)
    /\ UNCHANGED <<chat, disk, mgr, answered, last>> /\ fine

\* What the runner asks of the two stores before the step.
preflightControl ==
    /\ run.pc = "control"
    /\ UNCHANGED <<chat, disk, scan, foreground, answered>> /\ fine
    /\ IF run.abort \/ ~queued(run.task) THEN settle("skipped") ELSE goto("pages") /\ stay
preflightPages ==
    /\ run.pc = "pages"
    /\ UNCHANGED <<chat, disk, scan, foreground, answered>> /\ fine
    /\ IF run.abort \/ ~readable(run.task) \/ head(run.task).status # "more" \/ quota(run.task)
       THEN settle("skipped")
       ELSE run' = [run EXCEPT !.pc = "openControl", !.head = Len(pages[run.task].list)] /\ stay

\* The step opens both stores afresh, before and after the read.
reopenControl ==
    /\ run.pc \in {"openControl", "againControl"}
    /\ UNCHANGED <<chat, disk, scan, foreground, answered>> /\ fine
    /\ IF run.abort THEN settle("cancelled")
       ELSE IF controlStatus(run.task).storage # "ready" THEN settle("stale")
       ELSE IF controlStatus(run.task).state = "cancelled" THEN settle("cancelled")
       ELSE goto(IF run.pc = "openControl" THEN "openPages" ELSE "againPages") /\ stay
reopenPages ==
    /\ run.pc \in {"openPages", "againPages"}
    /\ UNCHANGED <<chat, disk, scan, foreground, answered>> /\ fine
    /\ IF run.abort THEN settle("cancelled")
       ELSE IF \/ ~readable(run.task) \/ Len(pages[run.task].list) # run.head
               \/ head(run.task).status # "more" \/ quota(run.task)
       THEN settle("stale")
       ELSE goto(IF run.pc = "openPages" THEN "read" ELSE "append") /\ stay

\* The lease and its one read.
received(p) == /\ run' = [run EXCEPT !.pc = "close", !.page = p] /\ stay
readTaskPage ==
    /\ run.pc = "read"
    /\ UNCHANGED <<chat, disk, scan, foreground, answered>>
    /\ LET cp == head(run.task) IN
       \/ run.abort /\ settle("cancelled") /\ fine
       \/ /\ ~run.abort
          /\ \/ \E a \in Exact(cp), n \in 0..Limit : n \in fits(a) /\ received(readPage(cp, a, n)) /\ fine
             \/ \E a \in Odd(cp), n \in 0..Limit : n \in fits(a) /\ received(readPage(cp, a, n)) /\ fault
             \/ received(inaccessible(cp)) /\ fault
          /\ snapshotStandingHistoryTaskPage(run'.page)
closeLease ==
    /\ run.pc = "close"
    /\ UNCHANGED <<chat, disk, scan, foreground, answered>> /\ fine
    /\ goto("againControl") /\ stay

\* Admission of the append, the exclusive creation of the page file, its
\* content, and its verification.
admit ==
    /\ run.pc = "append"
    /\ UNCHANGED <<chat, disk, scan, foreground, answered>> /\ fine
    /\ IF run.abort THEN settle("cancelled") ELSE goto("create") /\ stay
createPage ==
    /\ run.pc = "create"
    /\ IF run.abort \/ run.page.before # head(run.task)
       THEN UNCHANGED pages /\ settle(caught(TRUE, FALSE))
       ELSE pages' = [pages EXCEPT ![run.task].tail = TRUE] /\ goto("write") /\ stay
    /\ UNCHANGED <<chat, control, scan, foreground, answered>> /\ fine
writePage ==
    /\ run.pc = "write"
    /\ pages' = [pages EXCEPT ![run.task].tail = FALSE, ![run.task].list = Append(@, run.page)]
    /\ goto("verify") /\ stay
    /\ UNCHANGED <<chat, control, scan, foreground, answered>> /\ fine
verifyPage ==
    /\ run.pc = "verify"
    /\ UNCHANGED <<chat, disk, scan, foreground, answered>> /\ fine
    /\ settle(IF run.abort THEN caught(TRUE, FALSE) ELSE "committed")

\* A call of the runner or of its step fails.
runnerFails ==
    /\ run.pc \notin {"idle", "append"} /\ fault
    /\ UNCHANGED <<chat, disk, scan, foreground, answered>>
    /\ settle(IF run.pc \in {"control", "pages"} THEN "skipped"
              ELSE caught(run.pc \in {"create", "write", "verify"}, run.pc = "close"))

Runner == \/ serve \/ background \/ preflightControl \/ preflightPages \/ reopenControl \/ reopenPages
          \/ readTaskPage \/ closeLease \/ admit \/ createPage \/ writePage \/ verifyPage

----------------------------------------------------------------------------
\* The manager: one operation at a time.

call(pc) == mgr' = [mgr EXCEPT !.pc = pc]
stepMgr == UNCHANGED <<chat, scan, foreground, last>>

begin ==
    /\ mgr.pc = "idle"
    /\ \E t \in Tasks, op \in {"create", "cancel"} : mgr' = [pc |-> op, task |-> t]
    /\ UNCHANGED <<disk, run, answered>> /\ stepMgr /\ fine

\* create: the control reservation first; a retry creates what is missing.
create ==
    /\ mgr.pc = "create"
    /\ CASE control[mgr.task] = "none"   -> control' = [control EXCEPT ![mgr.task] = "torn"] /\ call("intent")
         [] control[mgr.task] = "queued" -> UNCHANGED control /\ call("slot")
         [] OTHER                        -> UNCHANGED control /\ mgr' = NoCall
    /\ UNCHANGED <<pages, run, answered>> /\ stepMgr /\ fine
writeIntent ==
    /\ mgr.pc = "intent"
    /\ control' = [control EXCEPT ![mgr.task] = "queued"] /\ call("slot")
    /\ UNCHANGED <<pages, run, answered>> /\ stepMgr /\ fine
createSlot ==
    /\ mgr.pc = "slot"
    /\ IF pages[mgr.task].slot = "none"
       THEN pages' = [pages EXCEPT ![mgr.task].slot = "torn"] /\ call("slotIntent")
       ELSE UNCHANGED pages /\ mgr' = NoCall
    /\ UNCHANGED <<control, run, answered>> /\ stepMgr /\ fine
writeSlotIntent ==
    /\ mgr.pc = "slotIntent"
    /\ pages' = [pages EXCEPT ![mgr.task].slot = "ready"] /\ mgr' = NoCall
    /\ UNCHANGED <<control, run, answered>> /\ stepMgr /\ fine

\* cancel: the durable record, then the revocation of the runner's work, joined.
cancel ==
    /\ mgr.pc = "cancel"
    /\ CASE control[mgr.task] = "queued"    -> control' = [control EXCEPT ![mgr.task] = "tornCancel"] /\ call("cancelWrite")
         [] control[mgr.task] = "cancelled" -> UNCHANGED control /\ call("revoke")
         [] OTHER                           -> UNCHANGED control /\ mgr' = NoCall
    /\ UNCHANGED <<pages, run, answered>> /\ stepMgr /\ fine
writeCancellation ==
    /\ mgr.pc = "cancelWrite"
    /\ control' = [control EXCEPT ![mgr.task] = "cancelled"] /\ call("revoke")
    /\ UNCHANGED <<pages, run, answered>> /\ stepMgr /\ fine
revoke ==
    /\ mgr.pc = "revoke"
    /\ IF run.task = mgr.task
       THEN run' = [run EXCEPT !.abort = TRUE] /\ call("joining")
       ELSE UNCHANGED run /\ call("confirm")
    /\ UNCHANGED <<disk, answered>> /\ stepMgr /\ fine
confirm ==
    /\ mgr.pc = "confirm"
    /\ answered' = answered \cup {mgr.task} /\ mgr' = NoCall
    /\ UNCHANGED <<disk, run>> /\ stepMgr /\ fine

\* A call fails, or its caller gives it up; a revocation is joined all the same.
managerFails ==
    /\ mgr.pc \notin {"idle", "joining"} /\ fault /\ mgr' = NoCall
    /\ UNCHANGED <<disk, run, answered>> /\ stepMgr

Manager == \/ begin \/ create \/ writeIntent \/ createSlot \/ writeSlotIntent
           \/ cancel \/ writeCancellation \/ revoke \/ confirm

----------------------------------------------------------------------------
\* The runner is closed: its work is aborted; the next one starts afresh.
Close ==
    /\ run.pc # "idle" /\ ~run.abort /\ fault
    /\ run' = [run EXCEPT !.abort = TRUE] /\ scan' = {} /\ foreground' = 0
    /\ UNCHANGED <<chat, disk, mgr, answered, last>>

Crash ==
    /\ fault
    /\ run' = NoRun /\ mgr' = NoCall /\ scan' = {} /\ foreground' = 0 /\ last' = NoReport
    /\ UNCHANGED <<chat, disk, answered>>

Chat ==
    /\ \/ /\ Len(chat) < MaxId /\ fine
          /\ \E d \in Dates, x \in BOOLEAN :
               /\ \A i \in DOMAIN chat : chat[i].date <= d
               /\ chat' = Append(chat, [date |-> d, text |-> x, there |-> TRUE])
       \/ fault /\ \E i \in DOMAIN chat : chat[i].there /\ chat' = [chat EXCEPT ![i].there = FALSE]
    /\ UNCHANGED <<disk, run, mgr, scan, foreground, answered, last>>

Next == Runner \/ runnerFails \/ Manager \/ managerFails \/ Close \/ Crash \/ Chat

Spec == Init /\ [][Next]_vars

----------------------------------------------------------------------------
sourceIds(t) == FlattenSeq([i \in DOMAIN pages[t].list |-> pages[t].list[i].sources])
included(t) == {s.id : s \in {x \in Range(sourceIds(t)) : x.disposition = "included"}}

(* A task whose traversal is reported complete holds, each once, every text
   of the period that was in the chat when its first page was read and has
   not been deleted since: whatever was posted, deleted, shown as empty or
   left out meanwhile, and however often a page was read again after a
   crash, a failure or a page that was too small. *)
CompleteIsComplete ==
    \A t \in Tasks : LET list == pages[t].list IN
        (list # <<>> /\ traversalComplete(head(t))) =>
            /\ \A i \in list[1].seen : chat[i].there => i \in included(t)
            /\ \A j, k \in DOMAIN sourceIds(t) : j < k => sourceIds(t)[j].id > sourceIds(t)[k].id

(* What the step reports is true of the disk: "cancelled" and "stale" were
   reported by a step that wrote no page, "committed" by one that wrote one;
   only a failure leaves it open. *)
OutcomeIsTrue ==
    /\ last.kind \in {"skipped", "cancelled", "stale"} => last.wrote = 0
    /\ last.kind = "committed" => last.wrote = 1

(* No page is written for a task once its cancellation has been answered. *)
CancelStops == \A t \in answered : pages'[t] = pages[t]

(* A task that can be read is read to the end of its period, however busy
   the foreground is and however many other tasks there are. *)
Readable(t) == pages[t].slot = "ready"
ReadToEnd(t) == head(t).status # "more" \/ quota(t) \/ pages[t].tail \/ control[t] # "queued"

============================================================================
