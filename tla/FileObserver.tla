---------------------------- MODULE FileObserver ----------------------------
(***************************************************************************)
(* The native observer: one process that answers one request, to read a    *)
(* file or to create one, below a root whose directories it holds.  Other  *)
(* processes write, replace, remove and create the file and move the       *)
(* directories meanwhile, any call may fail, the deadline may pass between *)
(* any two calls.  `trace' is the history of the calls as the crate's own  *)
(* classifier of traces sees them.                                         *)
(***************************************************************************)
EXTENDS Naturals, Sequences, FiniteSets

CONSTANTS
    Operations,   \* the operations asked for
    Contents,     \* what a creation writes, in chunks
    Files,        \* what a file holds at first, in chunks
    Cap,          \* the largest size read, in chunks
    Edits         \* how often other processes act

CapAssumption == Cap \in Nat \ {0} /\ Edits \in Nat /\ Contents \subseteq Nat /\ Files \subseteq Nat \ {0}

Operation == {"read-bound-file", "create-new-durable-file"}
Dirs == 1..2                  \* the root and one ancestor of the target
Target == 3                   \* the handle of the target
Reopened == 4                 \* the handle it is reopened with
Objects == 1..(Edits + 2)     \* files, by their ids; the first is there at first

VARIABLES
    operation, content,
    dirs,         \* external: where each directory is
    path,         \* external: the file at the target path, or 0
    files,        \* external: what each file holds and when it was written
    edits,        \* the actions of other processes so far
    late,         \* the earliest deadline has passed
    pc, held,     \* the next step and the handles held, in the order opened
    mine,         \* the file this process opened or created
    created,      \* this process has created a file
    before,       \* the first identity of the target
    again,        \* its identity when it was reopened
    snapshot,     \* what it held then
    got,          \* what has been read of it
    trace, result

disk == <<dirs, path, files, edits>>
vars == <<operation, content, dirs, path, files, edits, late, pc, held, mine, created, before, again, snapshot, got, trace, result>>
request == <<operation, content>>
proof == <<mine, created, before, again, snapshot, got>>

Chunks(n, c) == [i \in 1..n |-> c]
NoIdentity == [file |-> 0, time |-> 0, size |-> 0, place |-> "nowhere"]
NoResult == <<"none">>
Init ==
    /\ operation \in Operations /\ content \in {Chunks(n, "mine") : n \in Contents}
    /\ dirs \in [Dirs -> {"here", "elsewhere"}] /\ path \in {0, 1}
    /\ \E n \in Files : files = [o \in Objects |-> [data |-> Chunks(n, "old"), time |-> 0]]
    /\ edits = 0 /\ late = FALSE /\ pc = "start" /\ held = <<>> /\ mine = 0 /\ created = FALSE
    /\ before = NoIdentity /\ again = NoIdentity /\ snapshot = <<>> /\ got = <<>> /\ trace = <<>> /\ result = NoResult

-----------------------------------------------------------------------------
(* Other processes.                                                        *)

exclusive == created /\ \E h \in {Target, Reopened} : \E i \in DOMAIN held : held[i] = h
settled == \A d \in Dirs : dirs[d] = "here"
used == {o \in Objects : o = path \/ o = mine \/ o = before.file \/ o = 1}

Other ==
    /\ edits < Edits /\ edits' = edits + 1 /\ pc # "ended"
    /\ \/ \E d \in Dirs : dirs[d] = "here" /\ dirs' = [dirs EXCEPT ![d] = "elsewhere"] /\ UNCHANGED <<path, files>>
       \/ path = 0 /\ path' \in Objects \ used /\ UNCHANGED <<dirs, files>>
       \/ path # 0 /\ ~exclusive /\ path' = 0 /\ UNCHANGED <<dirs, files>>
       \/ /\ path # 0 /\ ~exclusive /\ UNCHANGED <<dirs, path>>
          /\ LET f == files[path] IN
             \E d \in {[f.data EXCEPT ![i] = "other"] : i \in DOMAIN f.data} \cup {Chunks(1, "other"), Append(f.data, "other")} :
               files' = [files EXCEPT ![path] = [data |-> d, time |-> f.time + 1]]
    /\ UNCHANGED <<request, late, pc, held, proof, trace, result>>

Expire == ~late /\ pc # "ended" /\ late' = TRUE /\ UNCHANGED <<request, disk, pc, held, proof, trace, result>>

-----------------------------------------------------------------------------
(* Traces: one event per call.                                             *)

Event(e, h, v) == <<[event |-> e, handle |-> h, value |-> v]>>
Clock == Event("Clock", 0, IF late THEN "late" ELSE "in")
Failure == Event("Failure", 0, "failed")
Closes(hs) == [i \in DOMAIN hs |-> Event("Close", hs[i], "closed")[1]]

LastIn(hs) == hs[Len(hs)]
Reverse(hs) == [i \in DOMAIN hs |-> hs[Len(hs) + 1 - i]]
\* The target first, then the directories, the last opened first.
release_all(hs) == Closes(Reverse(hs))

\* A terminal of the process: what it answers and what it says it did.
legal_terminal_tuple ==
    (Operation \X {"refused", "unknown"} \X {"pre-effect"} \X {"none"})
      \cup ({"read-bound-file"} \X {"refused", "unknown"} \X {"read-observation"} \X {"none"})
      \cup {<<"create-new-durable-file", "refused", "create-collision", "not-created">>,
            <<"create-new-durable-file", "unknown", "post-create", "possibly-created">>}
pre_observation_refusal == <<"refused", "pre-observation">>
correlated_run(outcome, stage, effect) ==
    IF <<operation, outcome, stage, effect>> \in legal_terminal_tuple THEN <<outcome, stage, effect>> ELSE <<"exit 64">>

RefusedPreEffect == correlated_run("refused", "pre-effect", "none")
UnknownPreEffect == correlated_run("unknown", "pre-effect", "none")
RefusedCollision == correlated_run("refused", "create-collision", "not-created")
UnknownPostCreate == correlated_run("unknown", "post-create", "possibly-created")
RefusedReadObservation == correlated_run("refused", "read-observation", "none")
UnknownReadObservation == correlated_run("unknown", "read-observation", "none")

\* Every early return releases what is held.
stops(events, r) ==
    /\ pc' = "ended" /\ result' = r /\ held' = <<>>
    /\ trace' = trace \o events \o release_all(held)
goes(events, next) == pc' = next /\ trace' = trace \o events /\ UNCHANGED <<held, result>>
opens(h, events, next) == pc' = next /\ trace' = trace \o events /\ held' = Append(held, h) /\ UNCHANGED result

-----------------------------------------------------------------------------
(* The request.                                                            *)

\* Arguments, size, canonical form, semantics; then the drive binding.
run_observer ==
    /\ pc = "start" /\ UNCHANGED <<request, disk, late, proof>>
    /\ \/ \E r \in {<<"exit 64">>, pre_observation_refusal, RefusedPreEffect} : stops(<<>>, r)
       \/ goes(<<>>, "bind")

drive_binding_from_snapshot ==
    /\ pc = "bind" /\ UNCHANGED <<request, disk, late, proof>>
    /\ \/ stops(<<>>, UnknownPreEffect)
       \/ ~late /\ goes(<<>>, "prepare")

\* One directory: it is opened where it is said to be, and is one.
prepare_held_ancestors ==
    /\ pc = "prepare" /\ UNCHANGED <<request, disk, late, proof>>
    /\ LET d == Len(held) + 1 IN
       \/ dirs[d] = "here" /\ opens(d, Event("Acquire", d, "directory"), IF d = 2 THEN "dispatch" ELSE "prepare")
       \/ stops(Failure, UnknownPreEffect)

dispatch ==
    /\ pc = "dispatch" /\ UNCHANGED <<request, disk, late, proof>>
    /\ \/ late /\ stops(Clock, UnknownPreEffect)
       \/ ~late /\ goes(Clock, IF operation = "read-bound-file" THEN "open" ELSE "create")

\* What a handle says of its file.
query_identity(o) ==
    [file |-> o, time |-> files[o].time, size |-> Len(files[o].data),
     place |-> IF path = o /\ settled THEN "target" ELSE "nowhere"]
\* The directories held are the ones they were, where they were.
ancestors_unchanged == settled
Revalidated == Event("RevalidateAncestors", 0, IF ancestors_unchanged THEN "same" ELSE "drift")

-----------------------------------------------------------------------------
(* Reading.                                                                *)

open_read_target ==
    /\ pc = "open" /\ UNCHANGED <<request, disk, late, created, before, again, snapshot, got>>
    /\ \/ path # 0 /\ settled /\ mine' = path /\ opens(Target, Event("Open", Target, "read"), "before")
       \/ UNCHANGED mine /\ stops(Failure, UnknownPreEffect)

\* A file of the drive at the target path, small enough; a directory, a
\* reparse point or another volume is refused.
admitted(id) == id.place = "target" /\ id.size <= Cap

\* The directories are revalidated and the deadline read whatever happened.
closing(r, events) ==
    /\ trace' = trace \o events \o Revalidated \o release_all(held) \o Clock
    /\ pc' = "ended" /\ held' = <<>>
    /\ result' \in {UnknownReadObservation} \cup (IF ancestors_unchanged /\ ~late THEN {r} ELSE {})

readBefore ==
    /\ pc = "before" /\ UNCHANGED <<request, disk, late, mine, created, again>>
    /\ LET id == query_identity(mine) IN
       \/ /\ ~late /\ admitted(id) /\ before' = id /\ snapshot' = files[mine].data /\ got' = <<>>
          /\ goes(Clock \o Event("Identity", Target, "file"), "read")
       \/ /\ UNCHANGED <<before, snapshot, got>>
          /\ \/ closing(UnknownReadObservation, Clock \o Failure)
             \/ ~late /\ closing(RefusedReadObservation, Clock \o Event("Identity", Target, "file"))

\* One chunk; a file that has become shorter has none.
read_exact_handle ==
    /\ pc = "read" /\ UNCHANGED <<request, disk, late, mine, created, before, again, snapshot>>
    /\ LET i == Len(got) + 1 IN
       IF Len(got) = before.size THEN UNCHANGED got /\ goes(<<>>, "after")
       ELSE \/ /\ ~late /\ i <= Len(files[mine].data)
               /\ got' = Append(got, files[mine].data[i]) /\ goes(Clock \o Event("Readback", Target, "chunk"), "read")
            \/ UNCHANGED got /\ closing(UnknownReadObservation, Clock \o Failure)

\* Nothing the system reports of the file has changed since the first identity.
complete_read_proof(was, is) == was = is

readAfter ==
    /\ pc = "after" /\ UNCHANGED <<request, disk, late, proof>>
    /\ LET id == query_identity(mine)
           seen == Event("Identity", Target, "file") IN
       \/ closing(UnknownReadObservation, Failure)
       \/ ~complete_read_proof(before, id) /\ closing(RefusedReadObservation, seen)
       \/ complete_read_proof(before, id) /\ ancestors_unchanged /\ goes(seen, "conclude")

readConclude ==
    /\ pc = "conclude" /\ operation = "read-bound-file" /\ UNCHANGED <<request, disk, late, proof>>
    /\ IF ancestors_unchanged /\ ~late
       THEN \/ /\ pc' = "frame" /\ held' = <<>> /\ UNCHANGED result
               /\ trace' = trace \o Revalidated \o release_all(held) \o Clock
            \/ closing(UnknownReadObservation, <<>>)
       ELSE closing(UnknownReadObservation, <<>>)

-----------------------------------------------------------------------------
(* Creating.                                                               *)

classify_create_open_error(e) ==
    CASE e = "exists" -> RefusedCollision
      [] e = "none" -> UnknownPostCreate
      [] OTHER -> RefusedPreEffect
\* A failed release, a drift or a late answer make a refusal unknown.
classify_after_release(e, failed) ==
    LET c == classify_create_open_error(e)
    IN  IF c # UnknownPostCreate /\ failed THEN UnknownPreEffect ELSE c

invalid(e) ==
    /\ pc' = "ended" /\ held' = <<>>
    /\ trace' = trace \o Event("CreateInvalid", 0, "invalid") \o Event("CaptureLastError", 0, e)
                  \o Revalidated \o release_all(held) \o Clock
    /\ \E closeFailed \in BOOLEAN : result' = classify_after_release(e, closeFailed \/ late \/ ~ancestors_unchanged)

\* CREATE_NEW, shared with nobody.  Without a handle the file may be there.
open_created_target ==
    /\ pc = "create" /\ UNCHANGED <<request, dirs, edits, late, before, again, snapshot, got>>
    /\ \/ /\ path = 0 /\ settled /\ created' = TRUE
          /\ mine' \in Objects \ used /\ path' = mine'
          /\ files' = [files EXCEPT ![mine'] = [data |-> <<>>, time |-> 0]]
          /\ \/ opens(Target, Event("CreateValid", Target, "new"), "write")
             \/ stops(Event("CreateNull", 0, "null"), UnknownPostCreate)
             \/ invalid("none")
       \/ /\ UNCHANGED <<path, files, mine, created>>
          /\ \/ path # 0 /\ settled /\ invalid("exists")
             \/ \E e \in {"none", "other"} : invalid(e)

ambiguous(events) == stops(events, UnknownPostCreate) /\ UNCHANGED files

\* The deadline is read before a write of something and after a write of nothing.
writeContent ==
    /\ pc = "write" /\ UNCHANGED <<request, dirs, path, edits, late, mine, created, before, again, snapshot, got>>
    /\ IF content = <<>>
       THEN ambiguous(Event("Write", Target, "zero") \o Clock)
       ELSE \/ late /\ ambiguous(Clock)
            \/ \E n \in 0..Len(content), ok \in BOOLEAN :
                 /\ ~late /\ files' = [files EXCEPT ![mine].data = SubSeq(content, 1, n)]
                 /\ LET w == Clock \o Event("Write", Target, IF ok /\ n = Len(content) THEN "whole" ELSE "short")
                    IN  IF ok /\ n = Len(content) THEN goes(w, "flush") ELSE stops(w, UnknownPostCreate)

flush ==
    /\ pc = "flush" /\ UNCHANGED <<request, disk, late, proof>>
    /\ \/ late /\ ambiguous(Clock)
       \/ ~late /\ goes(Clock \o Event("Flush", Target, "flushed"), "created")
       \/ ~late /\ ambiguous(Clock \o Failure)

createdIdentity ==
    /\ pc = "created" /\ UNCHANGED <<request, disk, late, mine, created, again, snapshot, got>>
    /\ LET id == query_identity(mine) IN
       \/ /\ id.place = "target" /\ id.size = Len(content) /\ before' = id
          /\ goes(Event("Identity", Target, "file"), "readback")
       \/ UNCHANGED before /\ ambiguous(Event("Identity", Target, "file") \o Failure)

\* The content on the same handle, and the identity again; then it is closed.
sameHandle ==
    /\ pc = "readback" /\ UNCHANGED <<request, disk, late, proof>>
    /\ LET read == Event("Rewind", Target, "start") \o Event("Readback", Target, "whole")
           close == SubSeq(held, 1, Len(held) - 1) IN
       \/ /\ ~late /\ files[mine].data = content /\ query_identity(mine) = before
          /\ held' = close /\ pc' = "reopen" /\ UNCHANGED result
          /\ trace' = trace \o read \o Event("Identity", Target, "file") \o Event("Close", Target, "closed")
       \/ ambiguous(Failure)

reopen_created_target ==
    /\ pc = "reopen" /\ UNCHANGED <<request, disk, late, created, before, again, snapshot, got>>
    /\ \/ /\ ~late /\ path # 0 /\ settled /\ mine' = path
          /\ opens(Reopened, Clock \o Event("Reopen", Reopened, "reopened"), "reopened")
       \/ UNCHANGED mine /\ ambiguous(Clock \o Failure)

reopenedContent ==
    /\ pc = "reopened" /\ UNCHANGED <<request, disk, late, mine, created, before, snapshot>>
    /\ LET read == Event("Identity", Reopened, "file") \o Event("Readback", Reopened, "whole") IN
       \/ /\ query_identity(mine).place = "target" /\ ~late /\ Len(content) <= Len(files[mine].data)
          /\ SubSeq(files[mine].data, 1, Len(content)) = content
          /\ got' = content /\ again' = query_identity(mine) /\ goes(read, "conclude")
       \/ UNCHANGED <<got, again>> /\ ambiguous(Failure)

\* The reopened file is the created one, and so are its directories.
createProof == ~late /\ again = before /\ ancestors_unchanged

createConclude ==
    /\ pc = "conclude" /\ operation = "create-new-durable-file" /\ UNCHANGED <<request, disk, late, proof>>
    /\ \/ /\ createProof /\ pc' = "frame" /\ held' = <<>> /\ UNCHANGED result
          /\ trace' = trace \o Clock \o Revalidated \o release_all(held)
       \/ /\ pc' = "ended" /\ held' = <<>> /\ result' = UnknownPostCreate
          /\ trace' = trace \o Clock \o Revalidated \o release_all(held)

\* The frame is built and dropped if the deadline has passed by then.
finalize_success_frame ==
    /\ pc = "frame" /\ UNCHANGED <<request, disk, late, proof>>
    /\ LET unknown == IF operation = "read-bound-file" THEN UnknownReadObservation ELSE UnknownPostCreate IN
       \/ ~late /\ stops(Event("Acknowledge", 0, "known"), <<"known">>)
       \/ stops(Clock, unknown)
       \/ stops(<<>>, <<"exit 64">>)   \* the output cannot be written

Next ==
    \/ Other \/ Expire \/ run_observer \/ drive_binding_from_snapshot \/ prepare_held_ancestors \/ dispatch
    \/ open_read_target \/ readBefore \/ read_exact_handle \/ readAfter \/ readConclude
    \/ open_created_target \/ writeContent \/ flush \/ createdIdentity \/ sameHandle
    \/ reopen_created_target \/ reopenedContent \/ createConclude \/ finalize_success_frame
Spec == Init /\ [][Next]_vars

-----------------------------------------------------------------------------
(* The crate's contract of a creation's trace.                             *)

Opening == {"Acquire", "Open", "CreateValid", "Reopen"}
OnTarget == {"Write", "Flush", "Identity", "Rewind", "Readback"}
At(e) == {i \in DOMAIN trace : trace[i].event = e}
Follows(e, f) == \A i \in At(e) : i + 1 \in At(f)

\* The handles owned after each event; a close of another than the last
\* opened one leaves the handle 0.
owned ==
    LET f[i \in 0..Len(trace)] ==
          IF i = 0 THEN <<>>
          ELSE LET o == f[i - 1]
                   e == trace[i] IN
               CASE e.event \in Opening -> Append(o, e.handle)
                 [] e.event = "Close" -> IF o # <<>> /\ LastIn(o) = e.handle THEN SubSeq(o, 1, Len(o) - 1) ELSE <<0>>
                 [] OTHER -> o
    IN  f

\* Handles are distinct, used while they are the last opened one, and released
\* once each, in the reverse order.
disciplined ==
    /\ \A i, j \in DOMAIN trace : i # j /\ trace[i].event \in Opening /\ trace[j].event \in Opening
         => trace[i].handle # trace[j].handle
    /\ \A i \in DOMAIN trace : trace[i].event \in OnTarget => owned[i] # <<>> /\ LastIn(owned[i]) = trace[i].handle
    /\ \A i \in 0..Len(trace) : owned[i] # <<0>>
    /\ owned[Len(trace)] = <<>>

\* Where the outcome has become unknown.
barriers ==
    {i \in DOMAIN trace :
       \/ trace[i].event = "Failure"
       \/ trace[i].event = "Clock" /\ trace[i].value = "late"
       \/ trace[i].event = "Write" /\ trace[i].value = "short"
       \/ trace[i].event = "CaptureLastError" /\ trace[i].value = "none"
       \/ i > 1 /\ trace[i].event = "Clock" /\ trace[i - 1].event = "Write" /\ trace[i - 1].value = "zero"}
nothingAfterBarriers == \A i \in barriers, j \in DOMAIN trace : j > i => trace[j].event = "Close"

classifyBarrier ==
    LET first == CHOOSE i \in barriers : \A j \in barriers : i <= j
    IN  IF trace[first].event = "CaptureLastError" \/ \E c \in At("CreateValid") : c < first
        THEN "UnknownPostCreate" ELSE "UnknownPreEffect"

\* A refusal needs a clock before the call, one after the error and before the
\* directories are found unchanged.
classifyInvalid ==
    LET i == CHOOSE c \in At("CreateInvalid") : TRUE
        refused == /\ i - 1 \in At("Clock")
                   /\ \A r \in At("RevalidateAncestors") : trace[r].value = "same" /\ \E c \in At("Clock") : i + 1 < c /\ c < r
                   /\ Cardinality(At("RevalidateAncestors")) = 1
    IN  IF ~refused THEN "UnknownPreEffect"
        ELSE IF trace[i + 1].value = "exists" THEN "RefusedCollision" ELSE "RefusedPreEffect"

\* The events of a creation that is known, in their order.
KnownOrder == <<"CreateValid", "Write", "Flush", "Identity", "Rewind", "Readback", "Identity",
                "Reopen", "Identity", "Readback", "RevalidateAncestors", "Acknowledge">>
classifyValid ==
    LET Proof(e) == e.event \in {KnownOrder[i] : i \in DOMAIN KnownOrder}
        events == SelectSeq(trace, Proof)
        c == CHOOSE i \in At("CreateValid") : TRUE IN
    IF Cardinality(At("CreateValid")) # 1 \/ Cardinality(At("Write")) # 1
         \/ c + 1 \notin At("Write") \/ c - 1 \notin At("Clock") THEN "invalid"
    ELSE IF [i \in DOMAIN events |-> events[i].event] = KnownOrder
              /\ \E r \in At("RevalidateAncestors") : trace[r].value = "same" /\ r - 1 \in At("Clock")
         THEN "Known" ELSE "UnknownPostCreate"

classify_ordered_create_trace ==
    IF ~disciplined \/ ~nothingAfterBarriers \/ ~Follows("CreateInvalid", "CaptureLastError") \/ At("Clock") = {} THEN "invalid"
    ELSE IF barriers # {} THEN classifyBarrier
    ELSE IF At("CreateInvalid") # {} THEN classifyInvalid
    ELSE classifyValid

-----------------------------------------------------------------------------
(* Properties.                                                             *)

\* The state is well formed, and no more is read of a file than may be.
TypeOK ==
    /\ operation \in Operation /\ Len(content) \in Contents /\ dirs \in [Dirs -> {"here", "elsewhere"}]
    /\ path \in Objects \cup {0} /\ mine \in Objects \cup {0} /\ edits \in 0..Edits
    /\ created \in BOOLEAN /\ late \in BOOLEAN /\ Len(held) <= 3
    /\ operation = "read-bound-file" => Len(got) <= Cap

\* The process that says it created nothing has created nothing, whatever
\* failed and whoever else created the file; one that created something says
\* that it may have or that it did.
EffectIsTruthful ==
    /\ Len(result) = 3 /\ result[3] \in {"none", "not-created"} => ~created
    /\ result = <<"known">> => (created <=> operation = "create-new-durable-file")

\* What a known reading answers is what the file held at one moment, although
\* others write it between any two chunks.
ReadIsSnapshot ==
    operation = "read-bound-file" /\ result = <<"known">> => got = snapshot

\* A creation is concluded over the file that was created, with all of its
\* content and nothing after it, at its place below the directories held.
CreationIsWhole ==
    pc = "conclude" /\ pc' = "frame" /\ operation = "create-new-durable-file"
         => files[mine].data = content /\ mine = before.file /\ path = mine

\* Every way out releases each handle once, the last opened one first, and
\* uses none that is not the last opened one.
ReleasedInOrder == pc = "ended" => disciplined

\* The crate's contract never reads less of a trace than happened: what it calls
\* free of effect has created nothing.
TraceIsSafe ==
    pc = "ended" /\ classify_ordered_create_trace \in {"RefusedCollision", "RefusedPreEffect", "UnknownPreEffect"}
        => ~created
=============================================================================
