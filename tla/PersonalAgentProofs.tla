------------------------ MODULE PersonalAgentProofs ------------------------
(***************************************************************************)
(* Theorems about the controller of the personal agent, for all tasks,     *)
(* commands and bounds.                                                    *)
(***************************************************************************)
EXTENDS PersonalAgent, SequenceTheorems, TLAPS

(* A list is made of what its stage works through; what it names exists.   *)
Exists(t, r, rev) == t \in Tasks /\ r \in 1..rev[t]

ListOK(f, rev) ==
  /\ f.at \in {"readmit", "deliver"} => \A x \in f.todo : Exists(x[1], x[2], rev) /\ x[3] \in Nat
  /\ f.at \in {"stop", "restop"} => \A x \in f.todo : Exists(x[1], x[2], rev)
  /\ f.at \in {"resume", "invalidate"} => \A t \in f.todo : Exists(t, 1, rev)
  /\ f.at = "idle" => f.todo = {}

Frames(list) ==
  [at : Places, pc : Awaits \cup {"ret"}, task : Tasks \cup {NoTask},
   revision : 0..MaxRevision, grant : Nat, token : TokenRecords,
   copy : SnapshotStates \cup {"none"}, settled : BOOLEAN,
   left : SUBSET Revisions, todo : {list}]

FrameTyped(f, rev) ==
  /\ f \in Frames(f.todo)
  /\ f.pc # "ret" => Exists(f.task, f.revision, rev)
  /\ f.pc \in {"correct", "cancelOld"} => f.revision > 1
  /\ ListOK(f, rev)

(* The authority that the owner's orders leave to the tasks.               *)
StoreTyped ==
  /\ revision \in [Tasks -> 0..MaxRevision]
  /\ grants \in [Tasks -> Seq(GrantRecords)]
  /\ control \in [Tasks -> {"none", "cancelled", "held", "resume"}]
  /\ childStops \in [Tasks -> [Revisions -> {"none", "pending", "settled"}]]
  /\ \A t \in Tasks : /\ revision[t] > 0 <=> grants[t] # <<>>
                      /\ control[t] # "none" => revision[t] > 0
                      /\ \A r \in Revisions : childStops[t][r] # "none" => r <= revision[t]

(* The runs and their effects.                                             *)
WorkTyped ==
  /\ admissions \in [Tasks -> [Revisions ->
       [state : {"none", "reserved", "bound", "unknown", "blocked"},
        token : TokenRecords]]]
  /\ runs \in [Tasks -> [Revisions -> SnapshotStates \cup {"none"}]]
  /\ effects \in [Tasks -> [Revisions -> {"none", "open", "settled"}]]
  /\ requested \in [Tasks -> [Revisions -> Nat]]
  /\ engine \in [Tasks -> [Revisions -> {"absent", "live", "completed", "stopped"}]]

(* The process: a dead one has no calls.                                   *)
CallsTyped ==
  /\ calls = [h \in Handlers |-> calls[h]]
  /\ \A h \in Handlers : FrameTyped(calls[h], revision)
  /\ calls[Maintenance].at \in {"idle", "invalidate"}
  /\ phase \in {"down", "recovering", "up"}
  /\ phase = "down" => \A h \in Handlers : calls[h] = Idle

Typing == StoreTyped /\ WorkTyped /\ CallsTyped

(* The journal names only existing tasks, but for commands that create.    *)
JournalOK ==
  /\ journal = [c \in Commands |-> journal[c]]
  /\ \A c \in Commands :
       /\ journal[c] \in [state : {"new", "logged", "done"},
                          op : {"none", "create", "correct", "cancel", "delete"},
                          task : Tasks \cup {NoTask}]
       /\ journal[c].state = "new" => calls[c].pc = "ret"
       /\ journal[c].state = "logged" =>
            /\ journal[c].task \in Tasks /\ journal[c].op # "none"
            /\ journal[c].op # "create" => revision[journal[c].task] > 0

(* A call owns the reservation it submits under.                           *)
Owns(f, t, r) == f.pc \in {"input", "submit"} /\ f.task = t /\ f.revision = r

OwnersReserved ==
  \A h \in Handlers, t \in Tasks, r \in Revisions :
    Owns(calls[h], t, r) =>
      /\ admissions[t][r].state = "reserved"
      /\ calls[h].pc = "input" => requested[t][r] = 0
      /\ \A i \in Handlers \ {h} : ~Owns(calls[i], t, r)

ReservedOwned ==
  phase # "down" =>
    \A t \in Tasks, r \in Revisions :
      admissions[t][r].state = "reserved" => \E h \in Handlers : Owns(calls[h], t, r)

AtMostOnce ==
  \A t \in Tasks, r \in Revisions :
    /\ requested[t][r] <= 1
    /\ admissions[t][r].state \in {"none", "blocked"} => requested[t][r] = 0

Reservations == OwnersReserved /\ ReservedOwned /\ AtMostOnce

(* What the engine and the broker have of revision q is over.              *)
Quiet(t, q) ==
  /\ engine[t][q] # "live"
  /\ engine[t][q] = "absent" => requested[t][q] = 0
  /\ effects[t][q] # "open"

Clear(t, r) == \A q \in 1..(r - 1) : Quiet(t, q)

(* A call whose token resolves works for a task without control, whose     *)
(* earlier revisions are over.                                             *)
Authorised(f) == f.pc \in {"prepare", "input", "submit"} /\ resolves(f.task, f.revision, f.token)

Authority ==
  \A h \in Handlers :
    Authorised(calls[h]) => control[calls[h].task] = "none" /\ Clear(calls[h].task, calls[h].revision)

(* What the store knows of a run is true ...                               *)
RunsTrue(snapshots) ==
  \A t \in Tasks, r \in Revisions :
    /\ snapshots[t][r] \in SnapshotStates \cup {"none"}
    /\ snapshots[t][r] \in {"completed", "stopped"} => engine[t][r] = snapshots[t][r]
    /\ admissions[t][r].state = "bound" => snapshots[t][r] # "none"

(* ... and a submitted revision was submitted when the earlier were over.  *)
RunsOK ==
  /\ RunsTrue(runs)
  /\ \A t \in Tasks, r \in Revisions :
       /\ engine[t][r] # "absent" => requested[t][r] > 0
       /\ requested[t][r] > 0 => r <= revision[t] /\ Clear(t, r)

IndInv == Typing /\ JournalOK /\ Reservations /\ Authority /\ RunsOK

-----------------------------------------------------------------------------
(* Frames, grants and tokens                                               *)

(* The frame that a procedure leaves when it is over.                      *)
Back(f) == [Idle EXCEPT !.at = f.at, !.todo = f.todo]

(* The missing token is a token record.                                  *)
LEMMA NoTokenTyped == NoToken \in TokenRecords
BY ControllerAssumption DEF NoToken, TokenRecords

(* An idle frame is well typed and has nothing to do.                    *)
LEMMA IdleTyped ==
  /\ Idle \in Frames({}) /\ FrameTyped(Idle, revision)
  /\ Idle.at = "idle" /\ Idle.pc = "ret" /\ Idle.todo = {}
<1>1. Idle \in Frames({})
  BY NoTokenTyped, ControllerAssumption DEF Idle, Places, Frames
<1>2. Idle.at = "idle" /\ Idle.pc = "ret" /\ Idle.todo = {}
  BY DEF Idle
<1> QED
  BY <1>1, <1>2 DEF FrameTyped, ListOK

(* What a procedure leaves behind is a well-typed frame that has returned. *)
LEMMA BackTyped ==
  ASSUME NEW f, FrameTyped(f, revision)
  PROVE  FrameTyped(Back(f), revision) /\ Back(f).pc = "ret" /\ Back(f).at = f.at
<1>1. f.at \in Places
  BY DEF FrameTyped, Frames
<1>2. /\ Back(f) \in Frames(f.todo)
      /\ Back(f).pc = "ret" /\ Back(f).at = f.at /\ Back(f).todo = f.todo
  BY <1>1, IdleTyped DEF Back, Frames
<1>3. ListOK(Back(f), revision)
  BY <1>2 DEF FrameTyped, ListOK
<1> QED
  BY <1>2, <1>3 DEF FrameTyped

(* A task that exists has a newest grant, and its token.                 *)
LEMMA NewestTyped ==
  ASSUME StoreTyped, NEW t \in Tasks, revision[t] > 0
  PROVE  /\ Newest(t) \in Nat /\ Newest(t) > 0 /\ Newest(t) \in 1..Len(grants[t])
         /\ grants[t] \in Seq(GrantRecords)
         /\ grants[t][Newest(t)] \in GrantRecords
         /\ CurrentToken(t) \in TokenRecords
<1>1. grants[t] \in Seq(GrantRecords) /\ grants[t] # <<>>
  BY DEF StoreTyped
<1>2. Newest(t) \in Nat /\ Newest(t) > 0
  BY <1>1, EmptySeq DEF Newest
<1>3. grants[t][Newest(t)] \in GrantRecords
  BY <1>1, <1>2, ElementOfSeq DEF Newest
<1> QED
  BY <1>1, <1>2, <1>3 DEF CurrentToken, TokenRecords, GrantRecords, Newest

(* Overwriting the current grant keeps the others and their number.        *)
Rewritten(t, g) == [grants EXCEPT ![t] = [grants[t] EXCEPT ![Newest(t)] = g]]

(* Rewriting the newest grant touches neither older ones nor other tasks. *)
LEMMA RewrittenTyped ==
  ASSUME StoreTyped, NEW t \in Tasks, revision[t] > 0, NEW g \in GrantRecords
  PROVE  /\ Rewritten(t, g) \in [Tasks -> Seq(GrantRecords)]
         /\ Rewritten(t, g)[t] # <<>> /\ Len(Rewritten(t, g)[t]) = Newest(t)
         /\ Rewritten(t, g)[t][Newest(t)] = g
         /\ \A u \in Tasks \ {t} : Rewritten(t, g)[u] = grants[u]
<1> DEFINE s == [grants[t] EXCEPT ![Newest(t)] = g]
<1>1. s \in Seq(GrantRecords) /\ Len(s) = Newest(t) /\ s[Newest(t)] = g
  BY NewestTyped, ExceptSeq DEF Newest
<1>2. s # <<>>
  BY <1>1, NewestTyped, EmptySeq
<1>3. Rewritten(t, g) = [grants EXCEPT ![t] = s]
  BY DEF Rewritten
<1> HIDE DEF s
<1> QED
  BY <1>1, <1>2, <1>3 DEF StoreTyped

(* Revoking the current grant revokes that one and touches no other task. *)
LEMMA RevokeTyped ==
  ASSUME StoreTyped, NEW t \in Tasks, revision[t] > 0
  PROVE  /\ revokeCurrent(t) \in [Tasks -> Seq(GrantRecords)]
         /\ revokeCurrent(t)[t] # <<>>
         /\ Len(revokeCurrent(t)[t]) = Newest(t)
         /\ revokeCurrent(t)[t][Newest(t)].revoked
         /\ \A u \in Tasks \ {t} : revokeCurrent(t)[u] = grants[u]
<1> DEFINE g == [grants[t][Newest(t)] EXCEPT !.revoked = TRUE]
<1>1. g \in GrantRecords /\ g.revoked
  BY NewestTyped DEF GrantRecords
<1>2. revokeCurrent(t) = Rewritten(t, g)
  BY DEF revokeCurrent, Rewritten
<1> HIDE DEF g
<1> QED
  BY <1>1, <1>2, RewrittenTyped

(* A new grant is a grant record.                                        *)
LEMMA NewGrantTyped == NewGrant \in GrantRecords
BY ControllerAssumption DEF NewGrant, GrantRecords

-----------------------------------------------------------------------------
(* The procedures of the controller                                        *)

(* A step keeps the authority of the other calls for t when it makes a new *)
(* revision, revokes the current grant, or leaves both alone; a step that  *)
(* makes a new grant does so for an uncontrolled task with nothing behind. *)
Keeps(t) ==
  /\ revision[t] <= revision'[t]
  /\ \/ revision[t] < revision'[t]
     \/ Revoked(t)'
     \/ /\ control'[t] \in {control[t], "none"}
        /\ \/ grants'[t] = grants[t]
           \/ control'[t] = "none" /\ Clear(t, revision[t])

(* A frame that moves to another await.                                    *)
Moved(f, pc, t, r) == [f EXCEPT !.pc = pc, !.task = t, !.revision = r]
Preparing(f, t, r, n, k) ==
  [f EXCEPT !.pc = "prepare", !.task = t, !.revision = r, !.grant = n, !.token = k]

(* A frame that goes to another await is well typed.                     *)
LEMMA MovedTyped ==
  ASSUME StoreTyped, NEW f, FrameTyped(f, revision), NEW pc \in Awaits, pc \notin {"correct", "cancelOld"},
         NEW t \in Tasks, NEW r \in 1..revision[t]
  PROVE  /\ FrameTyped(Moved(f, pc, t, r), revision) /\ Moved(f, pc, t, r).at = f.at
         /\ Moved(f, pc, t, r).pc = pc
<1> DEFINE g == Moved(f, pc, t, r)
<1>1. r \in 0..MaxRevision
  BY ControllerAssumption DEF StoreTyped
<1>2. f \in Frames(f.todo)
  BY DEF FrameTyped
<1>3. g \in Frames(f.todo)
  BY <1>1, <1>2 DEF Moved, Frames
<1>4. g.pc = pc /\ g.at = f.at /\ g.todo = f.todo /\ g.task = t /\ g.revision = r
  BY <1>2 DEF Moved, Frames
<1> HIDE DEF g
<1>5. FrameTyped(g, revision)
  BY <1>3, <1>4 DEF FrameTyped, ListOK, Exists
<1> QED
  BY <1>4, <1>5 DEF g

(* A frame that prepares an admission is well typed.                     *)
LEMMA PreparingTyped ==
  ASSUME StoreTyped, NEW f, FrameTyped(f, revision), NEW t \in Tasks, NEW r \in 1..revision[t],
         NEW n \in Nat, NEW k \in TokenRecords
  PROVE  /\ FrameTyped(Preparing(f, t, r, n, k), revision) /\ Preparing(f, t, r, n, k).at = f.at
         /\ Preparing(f, t, r, n, k).pc = "prepare"
         /\ Preparing(f, t, r, n, k).task = t
         /\ Preparing(f, t, r, n, k).revision = r
<1> DEFINE g == Preparing(f, t, r, n, k)
<1>1. r \in 0..MaxRevision /\ "prepare" \in Awaits
  BY ControllerAssumption DEF StoreTyped, Awaits
<1>2. f \in Frames(f.todo)
  BY DEF FrameTyped
<1>3. g \in Frames(f.todo)
  BY <1>1, <1>2 DEF Preparing, Frames
<1>4. g.pc = "prepare" /\ g.at = f.at /\ g.todo = f.todo /\ g.task = t /\ g.revision = r
  BY <1>2 DEF Preparing, Frames
<1> HIDE DEF g
<1>5. FrameTyped(g, revision)
  BY <1>3, <1>4 DEF FrameTyped, ListOK, Exists
<1> QED
  BY <1>4, <1>5 DEF g

(* What a procedure leaves behind: a frame that owns no reservation; if it *)
(* prepares the authority of a run, the run may start.                     *)
Continues(h, f, g) ==
  /\ calls' = [calls EXCEPT ![h] = g]
  /\ FrameTyped(g, revision') /\ g.at = f.at /\ g.pc \notin {"input", "submit"}
  /\ g.pc = "prepare" => control'[g.task] = "none" /\ Clear(g.task, g.revision)

Procedure(h, f) ==
  /\ StoreTyped' /\ \A u \in Tasks : Keeps(u)
  /\ \E g : Continues(h, f, g)

(* Child stops that a step may make of the present ones.                   *)
StopsTyped(stops) ==
  /\ stops \in [Tasks -> [Revisions -> {"none", "pending", "settled"}]]
  /\ \A t \in Tasks, r \in Revisions : stops[t][r] # "none" => r <= revision[t]

(* Leaving is one way for a call to go on.                               *)
LEMMA LeaveContinues ==
  ASSUME NEW h, NEW f, FrameTyped(f, revision), UNCHANGED revision, Leave(h, f)
  PROVE  Continues(h, f, Back(f))
BY BackTyped DEF Leave, Back, Continues

(* A hold goes on with a controlled task and loses its authority.        *)
LEMMA HoldProcedure ==
  ASSUME StoreTyped, UNCHANGED revision, NEW h, NEW f, FrameTyped(f, revision),
         NEW t \in Tasks, revision[t] > 0, NEW kind \in {"held", "resume"},
         NEW ctl \in {control[t], "none"}, NEW stops, StopsTyped(stops),
         hold(h, f, t, kind, ctl, stops)
  PROVE  Procedure(h, f)
<1>0. revision[t] \in 1..MaxRevision /\ revision[t] \in 1..revision[t]
  BY ControllerAssumption DEF StoreTyped
<1>1. \E g : Continues(h, f, g)
  <2> DEFINE g == Moved(f, "held", t, revision[t])
  <2>1. FrameTyped(g, revision) /\ g.at = f.at /\ g.pc = "held"
    <3>1. "held" \in Awaits /\ "held" \notin {"correct", "cancelOld"}
      BY DEF Awaits
    <3> QED
      BY <1>0, <3>1, MovedTyped
  <2>2. calls' = [calls EXCEPT ![h] = g]
    BY DEF hold, In, Moved
  <2> HIDE DEF g
  <2>3. Continues(h, f, g)
    BY <2>1, <2>2 DEF Continues
  <2> QED
    BY <2>3
<1>2. CASE ctl = "cancelled"
  <2>1. control' = [control EXCEPT ![t] = control[t]] /\ grants' = grants
    BY <1>2 DEF hold
  <2>2. childStops' = [stops EXCEPT ![t][revision[t]] = "pending"]
    BY DEF hold
  <2>3. StoreTyped'
    BY <1>0, <2>1, <2>2 DEF StoreTyped, StopsTyped, Revisions
  <2>4. \A u \in Tasks : Keeps(u)
    BY <2>1 DEF Keeps, StoreTyped
  <2> QED
    BY <1>1, <2>3, <2>4 DEF Procedure
<1>3. CASE ctl # "cancelled"
  <2>1. control' = [control EXCEPT ![t] = kind] /\ grants' = revokeCurrent(t)
    BY <1>3 DEF hold
  <2>2. childStops' = [stops EXCEPT ![t][revision[t]] = "pending"]
    BY DEF hold
  <2>3. StoreTyped'
    BY <1>0, <2>1, <2>2, RevokeTyped DEF StoreTyped, StopsTyped, Revisions
  <2>4. \A u \in Tasks : Keeps(u)
    BY <2>1, RevokeTyped, <1>0 DEF Keeps, StoreTyped, Revoked, Newest
  <2> QED
    BY <1>1, <2>3, <2>4 DEF Procedure
<1> QED
  BY <1>2, <1>3

(* A call prepares only for a task without control whose past is over.   *)
LEMMA PrepareContinues ==
  ASSUME StoreTyped, UNCHANGED revision, NEW h, NEW f, FrameTyped(f, revision), NEW t \in Tasks, revision[t] > 0,
         NEW n \in Nat, NEW k \in TokenRecords,
         control'[t] = "none", Clear(t, revision[t]),
         calls' = [calls EXCEPT ![h] = Preparing(f, t, revision[t], n, k)]
  PROVE  \E g : Continues(h, f, g)
<1> DEFINE g == Preparing(f, t, revision[t], n, k)
<1>1. revision[t] \in 1..revision[t]
  BY DEF StoreTyped
<1>2. /\ FrameTyped(g, revision) /\ g.at = f.at /\ g.pc = "prepare"
      /\ g.task = t /\ g.revision = revision[t]
  BY <1>1, PreparingTyped
<1> HIDE DEF g
<1>3. Continues(h, f, g)
  BY <1>2 DEF Continues, g
<1> QED
  BY <1>3

(* Taking the control of a task away, or not, with the rest in place.      *)
LEMMA ControlCleared ==
  ASSUME StoreTyped, UNCHANGED <<revision, grants>>, NEW t \in Tasks,
         StopsTyped(childStops'),
         control' \in {control, [control EXCEPT ![t] = "none"]}
  PROVE  StoreTyped' /\ \A u \in Tasks : Keeps(u)
<1>1. StoreTyped'
  BY DEF StoreTyped, StopsTyped
<1>2. \A u \in Tasks : Keeps(u)
  BY DEF StoreTyped, Keeps
<1> QED
  BY <1>1, <1>2

(* An admission goes on for a clear revision, or holds the task.         *)
LEMMA AdmitProcedure ==
  ASSUME StoreTyped, UNCHANGED revision, NEW h, NEW f, FrameTyped(f, revision),
         NEW t \in Tasks, revision[t] > 0, NEW r, revision[t] = r => Clear(t, r),
         NEW n \in Nat, NEW stops, StopsTyped(stops),
         admit(h, f, t, r, n, stops)
  PROVE  Procedure(h, f)
<1>1. CASE revision[t] # r
  <2>1. /\ control' = [control EXCEPT ![t] = "none"] /\ childStops' = stops
        /\ Leave(h, f) /\ UNCHANGED grants
    BY <1>1, Zenon DEF admit
  <2>2. StopsTyped(childStops')
    BY <2>1, Zenon
  <2> QED
    BY <2>1, <2>2, LeaveContinues, ControlCleared DEF Procedure
<1>2. CASE revision[t] = r /\ unsettledStops(stops, t)
  <2>1. hold(h, f, t, "resume", "none", stops)
    BY <1>2, Zenon DEF admit
  <2> QED
    BY <2>1, HoldProcedure
<1>3. CASE revision[t] = r /\ ~unsettledStops(stops, t) /\ Revoked(t)
  <2>1. hold(h, f, t, "held", "none", stops)
    BY <1>3, Zenon DEF admit
  <2> QED
    BY <2>1, HoldProcedure
<1>4. CASE revision[t] = r /\ ~unsettledStops(stops, t) /\ ~Revoked(t)
  <2>1. /\ control' = [control EXCEPT ![t] = "none"] /\ childStops' = stops
        /\ calls' = [calls EXCEPT ![h] = Preparing(f, t, revision[t], n, CurrentToken(t))]
        /\ UNCHANGED grants
    BY <1>4, Zenon DEF admit, Preparing
  <2>2. StopsTyped(childStops') /\ control'[t] = "none"
    BY <2>1 DEF StoreTyped
  <2>3. \E g : Continues(h, f, g)
    BY <1>4, <2>1, <2>2, NewestTyped, PrepareContinues
  <2> QED
    BY <2>1, <2>2, <2>3, ControlCleared DEF Procedure
<1> QED
  BY <1>1, <1>2, <1>3, <1>4

(* Work that is settled according to the store is over indeed.             *)
LEMMA SettledIsClear ==
  ASSUME StoreTyped, WorkTyped, Reservations, RunsOK, NEW snapshots, RunsTrue(snapshots),
         NEW t \in Tasks, NEW r \in 1..revision[t], ~unresolvedPriorWork(t, r, snapshots)
  PROVE  Clear(t, r)
<1> SUFFICES ASSUME NEW q \in 1..(r - 1) PROVE Quiet(t, q)
  BY DEF Clear
<1>1. q \in Revisions
  BY ControllerAssumption DEF StoreTyped, Revisions
<1>2. /\ admissions[t][q].state \notin {"unknown", "reserved"}
      /\ snapshots[t][q] \notin Nonterminal /\ effects[t][q] # "open"
  BY <1>1 DEF unresolvedPriorWork, openEffects
<1>3. CASE admissions[t][q].state = "bound"
  BY <1>1, <1>2, <1>3 DEF RunsTrue, Quiet, SnapshotStates, Nonterminal
<1>4. CASE admissions[t][q].state \in {"none", "blocked"}
  <2>1. requested[t][q] = 0
    BY <1>1, <1>4 DEF Reservations, AtMostOnce
  <2>2. engine[t][q] = "absent"
    BY <1>1, <2>1 DEF RunsOK
  <2> QED
    BY <1>2, <2>1, <2>2 DEF Quiet
<1> QED
  BY <1>1, <1>2, <1>3, <1>4 DEF WorkTyped

(* A settled correction goes on to admit its revision, once all before it are over. *)
LEMMA SettlesProcedure ==
  ASSUME StoreTyped, WorkTyped, Reservations, RunsOK, UNCHANGED revision,
         NEW h, NEW f, FrameTyped(f, revision), f.pc # "ret",
         NEW stops, StopsTyped(stops), NEW snapshots, RunsTrue(snapshots),
         correctionSettles(h, f, stops, snapshots)
  PROVE  Procedure(h, f)
<1>1. f.task \in Tasks /\ f.revision \in 1..revision[f.task] /\ f.grant \in Nat
  BY DEF FrameTyped, Exists, Frames
<1>2. revision[f.task] > 0
  BY <1>1 DEF StoreTyped
<1>3. FrameTyped(Back(f), revision) /\ Back(f).at = f.at
  BY BackTyped
<1>4. ASSUME Procedure(h, Back(f)) PROVE Procedure(h, f)
  BY <1>3, <1>4 DEF Procedure, Continues
<1>5. CASE hold(h, Back(f), f.task, "resume", control[f.task], stops)
  BY <1>1, <1>2, <1>3, <1>4, <1>5, HoldProcedure
<1>6. CASE /\ control' \in {control, [control EXCEPT ![f.task] = "none"]}
           /\ childStops' = stops /\ UNCHANGED grants /\ Leave(h, f)
  <2>1. StopsTyped(childStops')
    BY <1>6, Zenon
  <2> QED
    BY <1>1, <1>6, <2>1, LeaveContinues, ControlCleared DEF Procedure
<1>7. CASE /\ revision[f.task] = f.revision
           /\ ~unresolvedPriorWork(f.task, f.revision, snapshots)
           /\ admit(h, Back(f), f.task, f.revision, f.grant, stops)
  BY <1>1, <1>2, <1>3, <1>4, <1>7, SettledIsClear, AdmitProcedure
<1> QED
  BY <1>5, <1>6, <1>7, Zenon DEF correctionSettles, Back

(* A frame stays well typed when revisions are added.                    *)
LEMMA FrameGrows ==
  ASSUME StoreTyped, StoreTyped', \A u \in Tasks : revision[u] <= revision'[u],
         NEW f, FrameTyped(f, revision)
  PROVE  FrameTyped(f, revision')
<1>1. ASSUME NEW t, NEW r, Exists(t, r, revision) PROVE Exists(t, r, revision')
  BY <1>1 DEF Exists, StoreTyped
<1>2. ListOK(f, revision')
  BY <1>1 DEF FrameTyped, ListOK
<1> QED
  BY <1>1, <1>2 DEF FrameTyped

(* A correction adds a revision and revokes the grant of the one before. *)
LEMMA CorrectionProcedure ==
  ASSUME StoreTyped, WorkTyped, NEW h, NEW f, FrameTyped(f, revision),
         NEW t \in Tasks, revision[t] > 0, correction(h, f, t)
  PROVE  Procedure(h, f)
<1> DEFINE g == [f EXCEPT !.pc = "correct", !.task = t, !.revision = revision[t] + 1,
                          !.grant = Newest(t) + 1, !.copy = runs[t][revision[t]]]
<1>1. /\ revision[t] \in 1..MaxRevision /\ revision[t] + 1 \in 1..MaxRevision
      /\ revision[t] + 1 \in 0..MaxRevision /\ revision[t] + 1 > 1
  BY ControllerAssumption DEF correction, StoreTyped
<1>2. revision' = [revision EXCEPT ![t] = revision[t] + 1]
  BY DEF correction
<1>3. grants' = [grants EXCEPT ![t] = Append(revokeCurrent(t)[t], NewGrant)]
  BY DEF correction
<1>4. /\ Append(revokeCurrent(t)[t], NewGrant) \in Seq(GrantRecords)
      /\ Append(revokeCurrent(t)[t], NewGrant) # <<>>
  <2>1. revokeCurrent(t)[t] \in Seq(GrantRecords)
    BY RevokeTyped
  <2> QED
    BY <2>1, NewGrantTyped, AppendProperties
<1>5. StoreTyped'
  <2>1. grants' \in [Tasks -> Seq(GrantRecords)] /\ grants'[t] # <<>>
        /\ \A u \in Tasks \ {t} : grants'[u] = grants[u]
    BY <1>3, <1>4 DEF StoreTyped
  <2>2. control' = [control EXCEPT ![t] = "resume"]
        /\ childStops' = [childStops EXCEPT ![t][revision[t]] = "pending"]
    BY DEF correction
  <2> QED
    BY <1>1, <1>2, <2>1, <2>2 DEF StoreTyped, Revisions
<1>6. \A u \in Tasks : Keeps(u)
  BY <1>1, <1>2, <1>3 DEF Keeps, StoreTyped, correction
<1>7. FrameTyped(f, revision')
  BY <1>5, <1>6, FrameGrows DEF Keeps
<1>8. /\ g \in Frames(f.todo) /\ g.pc = "correct" /\ g.at = f.at /\ g.todo = f.todo
      /\ g.task = t /\ g.revision = revision[t] + 1
  <2>1. runs[t][revision[t]] \in SnapshotStates \cup {"none"}
    <3>1. runs[t] \in [Revisions -> SnapshotStates \cup {"none"}]
      BY DEF WorkTyped
    <3> QED
      BY <1>1, <3>1 DEF Revisions
  <2>2. "correct" \in Awaits
    BY DEF Awaits
  <2>3. Newest(t) + 1 \in Nat
    BY NewestTyped
  <2>4. f \in Frames(f.todo)
    BY DEF FrameTyped
  <2> QED
    BY <1>1, <2>1, <2>2, <2>3, <2>4 DEF Frames
<1>9. calls' = [calls EXCEPT ![h] = g]
  BY DEF correction
<1> HIDE DEF g
<1>10. FrameTyped(g, revision')
  <2>1. t \in Tasks /\ revision'[t] = revision[t] + 1 /\ revision[t] + 1 \in 1..revision'[t]
    BY <1>1, <1>2 DEF StoreTyped
  <2> QED
    BY <1>1, <1>7, <1>8, <2>1 DEF FrameTyped, ListOK, Exists
<1>11. Continues(h, f, g)
  BY <1>8, <1>9, <1>10 DEF Continues
<1> QED
  BY <1>5, <1>6, <1>11 DEF Procedure

(* A creation begins with the first revision, which has no past.         *)
LEMMA CreateProcedure ==
  ASSUME StoreTyped, NEW h, NEW f, FrameTyped(f, revision), NEW t \in Tasks, NEW c,
         create(h, f, t, c)
  PROVE  Procedure(h, f)
<1>1. CASE revision[t] > 0
  <2>1. Leave(h, f) /\ UNCHANGED <<revision, grants, control, childStops>>
    BY <1>1 DEF create
  <2>2. StopsTyped(childStops')
    BY <2>1 DEF StoreTyped, StopsTyped
  <2> QED
    BY <2>1, <2>2, LeaveContinues, ControlCleared DEF Procedure
<1>2. CASE ~(revision[t] > 0)
  <2>1. /\ revision' = [revision EXCEPT ![t] = 1]
        /\ grants' = [grants EXCEPT ![t] = <<NewGrant>>]
        /\ UNCHANGED <<control, childStops>>
    BY <1>2 DEF create
  <2>2. revision[t] = 0 /\ control[t] = "none"
    BY <1>2 DEF StoreTyped
  <2>3. StoreTyped'
    <3>1. <<NewGrant>> \in Seq(GrantRecords) /\ <<NewGrant>> # <<>>
      BY NewGrantTyped
    <3> QED
      BY <2>1, <2>2, <3>1, ControllerAssumption DEF StoreTyped, Revisions
  <2>4. \A u \in Tasks : Keeps(u)
    BY <2>1, <2>2 DEF Keeps, StoreTyped
  <2>5. FrameTyped(f, revision')
    BY <2>3, <2>4, FrameGrows DEF Keeps
  <2>6. CASE phase = "recovering"
    <3>1. Leave(h, f)
      BY <1>2, <2>6 DEF create
    <3>2. Continues(h, f, Back(f))
      <4>1. Back(f).at = f.at /\ Back(f).pc = "ret" /\ Back(f).todo = f.todo
            /\ Back(f) \in Frames(f.todo)
        BY BackTyped, IdleTyped DEF Back, Frames, FrameTyped
      <4>2. FrameTyped(Back(f), revision')
        BY <2>5, <4>1 DEF FrameTyped, ListOK
      <4> QED
        BY <3>1, <4>1, <4>2 DEF Continues, Leave, Back
    <3> QED
      BY <2>3, <2>4, <3>2 DEF Procedure
  <2>7. CASE phase # "recovering"
    <3> DEFINE k == [grant |-> 1, revision |-> 0]
               g == Preparing(f, t, 1, 1, k)
    <3>1. calls' = [calls EXCEPT ![h] = g]
      BY <1>2, <2>7 DEF create, Preparing
    <3>2. k \in TokenRecords /\ 1 \in Nat /\ 1 \in 0..MaxRevision /\ "prepare" \in Awaits
      BY ControllerAssumption DEF TokenRecords, Awaits
    <3>3. f \in Frames(f.todo)
      BY DEF FrameTyped
    <3>4. /\ g \in Frames(f.todo) /\ g.pc = "prepare" /\ g.at = f.at /\ g.todo = f.todo
          /\ g.task = t /\ g.revision = 1
      <4> HIDE DEF k
      <4> QED
        BY <3>2, <3>3 DEF Preparing, Frames
    <3>5. 1 \in 1..revision'[t]
      BY <2>1 DEF StoreTyped
    <3> HIDE DEF g
    <3>6. FrameTyped(g, revision')
      BY <2>5, <3>4, <3>5 DEF FrameTyped, ListOK, Exists
    <3>7. Continues(h, f, g)
      BY <2>1, <2>2, <3>1, <3>4, <3>6 DEF Continues, Clear
    <3> QED
      BY <2>3, <2>4, <3>7 DEF Procedure
  <2> QED
    BY <2>6, <2>7
<1> QED
  BY <1>1, <1>2

(* A call that goes to an await of a control needs no authority there.   *)
LEMMA MoveContinues ==
  ASSUME StoreTyped, UNCHANGED revision, NEW h, NEW f, FrameTyped(f, revision),
         NEW pc \in {"held", "undo", "cancel", "cancelRuns"},
         NEW t \in Tasks, NEW r \in 1..revision[t], In(h, f, pc, t, r)
  PROVE  \E g : Continues(h, f, g)
<1> DEFINE g == Moved(f, pc, t, r)
<1>1. pc \in Awaits /\ pc \notin {"correct", "cancelOld"}
  BY DEF Awaits
<1>2. FrameTyped(g, revision) /\ g.at = f.at /\ g.pc = pc
  BY <1>1, MovedTyped
<1>3. calls' = [calls EXCEPT ![h] = g]
  BY DEF In, Moved
<1> HIDE DEF g
<1>4. Continues(h, f, g)
  BY <1>2, <1>3 DEF Continues
<1> QED
  BY <1>4

(* A cancellation takes the authority away before it awaits anything.    *)
LEMMA CancelProcedure ==
  ASSUME StoreTyped, NEW h, NEW f, FrameTyped(f, revision), NEW t \in Tasks, revision[t] > 0,
         cancel(h, f, t)
  PROVE  Procedure(h, f)
<1>1. revision[t] \in 1..MaxRevision /\ revision[t] \in 1..revision[t]
  BY ControllerAssumption DEF StoreTyped
<1>2. /\ grants' = revokeCurrent(t) /\ control' = [control EXCEPT ![t] = "cancelled"]
      /\ childStops' = [childStops EXCEPT ![t][revision[t]] = "pending"]
      /\ UNCHANGED revision
  BY DEF cancel
<1>3. StoreTyped'
  BY <1>1, <1>2, RevokeTyped DEF StoreTyped, Revisions
<1>4. \A u \in Tasks : Keeps(u)
  BY <1>1, <1>2, RevokeTyped DEF Keeps, StoreTyped, Revoked, Newest
<1>5. \E g : Continues(h, f, g)
  BY <1>1, <1>2, MoveContinues DEF cancel
<1> QED
  BY <1>3, <1>4, <1>5 DEF Procedure

(* The child stops as they are stored are well typed.                    *)
LEMMA UnchangedStops == StoreTyped => StopsTyped(childStops)
BY DEF StoreTyped, StopsTyped

(* A message is one of create, correct, cancel and delete, or nothing at all. *)
LEMMA ObservationProcedure ==
  ASSUME StoreTyped, WorkTyped, NEW h, NEW f, FrameTyped(f, revision),
         NEW t \in Tasks, NEW c, NEW op, op # "create" => revision[t] > 0,
         processObservation(h, f, c, op, t)
  PROVE  Procedure(h, f)
<1>1. CASE op = "create" /\ create(h, f, t, c)
  BY <1>1, CreateProcedure
<1>2. CASE op = "correct" /\ correct(h, f, t, c)
  <2>1. CASE c < ownerChange[t] \/ c \in applied
    <3>1. Leave(h, f) /\ UNCHANGED <<revision, grants, control, childStops>>
      BY <1>2, <2>1, Zenon DEF correct
    <3>2. StopsTyped(childStops')
      BY <3>1, UnchangedStops
    <3> QED
      BY <3>1, <3>2, LeaveContinues, ControlCleared DEF Procedure
  <2>2. CASE ~(c < ownerChange[t] \/ c \in applied)
    <3>1. correction(h, f, t)
      BY <1>2, <2>2, Zenon DEF correct
    <3> QED
      BY <1>2, <3>1, CorrectionProcedure
  <2> QED
    BY <2>1, <2>2
<1>3. CASE op = "cancel" /\ cancel(h, f, t)
  BY <1>3, CancelProcedure
<1>4. CASE op = "delete" /\ delete(h, f, t)
  <2>1. hold(h, f, t, "held", control[t], childStops) /\ UNCHANGED revision
    BY <1>4 DEF delete
  <2> QED
    BY <1>4, <2>1, UnchangedStops, HoldProcedure
<1> QED
  BY <1>1, <1>2, <1>3, <1>4 DEF processObservation

-----------------------------------------------------------------------------
(* Steps of the calls                                                      *)

(* A call that goes on lives in a live process.                            *)
LEMMA CallsAreAlive ==
  ASSUME Typing, NEW h \in Handlers, calls[h].pc # "ret" \/ calls[h].at # "idle"
  PROVE  phase # "down"
BY IdleTyped DEF Typing, CallsTyped

(* The calls stay typed when one of them moves.                            *)
LEMMA MoveTyped ==
  ASSUME Typing, StoreTyped', \A u \in Tasks : Keeps(u), phase' \in {"recovering", "up"},
         NEW h \in Handlers, NEW f, h = Maintenance => f.at \in {"idle", "invalidate"},
         NEW g, calls' = [calls EXCEPT ![h] = g], FrameTyped(g, revision'), g.at = f.at
  PROVE  CallsTyped'
<1>1. \A i \in Handlers : FrameTyped(calls[i], revision')
  <2>1. \A u \in Tasks : revision[u] <= revision'[u]
    BY DEF Keeps
  <2> QED
    BY <2>1, FrameGrows DEF Typing, CallsTyped
<1>2. calls' = [i \in Handlers |-> IF i = h THEN g ELSE calls[i]]
  BY DEF Typing, CallsTyped
<1>3. \A i \in Handlers : FrameTyped(calls'[i], revision')
  BY <1>1, <1>2
<1>4. calls'[Maintenance].at \in {"idle", "invalidate"}
  BY <1>2 DEF Typing, CallsTyped, Handlers
<1> QED
  BY <1>2, <1>3, <1>4 DEF CallsTyped

(* What was over stays over, unless an older revision moves.               *)
QuietKept ==
  \A t \in Tasks, q \in Revisions : q < revision[t] /\ Quiet(t, q) => Quiet(t, q)'

(* What was over for a revision stays over.                              *)
LEMMA ClearKept ==
  ASSUME StoreTyped, QuietKept, NEW t \in Tasks, NEW r \in 1..revision[t], Clear(t, r)
  PROVE  Clear(t, r)'
<1> SUFFICES ASSUME NEW q \in 1..(r - 1) PROVE Quiet(t, q)'
  BY DEF Clear
<1>1. q \in Revisions /\ q < revision[t] /\ Quiet(t, q)
  BY ControllerAssumption DEF StoreTyped, Revisions, Clear
<1> QED
  BY <1>1 DEF QuietKept

(* The other calls keep their authority.                                   *)
LEMMA OthersAuthorised ==
  ASSUME Typing, Authority, QuietKept, StoreTyped', \A u \in Tasks : Keeps(u),
         NEW i \in Handlers, NEW f, f = calls[i], Authorised(f)'
  PROVE  control'[f.task] = "none" /\ Clear(f.task, f.revision)'
<1> DEFINE t == f.task
           r == f.revision
<1>1. t \in Tasks /\ r \in 1..revision[t] /\ f.pc \in {"prepare", "input", "submit"}
  <2>1. FrameTyped(f, revision)
    BY DEF Typing, CallsTyped
  <2>2. f.pc \in {"prepare", "input", "submit"}
    BY DEF Authorised
  <2> QED
    BY <2>1, <2>2 DEF FrameTyped, Exists
<1>2. revision'[t] = r /\ f.token = CurrentToken(t)' /\ ~Revoked(t)'
  BY DEF Authorised, resolves
<1>3. revision[t] = r
  <2>1. revision[t] <= revision'[t] /\ revision[t] \in Nat /\ revision'[t] \in Nat
    BY <1>1 DEF Keeps, Typing, StoreTyped
  <2> QED
    BY <1>1, <1>2, <2>1
<1> HIDE DEF t, r
<1>4. ASSUME Clear(t, r) PROVE Clear(t, r)'
  BY <1>1, <1>4, ClearKept DEF Typing
<1>5. CASE grants'[t] = grants[t] /\ control'[t] \in {control[t], "none"}
  <2>1. f.token = CurrentToken(t) /\ ~Revoked(t)
    BY <1>2, <1>5 DEF CurrentToken, Revoked, Newest
  <2>2. Authorised(f)
    BY <1>1, <1>3, <2>1 DEF Authorised, resolves, t, r
  <2>3. control[t] = "none" /\ Clear(t, r)
    BY <2>2 DEF Authority, t, r
  <2> QED
    BY <1>4, <1>5, <2>3 DEF t, r
<1>6. CASE control'[t] = "none" /\ Clear(t, revision[t])
  BY <1>3, <1>4, <1>6 DEF t, r
<1> QED
  BY <1>1, <1>2, <1>3, <1>5, <1>6 DEF Keeps, Typing, StoreTyped

(* Authority survives a step that keeps that of every task, whatever the acting call becomes. *)
LEMMA AuthorityStep ==
  ASSUME Typing, Authority, QuietKept, StoreTyped', \A u \in Tasks : Keeps(u),
         NEW h \in Handlers, NEW g, calls' = [calls EXCEPT ![h] = g],
         Authorised(g)' => control'[g.task] = "none" /\ Clear(g.task, g.revision)'
  PROVE  Authority'
<1> SUFFICES ASSUME NEW i \in Handlers, NEW f, f = calls'[i], Authorised(f)'
             PROVE  control'[f.task] = "none" /\ Clear(f.task, f.revision)'
  BY DEF Authority
<1>1. CASE i = h
  <2>1. f = g
    BY <1>1 DEF Typing, CallsTyped
  <2> QED
    BY <2>1
<1>2. CASE i # h
  <2>1. f = calls[i]
    BY <1>2 DEF Typing, CallsTyped
  <2> QED
    BY <2>1, OthersAuthorised
<1> QED
  BY <1>1, <1>2

(* Most steps of a call leave admissions and effects, the requests and the *)
(* engine alone, and neither begin nor end a reservation.                  *)
LEMMA PlainStep ==
  ASSUME IndInv, NEW h \in Handlers, NEW f, h = Maintenance => f.at \in {"idle", "invalidate"},
         Procedure(h, f), calls[h].pc \notin {"input", "submit"},
         phase # "down", phase' \in {"recovering", "up"},
         UNCHANGED <<admissions, effects, outside>>,
         runs' \in [Tasks -> [Revisions -> SnapshotStates \cup {"none"}]], RunsTrue(runs'),
         JournalOK'
  PROVE  IndInv'
<1>1. StoreTyped' /\ (\A u \in Tasks : Keeps(u)) /\ WorkTyped'
  BY DEF Procedure, IndInv, Typing, WorkTyped, outside
<1>2. PICK g : Continues(h, f, g)
  BY DEF Procedure
<1>3. calls' = [calls EXCEPT ![h] = g] /\ g.pc \notin {"input", "submit"}
  BY <1>2 DEF Continues
<1>4. CallsTyped'
  <2>1. FrameTyped(g, revision') /\ g.at = f.at
    BY <1>2 DEF Continues
  <2> QED
    BY <1>1, <1>3, <2>1, MoveTyped DEF IndInv
<1>5. QuietKept
  BY DEF QuietKept, Quiet, outside
<1>6. Authority'
  <2>1. Authorised(g)' => g.pc = "prepare"
    BY <1>3 DEF Authorised
  <2>2. g.pc = "prepare" => control'[g.task] = "none" /\ Clear(g.task, g.revision)'
    BY <1>2 DEF Continues, Clear, Quiet, outside
  <2> QED
    BY <1>1, <1>3, <1>5, <2>1, <2>2, AuthorityStep DEF IndInv
<1>7. Reservations'
  <2>1. \A i \in Handlers : \A t, r :
          Owns(calls'[i], t, r) <=> Owns(calls[i], t, r)
    BY <1>3 DEF IndInv, Typing, CallsTyped, Owns
  <2>2. \A i \in Handlers : \A t, r : Owns(calls[i], t, r) => calls'[i] = calls[i]
    BY <1>3 DEF IndInv, Typing, CallsTyped, Owns
  <2>3. OwnersReserved'
    <3> SUFFICES ASSUME NEW i \in Handlers, NEW t \in Tasks, NEW r \in Revisions,
                        Owns(calls'[i], t, r)
                 PROVE  /\ admissions[t][r].state = "reserved"
                        /\ calls'[i].pc = "input" => requested[t][r] = 0
                        /\ \A j \in Handlers \ {i} : ~Owns(calls'[j], t, r)
      BY DEF OwnersReserved, outside
    <3>1. Owns(calls[i], t, r) /\ calls'[i] = calls[i]
      BY <2>1, <2>2
    <3>2. /\ admissions[t][r].state = "reserved"
          /\ calls[i].pc = "input" => requested[t][r] = 0
          /\ \A j \in Handlers \ {i} : ~Owns(calls[j], t, r)
      BY <3>1, Zenon DEF IndInv, Reservations, OwnersReserved
    <3>3. \A j \in Handlers \ {i} : ~Owns(calls'[j], t, r)
      BY <2>1, <3>2
    <3> QED
      BY <3>1, <3>2, <3>3
  <2>4. ReservedOwned'
    BY <2>1 DEF IndInv, Reservations, ReservedOwned
  <2>5. AtMostOnce'
    BY DEF IndInv, Reservations, AtMostOnce, outside
  <2> QED
    BY <2>3, <2>4, <2>5 DEF Reservations
<1>8. RunsOK'
  <2>1. RunsTrue(runs)'
    BY DEF RunsTrue, outside
  <2>2. \A t \in Tasks : revision[t] <= revision'[t] /\ revision[t] \in Nat /\ revision'[t] \in Nat
    BY <1>1 DEF IndInv, Typing, StoreTyped, Keeps
  <2>3. \A t \in Tasks, r \in Revisions :
          engine'[t][r] # "absent" => requested'[t][r] > 0
    BY DEF IndInv, RunsOK, outside
  <2>4. ASSUME NEW t \in Tasks, NEW r \in Revisions, requested'[t][r] > 0
        PROVE  r <= revision'[t] /\ Clear(t, r)'
    <3>1. r <= revision[t] /\ Clear(t, r) /\ r \in Nat
      BY <2>4, ControllerAssumption DEF IndInv, RunsOK, outside, Revisions
    <3>2. Clear(t, r)'
      BY <3>1 DEF Clear, Quiet, outside
    <3> QED
      BY <2>2, <3>1, <3>2
  <2> QED
    BY <2>1, <2>3, <2>4 DEF RunsOK
<1> QED
  BY <1>1, <1>4, <1>6, <1>7, <1>8 DEF IndInv, Typing

(* The journal survives a step of a call that is not the arrival of a command. *)
LEMMA JournalKept ==
  ASSUME IndInv, \A u \in Tasks : Keeps(u), StoreTyped', UNCHANGED journal,
         NEW h \in Handlers, NEW g, calls' = [calls EXCEPT ![h] = g],
         calls[h].pc # "ret" \/ h \notin Commands
  PROVE  JournalOK'
<1>1. ASSUME NEW c \in Commands, journal[c].state = "new" PROVE calls'[c].pc = "ret"
  <2>1. calls[c].pc = "ret"
    BY <1>1 DEF IndInv, JournalOK
  <2> QED
    BY <2>1 DEF IndInv, Typing, CallsTyped, Handlers
<1>2. ASSUME NEW t \in Tasks, revision[t] > 0 PROVE revision'[t] > 0
  BY <1>2 DEF Keeps, IndInv, Typing, StoreTyped
<1> QED
  BY <1>1, <1>2 DEF IndInv, JournalOK

(* Such a step of a call that leaves the journal alone.                    *)
LEMMA GoesOn ==
  ASSUME IndInv, NEW h \in Handlers, NEW f, Procedure(h, f),
         h = Maintenance => f.at \in {"idle", "invalidate"},
         calls[h].pc \notin {"input", "submit"}, calls[h].pc # "ret" \/ h \notin Commands,
         phase # "down", phase' \in {"recovering", "up"},
         UNCHANGED <<admissions, effects, outside, journal>>,
         runs' \in [Tasks -> [Revisions -> SnapshotStates \cup {"none"}]], RunsTrue(runs')
  PROVE  IndInv'
<1>1. JournalOK'
  BY JournalKept DEF Procedure, Continues
<1> QED
  BY <1>1, PlainStep

(* Such a step when an await of call h returns.                            *)
Returns(h) ==
  /\ calls[h].pc \notin {"input", "submit", "ret"}
  /\ UNCHANGED <<admissions, effects, log, process, outside>>

(* A call that comes back from an await without a reservation keeps the invariant. *)
LEMMA ReturnStep ==
  ASSUME IndInv, NEW h \in Handlers, NEW f, f.at = calls[h].at \/ f.at = "idle",
         Procedure(h, f), Returns(h),
         runs' \in [Tasks -> [Revisions -> SnapshotStates \cup {"none"}]], RunsTrue(runs')
  PROVE  IndInv'
<1>1. phase # "down" /\ phase' \in {"recovering", "up"}
  BY CallsAreAlive DEF Returns, process, IndInv, Typing, CallsTyped
<1>2. h = Maintenance => f.at \in {"idle", "invalidate"}
  BY DEF IndInv, Typing, CallsTyped
<1> QED
  BY <1>1, <1>2, GoesOn DEF Returns, log

(* The runs as they are stored are true.                                 *)
LEMMA RunsKept == IndInv => /\ runs \in [Tasks -> [Revisions -> SnapshotStates \cup {"none"}]]
                            /\ RunsTrue(runs)
BY DEF IndInv, Typing, WorkTyped, RunsOK

(* A snapshot that the engine reports is true.                             *)
LEMMA SnapshotTrue ==
  ASSUME IndInv, NEW t \in Tasks, NEW r \in Revisions,
         NEW snapshot \in Snapshots(t, r) \cup {"unknown"}
  PROVE  LET new == [runs EXCEPT ![t][r] = snapshot]
         IN  /\ new \in [Tasks -> [Revisions -> SnapshotStates \cup {"none"}]]
             /\ RunsTrue(new)
<1> DEFINE new == [runs EXCEPT ![t][r] = snapshot]
<1>1. snapshot \in SnapshotStates
  BY DEF IndInv, Typing, WorkTyped, Snapshots, SnapshotStates
<1>2. snapshot \in {"completed", "stopped"} => engine[t][r] = snapshot
  BY DEF Snapshots
<1>3. /\ new \in [Tasks -> [Revisions -> SnapshotStates \cup {"none"}]]
      /\ \A u \in Tasks, q \in Revisions :
           new[u][q] = IF u = t /\ q = r THEN snapshot ELSE runs[u][q]
  BY <1>1, RunsKept
<1> HIDE DEF new
<1>4. snapshot # "none"
  BY <1>1 DEF SnapshotStates
<1>5. RunsTrue(new)
  BY <1>1, <1>2, <1>3, <1>4, RunsKept DEF RunsTrue
<1> QED
  BY <1>3, <1>5 DEF new

(* Steps that leave grants and control alone.                              *)
LEMMA StoreKept ==
  ASSUME StoreTyped, UNCHANGED <<revision, grants, control>>, StopsTyped(childStops')
  PROVE  StoreTyped' /\ \A u \in Tasks : Keeps(u)
<1>1. StoreTyped'
  BY DEF StoreTyped, StopsTyped
<1>2. \A u \in Tasks : Keeps(u)
  BY DEF StoreTyped, Keeps
<1> QED
  BY <1>1, <1>2

(* Leaving changes nothing that another call relies on.                  *)
LEMMA LeaveProcedure ==
  ASSUME StoreTyped, UNCHANGED <<revision, grants, control>>, StopsTyped(childStops'),
         NEW h, NEW f, FrameTyped(f, revision), Leave(h, f)
  PROVE  Procedure(h, f)
BY StoreKept, LeaveContinues DEF Procedure

(* Writing the answer to a child stop keeps the stops well typed.        *)
LEMMA SettlementTyped ==
  ASSUME StoreTyped, NEW f, f.task \in Tasks, NEW r \in 1..revision[f.task], NEW settled \in BOOLEAN
  PROVE  StopsTyped(settlement(f, r, settled))
<1>1. r \in Revisions
  BY ControllerAssumption DEF StoreTyped, Revisions
<1> QED
  BY <1>1 DEF settlement, StopsTyped, StoreTyped

(* The frame of a call.                                                    *)
LEMMA FrameOf ==
  ASSUME IndInv, NEW h \in Handlers, NEW f, f = calls[h]
  PROVE  /\ FrameTyped(f, revision)
         /\ f.pc # "ret" => /\ f.task \in Tasks /\ f.revision \in 1..revision[f.task]
                            /\ revision[f.task] > 0 /\ f.revision \in Revisions
                            /\ revision[f.task] \in 1..MaxRevision
<1>1. FrameTyped(f, revision)
  BY DEF IndInv, Typing, CallsTyped
<1> QED
  BY <1>1, ControllerAssumption DEF FrameTyped, Exists, IndInv, Typing, StoreTyped, Revisions

-----------------------------------------------------------------------------
(* The awaits of stopChildren and of engine.cancel                         *)

(* The invariant when the engine answers the undo of a late submission.  *)
LEMMA UndoReturnsStep ==
  ASSUME IndInv, NEW h \in Handlers, NEW s, UndoReturns(h, s)
  PROVE  IndInv'
<1> DEFINE f == calls[h]
           new == [runs EXCEPT ![f.task][f.revision] = s]
<1>1. f.pc = "undo" /\ runs' = new /\ Leave(h, f)
      /\ s \in Snapshots(f.task, f.revision) \cup {runs[f.task][f.revision]}
      /\ UNCHANGED <<revision, grants, control, admissions, childStops, effects, log, process, outside>>
  BY DEF UndoReturns
<1>2. FrameTyped(f, revision) /\ f.task \in Tasks /\ f.revision \in Revisions
  BY <1>1, FrameOf
<1>3. Procedure(h, f)
  BY <1>1, <1>2, UnchangedStops, LeaveProcedure DEF IndInv, Typing
<1>4. new \in [Tasks -> [Revisions -> SnapshotStates \cup {"none"}]] /\ RunsTrue(new)
  <2>1. CASE s = runs[f.task][f.revision]
    <3>1. new = runs
      BY <1>2, <2>1, RunsKept
    <3> QED
      BY <3>1, RunsKept
  <2>2. CASE s \in Snapshots(f.task, f.revision)
    BY <1>2, <2>2, SnapshotTrue
  <2> QED
    BY <1>1, <2>1, <2>2
<1>5. Returns(h)
  BY <1>1 DEF Returns
<1> QED
  BY <1>1, <1>3, <1>4, <1>5, ReturnStep

(* The invariant when the host answers the stop of a held task.          *)
LEMMA StopReturnsStep ==
  ASSUME IndInv, NEW h \in Handlers, NEW settled \in BOOLEAN, StopReturns(h, settled)
  PROVE  IndInv'
<1> DEFINE f == calls[h]
<1>1. f.pc = "held" /\ childStops' = settlement(f, f.revision, settled) /\ Leave(h, f)
      /\ UNCHANGED <<revision, grants, control, admissions, runs, effects, log, process, outside>>
  BY DEF StopReturns
<1>2. FrameTyped(f, revision) /\ f.task \in Tasks /\ f.revision \in 1..revision[f.task]
  BY <1>1, FrameOf
<1>3. StopsTyped(childStops')
  BY <1>1, <1>2, SettlementTyped DEF IndInv, Typing
<1>4. Procedure(h, f)
  BY <1>1, <1>2, <1>3, LeaveProcedure DEF IndInv, Typing
<1>5. Returns(h)
  BY <1>1 DEF Returns
<1> QED
  BY <1>1, <1>4, <1>5, RunsKept, ReturnStep

(* The loop over the runs of a cancelled task.                             *)
LEMMA CancelNextProcedure ==
  ASSUME StoreTyped, UNCHANGED <<revision, grants, control>>, StopsTyped(childStops'),
         NEW h, NEW f, FrameTyped(f, revision), f.pc # "ret",
         NEW left \in SUBSET Revisions, cancelNext(h, f, left)
  PROVE  Procedure(h, f)
<1>1. CASE left = {}
  <2>1. Leave(h, f)
    BY <1>1 DEF cancelNext
  <2> QED
    BY <2>1, LeaveProcedure
<1>2. CASE left # {}
  <2> DEFINE g == [f EXCEPT !.pc = "cancelRuns", !.left = left]
  <2>1. calls' = [calls EXCEPT ![h] = g]
    BY <1>2 DEF cancelNext
  <2>2. "cancelRuns" \in Awaits
    BY DEF Awaits
  <2>3. f \in Frames(f.todo)
    BY DEF FrameTyped
  <2>4. /\ g \in Frames(f.todo) /\ g.pc = "cancelRuns" /\ g.at = f.at /\ g.todo = f.todo
        /\ g.task = f.task /\ g.revision = f.revision
    BY <2>2, <2>3 DEF Frames
  <2> HIDE DEF g
  <2>5. FrameTyped(g, revision)
    BY <2>4 DEF FrameTyped, ListOK
  <2>6. Continues(h, f, g)
    BY <2>1, <2>4, <2>5 DEF Continues
  <2> QED
    BY <2>6, StoreKept DEF Procedure
<1> QED
  BY <1>1, <1>2

(* The invariant when the host answers the stop of a cancelled task.     *)
LEMMA CancelStopReturnsStep ==
  ASSUME IndInv, NEW h \in Handlers, NEW settled \in BOOLEAN, CancelStopReturns(h, settled)
  PROVE  IndInv'
<1> DEFINE f == calls[h]
           live == {r \in Revisions : runs[f.task][r] \in Nonterminal}
<1>1. f.pc = "cancel" /\ childStops' = settlement(f, f.revision, settled) /\ cancelNext(h, f, live)
      /\ UNCHANGED <<revision, grants, control, admissions, runs, effects, log, process, outside>>
  BY DEF CancelStopReturns
<1>2. FrameTyped(f, revision) /\ f.task \in Tasks /\ f.revision \in 1..revision[f.task]
  BY <1>1, FrameOf
<1>3. StopsTyped(childStops')
  BY <1>1, <1>2, SettlementTyped DEF IndInv, Typing
<1>4. live \in SUBSET Revisions
  OBVIOUS
<1> HIDE DEF live
<1>5. Procedure(h, f)
  BY <1>1, <1>2, <1>3, <1>4, CancelNextProcedure DEF IndInv, Typing
<1>6. Returns(h)
  BY <1>1 DEF Returns
<1> QED
  BY <1>1, <1>5, <1>6, RunsKept, ReturnStep

(* The invariant when the engine answers one of the cancellations of a task. *)
LEMMA CancelRunReturnsStep ==
  ASSUME IndInv, NEW h \in Handlers, NEW r, NEW s, CancelRunReturns(h, r, s)
  PROVE  IndInv'
<1> DEFINE f == calls[h]
           new == [runs EXCEPT ![f.task][r] = s]
           left == f.left \ {r}
<1>1. f.pc = "cancelRuns" /\ r \in f.left /\ runs' = new /\ cancelNext(h, f, left)
      /\ s \in Snapshots(f.task, r) \cup {"unknown"}
      /\ UNCHANGED <<revision, grants, control, admissions, childStops, effects, log, process, outside>>
  BY DEF CancelRunReturns
<1>2. FrameTyped(f, revision) /\ f.task \in Tasks
  BY <1>1, FrameOf
<1>3. r \in Revisions /\ left \in SUBSET Revisions
  BY <1>1, <1>2 DEF FrameTyped, Frames
<1>4. new \in [Tasks -> [Revisions -> SnapshotStates \cup {"none"}]] /\ RunsTrue(new)
  BY <1>1, <1>2, <1>3, SnapshotTrue
<1> HIDE DEF left
<1>5. Procedure(h, f)
  BY <1>1, <1>2, <1>3, UnchangedStops, CancelNextProcedure DEF IndInv, Typing
<1>6. Returns(h)
  BY <1>1 DEF Returns
<1> QED
  BY <1>1, <1>4, <1>5, <1>6, ReturnStep

(* The invariant when the host answers the stop of a corrected task.     *)
LEMMA CorrectStopReturnsStep ==
  ASSUME IndInv, NEW h \in Handlers, NEW settled \in BOOLEAN, CorrectStopReturns(h, settled)
  PROVE  IndInv'
<1> DEFINE f == [calls[h] EXCEPT !.settled = settled]
           stops == settlement(f, f.revision - 1, settled)
<1>1. /\ calls[h].pc = "correct"
      /\ FrameTyped(calls[h], revision) /\ calls[h] \in Frames(calls[h].todo)
      /\ calls[h].task \in Tasks /\ calls[h].revision \in 1..revision[calls[h].task]
      /\ calls[h].revision > 1
  BY FrameOf DEF CorrectStopReturns, FrameTyped
<1>2. /\ f \in Frames(f.todo) /\ f.pc = "correct" /\ f.at = calls[h].at /\ f.todo = calls[h].todo
      /\ f.task = calls[h].task /\ f.revision = calls[h].revision
  BY <1>1 DEF Frames
<1>3. IF f.copy \in Nonterminal
      THEN /\ childStops' = stops
           /\ calls' = [calls EXCEPT ![h] = [f EXCEPT !.pc = "cancelOld"]]
           /\ UNCHANGED <<grants, control>>
      ELSE correctionSettles(h, f, stops, runs)
  BY DEF CorrectStopReturns
<1>4. UNCHANGED <<revision, admissions, runs, effects, log, process, outside>>
  BY DEF CorrectStopReturns
<1> HIDE DEF f
<1>5. FrameTyped(f, revision)
  BY <1>1, <1>2 DEF FrameTyped, ListOK
<1>6. StopsTyped(stops)
  <2>1. f.revision - 1 \in 1..revision[f.task]
    BY <1>1, <1>2 DEF IndInv, Typing, StoreTyped
  <2> QED
    BY <1>1, <1>2, <2>1, SettlementTyped DEF IndInv, Typing
<1>7. CASE f.copy \in Nonterminal
  <2> DEFINE g == [f EXCEPT !.pc = "cancelOld"]
  <2>1. "cancelOld" \in Awaits
    BY DEF Awaits
  <2>2. /\ g \in Frames(f.todo) /\ g.pc = "cancelOld" /\ g.at = f.at /\ g.todo = f.todo
        /\ g.task = f.task /\ g.revision = f.revision
    BY <1>2, <2>1 DEF Frames
  <2>3. calls' = [calls EXCEPT ![h] = g] /\ childStops' = stops /\ UNCHANGED <<grants, control>>
    BY <1>3, <1>7
  <2> HIDE DEF g
  <2>4. FrameTyped(g, revision)
    BY <1>1, <1>2, <1>5, <2>2 DEF FrameTyped, ListOK
  <2>5. Continues(h, f, g)
    BY <1>4, <2>2, <2>3, <2>4 DEF Continues
  <2>6. StopsTyped(childStops')
    BY <1>6, <2>3
  <2> QED
    BY <1>1, <1>2, <1>4, <2>3, <2>5, <2>6, StoreKept, RunsKept, ReturnStep
       DEF Procedure, Returns, IndInv, Typing
<1>8. CASE ~(f.copy \in Nonterminal)
  <2> HIDE DEF stops
  <2>1. correctionSettles(h, f, stops, runs)
    BY <1>3, <1>8
  <2>2. Procedure(h, f)
    BY <1>2, <1>4, <1>5, <1>6, <2>1, RunsKept, SettlesProcedure DEF IndInv, Typing
  <2> QED
    BY <1>1, <1>2, <1>4, <2>2, RunsKept, ReturnStep DEF Returns
<1> QED
  BY <1>7, <1>8

(* The invariant when the engine answers the cancellation of an old run. *)
LEMMA CancelOldReturnsStep ==
  ASSUME IndInv, NEW h \in Handlers, NEW s, CancelOldReturns(h, s)
  PROVE  IndInv'
<1> DEFINE f == calls[h]
           t == f.task
           new == [runs EXCEPT ![t][f.revision - 1] = s]
<1>1. /\ f.pc = "cancelOld" /\ s \in Snapshots(t, f.revision - 1) /\ runs' = new
      /\ UNCHANGED <<revision, admissions, effects, log, process, outside>>
  BY DEF CancelOldReturns
<1>2. \/ s \in Nonterminal /\ hold(h, Back(f), t, "resume", control[t], childStops)
      \/ correctionSettles(h, f, childStops, new)
  BY Zenon DEF CancelOldReturns, Back
<1>3. /\ FrameTyped(f, revision) /\ t \in Tasks /\ f.revision \in 1..revision[t] /\ f.revision > 1
      /\ revision[t] > 0 /\ f.revision \in Revisions
  BY <1>1, FrameOf DEF FrameTyped
<1>4. f.revision - 1 \in Revisions
  BY <1>3, ControllerAssumption DEF Revisions
<1>5. new \in [Tasks -> [Revisions -> SnapshotStates \cup {"none"}]] /\ RunsTrue(new)
  BY <1>1, <1>3, <1>4, SnapshotTrue
<1>6. Returns(h)
  BY <1>1 DEF Returns
<1> HIDE DEF new
<1>7. CASE hold(h, Back(f), t, "resume", control[t], childStops)
  <2>1. FrameTyped(Back(f), revision) /\ Back(f).at = f.at
    BY <1>3, BackTyped
  <2>2. Procedure(h, Back(f))
    BY <1>1, <1>3, <1>7, <2>1, UnchangedStops, HoldProcedure DEF IndInv, Typing
  <2> QED
    BY <1>1, <1>5, <1>6, <2>1, <2>2, ReturnStep
<1>8. CASE correctionSettles(h, f, childStops, new)
  <2>1. Procedure(h, f)
    BY <1>1, <1>3, <1>5, <1>8, UnchangedStops, SettlesProcedure DEF IndInv, Typing
  <2> QED
    BY <1>1, <1>5, <1>6, <2>1, ReturnStep
<1> QED
  BY <1>2, <1>7, <1>8

(* The invariant when the cancellation of an old run fails.              *)
LEMMA CancelOldFailsStep ==
  ASSUME IndInv, NEW h \in Handlers, CancelOldFails(h)
  PROVE  IndInv'
<1> DEFINE f == calls[h]
<1>1. /\ f.pc = "cancelOld" /\ hold(h, Back(f), f.task, "resume", control[f.task], childStops)
      /\ UNCHANGED <<revision, admissions, runs, effects, log, process, outside>>
  BY DEF CancelOldFails, Back
<1>2. /\ FrameTyped(f, revision) /\ f.task \in Tasks /\ revision[f.task] > 0
      /\ FrameTyped(Back(f), revision) /\ Back(f).at = f.at
  BY <1>1, FrameOf, BackTyped
<1>3. Procedure(h, Back(f))
  BY <1>1, <1>2, UnchangedStops, HoldProcedure DEF IndInv, Typing
<1>4. Returns(h)
  BY <1>1 DEF Returns
<1> QED
  BY <1>1, <1>2, <1>3, <1>4, RunsKept, ReturnStep

-----------------------------------------------------------------------------
(* The main loop and the host                                              *)

(* The loop, the maintenance and the commands are different handlers.    *)
LEMMA Actors == /\ Loop \in Handlers /\ Maintenance \in Handlers
                /\ Loop \notin Commands /\ Maintenance \notin Commands
                /\ Loop # Maintenance /\ Commands \subseteq Handlers
BY ControllerAssumption DEF Handlers

(* A step of the main loop that leaves the journal alone.                  *)
LEMMA LoopStep ==
  ASSUME IndInv, Main.pc = "ret", phase # "down", phase' \in {"recovering", "up"},
         NEW f, Procedure(Loop, f),
         UNCHANGED <<admissions, effects, outside, journal>>,
         runs' \in [Tasks -> [Revisions -> SnapshotStates \cup {"none"}]], RunsTrue(runs')
  PROVE  IndInv'
<1>1. calls[Loop].pc \notin {"input", "submit"}
  BY DEF Main
<1> QED
  BY <1>1, Actors, GoesOn

(* The frame of the main loop after it took x from its list.               *)
LEMMA TakenTyped ==
  ASSUME IndInv, NEW x, Main.pc = "ret"
  PROVE  /\ FrameTyped(Taken(x), revision) /\ Taken(x).at = Main.at /\ Taken(x).pc = "ret"
         /\ FrameTyped(Main, revision)
<1> DEFINE g == Taken(x)
<1>1. Main \in Frames(Main.todo) /\ FrameTyped(Main, revision)
  BY Actors DEF Main, IndInv, Typing, CallsTyped, FrameTyped
<1>2. /\ g \in Frames(Main.todo \ {x}) /\ g.todo = Main.todo \ {x}
      /\ g.pc = "ret" /\ g.at = Main.at
  <2> HIDE DEF Main
  <2> QED
    BY <1>1 DEF Taken, Frames
<1> HIDE DEF g
<1>3. ListOK(g, revision)
  BY <1>1, <1>2 DEF FrameTyped, ListOK
<1>4. FrameTyped(g, revision)
  BY <1>2, <1>3 DEF FrameTyped
<1> QED
  BY <1>1, <1>2, <1>4 DEF g

(* A frame at a new stage.                                                 *)
AtNewStage(stage, todo) == [Idle EXCEPT !.at = stage, !.todo = todo]

(* A new stage of the loop is well typed when its list is.               *)
LEMMA StageTyped ==
  ASSUME NEW stage \in Places, NEW todo,
         ListOK(AtNewStage(stage, todo), revision)
  PROVE  FrameTyped(AtNewStage(stage, todo), revision) /\ AtNewStage(stage, todo).pc = "ret"
<1> DEFINE g == AtNewStage(stage, todo)
<1>1. g \in Frames(todo) /\ g.pc = "ret" /\ g.todo = todo
  BY IdleTyped DEF AtNewStage, Frames
<1> HIDE DEF g
<1> QED
  BY <1>1 DEF FrameTyped, g

(* What a list is made of exists.                                          *)
LEMMA ListingExists ==
  ASSUME IndInv, NEW stage \in {"restop", "reinspect", "readmit", "inspect", "stop", "resume", "deliver"}
  PROVE  ListOK(AtNewStage(stage, Listing(stage)), revision)
<1> DEFINE g == AtNewStage(stage, Listing(stage))
<1>1. g.at = stage /\ g.todo = Listing(stage)
  BY IdleTyped DEF AtNewStage, Frames
<1>2. CASE stage \in {"restop", "stop"}
  <2>1. Listing(stage) = ListedStops
    BY <1>2 DEF Listing
  <2>2. \A x \in ListedStops : Exists(x[1], x[2], revision)
    BY DEF ListedStops, Exists, IndInv, Typing, StoreTyped, Revisions
  <2> HIDE DEF g
  <2> QED
    BY <1>1, <1>2, <2>1, <2>2 DEF ListOK, g
<1>3. CASE stage \in {"readmit", "deliver"}
  <2>1. /\ stage = "readmit" => Listing(stage) = ListedIntents
        /\ stage = "deliver" => Listing(stage) = ListedDeliveries
    BY DEF Listing
  <2>2. ASSUME NEW t \in Tasks, revision[t] > 0
        PROVE  Exists(t, revision[t], revision) /\ Newest(t) \in Nat
    BY <2>2, NewestTyped DEF Exists, IndInv, Typing, StoreTyped
  <2>3. \A x \in ListedIntents : Exists(x[1], x[2], revision) /\ x[3] \in Nat
    BY <2>2 DEF ListedIntents
  <2>4. \A x \in ListedDeliveries : Exists(x[1], x[2], revision) /\ x[3] \in Nat
    BY <2>2 DEF ListedDeliveries
  <2> HIDE DEF g
  <2> QED
    BY <1>1, <1>3, <2>1, <2>3, <2>4 DEF ListOK, g
<1>4. CASE stage = "resume"
  <2>1. Listing(stage) = ListedResumes
    BY <1>4 DEF Listing
  <2>2. \A t \in ListedResumes : Exists(t, 1, revision)
    BY DEF ListedResumes, Exists, IndInv, Typing, StoreTyped
  <2> HIDE DEF g
  <2> QED
    BY <1>1, <1>4, <2>1, <2>2 DEF ListOK, g
<1>5. CASE stage \in {"inspect", "reinspect"}
  <2> HIDE DEF g
  <2> QED
    BY <1>1, <1>5 DEF ListOK, g
<1> QED
  BY <1>2, <1>3, <1>4, <1>5

(* The invariant when the loop lists the work of its next stage.         *)
LEMMA NextStageStep ==
  ASSUME IndInv, NextStage
  PROVE  IndInv'
<1>1. phase # "down" /\ Main.pc = "ret" /\ UNCHANGED <<store, log, crashes, outside, history>>
  BY DEF NextStage
<1>2. PICK stage, todo :
        /\ stage \in {"idle", "restop", "reinspect", "readmit", "inspect", "stop", "resume", "deliver"}
        /\ Stage(stage, todo) /\ phase' \in {"up", phase}
        /\ stage = "idle" => todo = {}
        /\ stage # "idle" => todo = Listing(stage)
  <2> DEFINE stages == IF phase = "recovering" THEN Recovering ELSE Polling
             later == {j \in 2..Len(stages) :
                         /\ \A i \in j..Len(stages) : stages[i] # Main.at
                         /\ Listing(stages[j]) # {}}
  <2>1. \A j \in 2..Len(stages) :
          stages[j] \in {"restop", "reinspect", "readmit", "inspect", "stop", "resume", "deliver"}
    <3>1. CASE phase = "recovering"
      BY <3>1 DEF Recovering
    <3>2. CASE phase # "recovering"
      BY <3>2 DEF Polling
    <3> QED
      BY <3>1, <3>2
  <2>2. \/ Stage("idle", {}) /\ phase' = "up"
        \/ \E j \in later : Stage(stages[j], Listing(stages[j])) /\ UNCHANGED phase
    BY DEF NextStage
  <2>3. CASE Stage("idle", {}) /\ phase' = "up"
    BY <2>3
  <2>4. ASSUME NEW j \in later, Stage(stages[j], Listing(stages[j])), UNCHANGED phase
        PROVE  \E stage \in {"restop", "reinspect", "readmit", "inspect", "stop", "resume", "deliver"} :
                 Stage(stage, Listing(stage)) /\ phase' = phase
    BY <2>1, <2>4
  <2> QED
    BY <2>2, <2>3, <2>4
<1> DEFINE g == AtNewStage(stage, todo)
<1>3. ListOK(g, revision)
  <2>1. CASE stage = "idle"
    <3>1. g.at = "idle" /\ g.todo = {}
      BY <1>2, <2>1, IdleTyped DEF AtNewStage, Frames
    <3> HIDE DEF g
    <3> QED
      BY <3>1 DEF ListOK
  <2>2. CASE stage # "idle"
    BY <1>2, <2>2, ListingExists
  <2> QED
    BY <2>1, <2>2
<1>4. FrameTyped(g, revision) /\ g.pc = "ret"
  <2>1. stage \in Places
    BY <1>2 DEF Places
  <2> QED
    BY <1>2, <1>3, <2>1, StageTyped
<1>5. calls' = [calls EXCEPT ![Loop] = g]
  BY <1>2 DEF Stage, AtNewStage
<1> HIDE DEF g
<1>6. Continues(Loop, g, g)
  BY <1>1, <1>4, <1>5 DEF Continues, store
<1>7. Procedure(Loop, g)
  BY <1>1, <1>6, UnchangedStops, StoreKept DEF Procedure, store, IndInv, Typing
<1>8. phase' \in {"recovering", "up"}
  BY <1>1, <1>2 DEF IndInv, Typing, CallsTyped
<1> QED
  BY <1>1, <1>7, <1>8, RunsKept, LoopStep DEF store, log

(* The invariant when the engine answers an inspection.                  *)
LEMMA InspectReturnsStep ==
  ASSUME IndInv, NEW x \in Tasks \X Revisions, NEW s, InspectReturns(x, s)
  PROVE  IndInv'
<1> DEFINE new == [runs EXCEPT ![x[1]][x[2]] = s]
<1>1. /\ Main.pc = "ret" /\ Main.at # "idle"
      /\ s \in Snapshots(x[1], x[2]) \cup {"unknown"} /\ runs' = new
      /\ calls' = [calls EXCEPT ![Loop] = Taken(x)]
      /\ UNCHANGED <<revision, grants, control, admissions, childStops, effects, log, process, outside>>
  BY DEF InspectReturns, AtStage
<1>2. phase # "down" /\ phase' \in {"recovering", "up"}
  BY <1>1, Actors, CallsAreAlive DEF Main, process, IndInv, Typing, CallsTyped
<1>3. new \in [Tasks -> [Revisions -> SnapshotStates \cup {"none"}]] /\ RunsTrue(new)
  BY <1>1, SnapshotTrue
<1>4. Continues(Loop, Main, Taken(x))
  BY <1>1, TakenTyped DEF Continues
<1>5. Procedure(Loop, Main)
  BY <1>1, <1>4, UnchangedStops, StoreKept DEF Procedure, IndInv, Typing
<1> HIDE DEF new
<1> QED
  BY <1>1, <1>2, <1>3, <1>5, LoopStep DEF log

(* The invariant when the loop asks for a child stop again.              *)
LEMMA StopAgainStep ==
  ASSUME IndInv, NEW x \in Tasks \X Revisions, StopAgain(x)
  PROVE  IndInv'
<1>1. /\ Main.pc = "ret" /\ Main.at \in {"stop", "restop"} /\ x \in Main.todo
      /\ childStops' = [childStops EXCEPT ![x[1]][x[2]] = "pending"]
      /\ In(Loop, Taken(x), "held", x[1], x[2])
      /\ UNCHANGED <<revision, grants, control, admissions, runs, effects, log, process, outside>>
  BY DEF StopAgain, AtStage
<1>2. phase # "down" /\ phase' \in {"recovering", "up"}
  BY <1>1, Actors, CallsAreAlive DEF Main, process, IndInv, Typing, CallsTyped
<1>3. x[1] \in Tasks /\ x[2] \in 1..revision[x[1]]
  BY <1>1, TakenTyped DEF FrameTyped, ListOK, Exists
<1>4. StopsTyped(childStops')
  BY <1>1, <1>3 DEF StopsTyped, IndInv, Typing, StoreTyped
<1>5. \E g : Continues(Loop, Taken(x), g)
  BY <1>1, <1>3, TakenTyped, MoveContinues DEF IndInv, Typing
<1>6. Procedure(Loop, Taken(x))
  BY <1>1, <1>4, <1>5, StoreKept DEF Procedure, IndInv, Typing
<1> QED
  BY <1>1, <1>2, <1>6, RunsKept, LoopStep DEF log

(* The invariant when the loop admits a listed revision.                 *)
LEMMA ReadmitStep ==
  ASSUME IndInv, NEW x, Readmit(x)
  PROVE  IndInv'
<1> DEFINE t == x[1]
           r == x[2]
<1>1. /\ Main.pc = "ret" /\ Main.at = "readmit" /\ x \in Main.todo
      /\ UNCHANGED <<revision, admissions, runs, effects, log, process, outside>>
  BY DEF Readmit, AtStage
<1>2. phase # "down" /\ phase' \in {"recovering", "up"}
  BY <1>1, Actors, CallsAreAlive DEF Main, process, IndInv, Typing, CallsTyped
<1>3. t \in Tasks /\ r \in 1..revision[t] /\ x[3] \in Nat
  BY <1>1, TakenTyped DEF FrameTyped, ListOK, Exists
<1>4. revision[t] > 0
  BY <1>3 DEF IndInv, Typing, StoreTyped
<1>5. \/ calls' = [calls EXCEPT ![Loop] = Taken(x)] /\ UNCHANGED <<grants, control, childStops>>
      \/ hold(Loop, Taken(x), t, "resume", control[t], childStops)
      \/ ~unresolvedPriorWork(t, r, runs) /\ admit(Loop, Taken(x), t, r, x[3], childStops)
  BY Zenon DEF Readmit
<1>6. Procedure(Loop, Taken(x))
  <2>1. CASE calls' = [calls EXCEPT ![Loop] = Taken(x)] /\ UNCHANGED <<grants, control, childStops>>
    <3>1. Continues(Loop, Taken(x), Taken(x))
      BY <1>1, <2>1, TakenTyped DEF Continues
    <3> QED
      BY <1>1, <2>1, <3>1, UnchangedStops, StoreKept DEF Procedure, IndInv, Typing
  <2>2. CASE hold(Loop, Taken(x), t, "resume", control[t], childStops)
    BY <1>1, <1>3, <1>4, <2>2, TakenTyped, UnchangedStops, HoldProcedure DEF IndInv, Typing
  <2>3. CASE ~unresolvedPriorWork(t, r, runs) /\ admit(Loop, Taken(x), t, r, x[3], childStops)
    <3>1. Clear(t, r)
      BY <1>3, <2>3, RunsKept, SettledIsClear DEF IndInv, Typing
    <3> QED
      BY <1>1, <1>3, <1>4, <2>3, <3>1, TakenTyped, UnchangedStops, AdmitProcedure
         DEF IndInv, Typing
  <2> QED
    BY <1>5, <2>1, <2>2, <2>3
<1> QED
  BY <1>1, <1>2, <1>6, RunsKept, LoopStep DEF log

(* The invariant when the loop resumes a held task.                      *)
LEMMA ResumeStep ==
  ASSUME IndInv, NEW t \in Tasks, Resume(t)
  PROVE  IndInv'
<1>1. /\ Main.pc = "ret" /\ Main.at = "resume" /\ t \in Main.todo
      /\ UNCHANGED <<revision, admissions, runs, childStops, effects, log, process, outside>>
  BY DEF Resume, AtStage
<1>2. phase # "down" /\ phase' \in {"recovering", "up"}
  BY <1>1, Actors, CallsAreAlive DEF Main, process, IndInv, Typing, CallsTyped
<1>3. 1 \in 1..revision[t] /\ revision[t] > 0 /\ revision[t] \in 1..revision[t]
  <2>1. Exists(t, 1, revision)
    BY <1>1, TakenTyped DEF FrameTyped, ListOK
  <2> QED
    BY <2>1 DEF Exists, IndInv, Typing, StoreTyped
<1>4. CASE ~settledForResume(t)
  <2>1. calls' = [calls EXCEPT ![Loop] = Taken(t)] /\ UNCHANGED <<grants, control>>
    BY <1>4 DEF Resume
  <2>2. Continues(Loop, Taken(t), Taken(t))
    BY <1>1, <2>1, TakenTyped DEF Continues
  <2>3. Procedure(Loop, Taken(t))
    BY <1>1, <2>1, <2>2, UnchangedStops, StoreKept DEF Procedure, IndInv, Typing
  <2> QED
    BY <1>1, <1>2, <2>3, RunsKept, LoopStep DEF log
<1>5. CASE settledForResume(t)
  <2> DEFINE k == [grant |-> Newest(t) + 1, revision |-> 0]
  <2>1. /\ grants' = [grants EXCEPT ![t] = Append(grants[t], NewGrant)]
        /\ control' = [control EXCEPT ![t] = "none"]
        /\ calls' = [calls EXCEPT ![Loop] = Preparing(Taken(t), t, revision[t], Newest(t) + 1, k)]
    BY <1>5 DEF Resume, Preparing
  <2>2. Clear(t, revision[t])
    <3>1. ~unresolvedPriorWork(t, revision[t], runs)
      BY <1>3, <1>5, ControllerAssumption
         DEF settledForResume, unresolvedPriorWork, IndInv, Typing, StoreTyped, Revisions
    <3> QED
      BY <1>3, <3>1, RunsKept, SettledIsClear DEF IndInv, Typing
  <2>3. Newest(t) + 1 \in Nat /\ k \in TokenRecords
    BY <1>3, NewestTyped, ControllerAssumption DEF IndInv, Typing, TokenRecords
  <2>4. Append(grants[t], NewGrant) \in Seq(GrantRecords) /\ Append(grants[t], NewGrant) # <<>>
    BY <1>3, NewestTyped, NewGrantTyped, AppendProperties DEF IndInv, Typing
  <2>5. StoreTyped'
    BY <1>1, <1>3, <2>1, <2>4 DEF IndInv, Typing, StoreTyped
  <2>6. \A u \in Tasks : Keeps(u)
    BY <1>1, <2>1, <2>2 DEF Keeps, IndInv, Typing, StoreTyped
  <2> HIDE DEF k
  <2>7. \E g : Continues(Loop, Taken(t), g)
    <3>1. control'[t] = "none"
      BY <2>1 DEF IndInv, Typing, StoreTyped
    <3> QED
      BY <1>1, <1>3, <2>1, <2>2, <2>3, <3>1, TakenTyped, PrepareContinues DEF IndInv, Typing
  <2>8. Procedure(Loop, Taken(t))
    BY <2>5, <2>6, <2>7 DEF Procedure
  <2> QED
    BY <1>1, <1>2, <2>8, RunsKept, LoopStep DEF log
<1> QED
  BY <1>4, <1>5

(* The invariant when the loop replays a logged command.                 *)
LEMMA ReplayStep ==
  ASSUME IndInv, NEW c \in Commands, Replay(c)
  PROVE  IndInv'
<1> DEFINE f == [Idle EXCEPT !.at = "replay", !.todo = {c}]
           t == journal[c].task
           op == journal[c].op
<1>1. /\ Main.pc = "ret" /\ Main.at = "replay"
      /\ UNCHANGED <<admissions, runs, effects, process, outside, journal>>
      /\ processObservation(Loop, f, c, op, t)
  BY DEF Replay, AtStage, processObservation
<1>2. phase # "down" /\ phase' \in {"recovering", "up"}
  BY <1>1, Actors, CallsAreAlive DEF Main, process, IndInv, Typing, CallsTyped
<1>3. t \in Tasks /\ (op # "create" => revision[t] > 0)
  BY DEF Replay, Unfinished, IndInv, JournalOK
<1>4. f = AtNewStage("replay", {c})
  BY DEF AtNewStage
<1>5. FrameTyped(f, revision)
  <2>1. AtNewStage("replay", {c}).at = "replay" /\ "replay" \in Places
    BY IdleTyped DEF AtNewStage, Frames, Places
  <2>2. ListOK(AtNewStage("replay", {c}), revision)
    BY <2>1 DEF ListOK
  <2> QED
    BY <1>4, <2>1, <2>2, StageTyped
<1> HIDE DEF f, t, op
<1>6. Procedure(Loop, f)
  BY <1>1, <1>3, <1>5, ObservationProcedure DEF IndInv, Typing
<1> QED
  BY <1>1, <1>2, <1>6, RunsKept, LoopStep

(* The invariant when the maintenance refreshes a task.                  *)
LEMMA RefreshContextStep ==
  ASSUME IndInv, NEW t \in Maintained, RefreshContext(t)
  PROVE  IndInv'
<1> DEFINE old == calls[Maintenance]
           listed == IF old = Idle THEN {u \in Maintained : Regenerable(u)} ELSE old.todo
           f == [Idle EXCEPT !.at = "invalidate", !.todo = listed \ {t}]
<1>1. /\ phase = "up" /\ old.pc = "ret" /\ t \in listed /\ correction(Maintenance, f, t)
      /\ UNCHANGED <<admissions, runs, effects, log, process, outside, history>>
  BY DEF RefreshContext
<1>2. \A u \in listed : Exists(u, 1, revision)
  <2>1. CASE old = Idle
    BY <2>1, ControllerAssumption DEF Regenerable, Exists, IndInv, Typing, StoreTyped
  <2>2. CASE old # Idle
    <3>1. old.at \in {"idle", "invalidate"} /\ FrameTyped(old, revision)
      BY Actors DEF IndInv, Typing, CallsTyped
    <3> QED
      BY <2>2, <3>1 DEF FrameTyped, ListOK
  <2> QED
    BY <2>1, <2>2
<1>3. t \in Tasks /\ revision[t] > 0
  BY <1>1, <1>2, ControllerAssumption DEF Exists, IndInv, Typing, StoreTyped
<1> HIDE DEF listed
<1>4. FrameTyped(f, revision) /\ f.at = "invalidate"
  <2>1. f = AtNewStage("invalidate", listed \ {t})
    BY DEF AtNewStage
  <2>2. /\ AtNewStage("invalidate", listed \ {t}).at = "invalidate" /\ "invalidate" \in Places
        /\ AtNewStage("invalidate", listed \ {t}).todo = listed \ {t}
    BY IdleTyped DEF AtNewStage, Frames, Places
  <2>3. ListOK(AtNewStage("invalidate", listed \ {t}), revision)
    BY <1>2, <2>2 DEF ListOK
  <2> QED
    BY <2>1, <2>2, <2>3, StageTyped
<1> HIDE DEF f
<1>5. Procedure(Maintenance, f)
  BY <1>1, <1>3, <1>4, CorrectionProcedure DEF IndInv, Typing
<1> QED
  BY <1>1, <1>4, <1>5, Actors, RunsKept, GoesOn DEF log, process

(* The invariant when the maintenance ends.                              *)
LEMMA HostEndsStep ==
  ASSUME IndInv, HostEnds
  PROVE  IndInv'
<1>1. /\ calls[Maintenance].at = "invalidate" /\ calls[Maintenance].pc = "ret"
      /\ calls' = [calls EXCEPT ![Maintenance] = Idle]
      /\ UNCHANGED <<store, log, process, outside>>
  BY DEF HostEnds
<1>2. phase # "down" /\ phase' \in {"recovering", "up"}
  BY <1>1, Actors, CallsAreAlive DEF process, IndInv, Typing, CallsTyped
<1>3. Continues(Maintenance, Idle, Idle)
  BY <1>1, IdleTyped DEF Continues, store
<1>4. Procedure(Maintenance, Idle)
  BY <1>1, <1>3, UnchangedStops, StoreKept DEF Procedure, store, IndInv, Typing
<1> QED
  BY <1>1, <1>2, <1>4, IdleTyped, Actors, RunsKept, GoesOn DEF log, store

-----------------------------------------------------------------------------
(* The journal                                                             *)

(* The result of a command is saved, by its own call or by the replay.     *)
Concluded(c) == journal' = [journal EXCEPT ![c].state = "done"]

(* The journal survives the end of a command.                            *)
LEMMA ConcludedOK ==
  ASSUME IndInv, UNCHANGED revision, NEW c \in Commands, Concluded(c),
         NEW h \in Handlers, NEW g, calls' = [calls EXCEPT ![h] = g], g.pc = "ret"
  PROVE  JournalOK'
<1>1. ASSUME NEW d \in Commands
      PROVE  /\ calls'[d].pc \in {calls[d].pc, "ret"}
             /\ journal'[d].state \in {journal[d].state, "done"}
             /\ journal'[d].op = journal[d].op /\ journal'[d].task = journal[d].task
             /\ journal'[d] \in [state : {"new", "logged", "done"},
                                 op : {"none", "create", "correct", "cancel", "delete"},
                                 task : Tasks \cup {NoTask}]
  <2>1. calls'[d].pc \in {calls[d].pc, "ret"}
    BY Actors DEF IndInv, Typing, CallsTyped
  <2>2. /\ journal[d] \in [state : {"new", "logged", "done"},
                           op : {"none", "create", "correct", "cancel", "delete"},
                           task : Tasks \cup {NoTask}]
        /\ journal' = [journal EXCEPT ![c] = [journal[c] EXCEPT !.state = "done"]]
        /\ DOMAIN journal = Commands
    BY DEF IndInv, JournalOK, Concluded
  <2>3. CASE d = c
    BY <2>1, <2>2, <2>3
  <2>4. CASE d # c
    BY <2>1, <2>2, <2>4
  <2> QED
    BY <2>3, <2>4
<1>2. journal' = [d \in Commands |-> journal'[d]]
  BY DEF IndInv, JournalOK, Concluded
<1> QED
  BY <1>1, <1>2 DEF IndInv, JournalOK

(* The invariant when a command is done.                                 *)
LEMMA IngestedStep ==
  ASSUME IndInv, NEW c \in Commands, Ingested(c)
  PROVE  IndInv'
<1>1. /\ calls[c].at = "command" /\ calls[c].pc = "ret" /\ Concluded(c)
      /\ calls' = [calls EXCEPT ![c] = Idle]
      /\ UNCHANGED <<store, process, outside>>
  BY DEF Ingested, Concluded
<1>2. phase # "down" /\ phase' \in {"recovering", "up"}
  BY <1>1, Actors, CallsAreAlive DEF process, IndInv, Typing, CallsTyped
<1>3. Continues(c, Idle, Idle)
  BY <1>1, IdleTyped DEF Continues, store
<1>4. Procedure(c, Idle)
  BY <1>1, <1>3, UnchangedStops, StoreKept DEF Procedure, store, IndInv, Typing
<1>5. JournalOK'
  BY <1>1, Actors, IdleTyped, ConcludedOK DEF store
<1> QED
  BY <1>1, <1>2, <1>4, <1>5, IdleTyped, Actors, RunsKept, PlainStep DEF store

(* The invariant when a replayed command is done.                        *)
LEMMA ReplayedStep ==
  ASSUME IndInv, NEW c \in Commands, Replayed(c)
  PROVE  IndInv'
<1> DEFINE g == AtNewStage("replay", {})
<1>1. /\ Main.pc = "ret" /\ Main.at = "replay" /\ Concluded(c)
      /\ calls' = [calls EXCEPT ![Loop] = g]
      /\ UNCHANGED <<store, process, outside>>
  BY DEF Replayed, AtStage, Concluded, Stage, AtNewStage
<1>2. phase # "down" /\ phase' \in {"recovering", "up"}
  BY <1>1, Actors, CallsAreAlive DEF Main, process, IndInv, Typing, CallsTyped
<1>3. FrameTyped(g, revision) /\ g.pc = "ret"
  <2>1. g.at = "replay" /\ "replay" \in Places
    BY IdleTyped DEF AtNewStage, Frames, Places
  <2>2. ListOK(g, revision)
    <3> HIDE DEF g
    <3> QED
      BY <2>1 DEF ListOK
  <2> QED
    BY <2>1, <2>2, StageTyped
<1> HIDE DEF g
<1>4. Continues(Loop, g, g)
  BY <1>1, <1>3 DEF Continues, store
<1>5. Procedure(Loop, g)
  BY <1>1, <1>4, UnchangedStops, StoreKept DEF Procedure, store, IndInv, Typing
<1>6. JournalOK'
  BY <1>1, <1>3, Actors, ConcludedOK DEF store
<1>7. calls[Loop].pc \notin {"input", "submit"}
  BY <1>1 DEF Main
<1> QED
  BY <1>1, <1>2, <1>5, <1>6, <1>7, Actors, RunsKept, PlainStep DEF store

(* An observation is saved, by a call of its own or before a crash.        *)
LEMMA ReceivedOK ==
  ASSUME IndInv, NEW c \in Commands, NEW t \in Tasks, NEW op \in Script(c), Received(c, op, t),
         StoreTyped', \A u \in Tasks : revision[u] <= revision'[u],
         \A d \in Commands \ {c} : calls'[d].pc \in {calls[d].pc, "ret"}
  PROVE  JournalOK'
<1>1. /\ journal' = [journal EXCEPT ![c] = [state |-> "logged", op |-> op, task |-> t]]
      /\ (op = "create") <=> (revision[t] = 0)
  BY DEF Received
<1>2. op \in {"create", "correct", "cancel", "delete"}
  BY ControllerAssumption
<1>3. \A u \in Tasks : revision[u] > 0 => revision'[u] > 0
  BY DEF IndInv, Typing, StoreTyped
<1>4. op # "create" => revision'[t] > 0
  BY <1>1, <1>3 DEF IndInv, Typing, StoreTyped
<1>5. journal' = [d \in Commands |-> journal'[d]]
  BY <1>1 DEF IndInv, JournalOK
<1>6. journal'[c] = [state |-> "logged", op |-> op, task |-> t]
  BY <1>1 DEF IndInv, JournalOK
<1>7. \A d \in Commands \ {c} : journal'[d] = journal[d]
  BY <1>1 DEF IndInv, JournalOK
<1>8. ASSUME NEW d \in Commands
      PROVE  /\ journal'[d] \in [state : {"new", "logged", "done"},
                                 op : {"none", "create", "correct", "cancel", "delete"},
                                 task : Tasks \cup {NoTask}]
             /\ journal'[d].state = "new" => calls'[d].pc = "ret"
             /\ journal'[d].state = "logged" =>
                  /\ journal'[d].task \in Tasks /\ journal'[d].op # "none"
                  /\ journal'[d].op # "create" => revision'[journal'[d].task] > 0
  <2>1. CASE d = c
    BY <1>2, <1>4, <1>6, <2>1
  <2>2. CASE d # c
    BY <1>3, <1>7, <2>2 DEF IndInv, JournalOK
  <2> QED
    BY <2>1, <2>2
<1> QED
  BY <1>5, <1>8 DEF JournalOK

(* The invariant when a command arrives.                                 *)
LEMMA IngestStep ==
  ASSUME IndInv, NEW c \in Commands, NEW t \in Tasks, NEW op \in Script(c), Ingest(c, op, t)
  PROVE  IndInv'
<1> DEFINE f == [Idle EXCEPT !.at = "command"]
<1>1. /\ Received(c, op, t) /\ processObservation(c, f, c, op, t)
      /\ phase = "up" /\ journal[c].state = "new"
      /\ (op = "create") <=> (revision[t] = 0)
      /\ UNCHANGED <<admissions, runs, effects, process, outside>>
  BY DEF Ingest, Received, processObservation
<1>2. op # "create" => revision[t] > 0
  BY <1>1 DEF IndInv, Typing, StoreTyped
<1>3. calls[c].pc = "ret"
  BY <1>1 DEF IndInv, JournalOK
<1>4. FrameTyped(f, revision)
  <2>1. "command" \in Places /\ Idle \in Frames({})
    BY IdleTyped DEF Places
  <2>2. f \in Frames({}) /\ f.pc = "ret" /\ f.at = "command" /\ f.todo = {}
    BY <2>1, IdleTyped DEF Frames
  <2> HIDE DEF f
  <2> QED
    BY <2>2 DEF FrameTyped, ListOK
<1> HIDE DEF f
<1>5. Procedure(c, f)
  BY <1>1, <1>2, <1>4, ObservationProcedure DEF IndInv, Typing
<1>6. JournalOK'
  <2>1. \A u \in Tasks : revision[u] <= revision'[u]
    BY <1>5 DEF Procedure, Keeps
  <2>2. \A d \in Commands \ {c} : calls'[d] = calls[d]
    BY <1>5, Actors DEF Procedure, Continues, IndInv, Typing, CallsTyped
  <2> QED
    BY <1>1, <1>5, <2>1, <2>2, ReceivedOK DEF Procedure
<1> QED
  BY <1>1, <1>3, <1>5, <1>6, Actors, RunsKept, PlainStep DEF process

-----------------------------------------------------------------------------
(* The awaits of admit                                                     *)

(* prepareAuthority is back: the call is over, it holds the task, or it    *)
(* reserves the admission with a token of the current grant.               *)
LEMMA PrepareReturnsProcedure ==
  ASSUME IndInv, NEW h \in Handlers, NEW fails \in BOOLEAN, NEW changed \in BOOLEAN,
         PrepareReturns(h, fails, changed)
  PROVE  \/ \E f : /\ Procedure(h, f) /\ f.at \in {calls[h].at, "idle"} /\ UNCHANGED admissions
         \/ \E k \in TokenRecords :
              /\ StoreTyped' /\ \A u \in Tasks : Keeps(u)
              /\ resolves(calls[h].task, calls[h].revision, calls[h].token)
              /\ admissions[calls[h].task][calls[h].revision].state = "none"
              /\ admissions' = [admissions EXCEPT ![calls[h].task][calls[h].revision] =
                                  [state |-> "reserved", token |-> k]]
              /\ calls' = [calls EXCEPT ![h] = [calls[h] EXCEPT !.pc = "input", !.token = k]]
              /\ UNCHANGED control
<1> DEFINE f == calls[h]
           t == f.task
           r == f.revision
           n == Newest(t)
           bumped == IF changed THEN [grants EXCEPT ![t][n].revision = @ + 1] ELSE grants
           k == [grant |-> n, revision |-> bumped[t][n].revision]
<1>1. f.pc = "prepare" /\ UNCHANGED revision
      /\ (changed => ~fails /\ grants[t][n].revision < MaxScopeChanges)
  BY DEF PrepareReturns
<1>2. FrameTyped(f, revision) /\ t \in Tasks /\ revision[t] > 0 /\ r \in Revisions
      /\ FrameTyped(Back(f), revision) /\ Back(f).at = f.at
  BY <1>1, FrameOf, BackTyped
<1>3. CASE revision[t] # r
  <2>1. Leave(h, f) /\ UNCHANGED <<grants, control, childStops, admissions>>
    BY <1>3, Zenon DEF PrepareReturns
  <2>2. Procedure(h, f)
    BY <1>1, <1>2, <2>1, UnchangedStops, LeaveProcedure DEF IndInv, Typing
  <2> QED
    BY <2>1, <2>2
<1>4. CASE /\ revision[t] = r
           /\ fails \/ ~resolves(t, r, f.token) \/ grants[t][f.grant].revoked
  <2>1. hold(h, Back(f), t, "held", control[t], childStops) /\ UNCHANGED admissions
    BY <1>4, Zenon DEF PrepareReturns, Back
  <2>2. Procedure(h, Back(f))
    BY <1>1, <1>2, <2>1, UnchangedStops, HoldProcedure DEF IndInv, Typing
  <2> QED
    BY <1>2, <2>1, <2>2
<1>5. CASE /\ revision[t] = r
           /\ ~(fails \/ ~resolves(t, r, f.token) \/ grants[t][f.grant].revoked)
  <2>1. /\ grants' = bumped /\ UNCHANGED <<control, childStops>>
        /\ \/ calls' = [calls EXCEPT ![h] = Idle] /\ UNCHANGED admissions
           \/ Leave(h, f) /\ UNCHANGED admissions
           \/ /\ unreserved(t, r)
              /\ admissions' = [admissions EXCEPT ![t][r] = [state |-> "reserved", token |-> k]]
              /\ calls' = [calls EXCEPT ![h] = [f EXCEPT !.pc = "input", !.token = k]]
    BY <1>5, Zenon DEF PrepareReturns
  <2>2. bumped = grants \/ \E g \in GrantRecords : bumped = Rewritten(t, g)
    <3>1. CASE changed
      <4> DEFINE g == [grants[t][n] EXCEPT !.revision = @ + 1]
      <4>1. g \in GrantRecords
        <5>1. grants[t][n] \in GrantRecords
          BY <1>2, NewestTyped DEF IndInv, Typing
        <5>2. grants[t][n].revision + 1 \in 0..MaxScopeChanges
          BY <1>1, <3>1, <5>1, ControllerAssumption DEF GrantRecords
        <5> QED
          BY <5>1, <5>2 DEF GrantRecords
      <4>2. bumped = Rewritten(t, g)
        BY <3>1 DEF Rewritten
      <4> QED
        BY <4>1, <4>2
    <3>2. CASE ~changed
      BY <3>2
    <3> QED
      BY <3>1, <3>2
  <2> HIDE DEF bumped
  <2>3. /\ bumped \in [Tasks -> Seq(GrantRecords)] /\ bumped[t] # <<>> /\ Len(bumped[t]) = n
        /\ \A u \in Tasks \ {t} : bumped[u] = grants[u]
    BY <1>2, <2>2, NewestTyped, RewrittenTyped DEF IndInv, Typing, StoreTyped, Newest
  <2>4. StoreTyped'
    BY <1>1, <1>2, <2>1, <2>3 DEF IndInv, Typing, StoreTyped
  <2>5. resolves(t, r, f.token)
    BY <1>5
  <2>6. control[t] = "none" /\ Clear(t, r)
    BY <1>1, <2>5 DEF IndInv, Authority, Authorised
  <2>7. \A u \in Tasks : Keeps(u)
    BY <1>1, <1>2, <1>5, <2>1, <2>3, <2>6 DEF Keeps, IndInv, Typing, StoreTyped
  <2>8. k \in TokenRecords
    <3>1. n \in Nat /\ n \in 1..Len(bumped[t]) /\ bumped[t] \in Seq(GrantRecords)
      BY <1>2, <2>3, NewestTyped DEF IndInv, Typing
    <3>2. bumped[t][n] \in GrantRecords
      BY <3>1, ElementOfSeq
    <3> QED
      BY <3>1, <3>2 DEF TokenRecords, GrantRecords
  <2> HIDE DEF k
  <2>9. CASE calls' = [calls EXCEPT ![h] = Idle] /\ UNCHANGED admissions
    <3>1. Continues(h, Idle, Idle)
      BY <1>1, <2>9, IdleTyped DEF Continues
    <3>2. Procedure(h, Idle)
      BY <2>4, <2>7, <3>1 DEF Procedure
    <3> QED
      BY <2>9, <3>2, IdleTyped
  <2>10. CASE Leave(h, f) /\ UNCHANGED admissions
    <3>1. Continues(h, f, Back(f))
      BY <1>1, <1>2, <2>10, LeaveContinues
    <3>2. Procedure(h, f)
      BY <2>4, <2>7, <3>1 DEF Procedure
    <3> QED
      BY <2>10, <3>2
  <2>11. CASE /\ unreserved(t, r)
              /\ admissions' = [admissions EXCEPT ![t][r] = [state |-> "reserved", token |-> k]]
              /\ calls' = [calls EXCEPT ![h] = [f EXCEPT !.pc = "input", !.token = k]]
    BY <2>1, <2>4, <2>5, <2>7, <2>8, <2>11 DEF unreserved
  <2> QED
    BY <2>1, <2>9, <2>10, <2>11
<1> QED
  BY <1>3, <1>4, <1>5

(* A step changes the admission of (t, r) and how often it was requested.  *)
Changes(t, r, a, n) ==
  \A u \in Tasks, q \in Revisions :
    /\ admissions'[u][q] = IF u = t /\ q = r THEN a ELSE admissions[u][q]
    /\ requested'[u][q] = IF u = t /\ q = r THEN n ELSE requested[u][q]

(* Call h, the only one that may, begins, keeps or ends its reservation of *)
(* (t, r): it owns it in its new frame g if and only if it is reserved.    *)
Reserves(h, g, t, r, a, n) ==
  /\ \A i \in Handlers \ {h} : ~Owns(calls[i], t, r)
  /\ \A u, q : Owns(calls[h], u, q) \/ Owns(g, u, q) => u = t /\ q = r
  /\ calls' = [calls EXCEPT ![h] = g]
  /\ Changes(t, r, a, n)
  /\ a.state = "reserved" <=> Owns(g, t, r)
  /\ g.pc = "input" => n = 0
  /\ n \in {0, 1} /\ (a.state \in {"none", "blocked"} => n = 0)

(* Reserving an admission that nobody owns makes the call its owner.     *)
LEMMA ReservationStep ==
  ASSUME IndInv, phase # "down", NEW h \in Handlers, NEW t \in Tasks, NEW r \in Revisions,
         NEW g, NEW a, NEW n, Reserves(h, g, t, r, a, n)
  PROVE  Reservations'
<1> USE DEF Reserves
<1>1. \A u \in Tasks, q \in Revisions :
        /\ admissions'[u][q] = IF u = t /\ q = r THEN a ELSE admissions[u][q]
        /\ requested'[u][q] = IF u = t /\ q = r THEN n ELSE requested[u][q]
  BY DEF Changes
<1>2. calls'[h] = g /\ \A i \in Handlers \ {h} : calls'[i] = calls[i]
  BY DEF IndInv, Typing, CallsTyped
<1>3. OwnersReserved'
  <2> SUFFICES ASSUME NEW i \in Handlers, NEW u \in Tasks, NEW q \in Revisions,
                      Owns(calls'[i], u, q)
               PROVE  /\ admissions'[u][q].state = "reserved"
                      /\ calls'[i].pc = "input" => requested'[u][q] = 0
                      /\ \A j \in Handlers \ {i} : ~Owns(calls'[j], u, q)
    BY DEF OwnersReserved
  <2>1. CASE i = h
    <3>1. u = t /\ q = r /\ Owns(g, t, r)
      BY <1>2, <2>1
    <3>2. \A j \in Handlers \ {h} : ~Owns(calls'[j], t, r)
      BY <1>2
    <3> QED
      BY <1>1, <1>2, <2>1, <3>1, <3>2
  <2>2. CASE i # h
    <3>1. Owns(calls[i], u, q) /\ calls'[i] = calls[i]
      BY <1>2, <2>2
    <3>2. ~(u = t /\ q = r)
      BY <2>2, <3>1
    <3>3. /\ admissions[u][q].state = "reserved"
          /\ calls[i].pc = "input" => requested[u][q] = 0
          /\ \A j \in Handlers \ {i} : ~Owns(calls[j], u, q)
      BY <3>1, Zenon DEF IndInv, Reservations, OwnersReserved
    <3>4. \A j \in Handlers \ {i} : ~Owns(calls'[j], u, q)
      BY <1>2, <3>2, <3>3
    <3>5. admissions'[u][q] = admissions[u][q] /\ requested'[u][q] = requested[u][q]
      BY <1>1, <3>2
    <3> QED
      BY <3>1, <3>3, <3>4, <3>5
  <2> QED
    BY <2>1, <2>2
<1>4. ReservedOwned'
  <2> SUFFICES ASSUME NEW u \in Tasks, NEW q \in Revisions, admissions'[u][q].state = "reserved"
               PROVE  \E i \in Handlers : Owns(calls'[i], u, q)
    BY DEF ReservedOwned
  <2>1. CASE u = t /\ q = r
    BY <1>1, <1>2, <2>1
  <2>2. CASE ~(u = t /\ q = r)
    <3>1. admissions[u][q].state = "reserved"
      BY <1>1, <2>2
    <3>2. PICK i \in Handlers : Owns(calls[i], u, q)
      BY <3>1 DEF IndInv, Reservations, ReservedOwned
    <3>3. i # h
      BY <2>2, <3>2
    <3> QED
      BY <1>2, <3>2, <3>3
  <2> QED
    BY <2>1, <2>2
<1>5. AtMostOnce'
  <2> SUFFICES ASSUME NEW u \in Tasks, NEW q \in Revisions
               PROVE  /\ requested'[u][q] <= 1
                      /\ admissions'[u][q].state \in {"none", "blocked"} => requested'[u][q] = 0
    BY DEF AtMostOnce
  <2>1. CASE u = t /\ q = r
    BY <1>1, <2>1
  <2>2. CASE ~(u = t /\ q = r)
    BY <1>1, <2>2 DEF IndInv, Reservations, AtMostOnce
  <2> QED
    BY <2>1, <2>2
<1> QED
  BY <1>3, <1>4, <1>5 DEF Reservations

(* A revision becomes requested only when the earlier ones are over.       *)
LEMMA RunsStep ==
  ASSUME IndInv, StoreTyped', \A u \in Tasks : Keeps(u), QuietKept, RunsTrue(runs)',
         \A u \in Tasks, q \in Revisions :
           /\ engine'[u][q] # "absent" => requested'[u][q] > 0
           /\ requested'[u][q] > 0 => \/ requested[u][q] > 0
                                      \/ q <= revision[u] /\ Clear(u, q)
  PROVE  RunsOK'
<1>1. ASSUME NEW u \in Tasks, NEW q \in Revisions, requested'[u][q] > 0
      PROVE  q <= revision'[u] /\ Clear(u, q)'
  <2>1. q <= revision[u] /\ Clear(u, q) /\ q \in Nat /\ q > 0
    BY <1>1, ControllerAssumption DEF IndInv, RunsOK, Revisions
  <2>2. q \in 1..revision[u] /\ q <= revision'[u]
    BY <2>1 DEF Keeps, IndInv, Typing, StoreTyped
  <2>3. Clear(u, q)'
    BY <2>1, <2>2, ClearKept DEF IndInv, Typing
  <2> QED
    BY <2>2, <2>3
<1> QED
  BY <1>1 DEF RunsOK

(* The frame of a call that gets or uses its reservation.                  *)
LEMMA ReservingTyped ==
  ASSUME IndInv, UNCHANGED revision, NEW h \in Handlers, calls[h].pc # "ret", NEW g,
         \/ \E k \in TokenRecords : g = [calls[h] EXCEPT !.pc = "input", !.token = k]
         \/ g = [calls[h] EXCEPT !.pc = "submit"]
  PROVE  /\ FrameTyped(g, revision') /\ g.at = calls[h].at /\ g.pc \in {"input", "submit"}
         /\ g.task = calls[h].task /\ g.revision = calls[h].revision
<1> DEFINE f == calls[h]
<1>1. FrameTyped(f, revision) /\ f \in Frames(f.todo)
  BY FrameOf DEF FrameTyped
<1>2. "input" \in Awaits /\ "submit" \in Awaits
  BY DEF Awaits
<1>3. /\ g \in Frames(f.todo) /\ g.at = f.at /\ g.todo = f.todo /\ g.pc \in {"input", "submit"}
      /\ g.task = f.task /\ g.revision = f.revision
  <2> HIDE DEF f
  <2> QED
    BY <1>1, <1>2 DEF Frames, f
<1> QED
  BY <1>1, <1>3 DEF FrameTyped, ListOK

(* The invariant when the authority is prepared and the admission reserved. *)
LEMMA PrepareReturnsStep ==
  ASSUME IndInv, NEW h \in Handlers, NEW fails \in BOOLEAN, NEW changed \in BOOLEAN,
         PrepareReturns(h, fails, changed)
  PROVE  IndInv'
<1>1. /\ calls[h].pc = "prepare"
      /\ UNCHANGED <<revision, runs, effects, log, process, outside>>
  BY DEF PrepareReturns
<1>2. CASE \E f : /\ Procedure(h, f) /\ f.at \in {calls[h].at, "idle"} /\ UNCHANGED admissions
  <2>1. Returns(h)
    BY <1>1, <1>2 DEF Returns
  <2> QED
    BY <1>1, <1>2, <2>1, RunsKept, ReturnStep
<1>3. ASSUME NEW k \in TokenRecords,
             StoreTyped', \A u \in Tasks : Keeps(u),
             resolves(calls[h].task, calls[h].revision, calls[h].token),
             admissions[calls[h].task][calls[h].revision].state = "none",
             admissions' = [admissions EXCEPT ![calls[h].task][calls[h].revision] =
                              [state |-> "reserved", token |-> k]],
             calls' = [calls EXCEPT ![h] = [calls[h] EXCEPT !.pc = "input", !.token = k]],
             UNCHANGED control
      PROVE  IndInv'
  <2>1. PICK t \in Tasks, r \in Revisions : t = calls[h].task /\ r = calls[h].revision
    BY <1>1, FrameOf
  <2>2. PICK a : a = [state |-> "reserved", token |-> k]
    OBVIOUS
  <2>3. PICK g : g = [calls[h] EXCEPT !.pc = "input", !.token = k]
    OBVIOUS
  <2>4. /\ FrameTyped(g, revision') /\ g.at = calls[h].at /\ g.pc = "input"
        /\ g.task = t /\ g.revision = r
    <3>1. /\ FrameTyped(g, revision') /\ g.at = calls[h].at
          /\ g.task = calls[h].task /\ g.revision = calls[h].revision
      BY <1>1, <2>3, ReservingTyped
    <3>2. g.pc = "input"
      BY <1>1, <2>3, FrameOf DEF FrameTyped, Frames
    <3> QED
      BY <2>1, <3>1, <3>2
  <2>5. calls' = [calls EXCEPT ![h] = g] /\ admissions' = [admissions EXCEPT ![t][r] = a]
    BY <1>3, <2>1, <2>2, <2>3
  <2>6. a.state = "reserved"
        /\ a \in [state : {"none", "reserved", "bound", "unknown", "blocked"}, token : TokenRecords]
    BY <2>2
  <2>7. phase # "down" /\ phase' \in {"recovering", "up"}
    BY <1>1, CallsAreAlive DEF process, IndInv, Typing, CallsTyped
  <2>8. WorkTyped'
    BY <1>1, <2>5, <2>6 DEF IndInv, Typing, WorkTyped, outside
  <2>9. CallsTyped'
    <3>1. h = Maintenance => g.at \in {"idle", "invalidate"}
      BY <2>4 DEF IndInv, Typing, CallsTyped
    <3> QED
      BY <1>3, <2>4, <2>5, <2>7, <3>1, MoveTyped DEF IndInv
  <2>10. JournalOK'
    BY <1>1, <1>3, <2>5, JournalKept DEF log
  <2>11. QuietKept
    BY <1>1 DEF QuietKept, Quiet, outside
  <2>12. Authority'
    <3>1. control[t] = "none" /\ Clear(t, r)
      BY <1>1, <1>3, <2>1 DEF IndInv, Authority, Authorised
    <3>2. control'[t] = "none" /\ Clear(t, r)'
      BY <1>1, <1>3, <3>1 DEF Clear, Quiet, outside
    <3> QED
      BY <1>3, <2>4, <2>5, <2>11, <3>2, AuthorityStep DEF IndInv
  <2>13. Reservations'
    <3>1. \A i \in Handlers : ~Owns(calls[i], t, r)
      <4>1. admissions[t][r].state # "reserved"
        BY <1>3, <2>1
      <4> QED
        BY <4>1 DEF IndInv, Reservations, OwnersReserved
    <3>2. \A u, q : Owns(calls[h], u, q) \/ Owns(g, u, q) => u = t /\ q = r
      BY <1>1, <2>4 DEF Owns
    <3>3. Owns(g, t, r)
      BY <2>4 DEF Owns
    <3>4. Changes(t, r, a, 0)
      <4>1. requested[t][r] = 0
        BY <1>3, <2>1 DEF IndInv, Reservations, AtMostOnce
      <4> QED
        BY <1>1, <2>5, <4>1 DEF Changes, outside, IndInv, Typing, WorkTyped
    <3>5. Reserves(h, g, t, r, a, 0)
      BY <2>5, <2>6, <3>1, <3>2, <3>3, <3>4 DEF Reserves
    <3> QED
      BY <2>7, <3>5, ReservationStep
  <2>14. RunsOK'
    <3>1. RunsTrue(runs)'
      BY <1>1, <2>5, <2>6 DEF IndInv, RunsOK, RunsTrue, outside, Typing, WorkTyped
    <3> QED
      BY <1>1, <1>3, <2>11, <3>1, RunsStep DEF IndInv, RunsOK, outside
  <2> QED
    BY <1>3, <2>8, <2>9, <2>10, <2>12, <2>13, <2>14 DEF IndInv, Typing
<1> QED
  BY <1>2, <1>3, PrepareReturnsProcedure

(* Who submits has the authority to, and earlier revisions are over.       *)
LEMMA SubmitsUnderAuthority ==
  ASSUME IndInv, NEW h \in Handlers, calls[h].pc = "input",
         NEW t, t = calls[h].task, NEW r, r = calls[h].revision,
         stillAuthorised(t, r, calls[h].token)
  PROVE  /\ t \in Tasks /\ r \in Revisions /\ revision[t] = r
         /\ control[t] = "none" /\ ~Revoked(t) /\ Clear(t, r)
<1>1. t \in Tasks /\ r \in Revisions
  BY FrameOf
<1>2. resolves(t, r, calls[h].token)
  BY DEF stillAuthorised
<1>3. control[t] = "none" /\ Clear(t, r)
  BY <1>2 DEF IndInv, Authority, Authorised
<1> QED
  BY <1>1, <1>2, <1>3 DEF resolves

(* The call that owns a reservation ends it and goes on as a procedure     *)
(* says: the admission is bound, unknown or, if it never was submitted,    *)
(* blocked.                                                                *)
AdmissionStates == [state : {"none", "reserved", "bound", "unknown", "blocked"}, token : TokenRecords]

(* A reservation that is answered or given up ends together with its call. *)
LEMMA ReservationEnds ==
  ASSUME IndInv, NEW h \in Handlers, NEW t \in Tasks, NEW r \in Revisions, Owns(calls[h], t, r),
         NEW f, Procedure(h, f), f.at = calls[h].at,
         NEW a \in AdmissionStates, a.state \in {"bound", "unknown", "blocked"},
         a.state = "blocked" => requested[t][r] = 0,
         admissions' = [admissions EXCEPT ![t][r] = a],
         runs' \in [Tasks -> [Revisions -> SnapshotStates \cup {"none"}]], RunsTrue(runs'),
         a.state = "bound" => runs'[t][r] # "none",
         UNCHANGED <<effects, log, process, outside>>
  PROVE  IndInv'
<1>1. PICK g : Continues(h, f, g)
  BY DEF Procedure
<1>2. StoreTyped' /\ (\A u \in Tasks : Keeps(u))
  BY DEF Procedure
<1>3. /\ calls' = [calls EXCEPT ![h] = g] /\ FrameTyped(g, revision') /\ g.at = calls[h].at
      /\ g.pc \notin {"input", "submit"}
  BY <1>1 DEF Continues
<1>4. calls[h].pc \in {"input", "submit"} /\ phase # "down" /\ phase' \in {"recovering", "up"}
  BY CallsAreAlive DEF Owns, process, IndInv, Typing, CallsTyped
<1>5. WorkTyped'
  BY DEF IndInv, Typing, WorkTyped, outside, AdmissionStates
<1>6. CallsTyped'
  <2>1. h = Maintenance => g.at \in {"idle", "invalidate"}
    BY <1>3 DEF IndInv, Typing, CallsTyped
  <2> QED
    BY <1>2, <1>3, <1>4, <2>1, MoveTyped DEF IndInv
<1>7. JournalOK'
  BY <1>2, <1>3, <1>4, JournalKept DEF log
<1>8. QuietKept
  BY DEF QuietKept, Quiet, outside
<1>9. Authority'
  <2>1. Authorised(g)' => g.pc = "prepare"
    BY <1>3 DEF Authorised
  <2>2. g.pc = "prepare" => control'[g.task] = "none" /\ Clear(g.task, g.revision)'
    BY <1>1 DEF Continues, Clear, Quiet, outside
  <2> QED
    BY <1>2, <1>3, <1>8, <2>1, <2>2, AuthorityStep DEF IndInv
<1>10. Reservations'
  <2>1. \A i \in Handlers \ {h} : ~Owns(calls[i], t, r)
    BY DEF IndInv, Reservations, OwnersReserved
  <2>2. \A u, q : Owns(calls[h], u, q) \/ Owns(g, u, q) => u = t /\ q = r
    BY <1>3 DEF Owns
  <2>3. Changes(t, r, a, requested[t][r])
    BY DEF Changes, outside, IndInv, Typing, WorkTyped
  <2>4. requested[t][r] \in {0, 1}
    <3>1. requested[t] \in [Revisions -> Nat]
      BY DEF IndInv, Typing, WorkTyped
    <3>2. requested[t][r] <= 1
      BY DEF IndInv, Reservations, AtMostOnce
    <3> QED
      BY <3>1, <3>2
  <2>5. Reserves(h, g, t, r, a, requested[t][r])
    BY <1>3, <2>1, <2>2, <2>3, <2>4 DEF Reserves, Owns
  <2> QED
    BY <1>4, <2>5, ReservationStep
<1>11. RunsOK'
  <2>1. \A u \in Tasks, q \in Revisions :
          admissions'[u][q].state = "bound" => \/ admissions[u][q].state = "bound"
                                               \/ u = t /\ q = r /\ a.state = "bound"
    BY DEF IndInv, Typing, WorkTyped
  <2>2. RunsTrue(runs)'
    BY <2>1 DEF RunsTrue, outside
  <2> QED
    BY <1>2, <1>8, <2>2, RunsStep DEF IndInv, RunsOK, outside
<1> QED
  BY <1>2, <1>5, <1>6, <1>7, <1>9, <1>10, <1>11 DEF IndInv, Typing

(* An admission may be put into its next state.                          *)
LEMMA Restated ==
  ASSUME IndInv, NEW t \in Tasks, NEW r \in Revisions, NEW s \in {"bound", "unknown", "blocked"}
  PROVE  [admissions[t][r] EXCEPT !.state = s] \in AdmissionStates
         /\ [admissions[t][r] EXCEPT !.state = s].state = s
<1>1. admissions[t][r] \in AdmissionStates
  BY DEF IndInv, Typing, WorkTyped, AdmissionStates
<1> QED
  BY <1>1 DEF AdmissionStates

(* The invariant when a submission throws.                               *)
LEMMA SubmitFailsStep ==
  ASSUME IndInv, NEW h \in Handlers, SubmitFails(h)
  PROVE  IndInv'
<1> DEFINE f == calls[h]
           a == [admissions[f.task][f.revision] EXCEPT !.state = "unknown"]
<1>1. /\ f.pc = "submit" /\ admissions' = [admissions EXCEPT ![f.task][f.revision] = a]
      /\ Leave(h, f)
      /\ UNCHANGED <<revision, grants, control, runs, childStops, effects, log, process, outside>>
  BY DEF SubmitFails
<1>2. FrameTyped(f, revision) /\ f.task \in Tasks /\ f.revision \in Revisions
  BY <1>1, FrameOf
<1>3. a \in AdmissionStates /\ a.state = "unknown"
  BY <1>2, Restated
<1>4. Procedure(h, f)
  BY <1>1, <1>2, UnchangedStops, LeaveProcedure DEF IndInv, Typing
<1>5. Owns(f, f.task, f.revision)
  BY <1>1 DEF Owns
<1> HIDE DEF a
<1> QED
  BY <1>1, <1>2, <1>3, <1>4, <1>5, RunsKept, ReservationEnds

(* The invariant when the engine answers a submission.                   *)
LEMMA SubmitReturnsStep ==
  ASSUME IndInv, NEW h \in Handlers, NEW s, SubmitReturns(h, s)
  PROVE  IndInv'
<1> DEFINE f == calls[h]
           a == [admissions[f.task][f.revision] EXCEPT !.state = "bound"]
           new == [runs EXCEPT ![f.task][f.revision] = s]
<1>1. /\ f.pc = "submit" /\ admissions' = [admissions EXCEPT ![f.task][f.revision] = a]
      /\ s \in Snapshots(f.task, f.revision) /\ runs' = new
      /\ Leave(h, f) \/ In(h, f, "undo", f.task, f.revision)
      /\ UNCHANGED <<revision, grants, control, childStops, effects, log, process, outside>>
  BY DEF SubmitReturns
<1>2. /\ FrameTyped(f, revision) /\ f.task \in Tasks /\ f.revision \in Revisions
      /\ f.revision \in 1..revision[f.task]
  BY <1>1, FrameOf
<1>3. a \in AdmissionStates /\ a.state = "bound"
  BY <1>2, Restated
<1>4. Procedure(h, f)
  <2>1. CASE Leave(h, f)
    BY <1>1, <1>2, <2>1, UnchangedStops, LeaveProcedure DEF IndInv, Typing
  <2>2. CASE In(h, f, "undo", f.task, f.revision)
    <3>1. \E g : Continues(h, f, g)
      BY <1>1, <1>2, <2>2, MoveContinues DEF IndInv, Typing
    <3> QED
      BY <1>1, <3>1, UnchangedStops, StoreKept DEF Procedure, IndInv, Typing
  <2> QED
    BY <1>1, <2>1, <2>2
<1>5. Owns(f, f.task, f.revision)
  BY <1>1 DEF Owns
<1>6. new \in [Tasks -> [Revisions -> SnapshotStates \cup {"none"}]] /\ RunsTrue(new)
  BY <1>1, <1>2, SnapshotTrue
<1>7. new[f.task][f.revision] # "none"
  <2>1. engine[f.task] \in [Revisions -> {"absent", "live", "completed", "stopped"}]
    BY <1>2 DEF IndInv, Typing, WorkTyped
  <2>2. engine[f.task][f.revision] \in {"absent", "live", "completed", "stopped"}
    BY <1>2, <2>1
  <2>3. s # "none"
    BY <1>1, <2>2 DEF Snapshots
  <2> QED
    BY <1>2, <2>3 DEF IndInv, Typing, WorkTyped
<1> HIDE DEF a, new
<1> QED
  BY <1>1, <1>2, <1>3, <1>4, <1>5, <1>6, <1>7, ReservationEnds

(* prepareInput is back: the task is held and the admission blocked, or    *)
(* the run is submitted under an authority that still stands.              *)
LEMMA InputReturnsStep ==
  ASSUME IndInv, NEW h \in Handlers, NEW fails \in BOOLEAN, InputReturns(h, fails)
  PROVE  IndInv'
<1> DEFINE f == calls[h]
<1>0. PICK t, r : t = f.task /\ r = f.revision
  OBVIOUS
<1>1. f.pc = "input" /\ UNCHANGED <<revision, runs, effects, log, process, engine>>
  BY DEF InputReturns
<1>2. /\ FrameTyped(f, revision) /\ t \in Tasks /\ r \in Revisions /\ revision[t] > 0
      /\ r \in 1..revision[t] /\ FrameTyped(Back(f), revision) /\ Back(f).at = f.at
  BY <1>0, <1>1, FrameOf, BackTyped
<1>3. Owns(f, t, r)
  BY <1>0, <1>1 DEF Owns
<1>4. requested[t][r] = 0 /\ \A i \in Handlers \ {h} : ~Owns(calls[i], t, r)
  BY <1>1, <1>2, <1>3 DEF IndInv, Reservations, OwnersReserved
<1>5. CASE fails \/ ~stillAuthorised(t, r, f.token)
  <2> DEFINE a == [admissions[t][r] EXCEPT !.state = "blocked"]
  <2>1. /\ admissions' = [admissions EXCEPT ![t][r].state = "blocked"]
        /\ hold(h, Back(f), t, "held", control[t], childStops) /\ UNCHANGED requested
    BY <1>0, <1>5, Zenon DEF InputReturns, Back
  <2>2. admissions' = [admissions EXCEPT ![t][r] = a]
    BY <2>1
  <2>3. a \in AdmissionStates /\ a.state = "blocked"
    BY <1>2, Restated
  <2>4. Procedure(h, Back(f))
    BY <1>1, <1>2, <2>1, UnchangedStops, HoldProcedure DEF IndInv, Typing
  <2> HIDE DEF a
  <2>5. UNCHANGED <<effects, log, process, outside>>
    BY <1>1, <2>1 DEF outside
  <2> QED
    BY <1>1, <1>2, <1>3, <1>4, <2>2, <2>3, <2>4, <2>5, RunsKept, ReservationEnds
<1>6. CASE ~fails /\ stillAuthorised(t, r, f.token)
  <2>1. /\ requested' = [requested EXCEPT ![t][r] = @ + 1]
        /\ calls' = [calls EXCEPT ![h] = [calls[h] EXCEPT !.pc = "submit"]]
        /\ UNCHANGED <<admissions, grants, control, childStops>>
    BY <1>0, <1>6, Zenon DEF InputReturns
  <2>2. PICK g : g = [calls[h] EXCEPT !.pc = "submit"]
    OBVIOUS
  <2>3. /\ FrameTyped(g, revision') /\ g.at = calls[h].at /\ g.pc = "submit"
        /\ g.task = t /\ g.revision = r /\ g.token = f.token
    <3>1. /\ FrameTyped(g, revision') /\ g.at = calls[h].at
          /\ g.task = calls[h].task /\ g.revision = calls[h].revision
      BY <1>1, <2>2, ReservingTyped
    <3>2. g.pc = "submit" /\ g.token = f.token
      BY <1>2, <2>2 DEF FrameTyped, Frames
    <3> QED
      BY <1>0, <3>1, <3>2
  <2>4. calls' = [calls EXCEPT ![h] = g]
    BY <2>1, <2>2
  <2>5. phase # "down" /\ phase' \in {"recovering", "up"}
    BY <1>1, CallsAreAlive DEF process, IndInv, Typing, CallsTyped
  <2>6. revision[t] = r /\ control[t] = "none" /\ Clear(t, r)
    BY <1>0, <1>1, <1>6, SubmitsUnderAuthority
  <2>7. \A u \in Tasks, q \in Revisions :
          requested'[u][q] = IF u = t /\ q = r THEN 1 ELSE requested[u][q]
    BY <1>2, <1>4, <2>1 DEF IndInv, Typing, WorkTyped
  <2>8. StoreTyped' /\ \A u \in Tasks : Keeps(u)
    BY <1>1, <2>1, UnchangedStops, StoreKept DEF IndInv, Typing
  <2>9. WorkTyped'
    BY <1>1, <1>2, <2>1 DEF IndInv, Typing, WorkTyped
  <2>10. CallsTyped'
    <3>1. h = Maintenance => g.at \in {"idle", "invalidate"}
      BY <2>3 DEF IndInv, Typing, CallsTyped
    <3> QED
      BY <2>3, <2>4, <2>5, <2>8, <3>1, MoveTyped DEF IndInv
  <2>11. JournalOK'
    BY <1>1, <2>4, <2>8, JournalKept DEF log
  <2>12. QuietKept
    <3> SUFFICES ASSUME NEW u \in Tasks, NEW q \in Revisions, q < revision[u], Quiet(u, q)
                 PROVE  Quiet(u, q)'
      BY DEF QuietKept
    <3>1. ~(u = t /\ q = r)
      BY <1>2, <2>6 DEF Revisions
    <3> QED
      BY <1>1, <2>7, <3>1 DEF Quiet
  <2>13. Clear(t, r)'
    BY <1>2, <2>6, <2>12, ClearKept DEF IndInv, Typing
  <2>14. Authority'
    BY <2>1, <2>3, <2>4, <2>6, <2>8, <2>12, <2>13, AuthorityStep DEF IndInv
  <2>15. Reservations'
    <3>1. \A u, q : Owns(calls[h], u, q) \/ Owns(g, u, q) => u = t /\ q = r
      BY <1>0, <2>3 DEF Owns
    <3>2. Changes(t, r, admissions[t][r], 1)
      BY <2>1, <2>7 DEF Changes
    <3>3. admissions[t][r].state = "reserved"
      BY <1>2, <1>3, Zenon DEF IndInv, Reservations, OwnersReserved
    <3>4. Reserves(h, g, t, r, admissions[t][r], 1)
      BY <1>4, <2>3, <2>4, <3>1, <3>2, <3>3 DEF Reserves, Owns
    <3> QED
      BY <1>2, <2>5, <3>4, ReservationStep
  <2>16. RunsOK'
    <3>1. RunsTrue(runs)'
      BY <1>1, <2>1, RunsKept DEF RunsTrue
    <3>2. \A u \in Tasks, q \in Revisions :
            /\ engine'[u][q] # "absent" => requested'[u][q] > 0
            /\ requested'[u][q] > 0 => \/ requested[u][q] > 0
                                       \/ q <= revision[u] /\ Clear(u, q)
      BY <1>1, <1>2, <2>6, <2>7 DEF IndInv, RunsOK
    <3> QED
      BY <2>8, <2>12, <3>1, <3>2, RunsStep
  <2> QED
    BY <2>8, <2>9, <2>10, <2>11, <2>14, <2>15, <2>16 DEF IndInv, Typing
<1> QED
  BY <1>5, <1>6

-----------------------------------------------------------------------------
(* Steps that no call takes                                                *)

(* A step outside the process: what it does to an engine run or an effect  *)
(* never disturbs what is over, and never belies what the store knows.     *)
LEMMA OutsideStep ==
  ASSUME IndInv, UNCHANGED <<revision, grants, control, admissions, runs, childStops>>,
         UNCHANGED <<log, calls, process, requested>>,
         effects' \in [Tasks -> [Revisions -> {"none", "open", "settled"}]],
         engine' \in [Tasks -> [Revisions -> {"absent", "live", "completed", "stopped"}]],
         QuietKept,
         \A t \in Tasks, r \in Revisions :
           /\ engine[t][r] \in {"completed", "stopped"} => engine'[t][r] = engine[t][r]
           /\ engine'[t][r] # "absent" => requested[t][r] > 0
  PROVE  IndInv'
<1>1. StoreTyped' /\ \A u \in Tasks : Keeps(u)
  BY UnchangedStops, StoreKept DEF IndInv, Typing
<1>2. WorkTyped'
  BY DEF IndInv, Typing, WorkTyped
<1>3. CallsTyped'
  BY DEF IndInv, Typing, CallsTyped, process
<1>4. JournalOK'
  BY DEF IndInv, JournalOK, log
<1>5. Reservations'
  BY DEF IndInv, Reservations, OwnersReserved, ReservedOwned, AtMostOnce, process
<1>6. Authority'
  <2> SUFFICES ASSUME NEW i \in Handlers, NEW f, f = calls'[i], Authorised(f)'
               PROVE  control'[f.task] = "none" /\ Clear(f.task, f.revision)'
    BY DEF Authority
  <2> QED
    BY <1>1, OthersAuthorised DEF IndInv
<1>7. RunsOK'
  <2>1. RunsTrue(runs)'
    BY RunsKept DEF RunsTrue
  <2> QED
    BY <1>1, <2>1, RunsStep
<1> QED
  BY <1>1, <1>2, <1>3, <1>4, <1>5, <1>6, <1>7 DEF IndInv, Typing

(* The invariant when the engine begins a run it was asked for.          *)
LEMMA EngineAcceptsStep ==
  ASSUME IndInv, NEW t \in Tasks, NEW r \in Revisions, EngineAccepts(t, r)
  PROVE  IndInv'
<1>1. /\ requested[t][r] > 0 /\ engine[t][r] = "absent"
      /\ UNCHANGED <<store, log, calls, process, requested>>
  BY DEF EngineAccepts
<1>2. \A u \in Tasks, q \in Revisions :
        engine'[u][q] = IF u = t /\ q = r THEN "live" ELSE engine[u][q]
  BY DEF EngineAccepts, IndInv, Typing, WorkTyped
<1>3. /\ engine' \in [Tasks -> [Revisions -> {"absent", "live", "completed", "stopped"}]]
      /\ effects' \in [Tasks -> [Revisions -> {"none", "open", "settled"}]]
  BY <1>1 DEF EngineAccepts, IndInv, Typing, WorkTyped, store
<1>4. ~Quiet(t, r)
  <2>1. requested[t][r] # 0
    BY <1>1
  <2> QED
    BY <1>1, <2>1 DEF Quiet
<1>5. QuietKept
  BY <1>1, <1>2, <1>4 DEF QuietKept, Quiet, store
<1> QED
  BY <1>1, <1>2, <1>3, <1>5, OutsideStep DEF store, IndInv, RunsOK

(* The invariant when a run ends.                                        *)
LEMMA EngineEndsStep ==
  ASSUME IndInv, NEW t \in Tasks, NEW r \in Revisions, NEW how \in Ends, EngineEnds(t, r, how)
  PROVE  IndInv'
<1>1. engine[t][r] = "live" /\ UNCHANGED <<store, log, calls, process, requested>>
  BY DEF EngineEnds
<1>2. how \in {"completed", "stopped"}
  BY ControllerAssumption
<1>3. \A u \in Tasks, q \in Revisions :
        engine'[u][q] = IF u = t /\ q = r THEN how ELSE engine[u][q]
  BY DEF EngineEnds, IndInv, Typing, WorkTyped
<1>4. /\ engine' \in [Tasks -> [Revisions -> {"absent", "live", "completed", "stopped"}]]
      /\ effects' \in [Tasks -> [Revisions -> {"none", "open", "settled"}]]
  BY <1>1, <1>2 DEF EngineEnds, IndInv, Typing, WorkTyped, store
<1>5. ~Quiet(t, r)
  BY <1>1 DEF Quiet
<1>6. QuietKept
  BY <1>1, <1>3, <1>5 DEF QuietKept, Quiet, store
<1> QED
  BY <1>1, <1>2, <1>3, <1>4, <1>6, OutsideStep DEF store, IndInv, RunsOK

(* An effect opens only at the current revision: no later one waits for it *)
(* to be over.                                                             *)
LEMMA EffectOpens ==
  ASSUME IndInv, NEW t \in Tasks, NEW r \in Revisions, revision[t] = r,
         effects' = [effects EXCEPT ![t][r] = "open"], UNCHANGED <<requested, engine>>
  PROVE  QuietKept
<1> SUFFICES ASSUME NEW u \in Tasks, NEW q \in Revisions, q < revision[u], Quiet(u, q)
             PROVE  Quiet(u, q)'
  BY DEF QuietKept
<1>1. ~(u = t /\ q = r)
  BY DEF Revisions
<1>2. effects'[u][q] = effects[u][q]
  BY <1>1 DEF IndInv, Typing, WorkTyped
<1> QED
  BY <1>2 DEF Quiet

(* The invariant when a run asks for an effect.                          *)
LEMMA ToolEffectStep ==
  ASSUME IndInv, NEW t \in Tasks, NEW r \in Revisions, ToolEffect(t, r)
  PROVE  IndInv'
<1>1. /\ effects' = [effects EXCEPT ![t][r] = "open"] /\ revision[t] = r
      /\ UNCHANGED <<revision, grants, control, admissions, runs, childStops>>
      /\ UNCHANGED <<log, calls, process, outside>>
  BY DEF ToolEffect, resolves
<1>2. QuietKept
  BY <1>1, EffectOpens DEF outside
<1>3. /\ engine' \in [Tasks -> [Revisions -> {"absent", "live", "completed", "stopped"}]]
      /\ effects' \in [Tasks -> [Revisions -> {"none", "open", "settled"}]]
  BY <1>1 DEF IndInv, Typing, WorkTyped, outside
<1> QED
  BY <1>1, <1>2, <1>3, OutsideStep DEF outside, IndInv, RunsOK

(* The invariant when an effect settles.                                 *)
LEMMA EffectSettlesStep ==
  ASSUME IndInv, NEW t \in Tasks, NEW r \in Revisions, EffectSettles(t, r)
  PROVE  IndInv'
<1>1. /\ effects' = [effects EXCEPT ![t][r] = "settled"] /\ effects[t][r] = "open"
      /\ UNCHANGED <<revision, grants, control, admissions, runs, childStops>>
      /\ UNCHANGED <<log, calls, process, outside>>
  BY DEF EffectSettles
<1>2. \A u \in Tasks, q \in Revisions :
        effects'[u][q] = IF u = t /\ q = r THEN "settled" ELSE effects[u][q]
  BY <1>1 DEF IndInv, Typing, WorkTyped
<1>3. QuietKept
  BY <1>1, <1>2 DEF QuietKept, Quiet, outside
<1>4. /\ engine' \in [Tasks -> [Revisions -> {"absent", "live", "completed", "stopped"}]]
      /\ effects' \in [Tasks -> [Revisions -> {"none", "open", "settled"}]]
  BY <1>1 DEF IndInv, Typing, WorkTyped, outside
<1> QED
  BY <1>1, <1>3, <1>4, OutsideStep DEF outside, IndInv, RunsOK

(* The output of a completed run becomes an effect of the revision that is *)
(* current.                                                                *)
LEMMA DeliverStep ==
  ASSUME IndInv, NEW x \in Main.todo, AtStage("deliver"), Deliver(x)
  PROVE  IndInv'
<1>0. Main.at = "deliver" /\ Main.pc = "ret"
  BY DEF AtStage
<1>1. FrameTyped(Main, revision)
  BY <1>0, TakenTyped
<1>2. PICK t, r : t \in Tasks /\ r \in 1..revision[t] /\ t = x[1] /\ r = x[2]
  BY <1>0, <1>1 DEF FrameTyped, ListOK, Exists
<1>3. t \in Tasks /\ r \in Revisions
  BY <1>2, ControllerAssumption DEF Revisions, IndInv, Typing, StoreTyped
<1>4. /\ \/ effects' = effects
         \/ effects' = [effects EXCEPT ![t][r] = "open"] /\ revision[t] = r
      /\ calls' = [calls EXCEPT ![Loop] = Taken(x)]
      /\ UNCHANGED <<revision, grants, control, admissions, runs, childStops>>
      /\ UNCHANGED <<log, process, outside>>
  BY <1>2, Zenon DEF Deliver
<1>5. PICK g : g = Taken(x)
  OBVIOUS
<1>6. /\ FrameTyped(g, revision') /\ g.at = Main.at /\ g.pc = "ret"
      /\ calls' = [calls EXCEPT ![Loop] = g]
  BY <1>0, <1>4, <1>5, TakenTyped
<1>7. phase # "down" /\ phase' \in {"recovering", "up"}
  BY <1>0, <1>4, Actors, CallsAreAlive DEF Main, process, IndInv, Typing, CallsTyped
<1>8. StoreTyped' /\ \A u \in Tasks : Keeps(u)
  BY <1>4, UnchangedStops, StoreKept DEF IndInv, Typing
<1>9. WorkTyped'
  <2>1. effects \in [Tasks -> [Revisions -> {"none", "open", "settled"}]]
    BY DEF IndInv, Typing, WorkTyped
  <2>2. effects' \in [Tasks -> [Revisions -> {"none", "open", "settled"}]]
    <3>1. ASSUME effects' = [effects EXCEPT ![t][r] = "open"]
          PROVE  effects' \in [Tasks -> [Revisions -> {"none", "open", "settled"}]]
      BY <2>1, <3>1
    <3> QED
      BY <1>4, <2>1, <3>1, Zenon
  <2> QED
    BY <1>4, <2>2 DEF IndInv, Typing, WorkTyped, outside
<1>10. CallsTyped'
  BY <1>6, <1>7, <1>8, Actors, MoveTyped DEF IndInv
<1>11. JournalOK'
  BY <1>4, <1>6, <1>8, Actors, JournalKept DEF log
<1>12. QuietKept
  <2>1. CASE effects' = effects
    BY <1>4, <2>1 DEF QuietKept, Quiet, outside
  <2>2. CASE effects' = [effects EXCEPT ![t][r] = "open"] /\ revision[t] = r
    BY <1>3, <1>4, <2>2, EffectOpens DEF outside
  <2> QED
    BY <1>4, <2>1, <2>2
<1>13. Authority'
  <2>1. ~Authorised(g)'
    BY <1>6 DEF Authorised
  <2> QED
    BY <1>6, <1>8, <1>12, <2>1, Actors, AuthorityStep DEF IndInv
<1>14. Reservations'
  <2>1. \A u, q : ~Owns(calls[Loop], u, q) /\ ~Owns(g, u, q)
    BY <1>0, <1>6 DEF Owns, Main
  <2>2. calls'[Loop] = g /\ \A i \in Handlers \ {Loop} : calls'[i] = calls[i]
    BY <1>6, Actors DEF IndInv, Typing, CallsTyped
  <2>3. \A i \in Handlers : \A u, q : Owns(calls'[i], u, q) => i # Loop
    BY <2>1, <2>2
  <2>4. OwnersReserved'
    <3> SUFFICES ASSUME NEW i \in Handlers, NEW u \in Tasks, NEW q \in Revisions,
                        Owns(calls'[i], u, q)
                 PROVE  /\ admissions[u][q].state = "reserved"
                        /\ calls'[i].pc = "input" => requested[u][q] = 0
                        /\ \A j \in Handlers \ {i} : ~Owns(calls'[j], u, q)
      BY <1>4 DEF OwnersReserved, outside
    <3>1. Owns(calls[i], u, q) /\ calls'[i] = calls[i]
      BY <2>2, <2>3
    <3>2. /\ admissions[u][q].state = "reserved"
          /\ calls[i].pc = "input" => requested[u][q] = 0
          /\ \A j \in Handlers \ {i} : ~Owns(calls[j], u, q)
      BY <3>1, Zenon DEF IndInv, Reservations, OwnersReserved
    <3>3. \A j \in Handlers \ {i} : ~Owns(calls'[j], u, q)
      BY <2>2, <2>3, <3>2
    <3> QED
      BY <3>1, <3>2, <3>3
  <2>5. ReservedOwned'
    <3> SUFFICES ASSUME NEW u \in Tasks, NEW q \in Revisions, admissions[u][q].state = "reserved"
                 PROVE  \E i \in Handlers : Owns(calls'[i], u, q)
      BY <1>4 DEF ReservedOwned
    <3>1. PICK i \in Handlers : Owns(calls[i], u, q)
      BY <1>7 DEF IndInv, Reservations, ReservedOwned
    <3>2. i # Loop
      BY <2>1, <3>1
    <3> QED
      BY <2>2, <3>1, <3>2
  <2>6. AtMostOnce'
    BY <1>4 DEF IndInv, Reservations, AtMostOnce, outside
  <2> QED
    BY <2>4, <2>5, <2>6 DEF Reservations
<1>15. RunsOK'
  <2>1. RunsTrue(runs)'
    BY <1>4, RunsKept DEF RunsTrue, outside
  <2> QED
    BY <1>4, <1>8, <1>12, <2>1, RunsStep DEF IndInv, RunsOK, outside
<1> QED
  BY <1>8, <1>9, <1>10, <1>11, <1>13, <1>14, <1>15 DEF IndInv, Typing

(* A process that dies leaves the store as it is, reservations included.   *)
LEMMA DiesStep ==
  ASSUME IndInv, Dies, UNCHANGED <<store, outside>>, JournalOK'
  PROVE  IndInv'
<1>1. phase' = "down" /\ calls' = [h \in Handlers |-> Idle]
  BY DEF Dies
<1>2. \A h \in Handlers : calls'[h] = Idle
  BY <1>1
<1>3. FrameTyped(Idle, revision') /\ Idle.at = "idle" /\ Idle.pc = "ret"
  BY IdleTyped DEF store
<1>4. StoreTyped'
  BY DEF IndInv, Typing, StoreTyped, store
<1>5. WorkTyped'
  BY DEF IndInv, Typing, WorkTyped, store, outside
<1>6. CallsTyped'
  <2>1. calls' = [h \in Handlers |-> calls'[h]]
    BY <1>1
  <2> QED
    BY <1>1, <1>2, <1>3, <2>1, Actors DEF CallsTyped
<1>7. OwnersReserved'
  BY <1>2, <1>3 DEF OwnersReserved, Owns
<1>8. Reservations'
  BY <1>1, <1>7 DEF IndInv, Reservations, ReservedOwned, AtMostOnce, store, outside
<1>9. Authority'
  BY <1>2, <1>3 DEF Authority, Authorised
<1>10. RunsOK'
  BY DEF IndInv, RunsOK, RunsTrue, Clear, Quiet, store, outside
<1> QED
  BY <1>4, <1>5, <1>6, <1>8, <1>9, <1>10 DEF IndInv, Typing

(* The invariant through the end of the process.                         *)
LEMMA CrashStep ==
  ASSUME IndInv, Crash
  PROVE  IndInv'
<1>1. Dies /\ UNCHANGED <<store, log, outside>>
  BY DEF Crash
<1>2. JournalOK'
  <2>1. \A c \in Commands : calls'[c].pc = "ret"
    BY <1>1, Actors, IdleTyped DEF Dies
  <2> QED
    BY <1>1, <2>1 DEF IndInv, JournalOK, log, store
<1> QED
  BY <1>1, <1>2, DiesStep

(* The invariant when the process ends with the command saved and nothing done. *)
LEMMA CrashInIngestStep ==
  ASSUME IndInv, NEW c \in Commands, NEW t \in Tasks, NEW op \in Script(c), CrashInIngest(c, op, t)
  PROVE  IndInv'
<1>1. Received(c, op, t) /\ Dies /\ UNCHANGED <<store, outside>>
  BY DEF CrashInIngest
<1>2. \A d \in Commands : calls'[d].pc = "ret"
  BY <1>1, Actors, IdleTyped DEF Dies
<1>3. StoreTyped'
  BY <1>1 DEF IndInv, Typing, StoreTyped, store
<1>4. \A u \in Tasks : revision[u] <= revision'[u]
  BY <1>1 DEF IndInv, Typing, StoreTyped, store
<1>5. JournalOK'
  BY <1>1, <1>2, <1>3, <1>4, ReceivedOK
<1> QED
  BY <1>1, <1>5, DiesStep

(* After a start no reservation is left, and no call to own one.           *)
LEMMA RecoverStartStep ==
  ASSUME IndInv, RecoverStart
  PROVE  IndInv'
<1> DEFINE g == AtNewStage("replay", {})
<1>1. /\ phase = "down" /\ phase' = "recovering"
      /\ admissions' = [t \in Tasks |-> [r \in Revisions |-> Interrupted(admissions[t][r])]]
      /\ calls' = [calls EXCEPT ![Loop] = g]
      /\ UNCHANGED <<revision, grants, control, runs, childStops, effects, log, outside>>
  BY DEF RecoverStart, Stage, AtNewStage
<1>2. FrameTyped(g, revision) /\ g.pc = "ret"
  <2>1. g.at = "replay" /\ "replay" \in Places
    BY IdleTyped DEF AtNewStage, Frames, Places
  <2>2. ListOK(g, revision)
    <3> HIDE DEF g
    <3> QED
      BY <2>1 DEF ListOK
  <2> QED
    BY <2>1, <2>2, StageTyped
<1> HIDE DEF g
<1>3. \A h \in Handlers : calls[h] = Idle
  BY <1>1 DEF IndInv, Typing, CallsTyped
<1>4. \A h \in Handlers : calls'[h] = IF h = Loop THEN g ELSE Idle
  BY <1>1, <1>3 DEF IndInv, Typing, CallsTyped
<1>5. \A h \in Handlers : FrameTyped(calls'[h], revision') /\ calls'[h].pc = "ret"
  BY <1>1, <1>2, <1>4, IdleTyped
<1>6. \A t \in Tasks, r \in Revisions :
        /\ admissions'[t][r] \in AdmissionStates
        /\ admissions'[t][r].state =
              IF admissions[t][r].state = "reserved" THEN "unknown" ELSE admissions[t][r].state
  <2> TAKE t \in Tasks, r \in Revisions
  <2>1. admissions[t][r] \in AdmissionStates /\ admissions'[t][r] = Interrupted(admissions[t][r])
    BY <1>1 DEF IndInv, Typing, WorkTyped, AdmissionStates
  <2> QED
    BY <2>1 DEF Interrupted, AdmissionStates
<1>7. StoreTyped'
  BY <1>1 DEF IndInv, Typing, StoreTyped
<1>8. WorkTyped'
  <2>1. admissions' \in [Tasks -> [Revisions -> AdmissionStates]]
    <3> DEFINE new(t) == [r \in Revisions |-> Interrupted(admissions[t][r])]
    <3>1. \A t \in Tasks : admissions'[t] = new(t)
      BY <1>1
    <3>2. \A t \in Tasks : new(t) \in [Revisions -> AdmissionStates]
      BY <1>6, <3>1
    <3>3. admissions' = [t \in Tasks |-> new(t)]
      BY <1>1
    <3> QED
      BY <3>2, <3>3
  <2> QED
    BY <1>1, <2>1 DEF IndInv, Typing, WorkTyped, outside, AdmissionStates
<1>9. CallsTyped'
  <2>1. calls' = [h \in Handlers |-> calls'[h]]
    BY <1>1 DEF IndInv, Typing, CallsTyped
  <2>2. calls'[Maintenance].at = "idle"
    BY <1>4, Actors, IdleTyped
  <2> QED
    BY <1>1, <1>5, <2>1, <2>2 DEF CallsTyped
<1>10. JournalOK'
  BY <1>1, <1>5, Actors DEF IndInv, JournalOK, log
<1>11. OwnersReserved' /\ ReservedOwned'
  BY <1>5, <1>6 DEF OwnersReserved, ReservedOwned, Owns
<1>12. AtMostOnce'
  BY <1>1, <1>6 DEF IndInv, Reservations, AtMostOnce, outside
<1>13. Authority'
  BY <1>5 DEF Authority, Authorised
<1>14. RunsOK'
  <2>1. RunsTrue(runs)'
    BY <1>1, <1>6, RunsKept DEF RunsTrue, outside
  <2> QED
    BY <1>1, <2>1 DEF IndInv, RunsOK, Clear, Quiet, outside
<1> QED
  BY <1>7, <1>8, <1>9, <1>10, <1>11, <1>12, <1>13, <1>14 DEF IndInv, Typing, Reservations

-----------------------------------------------------------------------------
(* The inductive invariant                                                 *)

(* The invariant holds of an empty store in a process not started.       *)
LEMMA InitIndInv == Init => IndInv
<1> SUFFICES ASSUME Init PROVE IndInv
  OBVIOUS
<1> USE DEF Init
<1>1. StoreTyped
  <2>1. <<>> \in Seq(GrantRecords)
    OBVIOUS
  <2> QED
    BY <2>1, ControllerAssumption DEF StoreTyped
<1>2. WorkTyped
  BY NoTokenTyped DEF WorkTyped
<1>3. FrameTyped(Idle, revision) /\ Idle.at = "idle" /\ Idle.pc = "ret"
  BY IdleTyped
<1>4. \A h \in Handlers : calls[h] = Idle
  OBVIOUS
<1>5. CallsTyped
  BY <1>3, <1>4, Actors DEF CallsTyped
<1>6. JournalOK
  BY <1>3, <1>4, Actors DEF JournalOK
<1>7. Reservations
  BY <1>3, <1>4 DEF Reservations, OwnersReserved, ReservedOwned, AtMostOnce, Owns
<1>8. Authority
  BY <1>3, <1>4 DEF Authority, Authorised
<1>9. RunsOK
  BY DEF RunsOK, RunsTrue
<1> QED
  BY <1>1, <1>2, <1>5, <1>6, <1>7, <1>8, <1>9 DEF IndInv, Typing

(* The invariant is about the variables only.                            *)
LEMMA StutteringStep == IndInv /\ UNCHANGED vars => IndInv'
<1> SUFFICES ASSUME IndInv, UNCHANGED vars PROVE IndInv'
  OBVIOUS
<1>1. UNCHANGED <<revision, grants, control, admissions, runs, childStops, effects>>
  BY DEF vars, store
<1>2. UNCHANGED <<log, calls, process, requested, engine>>
  BY DEF vars, outside
<1>3. QuietKept
  BY <1>1, <1>2 DEF QuietKept, Quiet
<1> QED
  BY <1>1, <1>2, <1>3, OutsideStep DEF IndInv, Typing, WorkTyped, RunsOK

(* The invariant through every action of a call.                         *)
LEMMA CallStep ==
  ASSUME IndInv, NEW h \in Handlers, Call(h)
  PROVE  IndInv'
<1>1. CASE \E fails, changed \in BOOLEAN : PrepareReturns(h, fails, changed)
  BY <1>1, PrepareReturnsStep
<1>2. CASE \E fails \in BOOLEAN : InputReturns(h, fails)
  BY <1>2, InputReturnsStep
<1>3. CASE \E s \in SnapshotStates : SubmitReturns(h, s)
  BY <1>3, SubmitReturnsStep
<1>4. CASE \E s \in SnapshotStates : UndoReturns(h, s)
  BY <1>4, UndoReturnsStep
<1>5. CASE SubmitFails(h)
  BY <1>5, SubmitFailsStep
<1>6. CASE \E settled \in BOOLEAN : StopReturns(h, settled)
  BY <1>6, StopReturnsStep
<1>7. CASE \E settled \in BOOLEAN : CancelStopReturns(h, settled)
  BY <1>7, CancelStopReturnsStep
<1>8. CASE \E settled \in BOOLEAN : CorrectStopReturns(h, settled)
  BY <1>8, CorrectStopReturnsStep
<1>9. CASE \E s \in SnapshotStates : CancelOldReturns(h, s)
  BY <1>9, CancelOldReturnsStep
<1>10. CASE \E s \in SnapshotStates, r \in Revisions : CancelRunReturns(h, r, s)
  BY <1>10, CancelRunReturnsStep
<1>11. CASE CancelOldFails(h)
  BY <1>11, CancelOldFailsStep
<1> QED
  BY <1>1, <1>2, <1>3, <1>4, <1>5, <1>6, <1>7, <1>8, <1>9, <1>10, <1>11, Zenon
  DEF Call, Admission, Stopping

(* The invariant through every action of the main loop.                  *)
LEMMA MainLoopStep ==
  ASSUME IndInv, MainLoop
  PROVE  IndInv'
<1>1. CASE NextStage
  BY <1>1, NextStageStep
<1>2. CASE RecoverStart
  BY <1>2, RecoverStartStep
<1>3. CASE \E c \in Commands : Replay(c)
  BY <1>3, ReplayStep
<1>4. CASE \E c \in Commands : Replayed(c)
  BY <1>4, ReplayedStep
<1>5. CASE \E x \in Tasks \X Revisions : \E s \in SnapshotStates : InspectReturns(x, s)
  BY <1>5, InspectReturnsStep
<1>6. CASE \E x \in Tasks \X Revisions : StopAgain(x)
  BY <1>6, StopAgainStep
<1>7. CASE \E x \in Main.todo : AtStage("readmit") /\ Readmit(x)
  BY <1>7, ReadmitStep
<1>8. CASE \E t \in Tasks : Resume(t)
  BY <1>8, ResumeStep
<1>9. CASE \E x \in Main.todo : AtStage("deliver") /\ Deliver(x)
  BY <1>9, DeliverStep
<1> QED
  BY <1>1, <1>2, <1>3, <1>4, <1>5, <1>6, <1>7, <1>8, <1>9, Zenon DEF MainLoop

(* The invariant through every action of engine, model and process.      *)
LEMMA OutsideSteps ==
  ASSUME IndInv, Outside
  PROVE  IndInv'
<1>1. CASE \E t \in Tasks, r \in Revisions : EngineAccepts(t, r)
  BY <1>1, EngineAcceptsStep
<1>2. CASE \E t \in Tasks, r \in Revisions : ToolEffect(t, r)
  BY <1>2, ToolEffectStep
<1>3. CASE \E t \in Tasks, r \in Revisions : EffectSettles(t, r)
  BY <1>3, EffectSettlesStep
<1>4. CASE \E t \in Tasks, r \in Revisions : \E how \in Ends : EngineEnds(t, r, how)
  BY <1>4, EngineEndsStep
<1>5. CASE Crash
  BY <1>5, CrashStep
<1>6. CASE \E c \in Commands, t \in Tasks : \E op \in Script(c) : CrashInIngest(c, op, t)
  BY <1>6, CrashInIngestStep
<1> QED
  BY <1>1, <1>2, <1>3, <1>4, <1>5, <1>6, Zenon DEF Outside

(* Every step of the controller keeps the invariant.                     *)
LEMMA NextIndInv == IndInv /\ [Next]_vars => IndInv'
<1> SUFFICES ASSUME IndInv, [Next]_vars PROVE IndInv'
  OBVIOUS
<1>1. CASE \E h \in Handlers : Call(h)
  BY <1>1, CallStep
<1>2. CASE \E c \in Commands : Ingested(c)
  BY <1>2, IngestedStep
<1>3. CASE MainLoop
  BY <1>3, MainLoopStep
<1>4. CASE Host
  <2>1. CASE HostEnds
    BY <2>1, HostEndsStep
  <2>2. CASE \E t \in Maintained : RefreshContext(t)
    BY <2>2, RefreshContextStep
  <2> QED
    BY <1>4, <2>1, <2>2 DEF Host
<1>5. CASE Owner
  BY <1>5, IngestStep DEF Owner
<1>6. CASE Outside
  BY <1>6, OutsideSteps
<1>7. CASE UNCHANGED vars
  BY <1>7, StutteringStep
<1> QED
  BY <1>1, <1>2, <1>3, <1>4, <1>5, <1>6, <1>7, Zenon DEF Next

(* The invariant holds of every state that the controller reaches.         *)
THEOREM IndInvariant == Spec => []IndInv
<1>1. Init => IndInv
  BY InitIndInv
<1>2. IndInv /\ [Next]_vars => IndInv'
  BY NextIndInv
<1> QED
  BY <1>1, <1>2, PTL DEF Spec

-----------------------------------------------------------------------------
(* What follows from it                                                    *)

(* Every variable of the controller keeps its type, and a call in an await *)
(* works for a revision that exists.                                       *)
THEOREM TypesHold == Spec => []TypeOK
<1>1. ASSUME IndInv PROVE TypeOK
  <2> USE <1>1
  <2>1. \A t \in Tasks : \A i \in 1..Len(grants[t]) : grants[t][i] \in GrantRecords
    BY ElementOfSeq DEF IndInv, Typing, StoreTyped
  <2>2. ASSUME NEW h \in Handlers PROVE FrameOK(calls[h])
    <3>1. PICK f : f = calls[h]
      OBVIOUS
    <3>2. FrameTyped(f, revision)
      BY <3>1 DEF IndInv, Typing, CallsTyped
    <3> QED
      BY <3>1, <3>2 DEF FrameTyped, Frames, FrameOK, Exists
  <2> QED
    BY <2>1, <2>2 DEF TypeOK, IndInv, Typing, StoreTyped, WorkTyped, CallsTyped
<1> QED
  BY <1>1, IndInvariant, PTL

(* The engine never has two live runs of one task: a revision is submitted *)
(* only when the runs of the earlier ones are over, and stay so.           *)
THEOREM NeverTwoLiveRuns == Spec => []OneLiveRun
<1>1. ASSUME IndInv PROVE OneLiveRun
  <2> SUFFICES ASSUME NEW t \in Tasks, NEW q \in Revisions, NEW r \in Revisions,
                      engine[t][q] = "live", engine[t][r] = "live", q < r
               PROVE  FALSE
    BY DEF OneLiveRun, Revisions
  <2>1. Clear(t, r)
    BY <1>1 DEF IndInv, RunsOK
  <2>2. q \in 1..(r - 1)
    BY DEF Revisions
  <2> QED
    BY <2>1, <2>2 DEF Clear, Quiet
<1> QED
  BY <1>1, IndInvariant, PTL

(* engine.submit is called at most once for a revision, also by a replayed *)
(* command and after a crash between the reservation and the answer.       *)
THEOREM NeverSubmittedTwice == Spec => []SubmittedOnce
<1>1. IndInv => SubmittedOnce
  BY DEF IndInv, Reservations, AtMostOnce, SubmittedOnce
<1> QED
  BY <1>1, IndInvariant, PTL

(* In a process that is up, every reserved admission has a call that is    *)
(* going to submit or to give it up.                                       *)
THEOREM NoReservationIsOrphaned == Spec => []ReservationsAreOwned
<1>1. IndInv => ReservationsAreOwned
  BY DEF IndInv, Reservations, ReservedOwned, ReservationsAreOwned, Owns
<1> QED
  BY <1>1, IndInvariant, PTL

(* The only step that submits is the end of the awaits of admit, after the *)
(* token was resolved once more.                                           *)
LEMMA OnlyAdmitSubmits ==
  ASSUME IndInv, [Next]_vars, NEW t \in Tasks, NEW r \in Revisions, Submits(t, r)
  PROVE  /\ revision[t] = r /\ control[t] = "none" /\ ~Revoked(t) /\ Clear(t, r)
<1>1. ~UNCHANGED requested
  BY DEF Submits
<1>2. PICK h \in Handlers, fails \in BOOLEAN : InputReturns(h, fails)
  <2>1. ~UNCHANGED vars
    BY <1>1 DEF vars, outside
  <2>2. ASSUME NEW h \in Handlers, Call(h) PROVE \E fails \in BOOLEAN : InputReturns(h, fails)
    BY <1>1, <2>2 DEF Call, Admission, Stopping, PrepareReturns, SubmitReturns, SubmitFails,
       UndoReturns, StopReturns, CancelStopReturns, CancelRunReturns, CorrectStopReturns,
       CancelOldReturns, CancelOldFails, outside
  <2>3. ~MainLoop
    BY <1>1 DEF MainLoop, NextStage, RecoverStart, Replay, Replayed, InspectReturns, StopAgain,
       Readmit, Resume, Deliver, processObservation, outside
  <2>4. ~Host /\ ~Owner /\ ~\E c \in Commands : Ingested(c)
    BY <1>1 DEF Host, HostEnds, RefreshContext, Owner, Ingest, Ingested, processObservation, outside
  <2>5. ~Outside
    BY <1>1 DEF Outside, EngineAccepts, EngineEnds, ToolEffect, EffectSettles, Crash,
       CrashInIngest, outside
  <2> QED
    BY <2>1, <2>2, <2>3, <2>4, <2>5, Zenon DEF Next
<1>3. PICK u, q : u = calls[h].task /\ q = calls[h].revision
  OBVIOUS
<1>4. /\ calls[h].pc = "input" /\ stillAuthorised(u, q, calls[h].token)
      /\ requested' = [requested EXCEPT ![u][q] = @ + 1]
  BY <1>1, <1>2, <1>3, Zenon DEF InputReturns
<1>5. u \in Tasks /\ q \in Revisions /\ revision[u] = q /\ control[u] = "none" /\ ~Revoked(u)
      /\ Clear(u, q)
  BY <1>3, <1>4, SubmitsUnderAuthority
<1>6. u = t /\ q = r
  BY <1>4 DEF Submits, IndInv, Typing, WorkTyped
<1> QED
  BY <1>5, <1>6

(* A run starts only for the current revision of a task that is neither    *)
(* cancelled nor held, with a grant that is not revoked, although two      *)
(* awaits lie between admit's decision and the call of engine.submit.      *)
THEOREM RunsStartUnderAuthority == Spec => SubmitUnderAuthority
<1>1. ASSUME IndInv, [Next]_vars
      PROVE  \A t \in Tasks, r \in Revisions :
               Submits(t, r) => revision[t] = r /\ control[t] = "none" /\ ~Revoked(t)
  BY <1>1, OnlyAdmitSubmits
<1> QED
  BY <1>1, IndInvariant, PTL DEF Spec, SubmitUnderAuthority

(* A revision is submitted only when the earlier ones have left neither a  *)
(* run that the engine has or may still accept, nor an open effect.        *)
THEOREM SuccessorsStartAlone == Spec => SuccessorStartsAlone
<1>1. ASSUME IndInv, [Next]_vars
      PROVE  \A t \in Tasks, r \in Revisions :
               Submits(t, r) =>
                 \A q \in 1..(r - 1) :
                   /\ engine[t][q] # "live"
                   /\ engine[t][q] = "absent" => requested[t][q] = 0
                   /\ effects[t][q] # "open"
  BY <1>1, OnlyAdmitSubmits DEF Clear, Quiet
<1> QED
  BY <1>1, IndInvariant, PTL DEF Spec, SuccessorStartsAlone
=============================================================================
