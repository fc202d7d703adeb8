------------------------- MODULE HistoryWaveProofs --------------------------
(***************************************************************************)
(* Theorems about the parallel waves of a history analysis, for every      *)
(* number of leaves, width of a wave, number of attempts and epochs: one   *)
(* turn for a leaf at a time, a bounded spend, and outputs accepted once   *)
(* and published in the order of the leaves.                               *)
(***************************************************************************)
EXTENDS HistoryWave, SequenceTheorems, WellFoundedInduction, TLAPS

(* The types.  A wave is a function on the ordinals.                       *)
LaneRecords == [pc : {"none", "begin", "turn", "finish", "record", "release", "done"},
                commit : {"none", "started", "ended"}, outcome : Outcomes, released : BOOLEAN]
StepRecords == [pc : Stops, epoch : 0..MaxEpochs, retry : 0..Width,
                abort : BOOLEAN, broken : BOOLEAN, warm : BOOLEAN]
Turns == (1..Leaves) \X Epochs
TreeTypes == /\ tree \in Seq(Outputs)
             /\ works = <<>> \/ works \in [Ordinals -> Work]
             /\ nodeCount \in 0..Leaves
StoreTypes == tail \in {"ready", "refused", "torn"} /\ control \in {"queued", "cancelled"}
StepTypes == step \in StepRecords /\ lane \in [Ordinals -> LaneRecords] /\ fresh \subseteq Ordinals
NativeTypes == /\ released \subseteq Turns /\ owner \in [Epochs -> {"none", "live", "settled"}]
               /\ running \subseteq Turns /\ turns \in [1..Leaves -> Nat]
GhostTypes == accepted \in [1..Leaves -> SUBSET Outputs] /\ late \in 0..1 /\ faults \in 0..MaxFaults
              /\ (control = "queued" => late = 0)
Types == TreeTypes /\ StoreTypes /\ StepTypes /\ NativeTypes /\ GhostTypes

(* The wave and the tree: whole waves before this one, and of this one the *)
(* nodes of a prefix; none of them before every work has an output.        *)
NodesOK ==
  /\ \E q \in Nat : nodeCount = q * Width
  /\ works = <<>> => nodeCount = 0 /\ Len(tree) = 0
  /\ works # <<>> => /\ nodeCount + Width <= Leaves
                     /\ nodeCount <= Len(tree) /\ Len(tree) <= nodeCount + Width
                     /\ \A o \in Ordinals : IF works[o].node THEN leafOf(o) <= Len(tree) ELSE Len(tree) <= leafOf(o)
                     /\ \A o \in Ordinals : works[o].out = 0 => /\ Len(tree) = nodeCount
                                                                /\ \A p \in Ordinals : ~works[p].node

(* One output for a work, one turn for an attempt, nothing ahead of the    *)
(* wave.                                                                   *)
WorksOK ==
  /\ works # <<>> => \A o \in Ordinals :
       /\ IF works[o].out = 0 THEN accepted[leafOf(o)] = {} ELSE <<leafOf(o), works[o].out>> \in accepted[leafOf(o)]
       /\ turns[leafOf(o)] <= works[o].prior + 1
  /\ \A l \in 1..Leaves :
       /\ turns[l] <= MaxNoOutput
       /\ (works = <<>> \/ l > nodeCount + Width) => accepted[l] = {} /\ turns[l] = 0

(* A turn that runs is the current attempt of a leaf not yet published,    *)
(* under an owner that lives; a turn that was released has ended.          *)
RunningOK == \A t \in running :
  /\ owner[t[2]] = "live" /\ t[1] > Len(tree)
  /\ works # <<>> /\ \E o \in Ordinals : t = <<leafOf(o), works[o].epoch>>
ReleasedOK == \A r \in released :
  /\ owner[r[2]] # "none" /\ r \notin running
  /\ works # <<>> /\ r[1] <= nodeCount + Width

(* What the step may rely on before its turns.                             *)
BeforeTurns ==
  /\ step.pc = "idle" => step.retry = 0
  /\ step.pc \in {"acquire", "settle", "reserve"} =>
       IF step.retry = 0 THEN unprojected = {} /\ Len(tree) < Leaves
       ELSE works # <<>> /\ works[step.retry].out = 0 /\ works[step.retry].prior + 1 < MaxNoOutput
  /\ step.pc \in {"settle", "reserve", "turns", "join", "cleanup"} => step.epoch \in Epochs
  /\ step.pc \in {"settle", "reserve", "turns", "join"} => owner[step.epoch] = "live"
  /\ step.pc \in {"settle", "reserve"} /\ step.retry # 0 => \A r \in released : r[2] # step.epoch
  /\ step.pc = "reserve" /\ step.retry # 0 => owner[works[step.retry].epoch] = "settled"

(* A lane in the turns.                                                    *)
LaneOK(o) ==
  /\ (lane[o].pc # "none" \/ lane[o].commit # "none") => begins(o)
  /\ begins(o) => works[o].epoch = step.epoch
  /\ begins(o) /\ lane[o].commit # "ended" => works[o].out = 0
  /\ lane[o].pc = "begin" => native_turn(o) \notin released /\ turns[leafOf(o)] <= works[o].prior
  /\ lane[o].pc \in {"finish", "record", "release"} /\ lane[o].outcome = "observed" => native_turn(o) \notin running
  /\ lane[o].pc = "release" => lane[o].outcome = "observed"
TurnsOK == step.pc = "turns" => works # <<>> /\ Len(tree) = nodeCount /\ \A o \in Ordinals : LaneOK(o)

(* What the projection may rely on.                                        *)
ProjectionOK ==
  /\ step.pc \in {"outcome", "select", "verify", "intent", "append", "appending", "node"} => missing = {}
  /\ step.pc \in {"verify", "intent", "append", "appending", "node"} => unprojected # {}
  /\ step.pc \in {"intent", "append", "appending", "node"} => \A t \in running : t[1] # leafOf(current)
  /\ step.pc = "appending" => isNew /\ late = 0
  /\ step.pc = "node" => leafOf(current) <= Len(tree)

IndInv == /\ Types /\ NodesOK /\ WorksOK /\ RunningOK /\ ReleasedOK /\ BeforeTurns /\ TurnsOK /\ ProjectionOK

-----------------------------------------------------------------------------
(* Numbers                                                                 *)

NatLess == {ss \in Nat \X Nat : ss[1] < ss[2]}

(* Min is the least element of a set of numbers.                           *)
LEMMA Least ==
  ASSUME NEW S \in SUBSET Nat, S # {}
  PROVE  Min(S) \in S /\ \A y \in S : Min(S) <= y
<1>1. IsWellFoundedOn(NatLess, Nat)
  BY NatLessThanWellFounded DEF NatLess, OpToRel
<1>2. PICK x \in S : \A y \in S : ~(<<y, x>> \in NatLess)
  BY <1>1, WFMin
<1>3. ASSUME NEW y \in S PROVE x <= y
  <2>1. x \in Nat /\ y \in Nat /\ (y < x => <<y, x>> \in NatLess)
    BY DEF NatLess
  <2> QED
    BY <1>2, <2>1
<1> QED
  BY <1>2, <1>3 DEF Min

(* A whole number of waves below Leaves leaves room for one more.          *)
LEMMA RoomForAWave ==
  ASSUME WaveAssumption, NEW q \in Nat, q * Width < Leaves
  PROVE  q * Width + Width <= Leaves
<1>0. Leaves \in Nat \ {0} /\ Width \in Nat \ {0} /\ Leaves % Width = 0
  BY DEF WaveAssumption
<1> DEFINE p == Leaves \div Width
<1>1. p \in Int /\ Leaves = (Width * p) + (Leaves % Width)
  BY <1>0
<1>2. Leaves = p * Width
  BY <1>0, <1>1
<1> HIDE DEF p
<1>3. q < p
  <2>1. CASE q >= p
    <3>1. q * Width >= p * Width
      BY <1>0, <1>1, <2>1
    <3> QED
      BY <3>1, <1>0, <1>1, <1>2
  <2> QED
    BY <2>1, <1>1
<1>4. (q + 1) * Width <= p * Width
  BY <1>0, <1>1, <1>3
<1> QED
  BY <1>0, <1>1, <1>2, <1>4

(* What the assumption says of each constant.                            *)
LEMMA Constants ==
  ASSUME WaveAssumption
  PROVE  /\ Leaves \in Nat \ {0} /\ Width \in Nat \ {0} /\ MaxNoOutput \in Nat \ {0}
         /\ MaxEpochs \in Nat \ {0} /\ MaxFaults \in Nat
         /\ Ordinals \subseteq Nat \ {0} /\ 1 \in Ordinals /\ 0 \notin Ordinals /\ 0 \notin Epochs
         /\ Epochs \subseteq Nat
BY DEF WaveAssumption, Ordinals, Epochs

-----------------------------------------------------------------------------
(* The wave                                                                *)

(* Of a wave, the lists of its works are sets of ordinals.               *)
LEMMA Wave ==
  ASSUME TreeTypes, works # <<>>
  PROVE  /\ works \in [Ordinals -> Work]
         /\ unprojected = {o \in Ordinals : ~works[o].node} /\ missing = {o \in Ordinals : works[o].out = 0}
         /\ refusals = {o \in Ordinals : works[o].outcome = "refused"}
         /\ withoutOutcome = {o \in Ordinals : works[o].outcome = "none"}
BY DEF TreeTypes, unprojected, missing, refusals, withoutOutcome

(* Without a wave the lists are empty.                                   *)
LEMMA NoWave ==
  ASSUME works = <<>>
  PROVE  unprojected = {} /\ missing = {} /\ withoutOutcome = {}
BY DEF unprojected, missing, withoutOutcome

(* A wave is not empty.                                                  *)
LEMMA AWave ==
  ASSUME WaveAssumption, NEW f \in [Ordinals -> Work]
  PROVE  f # <<>>
<1>1. DOMAIN f # {}
  BY Constants
<1> QED
  BY <1>1

(* The types of a work's fields.                                         *)
LEMMA WorkFields ==
  ASSUME NEW w \in Work
  PROVE  /\ w.out \in 0..MaxEpochs /\ w.outcome \in Outcomes /\ w.prior \in 0..(MaxNoOutput - 1)
         /\ w.epoch \in Epochs /\ w.past \in SUBSET Epochs
BY DEF Work

(* Writing one field of a work leaves the others alone.                    *)
LEMMA OneField ==
  ASSUME NEW w \in Work
  PROVE  /\ \A v \in Outcomes : LET x == [w EXCEPT !.outcome = v] IN
              x \in Work /\ x.out = w.out /\ x.prior = w.prior /\ x.epoch = w.epoch /\ (x.node <=> w.node)
         /\ \A v \in 0..MaxEpochs : LET x == [w EXCEPT !.out = v] IN
              x \in Work /\ x.out = v /\ x.prior = w.prior /\ x.epoch = w.epoch /\ (x.node <=> w.node)
         /\ LET x == [w EXCEPT !.proj = TRUE] IN
              x \in Work /\ x.out = w.out /\ x.prior = w.prior /\ x.epoch = w.epoch /\ (x.node <=> w.node)
         /\ LET x == [w EXCEPT !.node = TRUE] IN
              x \in Work /\ x.out = w.out /\ x.prior = w.prior /\ x.epoch = w.epoch /\ x.node
BY DEF Work

(* The journal holds what it held or what was appended to it.              *)
LEMMA Written ==
  ASSUME Types, WaveAssumption, NEW new, append(new) \/ appendFails(new)
  PROVE  works' \in {works, new} /\ tail' \in {"ready", "refused", "torn"} /\ faults' \in 0..MaxFaults
<1>1. tail \in {"ready", "refused", "torn"} /\ faults \in 0..MaxFaults /\ MaxFaults \in Nat
  BY Constants DEF Types, StoreTypes, GhostTypes
<1> QED
  BY <1>1 DEF append, appendFails, fine, fault

(* Faults stay within their bound.                                       *)
LEMMA FaultsAreBounded ==
  ASSUME Types, WaveAssumption, fine \/ fault
  PROVE  faults' \in 0..MaxFaults
BY Constants DEF fine, fault, Types, GhostTypes

(* Writing one work leaves the others alone.                             *)
LEMMA OneWork ==
  ASSUME WaveAssumption, works \in [Ordinals -> Work], NEW o \in Ordinals, NEW w \in Work,
         works' \in {works, [works EXCEPT ![o] = w]}
  PROVE  /\ works' \in [Ordinals -> Work] /\ works' # <<>> /\ works # <<>>
         /\ works'[o] \in {works[o], w} /\ \A p \in Ordinals \ {o} : works'[p] = works[p]
<1>1. works' \in [Ordinals -> Work]
  OBVIOUS
<1> QED
  BY <1>1, AWave

-----------------------------------------------------------------------------
(* The step and its lanes                                                  *)

(* The types of the step's fields.                                       *)
LEMMA StepFields ==
  ASSUME NEW s \in StepRecords
  PROVE  s.pc \in Stops /\ s.epoch \in 0..MaxEpochs /\ s.retry \in 0..Width
BY DEF StepRecords

(* Going to another place changes nothing else of the step.              *)
LEMMA Goto ==
  ASSUME step \in StepRecords, NEW pc \in Stops, goto(pc)
  PROVE  /\ step' \in StepRecords /\ step'.pc = pc /\ step'.epoch = step.epoch /\ step'.retry = step.retry
         /\ step'.warm <=> step.warm
BY DEF StepRecords, goto

(* A step that throws goes to the cleanup.                               *)
LEMMA Throws ==
  ASSUME step \in StepRecords, throws
  PROVE  step' \in StepRecords /\ step'.pc = "cleanup" /\ step'.epoch = step.epoch /\ step'.retry = step.retry
BY DEF StepRecords, throws, Stops

(* A step that is forgotten is idle.                                     *)
LEMMA Forgotten ==
  ASSUME WaveAssumption, step' = NoStep
  PROVE  step' \in StepRecords /\ step'.pc = "idle" /\ step'.retry = 0
BY Constants DEF StepRecords, NoStep, Stops

(* The types of a lane's fields.                                         *)
LEMMA LaneFields ==
  ASSUME NEW l \in LaneRecords
  PROVE  /\ l.pc \in {"none", "begin", "turn", "finish", "record", "release", "done"}
         /\ l.commit \in {"none", "started", "ended"} /\ l.outcome \in Outcomes
BY DEF LaneRecords

(* The empty lane is a lane.                                             *)
LEMMA NoLaneIsALane == NoLane \in LaneRecords /\ NoLane.pc = "none" /\ NoLane.commit = "none"
BY DEF NoLane, LaneRecords, Outcomes

(* Writing one lane leaves the others alone.                             *)
LEMMA OneLane ==
  ASSUME lane \in [Ordinals -> LaneRecords], NEW o \in Ordinals, NEW l \in LaneRecords, lane' = [lane EXCEPT ![o] = l]
  PROVE  lane' \in [Ordinals -> LaneRecords] /\ lane'[o] = l /\ \A p \in Ordinals \ {o} : lane'[p] = lane[p]
<1> HIDE DEF LaneRecords
<1> QED
  OBVIOUS

(* The steps that touch neither the stores nor the turns.                  *)
LEMMA Quiet ==
  ASSUME IndInv, UNCHANGED <<tree, works, nodeCount, native, released, accepted>>
  PROVE  NodesOK' /\ WorksOK' /\ RunningOK' /\ ReleasedOK'
<1> USE DEF IndInv, native
<1>1. NodesOK'
  BY DEF NodesOK, leafOf
<1>2. WorksOK'
  BY DEF WorksOK, leafOf
<1>3. RunningOK'
  BY DEF RunningOK, leafOf
<1>4. ReleasedOK'
  BY DEF ReleasedOK
<1> QED
  BY <1>1, <1>2, <1>3, <1>4

(* The lists follow from the wave alone.                                 *)
LEMMA SameLists ==
  ASSUME UNCHANGED <<works, nodeCount>>
  PROVE  unprojected' = unprojected /\ missing' = missing /\ current' = current
<1>1. unprojected' = unprojected /\ missing' = missing
  BY DEF unprojected, missing
<1> QED
  BY <1>1 DEF current

-----------------------------------------------------------------------------
(* The steps before the turns                                              *)

(* What is known when a step has nothing left to project.                  *)
LEMMA Quiescent ==
  ASSUME IndInv, WaveAssumption, unprojected = {}
  PROVE  /\ running = {}
         /\ works # <<>> => Len(tree) = nodeCount + Width
         /\ \A l \in 1..Leaves : l > Len(tree) => accepted[l] = {} /\ turns[l] = 0
         /\ \A r \in released : r[1] <= Len(tree)
<1>1. CASE works = <<>>
  BY <1>1 DEF IndInv, RunningOK, WorksOK, ReleasedOK
<1>2. CASE works # <<>>
  <2>1. \A o \in Ordinals : works[o].node
    BY <1>2, Wave DEF IndInv, Types
  <2>2. Width \in Ordinals /\ Width \in Nat /\ nodeCount \in Nat /\ Len(tree) \in Nat
    BY Constants, LenProperties DEF Ordinals, IndInv, Types, TreeTypes
  <2>3. Len(tree) = nodeCount + Width
    BY <1>2, <2>1, <2>2 DEF IndInv, NodesOK, leafOf
  <2>4. running = {}
    <3> SUFFICES ASSUME NEW t \in running PROVE FALSE
      OBVIOUS
    <3>1. PICK o \in Ordinals : t = <<leafOf(o), works[o].epoch>> /\ t[1] > Len(tree)
      BY DEF IndInv, RunningOK
    <3>2. o <= Width /\ o \in Nat /\ t[1] = nodeCount + o
      BY <3>1, Constants DEF Ordinals, leafOf
    <3> QED
      BY <3>1, <3>2, <2>2, <2>3
  <2> QED
    BY <1>2, <2>2, <2>3, <2>4 DEF IndInv, WorksOK, ReleasedOK
<1> QED
  BY <1>1, <1>2

(* The step looks at the journal for what to do.                           *)
LEMMA NextStep ==
  ASSUME IndInv, WaveAssumption, next
  PROVE  IndInv'
<1>1. step \in StepRecords /\ step.pc = "idle" /\ step.retry = 0
  BY DEF IndInv, Types, StepTypes, next, BeforeTurns
<1>2. UNCHANGED <<tree, works, nodeCount, tail, control, lane, fresh, released, owner, running, turns, accepted, late, faults>>
  BY DEF next, disk, native, ghosts, fine
<1>3. NodesOK' /\ WorksOK' /\ RunningOK' /\ ReleasedOK'
  BY <1>2, Quiet DEF native
<1>4. unprojected' = unprojected /\ missing' = missing
  BY <1>2, SameLists
<1>5. \/ leafWave /\ goto("acquire")
      \/ unprojected # {} /\ retries /\ step' = [step EXCEPT !.pc = "acquire", !.retry = Min(missing)]
      \/ goto("project")
  BY DEF next
<1>6. step' \in StepRecords /\ BeforeTurns' /\ step'.pc \in {"acquire", "project"}
  <2>1. CASE leafWave /\ goto("acquire")
    <3>1. step' \in StepRecords /\ step'.pc = "acquire" /\ step'.retry = 0
      BY <1>1, <2>1, Goto DEF Stops
    <3> QED
      BY <3>1, <2>1, <1>2, <1>4 DEF BeforeTurns, leafWave
  <2>2. CASE unprojected # {} /\ retries /\ step' = [step EXCEPT !.pc = "acquire", !.retry = Min(missing)]
    <3>1. works # <<>> /\ missing = {o \in Ordinals : works[o].out = 0} /\ missing # {}
      BY <2>2, NoWave, Wave DEF IndInv, Types, retries
    <3>2. missing \in SUBSET Nat
      BY <3>1, Constants
    <3>3. Min(missing) \in missing
      BY <3>1, <3>2, Least
    <3> DEFINE m == Min(missing)
    <3>4. m \in Ordinals /\ works[m].out = 0 /\ retryable(works[m])
      BY <3>1, <3>3, <2>2 DEF retries
    <3> HIDE DEF m
    <3>5. m \in 0..Width /\ m # 0
      BY <3>4, Constants DEF Ordinals
    <3>6. step' = [step EXCEPT !.pc = "acquire", !.retry = m]
      BY <2>2 DEF m
    <3>7. step' \in StepRecords /\ step'.pc = "acquire" /\ step'.retry = m
      BY <1>1, <3>5, <3>6 DEF StepRecords, Stops
    <3>8. works[m].prior + 1 < MaxNoOutput
      BY <3>4 DEF retryable, noOutputCount, successorDebit
    <3> QED
      BY <3>1, <3>4, <3>5, <3>7, <3>8, <1>2 DEF BeforeTurns
  <2>3. CASE goto("project")
    <3>1. step' \in StepRecords /\ step'.pc = "project"
      BY <1>1, <2>3, Goto DEF Stops
    <3> QED
      BY <3>1 DEF BeforeTurns
  <2> QED
    BY <1>5, <2>1, <2>2, <2>3
<1>7. Types'
  BY <1>2, <1>6 DEF IndInv, Types, TreeTypes, StoreTypes, StepTypes, NativeTypes, GhostTypes
<1> QED
  BY <1>3, <1>6, <1>7 DEF IndInv, TurnsOK, ProjectionOK

(* The connection gives the step an owner.                                 *)
LEMMA AcquireStep ==
  ASSUME IndInv, WaveAssumption, acquire
  PROVE  IndInv'
<1>1. step \in StepRecords /\ step.pc = "acquire"
  BY DEF IndInv, Types, StepTypes, acquire
<1>2. UNCHANGED <<tree, works, nodeCount, tail, control, lane, fresh, released, running, turns, accepted, late>>
  BY DEF acquire, disk, native, ghosts
<1>3. unprojected' = unprojected
  BY <1>2, SameLists
<1>4. NodesOK' /\ WorksOK'
  BY <1>2 DEF IndInv, NodesOK, WorksOK, leafOf
<1>5. faults' \in 0..MaxFaults
  <2>1. fine \/ fault
    BY DEF acquire
  <2> QED
    BY <2>1, FaultsAreBounded DEF IndInv
<1>6. CASE goto("consumed") /\ UNCHANGED owner
  <2>1. step' \in StepRecords /\ step'.pc = "consumed"
    BY <1>1, <1>6, Goto DEF Stops
  <2>2. Types'
    BY <1>2, <1>5, <1>6, <2>1 DEF IndInv, Types, TreeTypes, StoreTypes, StepTypes, NativeTypes, GhostTypes
  <2>3. RunningOK' /\ ReleasedOK'
    BY <1>2, <1>6 DEF IndInv, RunningOK, ReleasedOK, leafOf
  <2> QED
    BY <1>4, <2>1, <2>2, <2>3 DEF IndInv, BeforeTurns, TurnsOK, ProjectionOK
<1>7. ASSUME NEW e \in Epochs,
             \/ owner[e] = "live" /\ step.retry = 0 /\ \A t \in running : t[2] # e
             \/ owner[e] = "none" /\ (e > 1 => owner[e - 1] # "none"),
             owner' = [owner EXCEPT ![e] = "live"],
             step' = [step EXCEPT !.epoch = e, !.abort = control # "queued",
                                  !.pc = IF control # "queued" THEN "cleanup"
                                         ELSE IF step.retry = 0 THEN "reserve" ELSE "settle"]
      PROVE  IndInv'
  <2>1. owner \in [Epochs -> {"none", "live", "settled"}]
    BY DEF IndInv, Types, NativeTypes
  <2>2. /\ owner' \in [Epochs -> {"none", "live", "settled"}] /\ owner'[e] = "live"
        /\ \A f \in Epochs \ {e} : owner'[f] = owner[f]
    BY <1>7, <2>1
  <2> DEFINE pc == IF control # "queued" THEN "cleanup" ELSE IF step.retry = 0 THEN "reserve" ELSE "settle"
  <2>3. step' \in StepRecords /\ step'.pc = pc /\ step'.epoch = e /\ step'.retry = step.retry
    <3>1. pc \in Stops /\ e \in 0..MaxEpochs /\ (control # "queued") \in BOOLEAN
      BY DEF Stops, Epochs
    <3>2. step' = [step EXCEPT !.epoch = e, !.abort = control # "queued", !.pc = pc]
      BY <1>7
    <3> HIDE DEF pc
    <3> QED
      BY <1>1, <3>1, <3>2 DEF StepRecords
  <2>4. pc \in {"cleanup", "reserve", "settle"} /\ (pc = "reserve" => step.retry = 0) /\ (pc = "settle" => step.retry # 0)
    OBVIOUS
  <2> HIDE DEF pc
  <2>5. Types'
    BY <1>2, <1>5, <2>2, <2>3 DEF IndInv, Types, TreeTypes, StoreTypes, StepTypes, NativeTypes, GhostTypes
  <2>6. RunningOK'
    <3>1. \A t \in running : t[2] \in Epochs
      BY DEF IndInv, Types, NativeTypes, Turns
    <3> QED
      BY <1>2, <2>2, <3>1 DEF IndInv, RunningOK, leafOf
  <2>7. ReleasedOK'
    <3>1. \A r \in released : r[2] \in Epochs
      BY DEF IndInv, Types, NativeTypes, Turns
    <3> QED
      BY <1>2, <2>2, <3>1 DEF IndInv, ReleasedOK
  <2>8. step.retry # 0 => \A r \in released : r[2] # e
    BY <1>7 DEF IndInv, ReleasedOK
  <2>9. BeforeTurns'
    BY <1>1, <1>2, <1>3, <2>2, <2>3, <2>4, <2>8 DEF IndInv, BeforeTurns
  <2>10. TurnsOK' /\ ProjectionOK'
    BY <2>3, <2>4 DEF TurnsOK, ProjectionOK
  <2> QED
    BY <1>4, <2>5, <2>6, <2>7, <2>9, <2>10 DEF IndInv
<1> QED
  BY <1>6, <1>7 DEF acquire

(* A retry waits for the owner of the attempt before.                      *)
LEMMA SettleStep ==
  ASSUME IndInv, WaveAssumption, settle
  PROVE  IndInv'
<1>1. step \in StepRecords /\ step.pc = "settle"
  BY DEF IndInv, Types, StepTypes, settle
<1>2. UNCHANGED <<tree, works, nodeCount, tail, control, lane, fresh, released, owner, running, turns, accepted, late>>
  BY DEF settle, disk, native, ghosts
<1>3. NodesOK' /\ WorksOK' /\ RunningOK' /\ ReleasedOK'
  BY <1>2, Quiet DEF native
<1>4. unprojected' = unprojected
  BY <1>2, SameLists
<1>5. faults' \in 0..MaxFaults
  <2>1. fine \/ fault
    BY DEF settle
  <2> QED
    BY <2>1, FaultsAreBounded DEF IndInv
<1>6. (proved(works[step.retry].epoch) /\ goto("reserve")) \/ throws
  BY DEF settle
<1>7. step' \in StepRecords /\ BeforeTurns' /\ step'.pc \in {"reserve", "cleanup"}
  <2>1. CASE throws
    <3>1. step' \in StepRecords /\ step'.pc = "cleanup" /\ step'.epoch = step.epoch
      BY <1>1, <2>1, Throws
    <3> QED
      BY <1>1, <3>1 DEF BeforeTurns, IndInv
  <2>2. CASE proved(works[step.retry].epoch) /\ goto("reserve")
    <3>1. step' \in StepRecords /\ step'.pc = "reserve" /\ step'.epoch = step.epoch /\ step'.retry = step.retry
      BY <1>1, <2>2, Goto DEF Stops
    <3> QED
      BY <1>1, <1>2, <1>4, <2>2, <3>1 DEF BeforeTurns, IndInv, proved
  <2> QED
    BY <1>6, <2>1, <2>2
<1>8. Types'
  BY <1>2, <1>5, <1>7 DEF IndInv, Types, TreeTypes, StoreTypes, StepTypes, NativeTypes, GhostTypes
<1> QED
  BY <1>3, <1>7, <1>8 DEF IndInv, TurnsOK, ProjectionOK

(* A new work has no output and no attempt behind it.                    *)
LEMMA NewWork ==
  ASSUME WaveAssumption, NEW e \in Epochs
  PROVE  /\ newWork(e) \in Work /\ newWork(e).out = 0 /\ newWork(e).prior = 0 /\ newWork(e).epoch = e
         /\ ~newWork(e).node
BY Constants DEF newWork, Work, Outcomes, Epochs

(* A successor counts the attempt before it and has the new epoch.       *)
LEMMA Successor ==
  ASSUME WaveAssumption, NEW w \in Work, NEW e \in Epochs, w.prior + 1 < MaxNoOutput
  PROVE  LET x == successor(w, e) IN
           x \in Work /\ x.out = w.out /\ x.prior = w.prior + 1 /\ x.epoch = e /\ (x.node <=> w.node)
<1> DEFINE p == w.prior + 1
           past == w.past \cup {w.epoch}
<1>1. p \in 0..(MaxNoOutput - 1) /\ past \in SUBSET Epochs
  BY Constants, WorkFields
<1>2. successor(w, e) = [w EXCEPT !.outcome = "none", !.prior = p, !.epoch = e, !.past = past]
  BY DEF successor, successorDebit, Work
<1> HIDE DEF p, past
<1>3. LET x == successor(w, e) IN x \in Work /\ x.out = w.out /\ x.prior = p /\ x.epoch = e /\ (x.node <=> w.node)
  BY <1>1, <1>2 DEF Work, Outcomes
<1> QED
  BY <1>3 DEF p

(* The reservations of a wave, or of one more attempt, are one event.      *)
LEMMA ReserveFails ==
  ASSUME IndInv, WaveAssumption, reserve, UNCHANGED <<works, lane, fresh>>, throws
  PROVE  IndInv'
<1>1. step \in StepRecords /\ step.pc = "reserve"
  BY DEF IndInv, Types, StepTypes, reserve
<1>2. UNCHANGED <<tree, works, nodeCount, control, lane, fresh, released, owner, running, turns, accepted, late>>
  BY DEF reserve, native, ghosts
<1>3. NodesOK' /\ WorksOK' /\ RunningOK' /\ ReleasedOK'
  BY <1>2, Quiet DEF native
<1>4. step' \in StepRecords /\ step'.pc = "cleanup" /\ step'.epoch = step.epoch
  BY <1>1, Throws
<1>5. tail' \in {"ready", "refused", "torn"} /\ faults' \in 0..MaxFaults
  <2> DEFINE new == IF step.retry = 0 THEN [o \in Ordinals |-> newWork(step.epoch)]
                    ELSE [works EXCEPT ![step.retry] = successor(@, step.epoch)]
  <2>1. append(new) \/ appendFails(new)
    BY DEF reserve
  <2> HIDE DEF new
  <2> QED
    BY <2>1, Written DEF IndInv
<1>6. Types'
  BY <1>2, <1>4, <1>5 DEF IndInv, Types, TreeTypes, StoreTypes, StepTypes, NativeTypes, GhostTypes
<1>7. BeforeTurns'
  BY <1>1, <1>4 DEF IndInv, BeforeTurns
<1> QED
  BY <1>3, <1>4, <1>6, <1>7 DEF IndInv, TurnsOK, ProjectionOK

(* What a reservation does to the step: the turns begin, or the event is   *)
(* uncertain and the step ends.                                            *)
LEMMA AfterReserve ==
  ASSUME IndInv, WaveAssumption, step.pc = "reserve",
         (goto("turns") /\ startLanes) \/ (throws /\ UNCHANGED <<lane, fresh>>)
  PROVE  /\ StepTypes' /\ step'.epoch = step.epoch /\ step'.retry = step.retry
         /\ step'.pc \in {"turns", "cleanup"}
         /\ step'.pc = "turns" =>
              \A o \in Ordinals : /\ lane'[o].pc = IF begins(o) THEN "begin" ELSE "none"
                                  /\ lane'[o].commit = "none"
<1>0. step \in StepRecords /\ lane \in [Ordinals -> LaneRecords] /\ fresh \subseteq Ordinals
  BY DEF IndInv, Types, StepTypes
<1>1. CASE throws /\ UNCHANGED <<lane, fresh>>
  BY <1>0, <1>1, Throws DEF StepTypes
<1>2. CASE goto("turns") /\ startLanes
  <2>1. step' \in StepRecords /\ step'.pc = "turns" /\ step'.epoch = step.epoch /\ step'.retry = step.retry
    BY <1>0, <1>2, Goto DEF Stops
  <2> DEFINE l == [NoLane EXCEPT !.pc = "begin"]
  <2>2. l \in LaneRecords /\ l.pc = "begin" /\ l.commit = "none"
    BY DEF NoLane, LaneRecords, Outcomes
  <2>3. lane' = [o \in Ordinals |-> IF begins(o) THEN l ELSE NoLane] /\ fresh' \subseteq Ordinals
    BY <1>0, <1>2 DEF startLanes
  <2> HIDE DEF l
  <2>4. lane' \in [Ordinals -> LaneRecords]
    BY <2>2, <2>3, NoLaneIsALane
  <2> QED
    BY <2>1, <2>2, <2>3, <2>4, NoLaneIsALane DEF StepTypes
<1> QED
  BY <1>1, <1>2

(* A whole wave is reserved where nothing is left to project.            *)
LEMMA ReserveWave ==
  ASSUME IndInv, WaveAssumption, reserve, step.retry = 0, works' = [o \in Ordinals |-> newWork(step.epoch)]
  PROVE  IndInv'
<1>1. step \in StepRecords /\ step.pc = "reserve" /\ step.epoch \in Epochs /\ owner[step.epoch] = "live"
  BY DEF IndInv, Types, StepTypes, reserve, BeforeTurns
<1> DEFINE w == newWork(step.epoch)
<1>2. w \in Work /\ w.out = 0 /\ w.prior = 0 /\ w.epoch = step.epoch /\ ~w.node
  BY <1>1, NewWork
<1>3. works' = [o \in Ordinals |-> w]
  OBVIOUS
<1>4. UNCHANGED <<tree, control, released, owner, running, turns, accepted, late>>
  BY DEF reserve, native, ghosts
<1>5. append(works') \/ appendFails(works')
  BY DEF reserve
<1>6. tail' \in {"ready", "refused", "torn"} /\ faults' \in 0..MaxFaults
  BY <1>5, Written DEF IndInv
<1>7. (goto("turns") /\ startLanes) \/ (throws /\ UNCHANGED <<lane, fresh>>)
  BY DEF reserve
<1> HIDE DEF w
<1>8. works' \in [Ordinals -> Work] /\ works' # <<>> /\ \A o \in Ordinals : works'[o] = w
  BY <1>2, <1>3, AWave
<1>9. unprojected = {} /\ Len(tree) < Leaves
  BY <1>1 DEF IndInv, BeforeTurns
<1>10. /\ running = {} /\ (works # <<>> => Len(tree) = nodeCount + Width)
       /\ \A l \in 1..Leaves : l > Len(tree) => accepted[l] = {} /\ turns[l] = 0
       /\ \A r \in released : r[1] <= Len(tree)
  BY <1>9, Quiescent
<1>11. works' # works
  <2>1. CASE works = <<>>
    BY <2>1, <1>8
  <2>2. CASE works # <<>>
    <3>1. 1 \in Ordinals /\ works[1].node
      BY <2>2, <1>9, Wave, Constants DEF IndInv, Types
    <3> QED
      BY <3>1, <1>2, <1>8
  <2> QED
    BY <2>1, <2>2
<1>12. nodeCount' = Len(tree)
  BY <1>11 DEF reserve
<1>13. Len(tree) \in Nat /\ nodeCount \in Nat /\ Width \in Nat \ {0} /\ Leaves \in Nat
  BY LenProperties, Constants DEF IndInv, Types, TreeTypes
<1>14. PICK q \in Nat : Len(tree) = q * Width
  <2>1. CASE works = <<>>
    <3>1. Len(tree) = 0 /\ 0 = 0 * Width
      BY <2>1, <1>13 DEF IndInv, NodesOK
    <3> QED
      BY <3>1
  <2>2. CASE works # <<>>
    <3>1. PICK p \in Nat : nodeCount = p * Width
      BY DEF IndInv, NodesOK
    <3>2. (p + 1) * Width = p * Width + Width
      BY <1>13
    <3>3. Len(tree) = (p + 1) * Width
      BY <2>2, <1>10, <3>1, <3>2
    <3> QED
      BY <3>3
  <2> QED
    BY <2>1, <2>2
<1>15. Len(tree) + Width <= Leaves
  BY <1>9, <1>14, RoomForAWave
<1>16. StepTypes' /\ step'.epoch = step.epoch /\ step'.retry = 0 /\ step'.pc \in {"turns", "cleanup"}
       /\ (step'.pc = "turns" => \A o \in Ordinals : lane'[o].pc = "begin" /\ lane'[o].commit = "none")
  <2>1. \A o \in Ordinals : begins(o)
    BY DEF begins
  <2> QED
    BY <1>1, <1>7, <2>1, AfterReserve
<1>17. Types'
  <2>1. TreeTypes'
    BY <1>4, <1>8, <1>9, <1>12, <1>13 DEF TreeTypes, IndInv, Types
  <2> QED
    BY <1>4, <1>6, <1>16, <2>1 DEF IndInv, Types, StoreTypes, NativeTypes, GhostTypes
<1>18. NodesOK'
  <2>1. \A o \in Ordinals : o \in Nat \ {0}
    BY Constants
  <2> QED
    BY <1>2, <1>4, <1>8, <1>12, <1>13, <1>14, <1>15, <2>1 DEF NodesOK, leafOf
<1>19. \A o \in Ordinals : Len(tree) + o \in 1..Leaves /\ Len(tree) + o > Len(tree)
  BY <1>13, <1>15 DEF Ordinals
<1>20. WorksOK'
  <2>1. ASSUME NEW o \in Ordinals
        PROVE  works'[o].out = 0 /\ accepted'[Len(tree) + o] = {} /\ turns'[Len(tree) + o] <= works'[o].prior + 1
    BY <1>2, <1>4, <1>8, <1>10, <1>19
  <2>2. ASSUME NEW l \in 1..Leaves
        PROVE  turns'[l] <= MaxNoOutput /\ (l > Len(tree) + Width => accepted'[l] = {} /\ turns'[l] = 0)
    BY <1>4, <1>10, <1>13 DEF IndInv, WorksOK
  <2> QED
    BY <1>8, <1>12, <2>1, <2>2 DEF WorksOK, leafOf
<1>21. RunningOK'
  BY <1>4, <1>10 DEF RunningOK
<1>22. ReleasedOK'
  <2>1. \A r \in released : r[1] \in Nat
    BY DEF IndInv, Types, NativeTypes, Turns
  <2> QED
    BY <1>4, <1>8, <1>10, <1>12, <1>13, <2>1 DEF IndInv, ReleasedOK
<1>23. BeforeTurns'
  BY <1>1, <1>4, <1>16 DEF BeforeTurns
<1>24. TurnsOK'
  <2> SUFFICES ASSUME step'.pc = "turns", NEW o \in Ordinals PROVE LaneOK(o)'
    BY <1>4, <1>8, <1>12 DEF TurnsOK
  <2>1. lane'[o].pc = "begin" /\ lane'[o].commit = "none"
    BY <1>16
  <2>2. works'[o].epoch = step'.epoch /\ works'[o].out = 0 /\ works'[o].prior = 0
    BY <1>2, <1>8, <1>16
  <2>3. <<Len(tree) + o, step'.epoch>> \notin released'
    <3>1. ASSUME <<Len(tree) + o, step'.epoch>> \in released PROVE FALSE
      BY <3>1, <1>10, <1>13, <1>19
    <3> QED
      BY <3>1, <1>4
  <2>4. turns'[Len(tree) + o] = 0
    BY <1>4, <1>10, <1>19
  <2> QED
    BY <1>12, <1>16, <2>1, <2>2, <2>3, <2>4 DEF LaneOK, begins, native_turn, leafOf
<1>25. ProjectionOK'
  BY <1>16 DEF ProjectionOK
<1> QED
  BY <1>17, <1>18, <1>20, <1>21, <1>22, <1>23, <1>24, <1>25 DEF IndInv

(* A retry is reserved when the turn before it is over.                  *)
LEMMA ReserveRetry ==
  ASSUME IndInv, WaveAssumption, reserve, step.retry # 0,
         works' = [works EXCEPT ![step.retry] = successor(@, step.epoch)]
  PROVE  IndInv'
<1> DEFINE r == step.retry
           w == successor(works[r], step.epoch)
<1>1. /\ step \in StepRecords /\ step.pc = "reserve" /\ step.epoch \in Epochs /\ owner[step.epoch] = "live"
      /\ works # <<>> /\ works[r].out = 0 /\ works[r].prior + 1 < MaxNoOutput
      /\ owner[works[r].epoch] = "settled" /\ \A x \in released : x[2] # step.epoch
  BY DEF IndInv, Types, StepTypes, reserve, BeforeTurns
<1>2. r \in Ordinals
  BY <1>1, StepFields, Constants DEF Ordinals
<1>3. works \in [Ordinals -> Work]
  BY <1>1, Wave DEF IndInv, Types
<1>4. /\ w \in Work /\ w.out = 0 /\ w.prior = works[r].prior + 1 /\ w.epoch = step.epoch
      /\ (w.node <=> works[r].node)
  BY <1>1, <1>2, <1>3, Successor
<1>5. UNCHANGED <<tree, control, released, owner, running, turns, accepted, late>> /\ nodeCount' = nodeCount
  BY DEF reserve, native, ghosts
<1>6. append(works') \/ appendFails(works')
  BY DEF reserve
<1>7. tail' \in {"ready", "refused", "torn"} /\ faults' \in 0..MaxFaults
  BY <1>6, Written DEF IndInv
<1>8. (goto("turns") /\ startLanes) \/ (throws /\ UNCHANGED <<lane, fresh>>)
  BY DEF reserve
<1>9. works' = [works EXCEPT ![r] = w]
  OBVIOUS
<1> HIDE DEF w
<1>10. /\ works' \in [Ordinals -> Work] /\ works' # <<>> /\ works'[r] = w
       /\ \A p \in Ordinals \ {r} : works'[p] = works[p]
  BY <1>2, <1>3, <1>4, <1>9, AWave
<1>11. StepTypes' /\ step'.epoch = step.epoch /\ step'.retry = r /\ step'.pc \in {"turns", "cleanup"}
       /\ (step'.pc = "turns" => \A o \in Ordinals : /\ lane'[o].pc = IF o = r THEN "begin" ELSE "none"
                                                     /\ lane'[o].commit = "none")
  <2>1. \A o \in Ordinals : begins(o) <=> o = r
    BY <1>2, Constants DEF begins
  <2> QED
    BY <1>1, <1>8, <2>1, AfterReserve
<1>12. nodeCount \in Nat /\ Len(tree) \in Nat /\ Ordinals \subseteq Nat \ {0}
  BY LenProperties, Constants DEF IndInv, Types, TreeTypes
<1>13. Types'
  <2>1. TreeTypes'
    BY <1>5, <1>10 DEF TreeTypes, IndInv, Types
  <2> QED
    BY <1>5, <1>7, <1>11, <2>1 DEF IndInv, Types, StoreTypes, NativeTypes, GhostTypes
<1>14. Len(tree) = nodeCount /\ \A p \in Ordinals : ~works[p].node
  BY <1>1, <1>2 DEF IndInv, NodesOK
<1>15. \A p \in Ordinals : ~works'[p].node /\ works'[p].out = works[p].out
  BY <1>1, <1>2, <1>4, <1>10, <1>14
<1>16. NodesOK'
  <2>1. (\E q \in Nat : nodeCount = q * Width) /\ nodeCount + Width <= Leaves
    BY <1>1 DEF IndInv, NodesOK
  <2>2. Len(tree) <= nodeCount + Width /\ \A o \in Ordinals : Len(tree) <= nodeCount + o
    BY <1>12, <1>14, Constants
  <2> QED
    BY <1>5, <1>10, <1>14, <1>15, <2>1, <2>2 DEF NodesOK, leafOf
<1>17. \A o \in Ordinals : nodeCount + o \in 1..Leaves /\ works[o].prior \in Nat
  <2>1. nodeCount + Width <= Leaves /\ Leaves \in Nat /\ Width \in Nat
    BY <1>1, Constants DEF IndInv, NodesOK
  <2>2. \A o \in Ordinals : works[o].prior \in Nat
    BY <1>3, WorkFields, Constants
  <2> QED
    BY <1>12, <2>1, <2>2 DEF Ordinals
<1>18. WorksOK'
  <2>1. ASSUME NEW o \in Ordinals
        PROVE  /\ IF works'[o].out = 0 THEN accepted[nodeCount + o] = {}
                  ELSE <<nodeCount + o, works'[o].out>> \in accepted[nodeCount + o]
               /\ turns[nodeCount + o] <= works'[o].prior + 1
    <3>1. /\ IF works[o].out = 0 THEN accepted[nodeCount + o] = {}
             ELSE <<nodeCount + o, works[o].out>> \in accepted[nodeCount + o]
          /\ turns[nodeCount + o] <= works[o].prior + 1 /\ turns[nodeCount + o] \in Nat
      BY <1>1, <1>17 DEF IndInv, WorksOK, leafOf, Types, NativeTypes
    <3>2. works'[o].prior \in Nat /\ works'[o].prior >= works[o].prior
      <4>1. CASE o = r
        BY <4>1, <1>4, <1>10, <1>17
      <4>2. CASE o # r
        BY <4>2, <1>10, <1>17
      <4> QED
        BY <4>1, <4>2
    <3> QED
      BY <3>1, <3>2, <1>15, <1>17
  <2> QED
    BY <1>1, <1>5, <1>10, <2>1 DEF IndInv, WorksOK, leafOf
<1>19. RunningOK'
  <2> SUFFICES ASSUME NEW t \in running
               PROVE  /\ owner[t[2]] = "live" /\ t[1] > Len(tree)
                      /\ \E o \in Ordinals : t = <<nodeCount + o, works'[o].epoch>>
    BY <1>5, <1>10 DEF RunningOK, leafOf
  <2>1. owner[t[2]] = "live" /\ t[1] > Len(tree)
    BY DEF IndInv, RunningOK
  <2>2. PICK o \in Ordinals : t = <<nodeCount + o, works[o].epoch>>
    BY DEF IndInv, RunningOK, leafOf
  <2>3. o # r
    BY <2>1, <2>2, <1>1
  <2> QED
    BY <2>1, <2>2, <2>3, <1>10
<1>20. ReleasedOK'
  BY <1>5, <1>10 DEF IndInv, ReleasedOK
<1>21. BeforeTurns'
  BY <1>1, <1>5, <1>11 DEF BeforeTurns
<1>22. TurnsOK'
  <2> SUFFICES ASSUME step'.pc = "turns", NEW o \in Ordinals PROVE LaneOK(o)'
    BY <1>5, <1>10, <1>14 DEF TurnsOK
  <2>1. r # 0 /\ begins(o)' <=> o = r
    BY <1>2, <1>11, Constants DEF begins
  <2>2. CASE o = r
    <3>1. lane'[o].pc = "begin" /\ lane'[o].commit = "none"
      BY <2>2, <1>11
    <3>2. works'[o].epoch = step'.epoch /\ works'[o].out = 0
      BY <2>2, <1>4, <1>10, <1>11
    <3>3. <<nodeCount + o, step.epoch>> \notin released
      BY <1>1
    <3>4. turns[nodeCount + o] <= works'[o].prior
      <4>1. turns[nodeCount + r] <= works[r].prior + 1
        BY <1>1, <1>2 DEF IndInv, WorksOK, leafOf
      <4> QED
        BY <4>1, <2>2, <1>4, <1>10
    <3> QED
      BY <2>1, <2>2, <3>1, <3>2, <3>3, <3>4, <1>5, <1>11 DEF LaneOK, native_turn, leafOf
  <2>3. CASE o # r
    <3>1. lane'[o].pc = "none" /\ lane'[o].commit = "none"
      BY <2>3, <1>11
    <3> QED
      BY <2>1, <2>3, <3>1 DEF LaneOK
  <2> QED
    BY <2>2, <2>3
<1>23. ProjectionOK'
  BY <1>11 DEF ProjectionOK
<1> QED
  BY <1>13, <1>16, <1>18, <1>19, <1>20, <1>21, <1>22, <1>23 DEF IndInv

(* Either reservation, written or failed.                                *)
LEMMA ReserveStep ==
  ASSUME IndInv, WaveAssumption, reserve
  PROVE  IndInv'
<1> DEFINE new == IF step.retry = 0 THEN [o \in Ordinals |-> newWork(step.epoch)]
                  ELSE [works EXCEPT ![step.retry] = successor(@, step.epoch)]
<1>1. \/ append(new)
      \/ appendFails(new) /\ throws /\ UNCHANGED <<lane, fresh>>
  BY DEF reserve
<1>2. CASE works' = new
  <2>1. CASE step.retry = 0
    BY <1>2, <2>1, ReserveWave
  <2>2. CASE step.retry # 0
    BY <1>2, <2>2, ReserveRetry
  <2> QED
    BY <2>1, <2>2
<1>3. CASE works' # new
  <2>1. UNCHANGED works
    <3> HIDE DEF new
    <3> QED
      BY <1>1, <1>3, Written DEF append, IndInv
  <2>2. throws /\ UNCHANGED <<lane, fresh>>
    <3> HIDE DEF new
    <3> QED
      BY <1>1, <1>3 DEF append
  <2> QED
    BY <2>1, <2>2, ReserveFails
<1> QED
  BY <1>2, <1>3

-----------------------------------------------------------------------------
(* The turns                                                               *)

(* What a lane knows of the wave is not disturbed by the steps of others.  *)
Undisturbed(p) ==
  /\ lane'[p] = lane[p] /\ works'[p].epoch = works[p].epoch /\ works'[p].out = works[p].out
  /\ works'[p].prior = works[p].prior /\ turns'[nodeCount + p] = turns[nodeCount + p]
  /\ <<nodeCount + p, step.epoch>> \in released' => <<nodeCount + p, step.epoch>> \in released
  /\ <<nodeCount + p, step.epoch>> \in running' => <<nodeCount + p, step.epoch>> \in running

(* A step of one lane.                                                     *)
LEMMA LaneStep ==
  ASSUME IndInv, NEW o \in Ordinals, step.pc = "turns", step'.pc = "turns", step'.epoch = step.epoch,
         step'.retry = step.retry, UNCHANGED <<tree, nodeCount, owner>>, works' # <<>>,
         Types', NodesOK', WorksOK', RunningOK', ReleasedOK', LaneOK(o)', \A p \in Ordinals \ {o} : Undisturbed(p)
  PROVE  IndInv'
<1>1. BeforeTurns'
  BY DEF IndInv, BeforeTurns
<1>2. ASSUME NEW p \in Ordinals \ {o} PROVE LaneOK(p)'
  <2>1. LaneOK(p) /\ Undisturbed(p)
    BY DEF IndInv, TurnsOK
  <2> QED
    BY <2>1 DEF LaneOK, Undisturbed, begins, native_turn, leafOf
<1>3. TurnsOK'
  BY <1>2 DEF IndInv, TurnsOK
<1>4. ProjectionOK'
  BY DEF ProjectionOK
<1> QED
  BY <1>1, <1>3, <1>4 DEF IndInv

(* What is known of an ordinal in the turns.                             *)
LEMMA InTurns ==
  ASSUME IndInv, WaveAssumption, step.pc = "turns", NEW o \in Ordinals
  PROVE  /\ step \in StepRecords /\ lane \in [Ordinals -> LaneRecords] /\ lane[o] \in LaneRecords
         /\ works # <<>> /\ works \in [Ordinals -> Work] /\ works[o] \in Work
         /\ Len(tree) = nodeCount /\ LaneOK(o) /\ step.epoch \in Epochs /\ owner[step.epoch] = "live"
         /\ nodeCount \in Nat /\ o \in Nat \ {0} /\ o <= Width /\ Width \in Nat /\ nodeCount + o \in 1..Leaves
         /\ works[o].prior \in Nat /\ works[o].prior < MaxNoOutput
         /\ turns[nodeCount + o] \in Nat /\ accepted[nodeCount + o] \subseteq Outputs
<1>1. works # <<>> /\ Len(tree) = nodeCount /\ LaneOK(o)
  BY DEF IndInv, TurnsOK
<1>2. works \in [Ordinals -> Work] /\ works[o] \in Work
  BY <1>1, Wave DEF IndInv, Types
<1>3. step.epoch \in Epochs /\ owner[step.epoch] = "live"
  BY DEF IndInv, BeforeTurns
<1>4. nodeCount \in Nat /\ o \in Nat \ {0} /\ o <= Width /\ Width \in Nat /\ Leaves \in Nat
  BY Constants DEF Ordinals, IndInv, Types, TreeTypes
<1>5. nodeCount + o \in 1..Leaves
  BY <1>1, <1>4 DEF IndInv, NodesOK
<1>6. works[o].prior \in Nat /\ works[o].prior < MaxNoOutput
  BY <1>2, WorkFields, Constants
<1>7. step \in StepRecords /\ lane \in [Ordinals -> LaneRecords] /\ lane[o] \in LaneRecords
  BY DEF IndInv, Types, StepTypes
<1>8. turns[nodeCount + o] \in Nat /\ accepted[nodeCount + o] \subseteq Outputs
  BY <1>5 DEF IndInv, Types, NativeTypes, GhostTypes
<1> QED
  BY <1>1, <1>2, <1>3, <1>4, <1>5, <1>6, <1>7, <1>8

(* Aborting the group leaves the lanes and the place of the step alone.  *)
LEMMA Aborts ==
  ASSUME step \in StepRecords, abortGroup \/ UNCHANGED step
  PROVE  step' \in StepRecords /\ step'.pc = step.pc /\ step'.epoch = step.epoch /\ step'.retry = step.retry
BY DEF StepRecords, abortGroup

(* A lane goes on to another place.                                        *)
LEMMA To ==
  ASSUME lane \in [Ordinals -> LaneRecords], NEW o \in Ordinals,
         NEW pc \in {"none", "begin", "turn", "finish", "record", "release", "done"}, to(o, pc)
  PROVE  /\ lane' \in [Ordinals -> LaneRecords] /\ lane'[o].pc = pc /\ lane'[o].commit = lane[o].commit
         /\ lane'[o].outcome = lane[o].outcome /\ \A p \in Ordinals \ {o} : lane'[p] = lane[p]
<1> DEFINE l == [lane[o] EXCEPT !.pc = pc]
<1>1. l \in LaneRecords /\ l.pc = pc /\ l.commit = lane[o].commit /\ l.outcome = lane[o].outcome
  BY DEF LaneRecords
<1>2. lane' = [lane EXCEPT ![o] = l]
  BY DEF to
<1> HIDE DEF l
<1> QED
  BY <1>1, <1>2, OneLane

(* A turn that ends has its outcome to record.                           *)
LEMMA Ends ==
  ASSUME lane \in [Ordinals -> LaneRecords], NEW o \in Ordinals, NEW v \in Outcomes, ends(o, v)
  PROVE  /\ lane' \in [Ordinals -> LaneRecords] /\ lane'[o].pc = "finish" /\ lane'[o].commit = lane[o].commit
         /\ lane'[o].outcome = v /\ \A p \in Ordinals \ {o} : lane'[p] = lane[p]
<1> DEFINE l == [lane[o] EXCEPT !.pc = "finish", !.outcome = v]
<1>1. l \in LaneRecords /\ l.pc = "finish" /\ l.commit = lane[o].commit /\ l.outcome = v
  BY DEF LaneRecords
<1>2. lane' = [lane EXCEPT ![o] = l]
  BY DEF ends
<1> HIDE DEF l
<1> QED
  BY <1>1, <1>2, OneLane

(* A commit changes nothing else of its lane.                            *)
LEMMA Commits ==
  ASSUME lane \in [Ordinals -> LaneRecords], NEW o \in Ordinals, NEW v \in {"none", "started", "ended"},
         lane' = [lane EXCEPT ![o].commit = v]
  PROVE  /\ lane' \in [Ordinals -> LaneRecords] /\ lane'[o].pc = lane[o].pc /\ lane'[o].commit = v
         /\ lane'[o].outcome = lane[o].outcome /\ \A p \in Ordinals \ {o} : lane'[p] = lane[p]
<1> DEFINE l == [lane[o] EXCEPT !.commit = v]
<1>1. l \in LaneRecords /\ l.pc = lane[o].pc /\ l.commit = v /\ l.outcome = lane[o].outcome
  BY DEF LaneRecords
<1>2. lane' = [lane EXCEPT ![o] = l]
  OBVIOUS
<1> HIDE DEF l
<1> QED
  BY <1>1, <1>2, OneLane

(* The steps of a lane that touch neither the stores nor the turns.        *)
LEMMA QuietLaneStep ==
  ASSUME IndInv, WaveAssumption, NEW o \in Ordinals, step.pc = "turns",
         UNCHANGED <<tree, works, nodeCount, tail, control, owner, running, turns, released, accepted, late>>,
         faults' \in 0..MaxFaults, step' \in StepRecords, step'.pc = "turns", step'.epoch = step.epoch,
         step'.retry = step.retry, lane' \in [Ordinals -> LaneRecords], fresh' \subseteq Ordinals,
         \A p \in Ordinals \ {o} : lane'[p] = lane[p], LaneOK(o)'
  PROVE  IndInv'
<1>1. NodesOK' /\ WorksOK' /\ RunningOK' /\ ReleasedOK'
  BY Quiet DEF native
<1>2. Types'
  BY DEF IndInv, Types, TreeTypes, StoreTypes, StepTypes, NativeTypes, GhostTypes
<1>3. works' # <<>>
  BY InTurns
<1>4. \A p \in Ordinals \ {o} : Undisturbed(p)
  BY DEF Undisturbed
<1> QED
  BY <1>1, <1>2, <1>3, <1>4, LaneStep

(* A turn is started, or nothing is when the group has been aborted.       *)
LEMMA BeginStep ==
  ASSUME IndInv, WaveAssumption, NEW o \in Ordinals, begin(o)
  PROVE  IndInv'
<1>1. step.pc = "turns" /\ lane[o].pc = "begin"
  BY DEF begin, here
<1>2. UNCHANGED <<tree, works, nodeCount, tail, control, fresh, released, owner, accepted, late>>
  BY DEF begin, disk, ghosts
<1>3. faults' \in 0..MaxFaults
  <2>1. fine \/ fault
    BY DEF begin
  <2> QED
    BY <2>1, FaultsAreBounded DEF IndInv
<1>5. CASE /\ to(o, "turn") /\ running' = running \cup {native_turn(o)}
           /\ turns' = [turns EXCEPT ![leafOf(o)] = @ + 1] /\ UNCHANGED step
  <2> DEFINE l == nodeCount + o
  <2>1. /\ native_turn(o) \notin released /\ turns[l] <= works[o].prior /\ begins(o)
        /\ works[o].epoch = step.epoch /\ (lane[o].commit # "ended" => works[o].out = 0)
    BY <1>1, InTurns DEF LaneOK, leafOf
  <2>2. l \in 1..Leaves /\ turns[l] \in Nat /\ nodeCount \in Nat /\ works[o].prior \in Nat
        /\ works[o].prior < MaxNoOutput /\ Len(tree) = nodeCount /\ o \in Nat \ {0} /\ step.epoch \in Epochs
        /\ owner[step.epoch] = "live" /\ step \in StepRecords /\ works # <<>>
    BY <1>1, InTurns
  <2>3. /\ lane' \in [Ordinals -> LaneRecords] /\ lane'[o].pc = "turn" /\ lane'[o].commit = lane[o].commit
        /\ \A p \in Ordinals \ {o} : lane'[p] = lane[p]
    BY <1>1, <1>5, InTurns, To
  <2>4. native_turn(o) = <<l, step.epoch>> /\ leafOf(o) = l
    BY DEF native_turn, leafOf
  <2>5. turns \in [1..Leaves -> Nat] /\ running \subseteq Turns
    BY DEF IndInv, Types, NativeTypes
  <2>6. /\ turns' \in [1..Leaves -> Nat] /\ turns'[l] = turns[l] + 1
        /\ \A k \in 1..Leaves \ {l} : turns'[k] = turns[k]
    BY <1>5, <2>2, <2>4, <2>5
  <2>7. running' = running \cup {<<l, step.epoch>>} /\ running' \subseteq Turns
    BY <1>5, <2>2, <2>4, <2>5 DEF Turns
  <2> HIDE DEF l
  <2>8. Types'
    BY <1>2, <1>3, <1>5, <2>2, <2>3, <2>6, <2>7 DEF IndInv, Types, TreeTypes, StoreTypes, StepTypes, NativeTypes, GhostTypes
  <2>9. NodesOK'
    BY <1>2 DEF IndInv, NodesOK, leafOf
  <2>10. \A p \in Ordinals : p # o => nodeCount + p # l /\ nodeCount + p \in 1..Leaves
    BY <1>1, <2>2, InTurns DEF l
  <2>11. WorksOK'
    <3>1. ASSUME NEW p \in Ordinals PROVE turns'[nodeCount + p] <= works[p].prior + 1
      <4>1. CASE p = o
        BY <4>1, <2>1, <2>2, <2>6 DEF l
      <4>2. CASE p # o
        BY <4>2, <2>6, <2>10, <2>2 DEF IndInv, WorksOK, leafOf
      <4> QED
        BY <4>1, <4>2
    <3>2. ASSUME NEW k \in 1..Leaves
          PROVE  turns'[k] <= MaxNoOutput /\ (k > nodeCount + Width => accepted[k] = {} /\ turns'[k] = 0)
      <4>1. CASE k = l
        <5>1. Width \in Nat /\ o <= Width /\ MaxNoOutput \in Nat
          BY <1>1, InTurns, Constants
        <5>2. ~(k > nodeCount + Width)
          BY <4>1, <5>1, <2>2 DEF l
        <5> QED
          BY <4>1, <5>1, <5>2, <2>1, <2>2, <2>6
      <4>2. CASE k # l
        BY <4>2, <2>6 DEF IndInv, WorksOK
      <4> QED
        BY <4>1, <4>2
    <3>3. \A p \in Ordinals : IF works[p].out = 0 THEN accepted[nodeCount + p] = {}
                              ELSE <<nodeCount + p, works[p].out>> \in accepted[nodeCount + p]
      BY <2>2 DEF IndInv, WorksOK, leafOf
    <3> QED
      BY <1>2, <2>2, <3>1, <3>2, <3>3 DEF WorksOK, leafOf
  <2>12. RunningOK'
    <3>1. ASSUME NEW t \in running'
          PROVE  owner[t[2]] = "live" /\ t[1] > Len(tree) /\ \E p \in Ordinals : t = <<nodeCount + p, works[p].epoch>>
      <4>1. CASE t = <<l, step.epoch>>
        BY <4>1, <2>1, <2>2 DEF l
      <4>2. CASE t \in running
        BY <4>2 DEF IndInv, RunningOK, leafOf
      <4> QED
        BY <4>1, <4>2, <2>7
    <3> QED
      BY <1>2, <2>2, <3>1 DEF RunningOK, leafOf
  <2>13. ReleasedOK'
    BY <1>2, <2>1, <2>4, <2>7 DEF IndInv, ReleasedOK
  <2>14. LaneOK(o)'
    BY <1>2, <1>5, <2>1, <2>3 DEF LaneOK, begins
  <2>15. \A p \in Ordinals \ {o} : Undisturbed(p)
    BY <1>2, <2>3, <2>6, <2>7, <2>10 DEF Undisturbed
  <2> QED
    BY <1>1, <1>2, <1>5, <2>2, <2>8, <2>9, <2>11, <2>12, <2>13, <2>14, <2>15, LaneStep
<1>6. CASE (ends(o, "refused") \/ ends(o, "unknown")) /\ abortGroup /\ UNCHANGED <<running, turns>>
  <2>1. step' \in StepRecords /\ step'.pc = "turns" /\ step'.epoch = step.epoch /\ step'.retry = step.retry
    BY <1>1, <1>6, InTurns, Aborts
  <2>2. /\ lane' \in [Ordinals -> LaneRecords] /\ lane'[o].pc = "finish" /\ lane'[o].commit = lane[o].commit
        /\ lane'[o].outcome \in {"refused", "unknown"} /\ \A p \in Ordinals \ {o} : lane'[p] = lane[p]
    BY <1>1, <1>6, InTurns, Ends DEF Outcomes
  <2>3. LaneOK(o)'
    BY <1>1, <1>2, <2>1, <2>2, InTurns DEF LaneOK, begins
  <2>4. fresh' \subseteq Ordinals
    BY <1>2 DEF IndInv, Types, StepTypes
  <2> QED
    BY <1>1, <1>2, <1>3, <1>6, <2>1, <2>2, <2>3, <2>4, QuietLaneStep
<1>7. \/ /\ to(o, "turn") /\ running' = running \cup {native_turn(o)}
         /\ turns' = [turns EXCEPT ![leafOf(o)] = @ + 1] /\ UNCHANGED step
      \/ (ends(o, "refused") \/ ends(o, "unknown")) /\ abortGroup /\ UNCHANGED <<running, turns>>
  BY DEF begin
<1> QED
  BY <1>5, <1>6, <1>7

(* The tool call of a turn begins.                                         *)
LEMMA CommitStep ==
  ASSUME IndInv, WaveAssumption, NEW o \in Ordinals, commit(o)
  PROVE  IndInv'
<1>1. step.pc = "turns" /\ lane[o].pc = "turn" /\ lane[o].commit = "none"
  BY DEF commit, here
<1>2. UNCHANGED <<tree, works, nodeCount, tail, control, step, fresh, released, owner, running, turns, accepted, late, faults>>
  BY DEF commit, disk, native, ghosts, fine
<1>3. /\ lane' \in [Ordinals -> LaneRecords] /\ lane'[o].pc = "turn" /\ lane'[o].commit = "started"
      /\ \A p \in Ordinals \ {o} : lane'[p] = lane[p]
  BY <1>1, InTurns, Commits DEF commit
<1>4. LaneOK(o)'
  BY <1>1, <1>2, <1>3, InTurns DEF LaneOK, begins
<1>5. fresh' \subseteq Ordinals /\ faults' \in 0..MaxFaults /\ step \in StepRecords
  BY <1>2 DEF IndInv, Types, StepTypes, GhostTypes
<1> QED
  BY <1>1, <1>2, <1>3, <1>4, <1>5, QuietLaneStep

(* The output of a turn is written to the journal.                         *)
LEMMA PrepareStep ==
  ASSUME IndInv, WaveAssumption, NEW o \in Ordinals, prepare(o)
  PROVE  IndInv'
<1> DEFINE l == nodeCount + o
           w == [works[o] EXCEPT !.out = works[o].epoch]
           t == <<l, step.epoch>>
<1>1. step.pc = "turns" /\ lane[o].commit = "started"
  BY DEF prepare
<1>2. UNCHANGED <<tree, nodeCount, control, step, released, owner, running, turns, late>>
  BY DEF prepare, native
<1>3. /\ works \in [Ordinals -> Work] /\ works[o] \in Work /\ LaneOK(o) /\ step \in StepRecords
      /\ step.epoch \in Epochs /\ l \in 1..Leaves /\ nodeCount \in Nat /\ Len(tree) = nodeCount
  BY <1>1, InTurns
<1>4. begins(o) /\ works[o].epoch = step.epoch /\ works[o].out = 0
  BY <1>1, <1>3 DEF LaneOK
<1>5. native_turn(o) = t /\ leafOf(o) = l
  BY DEF native_turn, leafOf
<1>6. /\ lane' \in [Ordinals -> LaneRecords] /\ lane'[o].pc = lane[o].pc /\ lane'[o].commit = "ended"
      /\ lane'[o].outcome = lane[o].outcome /\ \A p \in Ordinals \ {o} : lane'[p] = lane[p]
  BY <1>3, InTurns, <1>1, Commits DEF prepare
<1>7. /\ w \in Work /\ w.out = step.epoch /\ w.prior = works[o].prior /\ w.epoch = step.epoch
      /\ (w.node <=> works[o].node)
  <2>1. step.epoch \in 0..MaxEpochs /\ w = [works[o] EXCEPT !.out = step.epoch]
    BY <1>3, <1>4 DEF Epochs
  <2> HIDE DEF w
  <2> QED
    BY <2>1, <1>3, <1>4, OneField
<1>8. /\ append([works EXCEPT ![o] = w]) \/ appendFails([works EXCEPT ![o] = w])
      /\ works' = [works EXCEPT ![o] = w] => accepted' = [accepted EXCEPT ![l] = @ \cup {t}]
      /\ works' # [works EXCEPT ![o] = w] => accepted' = [accepted EXCEPT ![l] = @ \cup {}]
      /\ fresh' = fresh \ {o} \/ fresh' = fresh
  <2>1. w = [works[o] EXCEPT !.out = works[o].epoch]
    OBVIOUS
  <2> HIDE DEF w
  <2>2. [works EXCEPT ![o].out = works[o].epoch] = [works EXCEPT ![o] = w]
    BY <2>1
  <2> DEFINE new == [works EXCEPT ![o] = w]
  <2>3. \/ append(new) /\ accepted' = [accepted EXCEPT ![l] = @ \cup {t}] /\ fresh' = fresh \ {o}
        \/ /\ appendFails(new) /\ UNCHANGED fresh
           /\ accepted' = [accepted EXCEPT ![l] = @ \cup (IF works' = new THEN {t} ELSE {})]
    BY <1>5, <2>2 DEF prepare
  <2> HIDE DEF new, l, t
  <2>4. /\ append(new) \/ appendFails(new)
        /\ works' = new => accepted' = [accepted EXCEPT ![l] = @ \cup {t}]
        /\ works' # new => accepted' = [accepted EXCEPT ![l] = @ \cup {}]
        /\ fresh' = fresh \ {o} \/ fresh' = fresh
    BY <2>3 DEF append
  <2> QED
    BY <2>4 DEF new
<1> HIDE DEF w
<1>9. /\ works' \in {works, [works EXCEPT ![o] = w]}
      /\ tail' \in {"ready", "refused", "torn"} /\ faults' \in 0..MaxFaults
  BY <1>8, Written DEF IndInv
<1>10. /\ works' \in [Ordinals -> Work] /\ works' # <<>> /\ works # <<>>
       /\ works'[o] \in {works[o], w} /\ \A p \in Ordinals \ {o} : works'[p] = works[p]
  BY <1>3, <1>7, <1>9, OneWork
<1>11. accepted[l] = {} /\ accepted \in [1..Leaves -> SUBSET Outputs]
  BY <1>4, <1>5, <1>10 DEF IndInv, WorksOK, Types, GhostTypes
<1>12. /\ accepted' \in [1..Leaves -> SUBSET Outputs] /\ \A k \in 1..Leaves \ {l} : accepted'[k] = accepted[k]
       /\ works'[o].out = 0 => accepted'[l] = {}
       /\ works'[o].out # 0 => works'[o] = w /\ accepted'[l] = {t}
  <2>1. t \in Outputs
    BY <1>3 DEF Outputs
  <2>2. CASE works' = [works EXCEPT ![o] = w]
    <3>1. works'[o] = w
      BY <2>2, <1>3
    <3>2. works'[o].out # 0
      BY <3>1, <1>7, <1>3, Constants
    <3>3. accepted' = [accepted EXCEPT ![l] = @ \cup {t}]
      BY <2>2, <1>8
    <3> HIDE DEF l, t
    <3> QED
      BY <2>1, <3>1, <3>2, <3>3, <1>3, <1>11
  <2>3. CASE works' # [works EXCEPT ![o] = w]
    <3>1. works' = works
      BY <2>3, <1>9
    <3>2. accepted' = [accepted EXCEPT ![l] = @ \cup {}]
      BY <2>3, <1>8
    <3> HIDE DEF l, t
    <3> QED
      BY <3>1, <3>2, <1>3, <1>4, <1>11
  <2> QED
    BY <2>2, <2>3
<1>13. /\ works'[o].epoch = works[o].epoch /\ works'[o].prior = works[o].prior
       /\ works'[o].node <=> works[o].node
  BY <1>4, <1>7, <1>10
<1> HIDE DEF l, t
<1>14. Types'
  <2>1. fresh' \subseteq Ordinals
    BY <1>8 DEF IndInv, Types, StepTypes
  <2> QED
    BY <1>2, <1>3, <1>6, <1>9, <1>10, <1>12, <2>1 DEF IndInv, Types, TreeTypes, StoreTypes, StepTypes, NativeTypes, GhostTypes
<1>15. /\ \A p \in Ordinals : works'[p].epoch = works[p].epoch /\ works'[p].prior = works[p].prior
       /\ \A p \in Ordinals : works'[p].node <=> works[p].node
       /\ \A p \in Ordinals : works'[p].out = 0 => works[p].out = 0
  BY <1>4, <1>10, <1>13
<1>16. NodesOK'
  BY <1>2, <1>10, <1>15 DEF IndInv, NodesOK, leafOf
<1>17. \A p \in Ordinals : p # o => nodeCount + p \in 1..Leaves \ {l}
  BY <1>1, <1>3, InTurns DEF l
<1>18. WorksOK'
  <2>1. ASSUME NEW p \in Ordinals
        PROVE  /\ IF works'[p].out = 0 THEN accepted'[nodeCount + p] = {}
                  ELSE <<nodeCount + p, works'[p].out>> \in accepted'[nodeCount + p]
               /\ turns[nodeCount + p] <= works'[p].prior + 1
    <3>1. turns[nodeCount + p] <= works'[p].prior + 1
      BY <1>10, <1>15 DEF IndInv, WorksOK, leafOf
    <3>2. CASE p = o
      BY <3>1, <3>2, <1>7, <1>12 DEF l, t
    <3>3. CASE p # o
      <4>1. works'[p] = works[p] /\ accepted'[nodeCount + p] = accepted[nodeCount + p]
        BY <3>3, <1>10, <1>12, <1>17
      <4> QED
        BY <3>1, <4>1, <1>10 DEF IndInv, WorksOK, leafOf
    <3> QED
      BY <3>2, <3>3
  <2>2. ASSUME NEW k \in 1..Leaves
        PROVE  turns[k] <= MaxNoOutput /\ (k > nodeCount + Width => accepted'[k] = {} /\ turns[k] = 0)
    <3>1. ~(l > nodeCount + Width)
      BY <1>1, InTurns DEF l
    <3> QED
      BY <3>1, <1>12 DEF IndInv, WorksOK
  <2> QED
    BY <1>2, <1>10, <2>1, <2>2 DEF WorksOK, leafOf
<1>19. RunningOK'
  BY <1>2, <1>10, <1>15 DEF IndInv, RunningOK, leafOf
<1>20. ReleasedOK'
  BY <1>2, <1>10 DEF IndInv, ReleasedOK
<1>21. LaneOK(o)'
  BY <1>2, <1>3, <1>4, <1>5, <1>6, <1>13 DEF LaneOK, begins, native_turn, leafOf
<1>22. \A p \in Ordinals \ {o} : Undisturbed(p)
  BY <1>2, <1>6, <1>10 DEF Undisturbed
<1> QED
  BY <1>1, <1>2, <1>10, <1>14, <1>16, <1>18, <1>19, <1>20, <1>21, <1>22, LaneStep

(* A turn ends, or its answer is lost while it goes on.                    *)
LEMMA TurnEndsStep ==
  ASSUME IndInv, WaveAssumption, NEW o \in Ordinals, turnEnds(o)
  PROVE  IndInv'
<1>1. step.pc = "turns" /\ lane[o].pc = "turn"
  BY DEF turnEnds, here
<1>2. UNCHANGED <<tree, works, nodeCount, tail, control, fresh, released, owner, turns, accepted, late>>
  BY DEF turnEnds, disk, ghosts
<1>3. faults' \in 0..MaxFaults
  <2>1. fine \/ fault
    BY DEF turnEnds
  <2> QED
    BY <2>1, FaultsAreBounded DEF IndInv
<1>4. fresh' \subseteq Ordinals
  BY <1>2 DEF IndInv, Types, StepTypes
<1>5. CASE running' = running \ {native_turn(o)} /\ ends(o, "observed") /\ UNCHANGED step
  <2>1. /\ lane' \in [Ordinals -> LaneRecords] /\ lane'[o].pc = "finish" /\ lane'[o].commit = lane[o].commit
        /\ lane'[o].outcome = "observed" /\ \A p \in Ordinals \ {o} : lane'[p] = lane[p]
    BY <1>1, <1>5, InTurns, Ends DEF Outcomes
  <2>2. running' \subseteq running /\ native_turn(o) \notin running'
    BY <1>5
  <2>3. native_turn(o)' = native_turn(o)
    BY <1>2, <1>5 DEF native_turn, leafOf
  <2>4. Types'
    BY <1>1, <1>2, <1>3, <1>4, <1>5, <2>1, <2>2 DEF IndInv, Types, TreeTypes, StoreTypes, StepTypes, NativeTypes, GhostTypes
  <2>5. NodesOK' /\ WorksOK'
    BY <1>2 DEF IndInv, NodesOK, WorksOK, leafOf
  <2>6. RunningOK' /\ ReleasedOK'
    BY <1>2, <2>2 DEF IndInv, RunningOK, ReleasedOK, leafOf
  <2>7. LaneOK(o)'
    BY <1>1, <1>2, <1>5, <2>1, <2>2, <2>3, InTurns DEF LaneOK, begins
  <2>8. \A p \in Ordinals \ {o} : Undisturbed(p)
    BY <1>2, <2>1, <2>2 DEF Undisturbed
  <2>9. works' # <<>>
    BY <1>1, <1>2, InTurns
  <2> QED
    BY <1>1, <1>2, <1>5, <2>4, <2>5, <2>6, <2>7, <2>8, <2>9, LaneStep
<1>6. CASE ends(o, "unknown") /\ UNCHANGED running /\ (abortGroup \/ UNCHANGED step)
  <2>1. step' \in StepRecords /\ step'.pc = "turns" /\ step'.epoch = step.epoch /\ step'.retry = step.retry
    BY <1>1, <1>6, InTurns, Aborts
  <2>2. /\ lane' \in [Ordinals -> LaneRecords] /\ lane'[o].pc = "finish" /\ lane'[o].commit = lane[o].commit
        /\ lane'[o].outcome = "unknown" /\ \A p \in Ordinals \ {o} : lane'[p] = lane[p]
    BY <1>1, <1>6, InTurns, Ends DEF Outcomes
  <2>3. LaneOK(o)'
    BY <1>1, <1>2, <2>1, <2>2, InTurns DEF LaneOK, begins
  <2> QED
    BY <1>1, <1>2, <1>3, <1>4, <1>6, <2>1, <2>2, <2>3, QuietLaneStep
<1>7. \/ running' = running \ {native_turn(o)} /\ ends(o, "observed") /\ UNCHANGED step
      \/ ends(o, "unknown") /\ UNCHANGED running /\ (abortGroup \/ UNCHANGED step)
  BY DEF turnEnds
<1> QED
  BY <1>5, <1>6, <1>7

(* The tool call of the turn has been joined.                              *)
LEMMA FinishStep ==
  ASSUME IndInv, WaveAssumption, NEW o \in Ordinals, finish(o)
  PROVE  IndInv'
<1>1. step.pc = "turns" /\ lane[o].pc = "finish"
  BY DEF finish, here
<1>2. UNCHANGED <<tree, works, nodeCount, tail, control, step, fresh, released, owner, running, turns, accepted, late, faults>>
  BY DEF finish, disk, native, ghosts, fine
<1>3. /\ lane' \in [Ordinals -> LaneRecords] /\ lane'[o].pc = "record" /\ lane'[o].commit = lane[o].commit
      /\ lane'[o].outcome = lane[o].outcome /\ \A p \in Ordinals \ {o} : lane'[p] = lane[p]
  BY <1>1, InTurns, To DEF finish
<1>4. LaneOK(o)'
  BY <1>1, <1>2, <1>3, InTurns DEF LaneOK, begins, native_turn, leafOf
<1>5. fresh' \subseteq Ordinals /\ faults' \in 0..MaxFaults /\ step \in StepRecords
  BY <1>2 DEF IndInv, Types, StepTypes, GhostTypes
<1> QED
  BY <1>1, <1>2, <1>3, <1>4, <1>5, QuietLaneStep

(* The outcome of a work is written; nothing else of it changes.           *)
LEMMA OutcomeWritten ==
  ASSUME IndInv, WaveAssumption, works # <<>>, NEW o \in Ordinals, NEW v \in Outcomes,
         append([works EXCEPT ![o].outcome = v]) \/ appendFails([works EXCEPT ![o].outcome = v]),
         UNCHANGED <<tree, nodeCount, native, released, accepted>>
  PROVE  /\ works' \in [Ordinals -> Work] /\ works' # <<>>
         /\ \A p \in Ordinals : /\ works'[p].out = works[p].out /\ works'[p].prior = works[p].prior
                                /\ works'[p].epoch = works[p].epoch
         /\ tail' \in {"ready", "refused", "torn"} /\ faults' \in 0..MaxFaults
         /\ NodesOK' /\ WorksOK' /\ RunningOK' /\ ReleasedOK'
<1> DEFINE w == [works[o] EXCEPT !.outcome = v]
<1>1. works \in [Ordinals -> Work] /\ works[o] \in Work
  BY Wave DEF IndInv, Types
<1>2. w \in Work /\ w.out = works[o].out /\ w.prior = works[o].prior /\ w.epoch = works[o].epoch /\ (w.node <=> works[o].node)
  BY <1>1, OneField
<1>3. [works EXCEPT ![o].outcome = v] = [works EXCEPT ![o] = w]
  OBVIOUS
<1> HIDE DEF w
<1>4. /\ works' \in {works, [works EXCEPT ![o] = w]}
      /\ tail' \in {"ready", "refused", "torn"} /\ faults' \in 0..MaxFaults
  BY <1>3, Written DEF IndInv
<1>5. /\ works' \in [Ordinals -> Work] /\ works' # <<>>
      /\ works'[o] \in {works[o], w} /\ \A p \in Ordinals \ {o} : works'[p] = works[p]
  BY <1>1, <1>2, <1>4, OneWork
<1>6. /\ \A p \in Ordinals : /\ works'[p].out = works[p].out /\ works'[p].prior = works[p].prior
                             /\ works'[p].epoch = works[p].epoch
      /\ \A p \in Ordinals : works'[p].node <=> works[p].node
  BY <1>2, <1>5
<1>7. NodesOK'
  BY <1>5, <1>6 DEF IndInv, NodesOK, leafOf
<1>8. WorksOK'
  BY <1>5, <1>6 DEF IndInv, WorksOK, leafOf, native
<1>9. RunningOK' /\ ReleasedOK'
  BY <1>5, <1>6 DEF IndInv, RunningOK, ReleasedOK, leafOf, native
<1> QED
  BY <1>4, <1>5, <1>6, <1>7, <1>8, <1>9

(* The outcome of a turn is recorded.                                    *)
LEMMA RecordStep ==
  ASSUME IndInv, WaveAssumption, NEW o \in Ordinals, recordModelOutcome(o)
  PROVE  IndInv'
<1>1. step.pc = "turns" /\ lane[o].pc = "record"
  BY DEF recordModelOutcome, here
<1>2. UNCHANGED <<tree, nodeCount, control, fresh, released, owner, running, turns, accepted, late>>
  BY DEF recordModelOutcome, native, ghosts
<1>3. /\ step \in StepRecords /\ lane \in [Ordinals -> LaneRecords] /\ lane[o] \in LaneRecords
      /\ works # <<>> /\ LaneOK(o)
  BY <1>1, InTurns
<1>4. lane[o].outcome \in Outcomes
  BY <1>3, LaneFields
<1> DEFINE new == [works EXCEPT ![o].outcome = lane[o].outcome]
<1>5. \/ append(new) /\ UNCHANGED step /\ to(o, IF lane[o].outcome = "observed" /\ ~step.abort THEN "release" ELSE "done")
      \/ appendFails(new) /\ to(o, "done") /\ step' = [step EXCEPT !.broken = TRUE]
  BY DEF recordModelOutcome
<1> HIDE DEF new
<1>6. step' \in StepRecords /\ step'.pc = "turns" /\ step'.epoch = step.epoch /\ step'.retry = step.retry
  BY <1>1, <1>3, <1>5 DEF StepRecords
<1>7. /\ lane' \in [Ordinals -> LaneRecords] /\ lane'[o].pc \in {"release", "done"} /\ lane'[o].commit = lane[o].commit
      /\ lane'[o].outcome = lane[o].outcome /\ \A p \in Ordinals \ {o} : lane'[p] = lane[p]
      /\ lane'[o].pc = "release" => lane[o].outcome = "observed"
  <2>1. CASE to(o, "release") /\ lane[o].outcome = "observed"
    BY <2>1, <1>3, To
  <2>2. CASE to(o, "done")
    BY <2>2, <1>3, To
  <2> QED
    BY <2>1, <2>2, <1>5
<1>8. /\ works' \in [Ordinals -> Work] /\ works' # <<>>
      /\ \A p \in Ordinals : /\ works'[p].out = works[p].out /\ works'[p].prior = works[p].prior
                             /\ works'[p].epoch = works[p].epoch
      /\ tail' \in {"ready", "refused", "torn"} /\ faults' \in 0..MaxFaults
      /\ NodesOK' /\ WorksOK' /\ RunningOK' /\ ReleasedOK'
  BY <1>2, <1>3, <1>4, <1>5, OutcomeWritten DEF new, native
<1>9. Types'
  BY <1>2, <1>6, <1>7, <1>8 DEF IndInv, Types, TreeTypes, StoreTypes, StepTypes, NativeTypes, GhostTypes
<1>10. LaneOK(o)'
  BY <1>1, <1>2, <1>3, <1>6, <1>7, <1>8 DEF LaneOK, begins, native_turn, leafOf
<1>11. \A p \in Ordinals \ {o} : Undisturbed(p)
  BY <1>2, <1>7, <1>8 DEF Undisturbed
<1> QED
  BY <1>1, <1>2, <1>6, <1>8, <1>9, <1>10, <1>11, LaneStep

(* The connection acknowledges that a turn has ended.                      *)
LEMMA ReleaseStep ==
  ASSUME IndInv, WaveAssumption, NEW o \in Ordinals, releaseAnalysis(o)
  PROVE  IndInv'
<1>1. step.pc = "turns" /\ lane[o].pc = "release"
  BY DEF releaseAnalysis, here
<1>2. UNCHANGED <<tree, works, nodeCount, tail, control, fresh, owner, running, turns, accepted, late>>
  BY DEF releaseAnalysis, disk, native, ghosts
<1>3. faults' \in 0..MaxFaults
  <2>1. fine \/ fault
    BY DEF releaseAnalysis
  <2> QED
    BY <2>1, FaultsAreBounded DEF IndInv
<1>4. fresh' \subseteq Ordinals
  BY <1>2 DEF IndInv, Types, StepTypes
<1>5. lane \in [Ordinals -> LaneRecords] /\ LaneOK(o) /\ step \in StepRecords
  BY <1>1, InTurns
<1>6. CASE to(o, "done") /\ abortGroup /\ UNCHANGED released
  <2>1. step' \in StepRecords /\ step'.pc = "turns" /\ step'.epoch = step.epoch /\ step'.retry = step.retry
    BY <1>1, <1>5, <1>6, Aborts
  <2>2. /\ lane' \in [Ordinals -> LaneRecords] /\ lane'[o].pc = "done" /\ lane'[o].commit = lane[o].commit
        /\ \A p \in Ordinals \ {o} : lane'[p] = lane[p]
    BY <1>5, <1>6, To
  <2>3. LaneOK(o)'
    BY <1>1, <1>2, <1>5, <2>1, <2>2 DEF LaneOK, begins
  <2> QED
    BY <1>1, <1>2, <1>3, <1>4, <1>6, <2>1, <2>2, <2>3, QuietLaneStep
<1>7. CASE /\ lane' = [lane EXCEPT ![o].pc = "done", ![o].released = TRUE]
           /\ released' = released \cup {native_turn(o)} /\ UNCHANGED step
  <2> DEFINE l == [lane[o] EXCEPT !.pc = "done", !.released = TRUE]
             t == <<nodeCount + o, step.epoch>>
  <2>1. l \in LaneRecords /\ l.pc = "done" /\ l.commit = lane[o].commit
    BY <1>5 DEF LaneRecords
  <2>2. lane' = [lane EXCEPT ![o] = l]
    BY <1>7
  <2> HIDE DEF l
  <2>3. lane' \in [Ordinals -> LaneRecords] /\ lane'[o] = l /\ \A p \in Ordinals \ {o} : lane'[p] = lane[p]
    BY <1>5, <2>1, <2>2, OneLane
  <2>4. t \notin running /\ native_turn(o) = t
    BY <1>1, <1>5 DEF LaneOK, native_turn, leafOf
  <2>5. /\ nodeCount + o \in 1..Leaves /\ step.epoch \in Epochs /\ owner[step.epoch] = "live" /\ works # <<>>
        /\ nodeCount + o <= nodeCount + Width /\ nodeCount \in Nat
    BY <1>1, InTurns
  <2>6. released' = released \cup {t} /\ released' \subseteq Turns
    BY <1>7, <2>4, <2>5 DEF Turns, IndInv, Types, NativeTypes
  <2>7. Types'
    BY <1>2, <1>3, <1>4, <1>5, <1>7, <2>3, <2>6 DEF IndInv, Types, TreeTypes, StoreTypes, StepTypes, NativeTypes, GhostTypes
  <2>8. NodesOK' /\ WorksOK' /\ RunningOK'
    BY <1>2 DEF IndInv, NodesOK, WorksOK, RunningOK, leafOf
  <2>9. ReleasedOK'
    BY <1>2, <2>4, <2>5, <2>6 DEF IndInv, ReleasedOK
  <2>10. LaneOK(o)'
    BY <1>1, <1>2, <1>5, <1>7, <2>1, <2>3 DEF LaneOK, begins
  <2>11. \A p \in Ordinals \ {o} : Undisturbed(p)
    <3>1. \A p \in Ordinals \ {o} : <<nodeCount + p, step.epoch>> # t
      BY <2>5, Constants
    <3> HIDE DEF t
    <3> QED
      BY <1>2, <2>3, <2>6, <3>1 DEF Undisturbed
  <2> QED
    BY <1>1, <1>2, <1>7, <2>5, <2>7, <2>8, <2>9, <2>10, <2>11, LaneStep
<1> QED
  BY <1>6, <1>7 DEF releaseAnalysis

-----------------------------------------------------------------------------
(* The steps after the turns                                               *)

(* A step that only moves on, to a place that relies on nothing.           *)
LEMMA MovesOn ==
  ASSUME IndInv, WaveAssumption, UNCHANGED <<tree, works, nodeCount, control, native, released, accepted, late>>,
         tail' \in {"ready", "refused", "torn"},
         faults' \in 0..MaxFaults, StepTypes', step'.pc \in {"project", "consumed", "blocked"}
  PROVE  IndInv'
<1>1. NodesOK' /\ WorksOK' /\ RunningOK' /\ ReleasedOK'
  BY Quiet
<1>2. Types'
  BY DEF IndInv, Types, TreeTypes, StoreTypes, NativeTypes, GhostTypes, native
<1>3. BeforeTurns' /\ TurnsOK' /\ ProjectionOK'
  BY DEF BeforeTurns, TurnsOK, ProjectionOK
<1> QED
  BY <1>1, <1>2, <1>3 DEF IndInv

(* Going to another place keeps the types of the step.                   *)
LEMMA MovesTo ==
  ASSUME IndInv, NEW pc \in Stops, goto(pc), UNCHANGED <<lane, fresh>>
  PROVE  StepTypes' /\ step'.pc = pc /\ step'.epoch = step.epoch /\ step'.retry = step.retry /\ (step'.warm <=> step.warm)
BY Goto DEF IndInv, Types, StepTypes

(* All lanes have ended.                                                   *)
LEMMA SettledStep ==
  ASSUME IndInv, WaveAssumption, settled
  PROVE  IndInv'
<1>1. step.pc = "turns" /\ step \in StepRecords
  BY DEF settled, IndInv, Types, StepTypes
<1>2. UNCHANGED <<tree, works, nodeCount, tail, control, lane, fresh, released, owner, running, turns, accepted, late, faults>>
  BY DEF settled, disk, native, ghosts, fine
<1> DEFINE cancelled == control # "queued"
           unreleased == \E o \in Ordinals : begins(o) /\ ~lane[o].released
           abort == step.abort \/ cancelled \/ unreleased \/ step.broken
           pc == IF step.broken \/ cancelled THEN "cleanup" ELSE "join"
<1>3. step' = [step EXCEPT !.abort = abort, !.pc = pc]
  BY DEF settled
<1>4. pc \in {"cleanup", "join"} /\ pc \in Stops
  BY DEF Stops
<1>5. abort \in BOOLEAN
  BY <1>1 DEF StepRecords
<1> HIDE DEF pc, abort, cancelled, unreleased
<1>6. step' \in StepRecords /\ step'.pc \in {"cleanup", "join"} /\ step'.epoch = step.epoch
  BY <1>1, <1>3, <1>4, <1>5 DEF StepRecords
<1>7. NodesOK' /\ WorksOK' /\ RunningOK' /\ ReleasedOK'
  BY <1>2, Quiet DEF native
<1>8. Types'
  BY <1>2, <1>6 DEF IndInv, Types, TreeTypes, StoreTypes, StepTypes, NativeTypes, GhostTypes
<1>9. BeforeTurns'
  BY <1>1, <1>2, <1>6 DEF IndInv, BeforeTurns
<1>10. TurnsOK' /\ ProjectionOK'
  BY <1>6 DEF TurnsOK, ProjectionOK
<1> QED
  BY <1>7, <1>8, <1>9, <1>10 DEF IndInv

(* An owner is settled and its turns end.                                  *)
LEMMA OwnerSettled ==
  ASSUME IndInv, NEW e, owner' = [owner EXCEPT ![e] = "settled"], running' = {t \in running : t[2] # e},
         UNCHANGED <<tree, works, nodeCount, released, accepted, turns>>
  PROVE  /\ NativeTypes' /\ NodesOK' /\ WorksOK' /\ RunningOK' /\ ReleasedOK' /\ running' \subseteq running
         /\ \A f \in Epochs : owner'[f] = IF f = e THEN "settled" ELSE owner[f]
<1>1. owner \in [Epochs -> {"none", "live", "settled"}] /\ running \subseteq Turns /\ released \subseteq Turns
  BY DEF IndInv, Types, NativeTypes
<1>2. /\ owner' \in [Epochs -> {"none", "live", "settled"}] /\ running' \subseteq running
      /\ \A f \in Epochs : owner'[f] = IF f = e THEN "settled" ELSE owner[f]
  BY <1>1
<1>3. NativeTypes'
  BY <1>1, <1>2 DEF IndInv, Types, NativeTypes
<1>4. NodesOK' /\ WorksOK'
  BY DEF IndInv, NodesOK, WorksOK, leafOf
<1>5. RunningOK'
  <2>1. \A t \in running' : t \in running /\ t[2] \in Epochs /\ t[2] # e
    BY <1>1 DEF Turns
  <2> QED
    BY <1>2, <2>1 DEF IndInv, RunningOK, leafOf
<1>6. ReleasedOK'
  <2>1. \A r \in released : r[2] \in Epochs
    BY <1>1 DEF Turns
  <2> QED
    BY <1>2, <2>1 DEF IndInv, ReleasedOK
<1> QED
  BY <1>2, <1>3, <1>4, <1>5, <1>6

(* The group is kept warm, or joined and its owner settled.                *)
LEMMA JoinStep ==
  ASSUME IndInv, WaveAssumption, join
  PROVE  IndInv'
<1>1. step.pc = "join" /\ step \in StepRecords
  BY DEF join, IndInv, Types, StepTypes
<1>2. UNCHANGED <<tree, works, nodeCount, tail, control, lane, fresh, released, turns, accepted, late>>
  BY DEF join, disk, ghosts
<1>3. faults' \in 0..MaxFaults
  <2>1. fine \/ fault
    BY DEF join
  <2> QED
    BY <2>1, FaultsAreBounded DEF IndInv
<1>4. tail' \in {"ready", "refused", "torn"} /\ control' \in {"queued", "cancelled"}
  BY <1>2 DEF IndInv, Types, StoreTypes
<1>5. CASE step' = [step EXCEPT !.pc = "project", !.warm = TRUE] /\ UNCHANGED <<owner, running>>
  <2>1. step' \in StepRecords /\ step'.pc = "project"
    BY <1>1, <1>5 DEF StepRecords, Stops
  <2>2. StepTypes'
    BY <1>2, <2>1 DEF IndInv, Types, StepTypes
  <2> QED
    BY <1>2, <1>3, <1>4, <1>5, <2>1, <2>2, MovesOn DEF native
<1>6. CASE goto("consumed") /\ UNCHANGED <<owner, running>>
  <2>1. StepTypes' /\ step'.pc = "consumed"
    BY <1>2, <1>6, MovesTo DEF Stops
  <2> QED
    BY <1>2, <1>3, <1>4, <1>6, <2>1, MovesOn DEF native
<1>7. CASE joined /\ goto("project")
  <2>1. StepTypes' /\ step'.pc = "project"
    BY <1>2, <1>7, MovesTo DEF Stops
  <2>2. NativeTypes' /\ NodesOK' /\ WorksOK' /\ RunningOK' /\ ReleasedOK'
    BY <1>2, <1>7, OwnerSettled DEF joined
  <2>3. Types'
    BY <1>2, <1>3, <1>4, <2>1, <2>2 DEF IndInv, Types, TreeTypes, StoreTypes, GhostTypes
  <2>4. BeforeTurns' /\ TurnsOK' /\ ProjectionOK'
    BY <2>1 DEF BeforeTurns, TurnsOK, ProjectionOK
  <2> QED
    BY <2>2, <2>3, <2>4 DEF IndInv
<1> QED
  BY <1>5, <1>6, <1>7 DEF join

(* The step looks whether there is anything to project.                  *)
LEMMA ProjectStep ==
  ASSUME IndInv, WaveAssumption, projectParallel
  PROVE  IndInv'
<1>1. UNCHANGED <<tree, works, nodeCount, tail, control, lane, fresh, released, owner, running, turns, accepted, late, faults>>
  BY DEF projectParallel, disk, native, ghosts, fine
<1>2. \/ missing \cup refusals = {} /\ goto("outcome")
      \/ goto("blocked")
      \/ goto("consumed")
  BY DEF projectParallel
<1>3. /\ tail' \in {"ready", "refused", "torn"} /\ control' \in {"queued", "cancelled"} /\ faults' \in 0..MaxFaults
  BY <1>1 DEF IndInv, Types, StoreTypes, GhostTypes
<1>4. CASE goto("blocked") \/ goto("consumed")
  <2>1. StepTypes' /\ step'.pc \in {"blocked", "consumed"}
    BY <1>1, <1>4, MovesTo DEF Stops
  <2> QED
    BY <1>1, <1>3, <2>1, MovesOn DEF native
<1>5. CASE missing = {} /\ goto("outcome")
  <2>1. StepTypes' /\ step'.pc = "outcome"
    BY <1>1, <1>5, MovesTo DEF Stops
  <2>2. NodesOK' /\ WorksOK' /\ RunningOK' /\ ReleasedOK'
    BY <1>1, Quiet DEF native
  <2>3. Types'
    BY <1>1, <1>3, <2>1 DEF IndInv, Types, TreeTypes, StoreTypes, NativeTypes, GhostTypes
  <2>4. BeforeTurns' /\ TurnsOK'
    BY <2>1 DEF BeforeTurns, TurnsOK
  <2>5. ProjectionOK'
    BY <1>1, <1>5, <2>1, SameLists DEF ProjectionOK
  <2> QED
    BY <2>2, <2>3, <2>4, <2>5 DEF IndInv
<1>6. missing \cup refusals = {} => missing = {}
  OBVIOUS
<1> QED
  BY <1>2, <1>4, <1>5, <1>6

(* An outcome lost with the process stays unknown.                         *)
LEMMA OutcomesStep ==
  ASSUME IndInv, WaveAssumption, outcomes
  PROVE  IndInv'
<1>1. step.pc = "outcome" /\ step \in StepRecords /\ missing = {}
  BY DEF outcomes, IndInv, Types, StepTypes, ProjectionOK
<1>2. UNCHANGED <<tree, nodeCount, control, lane, fresh, released, owner, running, turns, accepted, late>>
  BY DEF outcomes, native, ghosts
<1>3. CASE withoutOutcome = {} /\ fine /\ goto("select") /\ UNCHANGED <<works, tail>>
  <2>1. StepTypes' /\ step'.pc = "select"
    BY <1>2, <1>3, MovesTo DEF Stops
  <2>2. NodesOK' /\ WorksOK' /\ RunningOK' /\ ReleasedOK'
    BY <1>2, <1>3, Quiet DEF native
  <2>3. faults' \in 0..MaxFaults
    BY <1>3, FaultsAreBounded DEF IndInv
  <2>4. Types'
    BY <1>2, <1>3, <2>1, <2>3 DEF IndInv, Types, TreeTypes, StoreTypes, NativeTypes, GhostTypes
  <2>5. BeforeTurns' /\ TurnsOK'
    BY <2>1 DEF BeforeTurns, TurnsOK
  <2>6. ProjectionOK'
    BY <1>1, <1>2, <1>3, <2>1, SameLists DEF ProjectionOK
  <2> QED
    BY <2>2, <2>4, <2>5, <2>6 DEF IndInv
<1>4. CASE fault /\ goto("consumed") /\ UNCHANGED <<works, tail>>
  <2>1. StepTypes' /\ step'.pc = "consumed"
    BY <1>2, <1>4, MovesTo DEF Stops
  <2>2. faults' \in 0..MaxFaults
    BY <1>4, FaultsAreBounded DEF IndInv
  <2>3. tail' \in {"ready", "refused", "torn"} /\ control' \in {"queued", "cancelled"}
    BY <1>2, <1>4 DEF IndInv, Types, StoreTypes
  <2> QED
    BY <1>2, <1>4, <2>1, <2>2, <2>3, MovesOn DEF native
<1> DEFINE m == Min(withoutOutcome)
<1>5. CASE /\ withoutOutcome # {}
           /\ \/ append([works EXCEPT ![m].outcome = "unknown"]) /\ UNCHANGED step
              \/ appendFails([works EXCEPT ![m].outcome = "unknown"]) /\ goto("consumed")
  <2>1. works # <<>> /\ withoutOutcome \subseteq Ordinals
    BY <1>5, NoWave, Wave DEF IndInv, Types
  <2>2. m \in Ordinals
    <3>1. withoutOutcome \in SUBSET Nat
      BY <2>1, Constants
    <3> QED
      BY <1>5, <2>1, <3>1, Least
  <2>3. "unknown" \in Outcomes
    BY DEF Outcomes
  <2> HIDE DEF m
  <2>4. /\ works' \in [Ordinals -> Work] /\ works' # <<>> /\ \A p \in Ordinals : works'[p].out = works[p].out
        /\ tail' \in {"ready", "refused", "torn"} /\ faults' \in 0..MaxFaults
        /\ NodesOK' /\ WorksOK' /\ RunningOK' /\ ReleasedOK'
    BY <1>2, <1>5, <2>1, <2>2, <2>3, OutcomeWritten DEF native
  <2>5. StepTypes' /\ step'.pc \in {"outcome", "consumed"}
    <3>1. CASE UNCHANGED step
      BY <3>1, <1>1, <1>2 DEF IndInv, Types, StepTypes
    <3>2. CASE goto("consumed")
      BY <3>2, <1>2, MovesTo DEF Stops
    <3> QED
      BY <1>5, <3>1, <3>2
  <2>6. Types'
    BY <1>2, <2>4, <2>5 DEF IndInv, Types, TreeTypes, StoreTypes, NativeTypes, GhostTypes
  <2>7. missing' = {}
    <3>1. \A p \in Ordinals : works[p].out # 0
      BY <1>1, <2>1, Wave DEF IndInv, Types
    <3> QED
      BY <2>4, <3>1 DEF missing
  <2>8. BeforeTurns' /\ TurnsOK' /\ ProjectionOK'
    BY <2>5, <2>7 DEF BeforeTurns, TurnsOK, ProjectionOK
  <2> QED
    BY <2>4, <2>6, <2>8 DEF IndInv
<1>6. \/ withoutOutcome = {} /\ fine /\ goto("select") /\ UNCHANGED <<works, tail>>
      \/ fault /\ goto("consumed") /\ UNCHANGED <<works, tail>>
      \/ /\ withoutOutcome # {}
         /\ \/ append([works EXCEPT ![m].outcome = "unknown"]) /\ UNCHANGED step
            \/ appendFails([works EXCEPT ![m].outcome = "unknown"]) /\ goto("consumed")
  BY DEF outcomes, recoverOutcome
<1> QED
  BY <1>3, <1>4, <1>5, <1>6

(* Between two works the control slot is read again.                       *)
LEMMA SelectStep ==
  ASSUME IndInv, WaveAssumption, select
  PROVE  IndInv'
<1>1. step.pc = "select" /\ step \in StepRecords /\ missing = {}
  BY DEF select, IndInv, Types, StepTypes, ProjectionOK
<1>2. UNCHANGED <<tree, works, nodeCount, tail, control, lane, fresh, released, owner, running, turns, accepted, late, faults>>
  BY DEF select, disk, native, ghosts, fine
<1>3. goto("consumed") \/ step' = NoStep \/ (unprojected # {} /\ goto("verify"))
  BY DEF select
<1>4. /\ tail' \in {"ready", "refused", "torn"} /\ control' \in {"queued", "cancelled"} /\ faults' \in 0..MaxFaults
  BY <1>2 DEF IndInv, Types, StoreTypes, GhostTypes
<1>5. CASE goto("consumed")
  <2>1. StepTypes' /\ step'.pc = "consumed"
    BY <1>2, <1>5, MovesTo DEF Stops
  <2> QED
    BY <1>2, <1>4, <2>1, MovesOn DEF native
<1>6. CASE step' = NoStep \/ (unprojected # {} /\ goto("verify"))
  <2>1. StepTypes' /\ \/ step'.pc = "idle" /\ step'.retry = 0
                      \/ step'.pc = "verify" /\ unprojected # {}
    <3>1. CASE step' = NoStep
      BY <3>1, <1>2, Forgotten DEF IndInv, Types, StepTypes
    <3>2. CASE unprojected # {} /\ goto("verify")
      BY <3>2, <1>2, MovesTo DEF Stops
    <3> QED
      BY <1>6, <3>1, <3>2
  <2>2. NodesOK' /\ WorksOK' /\ RunningOK' /\ ReleasedOK'
    BY <1>2, Quiet DEF native
  <2>3. Types'
    BY <1>2, <1>4, <2>1 DEF IndInv, Types, TreeTypes, StoreTypes, NativeTypes, GhostTypes
  <2>4. BeforeTurns' /\ TurnsOK'
    BY <2>1 DEF BeforeTurns, TurnsOK
  <2>5. ProjectionOK'
    BY <1>1, <1>2, <2>1, SameLists DEF ProjectionOK
  <2> QED
    BY <2>2, <2>3, <2>4, <2>5 DEF IndInv
<1> QED
  BY <1>3, <1>5, <1>6

-----------------------------------------------------------------------------
(* The projection of one work                                              *)

(* The work to project is the first that has no node.                      *)
LEMMA Current ==
  ASSUME IndInv, WaveAssumption, unprojected # {}
  PROVE  /\ works # <<>> /\ works \in [Ordinals -> Work] /\ current \in Ordinals /\ ~works[current].node
         /\ \A o \in Ordinals : o < current => works[o].node
         /\ nodeCount \in Nat /\ Len(tree) \in Nat /\ Width \in Nat /\ Leaves \in Nat
         /\ current \in Nat \ {0} /\ current <= Width
         /\ leafOf(current) \in 1..Leaves /\ Len(tree) <= leafOf(current) /\ leafOf(current) <= Len(tree) + 1
<1>1. works # <<>> /\ works \in [Ordinals -> Work] /\ unprojected = {o \in Ordinals : ~works[o].node}
  BY NoWave, Wave DEF IndInv, Types
<1>2. unprojected \in SUBSET Nat
  BY <1>1, Constants
<1>3. current \in unprojected /\ \A o \in unprojected : current <= o
  BY <1>2, Least DEF current
<1> HIDE DEF current
<1>4. current \in Ordinals /\ ~works[current].node
  BY <1>1, <1>3
<1>5. \A o \in Ordinals : o \in Nat \ {0} /\ o <= Width
  BY Constants DEF Ordinals
<1>6. ASSUME NEW o \in Ordinals, o < current PROVE works[o].node
  BY <1>1, <1>3, <1>4, <1>5, <1>6
<1>7. nodeCount \in Nat /\ Len(tree) \in Nat /\ Width \in Nat /\ Leaves \in Nat
  BY Constants, LenProperties DEF IndInv, Types, TreeTypes
<1>8. nodeCount + Width <= Leaves /\ nodeCount <= Len(tree) /\ Len(tree) <= leafOf(current)
  BY <1>1, <1>4 DEF IndInv, NodesOK
<1>9. leafOf(current) <= Len(tree) + 1
  <2>1. CASE current = 1
    BY <2>1, <1>7, <1>8 DEF leafOf
  <2>2. CASE current # 1
    <3> DEFINE b == current - 1
    <3>1. b \in Ordinals /\ b < current /\ b + 1 = current /\ b \in Nat
      BY <2>2, <1>4, <1>5, <1>7 DEF Ordinals
    <3>2. works[b].node
      BY <3>1, <1>6
    <3>3. nodeCount + b <= Len(tree)
      BY <3>1, <3>2, <1>1 DEF IndInv, NodesOK, leafOf
    <3> QED
      BY <3>1, <3>3, <1>7 DEF leafOf
  <2> QED
    BY <2>1, <2>2
<1>10. leafOf(current) \in 1..Leaves
  BY <1>4, <1>5, <1>7, <1>8 DEF leafOf
<1> QED
  BY <1>1, <1>4, <1>5, <1>6, <1>7, <1>8, <1>9, <1>10

(* An output is used once its turn was released or its owner is settled:   *)
(* no turn of its leaf is left.                                            *)
LEMMA VerifyStep ==
  ASSUME IndInv, WaveAssumption, verify
  PROVE  IndInv'
<1>1. step.pc = "verify" /\ step \in StepRecords /\ missing = {} /\ unprojected # {}
  BY DEF verify, IndInv, Types, StepTypes, ProjectionOK
<1>2. UNCHANGED <<tree, works, nodeCount, tail, control, lane, fresh, released, owner, running, turns, accepted, late>>
  BY DEF verify, disk, native, ghosts
<1>3. faults' \in 0..MaxFaults
  <2>1. fine \/ fault
    BY DEF verify
  <2> QED
    BY <2>1, FaultsAreBounded DEF IndInv
<1>4. (verified /\ (goto("append") \/ goto("intent"))) \/ goto("consumed")
  BY DEF verify
<1>5. tail' \in {"ready", "refused", "torn"} /\ control' \in {"queued", "cancelled"}
  BY <1>2 DEF IndInv, Types, StoreTypes
<1>6. CASE goto("consumed")
  <2>1. StepTypes' /\ step'.pc = "consumed"
    BY <1>2, <1>6, MovesTo DEF Stops
  <2> QED
    BY <1>2, <1>3, <1>5, <2>1, MovesOn DEF native
<1>7. CASE verified /\ (goto("append") \/ goto("intent"))
  <2>1. StepTypes' /\ step'.pc \in {"append", "intent"}
    BY <1>2, <1>7, MovesTo DEF Stops
  <2>2. NodesOK' /\ WorksOK' /\ RunningOK' /\ ReleasedOK'
    BY <1>2, Quiet DEF native
  <2>3. Types'
    BY <1>2, <1>3, <1>5, <2>1 DEF IndInv, Types, TreeTypes, StoreTypes, NativeTypes, GhostTypes
  <2>4. BeforeTurns' /\ TurnsOK'
    BY <2>1 DEF BeforeTurns, TurnsOK
  <2>5. ASSUME NEW t \in running PROVE t[1] # leafOf(current)
    <3>1. SUFFICES ASSUME t[1] = leafOf(current) PROVE FALSE
      OBVIOUS
    <3>2. PICK o \in Ordinals : t = <<leafOf(o), works[o].epoch>> /\ owner[t[2]] = "live"
      BY DEF IndInv, RunningOK
    <3>3. nodeCount \in Nat /\ current \in Nat /\ o \in Nat
      BY <1>1, Current, Constants
    <3>4. o = current
      BY <3>1, <3>2, <3>3 DEF leafOf
    <3>5. t = <<leafOf(current), works[current].epoch>> /\ owner[works[current].epoch] = "live"
      BY <3>2, <3>4
    <3>6. CASE <<leafOf(current), works[current].epoch>> \in released
      BY <3>5, <3>6 DEF IndInv, ReleasedOK
    <3>7. CASE proved(works[current].epoch)
      BY <3>5, <3>7 DEF proved
    <3> QED
      BY <1>7, <3>6, <3>7 DEF verified
  <2>6. \A t \in running' : t[1] # leafOf(current)'
    <3>1. leafOf(current)' = leafOf(current)
      BY <1>2, SameLists DEF leafOf
    <3> QED
      BY <1>2, <2>5, <3>1
  <2>7. unprojected' # {} /\ missing' = {}
    BY <1>1, <1>2, SameLists
  <2>8. ProjectionOK'
    BY <2>1, <2>6, <2>7 DEF ProjectionOK
  <2> QED
    BY <2>2, <2>3, <2>4, <2>8 DEF IndInv
<1> QED
  BY <1>4, <1>6, <1>7

(* The intent is written before the node.                                  *)
LEMMA IntentStep ==
  ASSUME IndInv, WaveAssumption, intent
  PROVE  IndInv'
<1>1. /\ step.pc = "intent" /\ step \in StepRecords /\ missing = {} /\ unprojected # {}
      /\ \A t \in running : t[1] # leafOf(current)
  BY DEF intent, IndInv, Types, StepTypes, ProjectionOK
<1>2. UNCHANGED <<tree, nodeCount, control, lane, fresh, released, owner, running, turns, accepted, late>>
  BY DEF intent, native, ghosts
<1> DEFINE c == current
           w == [works[c] EXCEPT !.proj = TRUE]
<1>3. works # <<>> /\ works \in [Ordinals -> Work] /\ c \in Ordinals /\ works[c] \in Work
  BY <1>1, Current
<1>4. w \in Work /\ w.out = works[c].out /\ w.prior = works[c].prior /\ w.epoch = works[c].epoch /\ (w.node <=> works[c].node)
  BY <1>3, OneField
<1>5. \/ append([works EXCEPT ![c] = w]) /\ goto("append")
      \/ appendFails([works EXCEPT ![c] = w]) /\ goto("consumed")
  <2>1. [works EXCEPT ![c].proj = TRUE] = [works EXCEPT ![c] = w]
    OBVIOUS
  <2> HIDE DEF w
  <2> QED
    BY <2>1 DEF intent
<1> HIDE DEF w, c
<1>6. /\ works' \in {works, [works EXCEPT ![c] = w]}
      /\ tail' \in {"ready", "refused", "torn"} /\ faults' \in 0..MaxFaults
  BY <1>5, Written DEF IndInv
<1>7. /\ works' \in [Ordinals -> Work] /\ works' # <<>>
      /\ works'[c] \in {works[c], w} /\ \A p \in Ordinals \ {c} : works'[p] = works[p]
  BY <1>3, <1>4, <1>6, OneWork
<1>8. /\ \A p \in Ordinals : /\ works'[p].out = works[p].out /\ works'[p].prior = works[p].prior
                             /\ works'[p].epoch = works[p].epoch
      /\ \A p \in Ordinals : works'[p].node <=> works[p].node
  BY <1>4, <1>7
<1>9. unprojected' = unprojected /\ missing' = missing
  <2>1. unprojected = {o \in Ordinals : ~works[o].node} /\ missing = {o \in Ordinals : works[o].out = 0}
    BY <1>3, Wave DEF IndInv, Types
  <2>2. unprojected' = {o \in Ordinals : ~works'[o].node} /\ missing' = {o \in Ordinals : works'[o].out = 0}
    BY <1>7 DEF unprojected, missing
  <2> QED
    BY <1>8, <2>1, <2>2
<1>10. current' = current /\ leafOf(current)' = leafOf(current)
  BY <1>2, <1>9 DEF current, leafOf
<1>11. NodesOK'
  BY <1>2, <1>3, <1>7, <1>8 DEF IndInv, NodesOK, leafOf
<1>12. WorksOK'
  BY <1>2, <1>3, <1>7, <1>8 DEF IndInv, WorksOK, leafOf
<1>13. RunningOK' /\ ReleasedOK'
  BY <1>2, <1>7, <1>8 DEF IndInv, RunningOK, ReleasedOK, leafOf
<1>14. StepTypes' /\ step'.pc \in {"append", "consumed"}
  BY <1>2, <1>5, MovesTo DEF Stops
<1>15. Types'
  BY <1>2, <1>6, <1>7, <1>14 DEF IndInv, Types, TreeTypes, StoreTypes, NativeTypes, GhostTypes
<1>16. BeforeTurns' /\ TurnsOK'
  BY <1>14 DEF BeforeTurns, TurnsOK
<1>17. ProjectionOK'
  BY <1>1, <1>2, <1>9, <1>10, <1>14 DEF ProjectionOK
<1> QED
  BY <1>11, <1>12, <1>13, <1>15, <1>16, <1>17 DEF IndInv

(* The output becomes the node of the next leaf.                           *)
LEMMA Appended ==
  ASSUME IndInv, WaveAssumption, step.pc = "appending", tree' = Append(tree, output),
         UNCHANGED <<works, nodeCount, released, owner, running, turns, accepted>>
  PROVE  /\ output \in Outputs /\ output \in accepted[Len(tree) + 1] /\ tree' \in Seq(Outputs)
         /\ Len(tree)' = Len(tree) + 1 /\ Len(tree) < Leaves /\ leafOf(current) = Len(tree) + 1
         /\ NodesOK' /\ WorksOK' /\ RunningOK' /\ ReleasedOK'
<1> DEFINE c == current
<1>1. missing = {} /\ unprojected # {} /\ isNew /\ \A t \in running : t[1] # leafOf(c)
  BY DEF IndInv, ProjectionOK
<1>2. /\ works # <<>> /\ works \in [Ordinals -> Work] /\ c \in Ordinals /\ ~works[c].node
      /\ \A o \in Ordinals : o < c => works[o].node
      /\ nodeCount \in Nat /\ Len(tree) \in Nat /\ Width \in Nat /\ Leaves \in Nat /\ c \in Nat \ {0} /\ c <= Width
      /\ leafOf(c) \in 1..Leaves /\ Len(tree) <= leafOf(c) /\ leafOf(c) <= Len(tree) + 1
  BY <1>1, Current
<1>3. leafOf(c) = Len(tree) + 1 /\ Len(tree) < Leaves /\ leafOf(c) = nodeCount + c
  BY <1>1, <1>2 DEF isNew, leafOf
<1>4. works[c].out # 0 /\ works[c].out \in Epochs
  <2>1. works[c].out # 0
    BY <1>1, <1>2, Wave DEF IndInv, Types
  <2>2. works[c].out \in 0..MaxEpochs
    BY <1>2, WorkFields
  <2> QED
    BY <2>1, <2>2, Constants DEF Epochs
<1>5. output = <<leafOf(c), works[c].out>> /\ output \in Outputs
  BY <1>2, <1>4 DEF output, Outputs
<1>6. output \in accepted[Len(tree) + 1]
  BY <1>2, <1>3, <1>4, <1>5 DEF IndInv, WorksOK
<1> HIDE DEF c
<1>7. tree' \in Seq(Outputs) /\ Len(tree)' = Len(tree) + 1
  BY <1>5, AppendProperties DEF IndInv, Types, TreeTypes
<1>8. NodesOK'
  <2>1. (\E q \in Nat : nodeCount = q * Width) /\ nodeCount + Width <= Leaves /\ nodeCount <= Len(tree)
    BY <1>2 DEF IndInv, NodesOK
  <2>2. ASSUME NEW o \in Ordinals
        PROVE  IF works[o].node THEN nodeCount + o <= Len(tree) + 1 ELSE Len(tree) + 1 <= nodeCount + o
    <3>1. o \in Nat
      BY Constants
    <3>2. CASE works[o].node
      <4>1. nodeCount + o <= Len(tree)
        BY <3>2, <1>2 DEF IndInv, NodesOK, leafOf
      <4> QED
        BY <3>1, <3>2, <4>1, <1>2
    <3>3. CASE ~works[o].node
      BY <3>1, <3>3, <1>2, <1>3
    <3> QED
      BY <3>2, <3>3
  <2>3. \A o \in Ordinals : works[o].out # 0
    BY <1>1, <1>2, Wave DEF IndInv, Types
  <2>4. Len(tree) + 1 <= nodeCount + Width /\ nodeCount <= Len(tree) + 1
    BY <1>2, <1>3, <2>1
  <2> QED
    BY <1>2, <1>7, <2>1, <2>2, <2>3, <2>4 DEF NodesOK, leafOf
<1>9. WorksOK'
  BY DEF IndInv, WorksOK, leafOf
<1>10. RunningOK'
  <2>1. ASSUME NEW t \in running PROVE t[1] > Len(tree) + 1
    <3>1. t[1] > Len(tree) /\ t[1] # Len(tree) + 1
      BY <1>1, <1>3 DEF IndInv, RunningOK
    <3>2. t[1] \in Nat
      BY DEF IndInv, Types, NativeTypes, Turns
    <3> QED
      BY <3>1, <3>2, <1>2
  <2> QED
    BY <1>7, <2>1 DEF IndInv, RunningOK, leafOf
<1>11. ReleasedOK'
  BY DEF IndInv, ReleasedOK
<1> QED
  BY <1>3, <1>5, <1>6, <1>7, <1>8, <1>9, <1>10, <1>11 DEF c

(* The last look at the control slot: a new node is written only for a     *)
(* task that is still queued then.                                         *)
LEMMA AdmitLeafStep ==
  ASSUME IndInv, WaveAssumption, admitLeaf
  PROVE  IndInv'
<1>1. /\ step.pc = "append" /\ step \in StepRecords /\ missing = {} /\ unprojected # {}
      /\ \A t \in running : t[1] # leafOf(current)
  BY DEF admitLeaf, IndInv, Types, StepTypes, ProjectionOK
<1>2. UNCHANGED <<tree, works, nodeCount, tail, control, lane, fresh, released, owner, running, turns, accepted, late, faults>>
  BY DEF admitLeaf, disk, native, ghosts, fine
<1>3. NodesOK' /\ WorksOK' /\ RunningOK' /\ ReleasedOK'
  BY <1>2, Quiet DEF native
<1>4. (~isNew /\ goto("node")) \/ (isNew /\ queued /\ goto("appending")) \/ goto("consumed")
  BY DEF admitLeaf
<1>5. StepTypes' /\ \/ step'.pc = "node" /\ ~isNew
                    \/ step'.pc = "appending" /\ isNew /\ queued
                    \/ step'.pc = "consumed"
  BY <1>2, <1>4, MovesTo DEF Stops
<1>6. Types'
  BY <1>2, <1>5 DEF IndInv, Types, TreeTypes, StoreTypes, NativeTypes, GhostTypes
<1>7. BeforeTurns' /\ TurnsOK'
  BY <1>5 DEF BeforeTurns, TurnsOK
<1>8. ~isNew => leafOf(current) <= Len(tree)
  BY <1>1, Current DEF isNew
<1>9. queued => late = 0
  BY DEF queued, IndInv, Types, GhostTypes
<1>10. ProjectionOK'
  <2>1. /\ unprojected' = unprojected /\ missing' = missing /\ leafOf(current)' = leafOf(current)
        /\ Len(tree)' = Len(tree) /\ isNew' = isNew
    BY <1>2, SameLists DEF leafOf, isNew
  <2> QED
    BY <1>1, <1>2, <1>5, <1>8, <1>9, <2>1 DEF ProjectionOK
<1> QED
  BY <1>3, <1>6, <1>7, <1>10 DEF IndInv

(* The write itself, which a cancellation may overtake: then the node is   *)
(* the only one that is late.                                              *)
LEMMA AppendLeafStep ==
  ASSUME IndInv, WaveAssumption, appendLeaf
  PROVE  IndInv'
<1>1. /\ step.pc = "appending" /\ step \in StepRecords /\ missing = {} /\ unprojected # {}
      /\ \A t \in running : t[1] # leafOf(current)
      /\ late = 0
  BY DEF appendLeaf, IndInv, Types, StepTypes, ProjectionOK
<1>2. UNCHANGED <<works, nodeCount, control, lane, fresh, released, owner, running, turns, accepted>>
  BY DEF appendLeaf, native
<1> DEFINE new == Append(tree, output)
           counted == late' = late + (IF control = "cancelled" /\ tree' = new THEN 1 ELSE 0)
<1>3. \/ control = "cancelled" /\ fine /\ goto("consumed") /\ UNCHANGED <<tree, tail, late>>
      \/ fine /\ tree' = new /\ goto("node") /\ counted /\ UNCHANGED tail
      \/ /\ fault /\ goto("consumed")
         /\ \/ tree' \in {tree, new} /\ tail' = "refused"
            \/ UNCHANGED tree /\ tail' = "torn"
         /\ counted
  BY DEF appendLeaf
<1>4. late' \in 0..1 /\ (control = "queued" => late' = 0)
  <2>1. counted => late' \in 0..1 /\ (control = "queued" => late' = 0)
    <3> HIDE DEF new
    <3> QED
      BY <1>1
  <2> HIDE DEF counted, new
  <2>2. late' = late \/ counted
    BY <1>3
  <2> QED
    BY <1>1, <2>1, <2>2
<1> HIDE DEF counted
<1>5. faults' \in 0..MaxFaults
  <2>1. fine \/ fault
    BY <1>3
  <2> QED
    BY <2>1, FaultsAreBounded DEF IndInv
<1>6. tail' \in {"ready", "refused", "torn"} /\ control' \in {"queued", "cancelled"}
  <2>1. tail \in {"ready", "refused", "torn"} /\ control \in {"queued", "cancelled"}
    BY DEF IndInv, Types, StoreTypes
  <2>2. tail' \in {tail, "refused", "torn"}
    <3> HIDE DEF new
    <3> QED
      BY <1>3
  <2> QED
    BY <1>2, <2>1, <2>2
<1>7. tree' = tree \/ tree' = new
  <2> HIDE DEF new
  <2> QED
    BY <1>3
<1>8. StepTypes' /\ step'.pc \in {"node", "consumed"} /\ (step'.pc = "node" => tree' = new)
  <2> HIDE DEF new
  <2>1. (goto("node") /\ tree' = new) \/ goto("consumed")
    BY <1>3
  <2> QED
    BY <1>2, <2>1, MovesTo DEF Stops
<1>9. /\ NodesOK' /\ WorksOK' /\ RunningOK' /\ ReleasedOK' /\ tree' \in Seq(Outputs)
      /\ step'.pc = "node" => leafOf(current) <= Len(tree)'
  <2>1. CASE tree' = new
    BY <2>1, <1>1, <1>2, Appended, Current
  <2>2. CASE tree' = tree /\ tree' # new
    <3>1. NodesOK' /\ WorksOK' /\ RunningOK' /\ ReleasedOK'
      BY <1>2, <2>2, Quiet DEF native
    <3>2. tree' \in Seq(Outputs)
      BY <2>2 DEF IndInv, Types, TreeTypes
    <3> QED
      BY <3>1, <3>2, <2>2, <1>8
  <2> QED
    BY <1>7, <2>1, <2>2
<1> HIDE DEF new
<1>10. Types'
  BY <1>2, <1>4, <1>5, <1>6, <1>8, <1>9 DEF IndInv, Types, TreeTypes, StoreTypes, NativeTypes, GhostTypes
<1>11. BeforeTurns' /\ TurnsOK'
  BY <1>8 DEF BeforeTurns, TurnsOK
<1>12. ProjectionOK'
  <2>1. unprojected' = unprojected /\ missing' = missing /\ leafOf(current)' = leafOf(current)
    BY <1>2, SameLists DEF leafOf
  <2> QED
    BY <1>1, <1>2, <1>8, <1>9, <2>1 DEF ProjectionOK
<1> QED
  BY <1>9, <1>10, <1>11, <1>12 DEF IndInv


(* The node is found in the tree and the work is done.                     *)
LEMMA NodeStep ==
  ASSUME IndInv, WaveAssumption, node
  PROVE  IndInv'
<1>1. /\ step.pc = "node" /\ step \in StepRecords /\ missing = {} /\ unprojected # {}
      /\ leafOf(current) <= Len(tree)
  BY DEF node, IndInv, Types, StepTypes, ProjectionOK
<1>2. UNCHANGED <<tree, nodeCount, control, lane, fresh, released, owner, running, turns, accepted, late>>
  BY DEF node, native, ghosts
<1> DEFINE c == current
           w == [works[c] EXCEPT !.node = TRUE]
<1>3. works # <<>> /\ works \in [Ordinals -> Work] /\ c \in Ordinals /\ works[c] \in Work
  BY <1>1, Current
<1>4. w \in Work /\ w.out = works[c].out /\ w.prior = works[c].prior /\ w.epoch = works[c].epoch /\ w.node
  BY <1>3, OneField
<1>5. \/ append([works EXCEPT ![c] = w]) /\ goto("select")
      \/ fine /\ goto("consumed") /\ UNCHANGED <<works, tail>>
      \/ appendFails([works EXCEPT ![c] = w]) /\ goto("consumed")
  <2>1. [works EXCEPT ![c].node = TRUE] = [works EXCEPT ![c] = w]
    OBVIOUS
  <2> HIDE DEF w
  <2> QED
    BY <2>1 DEF node
<1>6. leafOf(c) <= Len(tree) /\ works[c].out # 0 /\ \A p \in Ordinals : works[p].out # 0
  BY <1>1, <1>3, Wave DEF IndInv, Types
<1> HIDE DEF w, c
<1>7. /\ works' \in {works, [works EXCEPT ![c] = w]}
      /\ tail' \in {"ready", "refused", "torn"} /\ faults' \in 0..MaxFaults
  <2>1. CASE fine /\ UNCHANGED <<works, tail>>
    BY <2>1, FaultsAreBounded DEF IndInv, Types, StoreTypes
  <2>2. CASE append([works EXCEPT ![c] = w]) \/ appendFails([works EXCEPT ![c] = w])
    BY <2>2, Written DEF IndInv
  <2> QED
    BY <1>5, <2>1, <2>2
<1>8. /\ works' \in [Ordinals -> Work] /\ works' # <<>>
      /\ works'[c] \in {works[c], w} /\ \A p \in Ordinals \ {c} : works'[p] = works[p]
  BY <1>3, <1>4, <1>7, OneWork
<1>9. /\ \A p \in Ordinals : /\ works'[p].out = works[p].out /\ works'[p].prior = works[p].prior
                             /\ works'[p].epoch = works[p].epoch
      /\ \A p \in Ordinals \ {c} : works'[p].node <=> works[p].node
      /\ works'[c].node \/ (works'[c].node <=> works[c].node)
  BY <1>4, <1>8
<1>10. NodesOK'
  <2>1. /\ (\E q \in Nat : nodeCount = q * Width) /\ nodeCount + Width <= Leaves
        /\ nodeCount <= Len(tree) /\ Len(tree) <= nodeCount + Width
        /\ \A o \in Ordinals : IF works[o].node THEN leafOf(o) <= Len(tree) ELSE Len(tree) <= leafOf(o)
    BY <1>3 DEF IndInv, NodesOK
  <2>2. ASSUME NEW o \in Ordinals
        PROVE  IF works'[o].node THEN leafOf(o) <= Len(tree) ELSE Len(tree) <= leafOf(o)
    <3>1. CASE o = c
      BY <3>1, <1>6, <1>9, <2>1
    <3>2. CASE o # c
      BY <3>2, <1>9, <2>1
    <3> QED
      BY <3>1, <3>2
  <2> QED
    BY <1>2, <1>6, <1>8, <1>9, <2>1, <2>2 DEF NodesOK, leafOf
<1>11. WorksOK'
  BY <1>2, <1>3, <1>8, <1>9 DEF IndInv, WorksOK, leafOf
<1>12. RunningOK' /\ ReleasedOK'
  BY <1>2, <1>8, <1>9 DEF IndInv, RunningOK, ReleasedOK, leafOf
<1>13. StepTypes' /\ step'.pc \in {"select", "consumed"}
  BY <1>2, <1>5, MovesTo DEF Stops
<1>14. Types'
  BY <1>2, <1>7, <1>8, <1>13 DEF IndInv, Types, TreeTypes, StoreTypes, NativeTypes, GhostTypes
<1>15. missing' = {}
  BY <1>6, <1>8, <1>9 DEF missing
<1>16. BeforeTurns' /\ TurnsOK' /\ ProjectionOK'
  BY <1>13, <1>15 DEF BeforeTurns, TurnsOK, ProjectionOK
<1> QED
  BY <1>10, <1>11, <1>12, <1>14, <1>16 DEF IndInv

-----------------------------------------------------------------------------
(* The end of a call, cancellation and the end of the process              *)

(* The group of a failed call is ended.                                  *)
LEMMA CleanupStep ==
  ASSUME IndInv, WaveAssumption, cleanup
  PROVE  IndInv'
<1>1. step.pc = "cleanup" /\ goto("consumed")
  BY DEF cleanup
<1>2. UNCHANGED <<tree, works, nodeCount, tail, control, lane, fresh, released, turns, accepted, late>>
  BY DEF cleanup, disk, ghosts
<1>3. faults' \in 0..MaxFaults
  <2>1. fine \/ fault
    BY DEF cleanup
  <2> QED
    BY <2>1, FaultsAreBounded DEF IndInv
<1>4. tail' \in {"ready", "refused", "torn"} /\ control' \in {"queued", "cancelled"}
  BY <1>2 DEF IndInv, Types, StoreTypes
<1>5. StepTypes' /\ step'.pc = "consumed"
  BY <1>1, <1>2, MovesTo DEF Stops
<1>6. CASE UNCHANGED <<owner, running>>
  BY <1>2, <1>3, <1>4, <1>5, <1>6, MovesOn DEF native
<1>7. CASE joined
  <2>1. NativeTypes' /\ NodesOK' /\ WorksOK' /\ RunningOK' /\ ReleasedOK'
    BY <1>2, <1>7, OwnerSettled DEF joined
  <2>2. Types'
    BY <1>2, <1>3, <1>4, <1>5, <2>1 DEF IndInv, Types, TreeTypes, StoreTypes, GhostTypes
  <2>3. BeforeTurns' /\ TurnsOK' /\ ProjectionOK'
    BY <1>5 DEF BeforeTurns, TurnsOK, ProjectionOK
  <2> QED
    BY <2>1, <2>2, <2>3 DEF IndInv
<1> QED
  BY <1>6, <1>7 DEF cleanup

(* The memory of a step is gone, and nothing relies on it any more.        *)
LEMMA Forgets ==
  ASSUME IndInv, WaveAssumption, forgotten, opened, faults' \in 0..MaxFaults, released' \subseteq released,
         UNCHANGED <<tree, works, nodeCount, control, owner, running, turns, accepted, late>>
  PROVE  IndInv'
<1>1. step' \in StepRecords /\ step'.pc = "idle" /\ step'.retry = 0
  BY Forgotten DEF forgotten
<1>2. lane' \in [Ordinals -> LaneRecords] /\ fresh' \subseteq Ordinals
  BY NoLaneIsALane DEF forgotten
<1>3. tail' \in {"ready", "refused", "torn"}
  BY DEF opened, IndInv, Types, StoreTypes
<1>4. Types'
  BY <1>1, <1>2, <1>3 DEF IndInv, Types, TreeTypes, StoreTypes, StepTypes, NativeTypes, GhostTypes
<1>5. NodesOK' /\ WorksOK' /\ RunningOK'
  BY DEF IndInv, NodesOK, WorksOK, RunningOK, leafOf
<1>6. ReleasedOK'
  BY DEF IndInv, ReleasedOK
<1>7. BeforeTurns' /\ TurnsOK' /\ ProjectionOK'
  BY <1>1 DEF BeforeTurns, TurnsOK, ProjectionOK
<1> QED
  BY <1>4, <1>5, <1>6, <1>7 DEF IndInv

(* A consumed step is opened again.                                      *)
LEMMA ReopenStep ==
  ASSUME IndInv, WaveAssumption, reopen
  PROVE  IndInv'
<1>1. forgotten /\ opened /\ fine /\ UNCHANGED <<tree, works, nodeCount, control, released, owner, running, turns, accepted, late>>
  BY DEF reopen, native, ghosts
<1> QED
  BY <1>1, Forgets, FaultsAreBounded DEF IndInv

(* The process ends.                                                     *)
LEMMA CrashStep ==
  ASSUME IndInv, WaveAssumption, crash
  PROVE  IndInv'
<1>1. forgotten /\ opened /\ fault /\ released' = {} /\ UNCHANGED <<tree, works, nodeCount, control, owner, running, turns, accepted, late>>
  BY DEF crash, native, ghosts
<1> QED
  BY <1>1, Forgets, FaultsAreBounded DEF IndInv

(* Steps that change nothing but the control slot.                       *)
LEMMA SameStep ==
  ASSUME IndInv, UNCHANGED <<tree, works, nodeCount, tail, step, lane, fresh, released, owner, running, turns, accepted, late, faults>>,
         control' \in {control, "cancelled"}
  PROVE  IndInv'
<1>1. NodesOK' /\ WorksOK' /\ RunningOK' /\ ReleasedOK'
  BY Quiet DEF native
<1>2. Types'
  BY DEF IndInv, Types, TreeTypes, StoreTypes, StepTypes, NativeTypes, GhostTypes
<1>3. unprojected' = unprojected /\ missing' = missing /\ leafOf(current)' = leafOf(current) /\ isNew' = isNew
  BY SameLists DEF leafOf, isNew
<1>4. BeforeTurns'
  BY <1>3 DEF IndInv, BeforeTurns
<1>5. TurnsOK'
  BY DEF IndInv, TurnsOK, LaneOK, begins, native_turn, leafOf
<1>6. ProjectionOK'
  BY <1>3 DEF IndInv, ProjectionOK
<1> QED
  BY <1>1, <1>2, <1>4, <1>5, <1>6 DEF IndInv

(* The task is cancelled.                                                *)
LEMMA CancelStep ==
  ASSUME IndInv, WaveAssumption, cancel
  PROVE  IndInv'
<1>1. /\ UNCHANGED <<tree, works, nodeCount, tail, step, lane, fresh, released, owner, running, turns, accepted, late, faults>>
      /\ control' = "cancelled"
  BY DEF cancel, disk, native, ghosts, fine
<1> QED
  BY <1>1, SameStep

(* The connection ends an owner that no group holds.                       *)
LEMMA SettleOrphanStep ==
  ASSUME IndInv, WaveAssumption, NEW e \in Epochs, SettleOrphan(e)
  PROVE  IndInv'
<1>1. /\ ~held(e) /\ owner' = [owner EXCEPT ![e] = "settled"] /\ running' = {t \in running : t[2] # e}
      /\ UNCHANGED <<tree, works, nodeCount, tail, control, step, lane, fresh, released, turns, accepted, late, faults>>
  BY DEF SettleOrphan, disk, ghosts, fine
<1>2. /\ NativeTypes' /\ NodesOK' /\ WorksOK' /\ RunningOK' /\ ReleasedOK' /\ running' \subseteq running
      /\ \A f \in Epochs : owner'[f] = IF f = e THEN "settled" ELSE owner[f]
  BY <1>1, OwnerSettled
<1>3. Types'
  BY <1>1, <1>2 DEF IndInv, Types, TreeTypes, StoreTypes, StepTypes, GhostTypes
<1>4. unprojected' = unprojected /\ missing' = missing /\ leafOf(current)' = leafOf(current) /\ isNew' = isNew
  BY <1>1, SameLists DEF leafOf, isNew
<1>5. BeforeTurns'
  <2>1. step.pc \in {"settle", "reserve", "turns", "join"} => step.epoch # e
    BY <1>1 DEF held
  <2>2. step.pc = "reserve" /\ step.retry # 0 => works[step.retry].epoch \in Epochs
    <3> SUFFICES ASSUME step.pc = "reserve", step.retry # 0 PROVE works[step.retry].epoch \in Epochs
      OBVIOUS
    <3>1. works # <<>> /\ step \in StepRecords
      BY DEF IndInv, BeforeTurns, Types, StepTypes
    <3>2. step.retry \in Ordinals
      BY <3>1, StepFields, Constants DEF Ordinals
    <3> QED
      BY <3>1, <3>2, Wave, WorkFields DEF IndInv, Types
  <2> QED
    BY <1>1, <1>2, <1>4, <2>1, <2>2 DEF IndInv, BeforeTurns
<1>6. TurnsOK'
  BY <1>1, <1>2 DEF IndInv, TurnsOK, LaneOK, begins, native_turn, leafOf
<1>7. ProjectionOK'
  BY <1>1, <1>2, <1>4 DEF IndInv, ProjectionOK
<1> QED
  BY <1>2, <1>3, <1>5, <1>6, <1>7 DEF IndInv

-----------------------------------------------------------------------------
(* The theorems                                                            *)

(* The invariant holds of an empty journal and an empty tree.            *)
LEMMA InitIndInv ==
  ASSUME WaveAssumption, Init
  PROVE  IndInv
<1>1. /\ tree = <<>> /\ works = <<>> /\ nodeCount = 0 /\ tail = "ready" /\ control = "queued" /\ step = NoStep
      /\ lane = [o \in Ordinals |-> NoLane] /\ fresh = {} /\ released = {} /\ running = {}
      /\ owner = [e \in Epochs |-> "none"] /\ late = 0 /\ faults = 0
      /\ accepted = [l \in 1..Leaves |-> {}] /\ turns = [l \in 1..Leaves |-> 0]
  BY DEF Init
<1>2. step \in StepRecords /\ step.pc = "idle" /\ step.retry = 0
  BY <1>1, Constants DEF StepRecords, NoStep, Stops
<1>3. Types
  <2>1. tree \in Seq(Outputs)
    BY <1>1, EmptySeq
  <2>2. nodeCount \in 0..Leaves /\ faults \in 0..MaxFaults
    BY <1>1, Constants
  <2>3. lane \in [Ordinals -> LaneRecords]
    BY <1>1, NoLaneIsALane
  <2> QED
    BY <1>1, <1>2, <2>1, <2>2, <2>3 DEF Types, TreeTypes, StoreTypes, StepTypes, NativeTypes, GhostTypes
<1>4. NodesOK
  <2>1. Len(tree) = 0 /\ nodeCount = 0 * Width /\ 0 \in Nat
    BY <1>1, EmptySeq, Constants
  <2> QED
    BY <1>1, <2>1 DEF NodesOK
<1>5. WorksOK
  BY <1>1, Constants DEF WorksOK
<1>6. RunningOK /\ ReleasedOK
  BY <1>1 DEF RunningOK, ReleasedOK
<1>7. BeforeTurns /\ TurnsOK /\ ProjectionOK
  BY <1>2 DEF BeforeTurns, TurnsOK, ProjectionOK
<1> QED
  BY <1>3, <1>4, <1>5, <1>6, <1>7 DEF IndInv

(* Every step of the waves keeps the invariant.                            *)
LEMMA NextKeepsIndInv ==
  ASSUME WaveAssumption, IndInv, [Next]_vars
  PROVE  IndInv'
<1>1. CASE UNCHANGED vars
  BY <1>1, SameStep DEF vars, IndInv, Types, StoreTypes
<1>2. CASE Step
  BY <1>2, NextStep, AcquireStep, SettleStep, ReserveStep, SettledStep, JoinStep, ProjectStep, OutcomesStep,
     SelectStep, VerifyStep, IntentStep, AdmitLeafStep, AppendLeafStep, NodeStep, CleanupStep, ReopenStep DEF Step
<1>3. ASSUME NEW o \in Ordinals, Lane(o) \/ commit(o) PROVE IndInv'
  BY <1>3, BeginStep, PrepareStep, TurnEndsStep, FinishStep, RecordStep, ReleaseStep, CommitStep DEF Lane
<1>4. CASE cancel \/ crash
  BY <1>4, CancelStep, CrashStep
<1>5. ASSUME NEW e \in Epochs, SettleOrphan(e) PROVE IndInv'
  BY <1>5, SettleOrphanStep
<1> QED
  BY <1>1, <1>2, <1>3, <1>4, <1>5 DEF Next

(* The inductive invariant of the waves: what the journal, the tree, the   *)
(* owners and the running turns know of each other at every stop of the    *)
(* step.                                                                   *)
THEOREM IndInvariant ==
  ASSUME WaveAssumption
  PROVE  Spec => []IndInv
<1>1. Init => IndInv
  BY InitIndInv
<1>2. IndInv /\ [Next]_vars => IndInv'
  BY NextKeepsIndInv
<1> QED
  BY <1>1, <1>2, PTL DEF Spec

(* Types of the journal, the tree, the step, its lanes and the owners.     *)
THEOREM TypesHold ==
  ASSUME WaveAssumption
  PROVE  Spec => []TypeOK
<1>1. IndInv => TypeOK
  <2> SUFFICES ASSUME IndInv PROVE TypeOK
    OBVIOUS
  <2>1. /\ step.pc \in Stops /\ step.epoch \in 0..MaxEpochs /\ step.retry \in 0..Width
        /\ {step.abort, step.broken, step.warm} \subseteq BOOLEAN
    BY DEF IndInv, Types, StepTypes, StepRecords
  <2>2. \A o \in Ordinals : /\ lane[o].pc \in {"none", "begin", "turn", "finish", "record", "release", "done"}
                            /\ lane[o].commit \in {"none", "started", "ended"}
                            /\ lane[o].outcome \in Outcomes /\ lane[o].released \in BOOLEAN
    BY DEF IndInv, Types, StepTypes, LaneRecords
  <2>3. works \in Seq(Work) /\ Len(works) \in {0, Width}
    <3>1. CASE works = <<>>
      BY <3>1, EmptySeq
    <3>2. CASE works # <<>>
      <4>1. works \in [1..Width -> Work] /\ Width \in Nat
        BY <3>2, Wave, Constants DEF IndInv, Types, Ordinals
      <4>2. works \in Seq(Work)
        BY <4>1, SeqDef
      <4>3. DOMAIN works = 1..Width /\ DOMAIN works = 1..Len(works) /\ Len(works) \in Nat
        BY <4>1, <4>2, LenProperties
      <4>4. Len(works) = Width
        BY <4>1, <4>3
      <4> QED
        BY <4>2, <4>4
    <3> QED
      BY <3>1, <3>2
  <2>4. tree \in Seq(Outputs) /\ Len(tree) <= Leaves
    <3>1. Len(tree) \in Nat /\ nodeCount \in Nat /\ Leaves \in Nat /\ Width \in Nat
      BY LenProperties, Constants DEF IndInv, Types, TreeTypes
    <3> QED
      BY <3>1 DEF IndInv, Types, TreeTypes, NodesOK
  <2>5. late \in Nat
    BY DEF IndInv, Types, GhostTypes
  <2> QED
    BY <2>1, <2>2, <2>3, <2>4, <2>5 DEF TypeOK, IndInv, Types, TreeTypes, StoreTypes, StepTypes, NativeTypes, GhostTypes, Turns
<1> QED
  BY <1>1, IndInvariant, PTL

(* No two native turns for a leaf ever run side by side: what runs is the  *)
(* current attempt of its work, under an owner that lives, and a successor *)
(* waited for the owner before it.                                         *)
THEOREM NoTwoTurnsForALeaf ==
  ASSUME WaveAssumption
  PROVE  Spec => []OneTurnPerLeaf
<1>1. IndInv => OneTurnPerLeaf
  <2> SUFFICES ASSUME IndInv, NEW t \in running, NEW u \in running, t[1] = u[1] PROVE t = u
    BY DEF OneTurnPerLeaf
  <2>1. PICK o \in Ordinals : t = <<leafOf(o), works[o].epoch>>
    BY DEF IndInv, RunningOK
  <2>2. PICK p \in Ordinals : u = <<leafOf(p), works[p].epoch>>
    BY DEF IndInv, RunningOK
  <2>3. nodeCount \in Nat /\ o \in Nat /\ p \in Nat
    BY Constants DEF IndInv, Types, TreeTypes
  <2> QED
    BY <2>1, <2>2, <2>3 DEF leafOf
<1> QED
  BY <1>1, IndInvariant, PTL

(* A leaf costs at most MaxNoOutput turns, whatever fails and however      *)
(* often the process ends.                                                 *)
THEOREM TheSpendIsBounded ==
  ASSUME WaveAssumption
  PROVE  Spec => []SpendBound
<1>1. IndInv => SpendBound
  BY DEF IndInv, WorksOK, SpendBound
<1> QED
  BY <1>1, IndInvariant, PTL

(* When the node of a leaf is published no turn for it is running.         *)
THEOREM NothingRunsBehindANode ==
  ASSUME WaveAssumption
  PROVE  Spec => []QuietWhenPublished
<1>1. IndInv => QuietWhenPublished
  BY DEF IndInv, RunningOK, QuietWhenPublished
<1> QED
  BY <1>1, IndInvariant, PTL

(* After a cancellation no more than the node being appended is published: *)
(* the step looks at the control slot before it starts a write, and only   *)
(* the write already started can be overtaken.                             *)
THEOREM CancellationStops ==
  ASSUME WaveAssumption
  PROVE  Spec => []CancelStops
<1>1. IndInv => CancelStops
  BY DEF IndInv, Types, GhostTypes, CancelStops
<1> QED
  BY <1>1, IndInvariant, PTL

-----------------------------------------------------------------------------
(* The publication                                                         *)

(* An output is accepted by the write that prepares it, and only for a     *)
(* leaf that has none.                                                     *)
LEMMA PrepareAccepts ==
  ASSUME IndInv, WaveAssumption, NEW o \in Ordinals, prepare(o)
  PROVE  PublicationStep
<1> DEFINE l == nodeCount + o
           t == <<l, step.epoch>>
<1>1. step.pc = "turns" /\ lane[o].commit = "started" /\ tree' = tree
  BY DEF prepare
<1>2. works # <<>> /\ LaneOK(o) /\ step.epoch \in Epochs /\ l \in 1..Leaves
  BY <1>1, InTurns
<1>3. works[o].out = 0
  BY <1>1, <1>2 DEF LaneOK
<1>4. native_turn(o) = t /\ leafOf(o) = l
  BY DEF native_turn, leafOf
<1>5. accepted[l] = {} /\ accepted \in [1..Leaves -> SUBSET Outputs]
  BY <1>2, <1>3, <1>4 DEF IndInv, WorksOK, Types, GhostTypes
<1>6. t \in Outputs
  BY <1>2 DEF Outputs
<1> DEFINE new == [works EXCEPT ![o].out = works[o].epoch]
<1>7. accepted' = [accepted EXCEPT ![l] = @ \cup {t}] \/ accepted' = [accepted EXCEPT ![l] = @ \cup {}]
  <2>1. \/ accepted' = [accepted EXCEPT ![l] = @ \cup {t}]
        \/ accepted' = [accepted EXCEPT ![l] = @ \cup (IF works' = new THEN {t} ELSE {})]
    BY <1>4 DEF prepare
  <2> HIDE DEF new, l, t
  <2> QED
    BY <2>1
<1> HIDE DEF l, t, new
<1>8. CASE accepted' = [accepted EXCEPT ![l] = @ \cup {t}]
  <2>1. accepted' = [accepted EXCEPT ![l] = {t}]
    BY <1>5, <1>8
  <2>2. Publication!Accept(l, t)
    BY <1>1, <1>5, <2>1 DEF Publication!Accept
  <2> QED
    BY <1>2, <1>6, <2>2 DEF PublicationStep, Publication!Next
<1>9. CASE accepted' = [accepted EXCEPT ![l] = @ \cup {}]
  <2>1. accepted' = accepted
    BY <1>5, <1>9
  <2> QED
    BY <1>1, <2>1 DEF PublicationStep, Publication!vars
<1> QED
  BY <1>7, <1>8, <1>9

(* What is appended to the tree is the accepted output of the next leaf.   *)
LEMMA AppendPublishes ==
  ASSUME IndInv, WaveAssumption, appendLeaf
  PROVE  PublicationStep
<1>1. step.pc = "appending" /\ UNCHANGED <<works, nodeCount, released, owner, running, turns, accepted>>
  BY DEF appendLeaf, native
<1> DEFINE new == Append(tree, output)
<1>2. tree' = tree \/ tree' = new
  BY DEF appendLeaf
<1>3. CASE tree' = tree
  BY <1>1, <1>3 DEF PublicationStep, Publication!vars
<1>4. CASE tree' = new
  <2>1. output \in accepted[Len(tree) + 1] /\ Len(tree) < Leaves
    BY <1>1, <1>4, Appended
  <2>2. Publication!Publish
    BY <1>1, <1>4, <2>1 DEF Publication!Publish
  <2> QED
    BY <2>2 DEF PublicationStep, Publication!Next
<1> QED
  BY <1>2, <1>3, <1>4

(* The waves implement the ordered publication: for every leaf one output  *)
(* is accepted, once and for all, and the accepted outputs are published   *)
(* in the order of the leaves.  Every other step stutters.                 *)
THEOREM ImplementsPublication ==
  ASSUME WaveAssumption
  PROVE  Spec => PublicationStart /\ [][PublicationStep]_vars /\ Publication!Spec
<1>1. Init => Publication!Init
  BY DEF Init, Publication!Init
<1>2. IndInv /\ [Next]_vars => PublicationStep
  <2> SUFFICES ASSUME IndInv, [Next]_vars PROVE PublicationStep
    OBVIOUS
  <2>1. ASSUME UNCHANGED <<accepted, tree>> PROVE PublicationStep
    BY <2>1 DEF PublicationStep, Publication!vars
  <2>2. CASE UNCHANGED vars
    BY <2>1, <2>2 DEF vars
  <2>3. CASE Step
    <3>1. CASE appendLeaf
      BY <3>1, AppendPublishes
    <3>2. CASE next \/ acquire \/ settle \/ reserve \/ settled \/ join \/ projectParallel
      <4>1. UNCHANGED <<accepted, tree>>
        BY <3>2 DEF next, acquire, settle, reserve, settled, join, projectParallel, disk, ghosts
      <4> QED
        BY <4>1, <2>1
    <3>3. CASE outcomes \/ select \/ verify \/ intent \/ admitLeaf \/ node \/ cleanup \/ reopen
      <4>1. UNCHANGED <<accepted, tree>>
        BY <3>3 DEF outcomes, select, verify, intent, admitLeaf, node, cleanup, reopen, disk, ghosts
      <4> QED
        BY <4>1, <2>1
    <3> QED
      BY <2>3, <3>1, <3>2, <3>3 DEF Step
  <2>4. ASSUME NEW o \in Ordinals, Lane(o) \/ commit(o) PROVE PublicationStep
    <3>1. CASE prepare(o)
      BY <3>1, PrepareAccepts
    <3>2. CASE begin(o) \/ turnEnds(o) \/ finish(o) \/ recordModelOutcome(o) \/ releaseAnalysis(o) \/ commit(o)
      <4>1. UNCHANGED <<accepted, tree>>
        BY <3>2 DEF begin, turnEnds, finish, recordModelOutcome, releaseAnalysis, commit, disk, ghosts
      <4> QED
        BY <4>1, <2>1
    <3> QED
      BY <2>4, <3>1, <3>2 DEF Lane
  <2>5. CASE cancel \/ crash
    <3>1. UNCHANGED <<accepted, tree>>
      BY <2>5 DEF cancel, crash, disk, ghosts
    <3> QED
      BY <3>1, <2>1
  <2>6. ASSUME NEW e \in Epochs, SettleOrphan(e) PROVE PublicationStep
    <3>1. UNCHANGED <<accepted, tree>>
      BY <2>6 DEF SettleOrphan, disk, ghosts
    <3> QED
      BY <3>1, <2>1
  <2> QED
    BY <2>2, <2>3, <2>4, <2>5, <2>6 DEF Next
<1>3. PublicationStep => [Publication!Next]_(Publication!vars)
  BY DEF PublicationStep
<1> QED
  BY <1>1, <1>2, <1>3, IndInvariant, PTL DEF Spec, Publication!Spec, PublicationStart
=============================================================================
