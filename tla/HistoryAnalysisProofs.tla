----------------------- MODULE HistoryAnalysisProofs ------------------------
(***************************************************************************)
(* Theorems about the serial analysis of a history task, for every number  *)
(* of nodes, set of plans and outputs, bound on attempts and number of     *)
(* faults: a node has the output of one attempt, the model is asked a      *)
(* bounded number of times, two turns never work at the same time, the     *)
(* journal opens after every stop, a cancellation that was answered is the *)
(* end of it, and the whole is an ordered publication.                     *)
(***************************************************************************)
EXTENDS HistoryAnalysis, SequenceTheorems, FiniteSetTheorems, WellFoundedInduction, TLAPS

(* The types. *)
Node == [plan : Plans, output : Outputs]
StepRecords == [pc : Stops, plan : Plans, retry : BOOLEAN, reserved : 0..MaxAttempts, called : BOOLEAN,
                outcome : Outcomes, release : BOOLEAN, tail : BOOLEAN, abort : BOOLEAN, skipped : BOOLEAN,
                stale : BOOLEAN]
ToolRecords == [pc : {"none", "heads", "prepare", "reheads", "append", "node"}, output : Outputs \cup {"none"}]
TurnRecords == [live : BOOLEAN, shown : {"none", "staged", "shown"}, commitStarted : BOOLEAN]
HostRecords == [state : {"none", "free", "leased", "busy", "ended"}, epoch : 0..MaxAttempts]
JournalTypes == attempts \in Seq(Attempt) /\ Len(attempts) <= MaxAttempts
StoreTypes == /\ nodes \in Seq(Node) /\ Len(nodes) <= Nodes
              /\ torn \subseteq {"attempts", "analysis"}
              /\ disposition \in {"none", "consumed-without-prepared", "stale"}
ProcessTypes == /\ st \in StepRecords /\ tool \in ToolRecords /\ turn \in TurnRecords /\ host \in HostRecords
                /\ control \in {"queued", "cancelled"} /\ mgr \in {"idle", "revoke", "join", "answered"}
CountTypes == /\ settled \subseteq 1..MaxAttempts /\ seen \subseteq 1..MaxAttempts
              /\ turns \in [1..MaxAttempts -> Nat] /\ faults \in 0..MaxFaults
Types == JournalTypes /\ StoreTypes /\ ProcessTypes /\ CountTypes

(* The journal by itself: an attempt with an output is the last one for    *)
(* its node, and every other attempt continues or follows the one before.  *)
Ordered(i, j) == /\ attempts[i].node <= attempts[j].node
                 /\ attempts[i].prepared # "none" => attempts[i].node < attempts[j].node
Follows(i) ==
  IF attempts[i].original = "new" THEN attempts[i - 1].committed
  ELSE /\ attempts[i - 1].node = attempts[i].node /\ attempts[i - 1].plan = attempts[i].plan
       /\ attempts[i - 1].native = attempts[i].original /\ attempts[i - 1].prepared = "none"
       /\ attempts[i - 1].epoch # attempts[i].epoch
JournalOK ==
  /\ \A i \in DOMAIN attempts : attempts[i].committed => attempts[i].prepared # "none"
  /\ \A i, j \in DOMAIN attempts : i < j => Ordered(i, j)
  /\ \A i \in DOMAIN attempts : IF i = 1 THEN attempts[i].original = "new" ELSE Follows(i)

(* The attempts for a node lie closely together.                           *)
RetriesOK == \A i, j \in DOMAIN attempts : attempts[i].node = attempts[j].node => j < i + MaxNoOutput

(* The journal and the nodes: the last attempt is for the next node unless *)
(* its own output is there.                                                *)
NodeOf(a) == [plan |-> a.plan, output |-> a.prepared]
NodesOK ==
  /\ ~some => Len(nodes) = 0
  /\ some => /\ last.node = Len(nodes) \/ last.node = Len(nodes) + 1
             /\ last.prepared = "none" => last.node = Len(nodes) + 1
             /\ last.committed => last.node = Len(nodes)
             /\ last.node = Len(nodes) => nodes[last.node] = NodeOf(last)
  /\ \A k \in DOMAIN nodes : \E i \in DOMAIN attempts : attempts[i].node = k /\ nodes[k] = NodeOf(attempts[i])

(* The turns and what they were shown.                                     *)
SpendOK ==
  /\ \A i \in 1..MaxAttempts : turns[i] <= 1 /\ (i > Len(attempts) => turns[i] = 0)
  /\ \A i \in DOMAIN attempts : attempts[i].prepared # "none" => i \in seen
  /\ st.pc \in {"begin", "turn"} => turns[st.reserved] = 0

(* Every attempt but the last one is closed.                               *)
Closed(a) == (a.native = "observed" /\ a.committed) \/ a.epoch \in settled
PredecessorsOK ==
  /\ \A i \in DOMAIN attempts : i < Len(attempts) => Closed(attempts[i])
  /\ st.pc = "reserve" /\ ~st.retry /\ some => last.native = "observed" \/ last.epoch \in settled
  /\ st.pc = "successor" => last.epoch \in settled

(* What the step may rely on at each place.                                *)
Before == {"next", "acquire", "owner", "reserve", "settle", "successor"}
Within == {"begin", "turn", "turning", "outcome", "control", "release", "finish", "unknown"}
Recovering == {"recover", "recoverOutcome", "recoverCommit", "recoverNode"}
StepOK ==
  /\ st.pc \in Within => st.reserved = Len(attempts) /\ some
  /\ st.pc = "cleanup" /\ st.reserved # 0 => st.reserved = Len(attempts)
  /\ st.pc \notin Within \cup {"cleanup"} => st.reserved = 0
  /\ st.pc \in Before => Len(nodes) < Nodes /\ ~st.called
  /\ st.pc \in Before /\ st.retry => some
  /\ st.pc \in {"settle", "successor"} => st.retry
  /\ st.pc \in {"begin", "turn", "unknown"} => ~st.called /\ last.prepared = "none"
  /\ st.pc \in {"turning", "outcome", "control", "release", "finish"} => st.called
  /\ st.pc \in Recovering => some /\ last.prepared # "none"
  /\ st.pc = "recoverNode" => last.node = Len(nodes)

HostOK ==
  /\ host.state # "none" => host.epoch # 0
  /\ st.pc \in {"owner", "reserve", "settle", "successor", "begin", "turn", "unknown"} => host.state = "leased"
  /\ st.pc = "turning" => host.state = "busy"
  /\ st.pc \in {"outcome", "control", "release", "finish"} => host.state = "ended"
  /\ st.pc = "cleanup" => host.state \in {"leased", "ended"}
  /\ st.pc \in {"idle", "next", "acquire", "stale"} \cup Recovering => host.state \in {"none", "free"}

(* The tools of a turn and the call of the model that is still running.    *)
TurnOK ==
  /\ turn.live => /\ st.pc \in Within \cup {"cleanup"} /\ st.pc # "begin" /\ st.reserved = Len(attempts) /\ some
                  /\ ~turn.commitStarted => last.prepared = "none"
  /\ turn.shown # "none" => turn.live
  /\ turn.shown = "shown" => Len(attempts) \in seen
ToolOK ==
  tool.pc # "none" =>
    /\ st.pc \in {"turning", "outcome", "control", "release", "finish", "cleanup"}
    /\ st.reserved = Len(attempts) /\ some
    /\ Len(attempts) \in seen /\ tool.output # "none" /\ ~last.committed
    /\ tool.pc = "heads" => turn.live /\ ~turn.commitStarted
    /\ tool.pc # "heads" => turn.commitStarted
    /\ IF tool.pc \in {"heads", "prepare"} THEN last.prepared = "none" ELSE last.prepared # "none"
    /\ tool.pc = "node" => last.node = Len(nodes)

(* A blocked task rests; an answered cancellation found it at rest.        *)
RestOK ==
  /\ disposition = "consumed-without-prepared" =>
       st.pc = "idle" /\ some /\ last.prepared = "none" /\ ~canContinueNoOutput
  /\ mgr # "idle" => control = "cancelled"
  /\ mgr = "answered" => st.pc = "idle"

IndInv == /\ Types /\ JournalOK /\ RetriesOK /\ NodesOK /\ SpendOK /\ PredecessorsOK
          /\ StepOK /\ HostOK /\ TurnOK /\ ToolOK /\ RestOK

-----------------------------------------------------------------------------
(* Arithmetic and sequences                                                *)

(* What the assumption says of each constant. *)
LEMMA Constants ==
  ASSUME AnalysisAssumption
  PROVE  /\ Nodes \in Nat \ {0} /\ MaxNoOutput \in Nat \ {0} /\ MaxAttempts \in Nat /\ MaxFaults \in Nat
         /\ "none" \notin Outputs /\ (CHOOSE p \in Plans : TRUE) \in Plans
BY DEF AnalysisAssumption

NatLess == {ss \in Nat \X Nat : ss[1] < ss[2]}

(* A set of numbers with a bound has a greatest element, and Max is it. *)
LEMMA Greatest ==
  ASSUME NEW n \in Nat, NEW S \in SUBSET (0..n), S # {}
  PROVE  Max(S) \in S /\ \A y \in S : y <= Max(S)
<1> DEFINE T == {x \in Nat : \E y \in S : x = n - y}
<1>1. IsWellFoundedOn(NatLess, Nat)
  BY NatLessThanWellFounded DEF NatLess, OpToRel
<1>2. T \subseteq Nat
  OBVIOUS
<1>3. T # {}
  <2>1. PICK y \in S : TRUE
    OBVIOUS
  <2>2. n - y \in T
    <3>1. y \in 0..n
      OBVIOUS
    <3> QED
      BY <3>1
  <2> QED
    BY <2>2
<1>4. PICK z \in T : \A y \in T : ~ (<<y, z>> \in NatLess)
  BY <1>1, <1>2, <1>3, WFMin
<1>5. PICK x \in S : z = n - x
  OBVIOUS
<1>6. ASSUME NEW y \in S PROVE x >= y
  <2>1. y \in 0..n /\ x \in 0..n
    OBVIOUS
  <2>2. n - y \in T /\ n - y \in Nat /\ z \in Nat
    BY <2>1
  <2>3. ~ (n - y < z)
    BY <1>4, <2>2 DEF NatLess
  <2> QED
    BY <1>5, <2>1, <2>3
<1> HIDE DEF T
<1>7. \E x0 \in S : \A y \in S : x0 >= y
  BY <1>6
<1>8. Max(S) \in S /\ \A y \in S : Max(S) >= y
  BY <1>7 DEF Max
<1>9. ASSUME NEW y \in S PROVE y <= Max(S)
  <2>1. y \in 0..n /\ Max(S) \in 0..n
    BY <1>8
  <2> QED
    BY <1>8, <2>1
<1> QED
  BY <1>8, <1>9

(* The length of the journal and its last attempt. *)
LEMMA Journal ==
  ASSUME JournalTypes
  PROVE  /\ Len(attempts) \in Nat /\ DOMAIN attempts = 1..Len(attempts)
         /\ some <=> Len(attempts) # 0
         /\ \A i \in 1..Len(attempts) : attempts[i] \in Attempt
         /\ some => last \in Attempt /\ Len(attempts) \in DOMAIN attempts
<1>1. attempts \in Seq(Attempt)
  BY DEF JournalTypes
<1>2. Len(attempts) \in Nat /\ DOMAIN attempts = 1..Len(attempts)
      /\ \A i \in 1..Len(attempts) : attempts[i] \in Attempt
  BY <1>1, LenProperties, ElementOfSeq
<1>3. attempts # <<>> => Len(attempts) \in Nat \ {0}
  BY <1>1, EmptySeq
<1>4. attempts = <<>> => Len(attempts) = 0
  BY EmptySeq
<1> QED
  BY <1>2, <1>3, <1>4 DEF some, last

(* The fields of an attempt. *)
LEMMA AttemptFields ==
  ASSUME NEW a \in Attempt
  PROVE  /\ a.node \in 1..Nodes /\ a.plan \in Plans /\ a.epoch \in 1..MaxAttempts
         /\ a.original \in Outcomes \cup {"new"} /\ a.prepared \in Outputs \cup {"none"}
         /\ a.committed \in BOOLEAN /\ a.native \in Outcomes
BY DEF Attempt

(* The number of faults stays within its bound. *)
LEMMA FaultsAreBounded ==
  ASSUME CountTypes, AnalysisAssumption, fine \/ fault
  PROVE  faults' \in 0..MaxFaults
BY Constants DEF CountTypes, fine, fault

(* What is unchanged by a step that leaves the journal and the nodes alone. *)
LEMMA SameJournal ==
  ASSUME UNCHANGED attempts
  PROVE  /\ some' = some /\ last' = last /\ canContinueNoOutput' = canContinueNoOutput
         /\ Len(attempts)' = Len(attempts) /\ DOMAIN attempts' = DOMAIN attempts
BY DEF some, last, canContinueNoOutput, isRetryableNoOutput, noOutputCount, successorCandidate

(* The same for what the journal and the nodes say of each other. *)
LEMMA SameStore ==
  ASSUME UNCHANGED <<attempts, nodes>>, JournalOK, RetriesOK, NodesOK
  PROVE  JournalOK' /\ RetriesOK' /\ NodesOK'
BY SameJournal DEF JournalOK, Ordered, Follows, RetriesOK, NodesOK, NodeOf, some, last

(* What is left of the other parts when a step leaves the stores alone and *)
(* forgets no settlement. *)
LEMMA SameSpend ==
  ASSUME UNCHANGED <<attempts, nodes, turns, seen>>, SpendOK, PredecessorsOK,
         \A i \in DOMAIN attempts : attempts[i].epoch \in settled => attempts[i].epoch \in settled',
         st'.pc \in {"begin", "turn"} => st.pc \in {"begin", "turn"} /\ st'.reserved = st.reserved,
         st'.pc \notin {"reserve", "successor"}
  PROVE  SpendOK' /\ PredecessorsOK'
<1>1. SpendOK'
  BY DEF SpendOK
<1>2. ASSUME NEW i \in DOMAIN attempts, i < Len(attempts) PROVE Closed(attempts[i])'
  BY <1>2 DEF PredecessorsOK, Closed
<1> QED
  BY <1>1, <1>2 DEF PredecessorsOK

-----------------------------------------------------------------------------
(* The step                                                                *)

(* The types of the step's fields. *)
LEMMA StepFields ==
  ASSUME NEW s \in StepRecords
  PROVE  /\ s.pc \in Stops /\ s.plan \in Plans /\ s.retry \in BOOLEAN /\ s.reserved \in 0..MaxAttempts
         /\ s.called \in BOOLEAN /\ s.outcome \in Outcomes /\ s.abort \in BOOLEAN /\ s.stale \in BOOLEAN
BY DEF StepRecords

(* Going to another place changes nothing else of the step. *)
LEMMA Goto ==
  ASSUME st \in StepRecords, NEW pc \in Stops, goto(pc)
  PROVE  /\ st' \in StepRecords /\ st'.pc = pc /\ st'.reserved = st.reserved /\ (st'.called <=> st.called)
         /\ st'.plan = st.plan /\ (st'.retry <=> st.retry)
BY DEF StepRecords, goto

(* A step that was never made holds nothing. *)
LEMMA NoStepHoldsNothing ==
  ASSUME AnalysisAssumption
  PROVE  /\ NoStep \in StepRecords /\ NoStep.pc = "idle" /\ NoStep.reserved = 0 /\ ~NoStep.retry /\ ~NoStep.called
<1> DEFINE p == CHOOSE p \in Plans : TRUE
<1>1. p \in Plans
  BY Constants
<1>2. NoStep = [pc |-> "idle", plan |-> p, retry |-> FALSE, reserved |-> 0, called |-> FALSE,
                outcome |-> "none", release |-> FALSE, tail |-> FALSE, abort |-> FALSE, skipped |-> FALSE,
                stale |-> FALSE]
  BY DEF NoStep
<1> HIDE DEF p
<1> QED
  BY <1>1, <1>2, Constants DEF StepRecords, Stops, Outcomes

(* Where an error leads. *)
LEMMA Throws ==
  ASSUME st \in StepRecords, throw
  PROVE  /\ st' \in StepRecords /\ st'.reserved = st.reserved /\ (st'.called <=> st.called)
         /\ st'.pc = IF st.reserved # 0 /\ ~st.called THEN "unknown"
                     ELSE IF host.state \in {"leased", "busy", "ended"} THEN "cleanup" ELSE "idle"
BY DEF StepRecords, throw, afterError, Stops
(* An error of a check may also end as a stale head. *)
LEMMA ThrowsChecked ==
  ASSUME st \in StepRecords, throwChecked
  PROVE  /\ st' \in StepRecords /\ st'.reserved = st.reserved /\ (st'.called <=> st.called)
         /\ IF st.reserved # 0 /\ ~st.called THEN st'.pc = "unknown"
            ELSE IF host.state \in {"leased", "busy", "ended"} THEN st'.pc = "cleanup" ELSE st'.pc \in {"idle", "stale"}
<1> DEFINE stale == guard /\ control # "queued"
           pc == IF st.reserved # 0 /\ ~st.called THEN "unknown" ELSE IF afterError = "idle" /\ stale THEN "stale" ELSE afterError
<1>1. st' = [st EXCEPT !.stale = stale, !.pc = pc]
  BY DEF throwChecked
<1>2. stale \in BOOLEAN
  BY DEF guard, StepRecords
<1>3. /\ IF st.reserved # 0 /\ ~st.called THEN pc = "unknown"
        ELSE IF host.state \in {"leased", "busy", "ended"} THEN pc = "cleanup" ELSE pc \in {"idle", "stale"}
  BY DEF afterError
<1>4. pc \in Stops
  BY <1>3 DEF Stops
<1> HIDE DEF stale, pc
<1> QED
  BY <1>1, <1>2, <1>3, <1>4 DEF StepRecords
(* An error after a failed write leaves no reservation to record. *)
LEMMA ThrowsTail ==
  ASSUME st \in StepRecords, throwTail
  PROVE  /\ st' \in StepRecords /\ st'.reserved = st.reserved /\ (st'.called <=> st.called)
         /\ st'.pc = IF host.state \in {"leased", "busy", "ended"} THEN "cleanup" ELSE "idle"
BY DEF StepRecords, throwTail, afterError, Stops

-----------------------------------------------------------------------------
(* Steps that write nothing                                                *)

(* Where the parts of the process are. *)
Placed == StepOK /\ HostOK /\ TurnOK /\ ToolOK

(* A step of a quantum that writes nothing keeps the invariant when it     *)
(* leaves the parts of the process in their places. *)
LEMMA WritesNothing ==
  ASSUME IndInv, Types', UNCHANGED <<attempts, nodes, turns, seen, disposition, control, mgr>>, st.pc # "idle",
         \A i \in DOMAIN attempts : attempts[i].epoch \in settled => attempts[i].epoch \in settled',
         st'.pc \in {"begin", "turn"} => st.pc \in {"begin", "turn"} /\ st'.reserved = st.reserved,
         st'.pc = "reserve" /\ ~st'.retry /\ some => last.native = "observed" \/ last.epoch \in settled',
         st'.pc = "successor" => last.epoch \in settled',
         Placed'
  PROVE  IndInv'
<1>1. JournalOK' /\ RetriesOK' /\ NodesOK'
  BY SameStore DEF IndInv
<1>2. SpendOK'
  BY DEF SpendOK, IndInv
<1>3. ASSUME NEW i \in DOMAIN attempts, i < Len(attempts) PROVE Closed(attempts[i])'
  BY <1>3 DEF PredecessorsOK, Closed, IndInv
<1>4. PredecessorsOK'
  BY <1>3, SameJournal DEF PredecessorsOK
<1>5. RestOK'
  BY SameJournal DEF IndInv, RestOK
<1> QED
  BY <1>1, <1>2, <1>4, <1>5 DEF IndInv, Placed

(* The same when an error ends the step. *)
LEMMA Departs ==
  ASSUME IndInv, throw \/ throwChecked,
         st.pc \in Before \cup Recovering \cup {"begin", "turn", "outcome"},
         UNCHANGED <<attempts, nodes, turns, seen, disposition, control, mgr, torn, tool, turn, host, settled, faults>>
  PROVE  IndInv'
<1>0. st \in StepRecords
  BY DEF IndInv, Types, ProcessTypes
<1>1. /\ st' \in StepRecords /\ st'.reserved = st.reserved /\ (st'.called <=> st.called)
      /\ IF st.reserved # 0 /\ ~st.called THEN st'.pc = "unknown"
         ELSE IF host.state \in {"leased", "busy", "ended"} THEN st'.pc = "cleanup" ELSE st'.pc \in {"idle", "stale"}
  BY <1>0, Throws, ThrowsChecked
<1>2. Types'
  BY <1>1 DEF IndInv, Types, JournalTypes, StoreTypes, ProcessTypes, CountTypes
<1>a. some' = some /\ last' = last
  BY SameJournal
<1>b. ASSUME st.pc \in Before \cup Recovering PROVE StepOK'
  <2>1. st.reserved = 0 /\ st'.pc \in {"cleanup", "idle", "stale"} /\ st'.reserved = 0
    BY <1>1, <1>b DEF IndInv, StepOK, Before, Within, Recovering
  <2> QED
    BY <2>1 DEF StepOK, Before, Within, Recovering
<1>c. ASSUME st.pc \in {"begin", "turn"} PROVE StepOK'
  <2>1. /\ st.reserved = Len(attempts) /\ some /\ ~st.called /\ last.prepared = "none"
        /\ st.reserved # 0
    BY <1>c, Journal DEF IndInv, StepOK, Within, Types
  <2>2. st'.pc = "unknown" /\ st'.reserved = Len(attempts) /\ ~st'.called
    BY <1>1, <2>1
  <2> QED
    BY <2>1, <2>2, <1>a DEF StepOK, Before, Within, Recovering
<1>d. ASSUME st.pc = "outcome" PROVE StepOK'
  <2>1. st.reserved = Len(attempts) /\ st.called
    BY <1>d DEF IndInv, StepOK, Within
  <2>2. st'.pc \in {"cleanup", "idle", "stale"} /\ st'.reserved = Len(attempts) /\ host.state = "ended"
    BY <1>1, <1>d, <2>1 DEF IndInv, HostOK
  <2>3. st'.pc = "cleanup"
    BY <1>1, <2>1, <2>2
  <2> QED
    BY <2>2, <2>3 DEF StepOK, Before, Within, Recovering
<1>3. StepOK'
  BY <1>b, <1>c, <1>d
<1>4. HostOK'
  BY <1>1 DEF IndInv, StepOK, HostOK, Before, Within, Recovering
<1>5. TurnOK'
  BY <1>1, SameJournal DEF IndInv, StepOK, HostOK, TurnOK, Before, Within, Recovering
<1>6. ToolOK'
  BY <1>1, SameJournal DEF IndInv, StepOK, HostOK, ToolOK, Before, Within, Recovering
<1> QED
  BY <1>1, <1>2, <1>3, <1>4, <1>5, <1>6, WritesNothing DEF Placed, Before, Recovering

(* A quantum begins: a recovery of what is prepared, or the next node.     *)
LEMMA InspectStep ==
  ASSUME IndInv, AnalysisAssumption, Inspect
  PROVE  IndInv'
<1>0. /\ st.pc = "idle" /\ control = "queued" /\ ~blocked
      /\ IF pending THEN last.prepared # "none" ELSE Len(nodes) < Nodes
      /\ st' = [NoStep EXCEPT !.pc = IF pending THEN "recover" ELSE "next"]
      /\ UNCHANGED <<control, nodes, attempts, torn, disposition, tool, turn, host, settled, mgr, seen, turns, faults>>
  BY DEF Inspect, fine
<1>1. st' \in StepRecords /\ st'.pc \in {"recover", "next"} /\ (st'.pc = "recover" <=> pending) /\ st'.reserved = 0
      /\ ~st'.retry /\ ~st'.called
  BY <1>0, NoStepHoldsNothing DEF StepRecords, Stops
<1>2. Types'
  BY <1>0, <1>1 DEF IndInv, Types, JournalTypes, StoreTypes, ProcessTypes, CountTypes
<1>3. JournalOK' /\ RetriesOK' /\ NodesOK' /\ SpendOK' /\ PredecessorsOK'
  BY <1>0, <1>1, SameStore, SameSpend DEF IndInv
<1>4. StepOK' /\ HostOK'
  BY <1>0, <1>1, SameJournal DEF IndInv, StepOK, HostOK, Within, Before, Recovering, pending
<1>5. TurnOK' /\ ToolOK'
  BY <1>0, <1>1, SameJournal DEF IndInv, TurnOK, ToolOK, Within
<1>6. RestOK'
  BY <1>0, <1>1, SameJournal DEF IndInv, RestOK, blocked
<1> QED
  BY <1>2, <1>3, <1>4, <1>5, <1>6 DEF IndInv

(* The step plans its next node or a retry of the last one. *)
LEMMA PlanStep ==
  ASSUME IndInv, AnalysisAssumption, planNext
  PROVE  IndInv'
<1>0. /\ st \in StepRecords /\ st.pc = "next"
      /\ UNCHANGED <<attempts, nodes, torn, disposition, turns, seen, control, mgr, tool, turn, host, settled, faults>>
  BY Zenon DEF IndInv, Types, ProcessTypes, planNext, disk, native, ghosts, fine
<1>1. CASE throw
  BY <1>0, <1>1, Departs DEF Before
<1>2. ASSUME NEW p \in Plans, st' = [st EXCEPT !.pc = "acquire", !.plan = p, !.retry = some /\ isRetryableNoOutput(last)]
      PROVE  IndInv'
  <2>1. /\ st' \in StepRecords /\ st'.pc = "acquire" /\ st'.reserved = st.reserved /\ (st'.called <=> st.called)
        /\ st'.retry => some
    <3> DEFINE r == some /\ isRetryableNoOutput(last)
    <3>1. r \in BOOLEAN /\ (r => some)
      OBVIOUS
    <3> HIDE DEF r
    <3> QED
      BY <3>1, <1>0, <1>2 DEF StepRecords, Stops
  <2>2. Types'
    BY <1>0, <2>1 DEF IndInv, Types, JournalTypes, StoreTypes, ProcessTypes, CountTypes
  <2>3. StepOK' /\ HostOK'
    BY <1>0, <2>1, SameJournal DEF IndInv, StepOK, HostOK, Before, Within, Recovering
  <2>4. TurnOK' /\ ToolOK'
    BY <1>0, <2>1, SameJournal DEF IndInv, TurnOK, ToolOK, Within
  <2> QED
    BY <1>0, <2>1, <2>2, <2>3, <2>4, WritesNothing DEF Placed
<1> QED
  BY <1>1, <1>2, Zenon DEF planNext

(* An epoch that no attempt has yet. *)
LEMMA NewEpochIsNew ==
  ASSUME Types, AnalysisAssumption
  PROVE  newEpoch \in Nat \ {0} /\ \A i \in DOMAIN attempts : attempts[i].epoch # newEpoch
<1> DEFINE S == {0} \cup {attempts[i].epoch : i \in DOMAIN attempts}
<1>1. \A i \in DOMAIN attempts : attempts[i].epoch \in 1..MaxAttempts
  BY Journal, AttemptFields DEF Types
<1>2. S \subseteq 0..MaxAttempts /\ S # {} /\ \A i \in DOMAIN attempts : attempts[i].epoch \in S
  BY <1>1, Constants
<1>3. newEpoch = Max(S) + 1
  BY DEF newEpoch
<1> HIDE DEF S
<1>4. Max(S) \in S /\ \A y \in S : y <= Max(S)
  BY <1>2, Constants, Greatest
<1>5. Max(S) \in Nat
  <2>1. Max(S) \in 0..MaxAttempts
    BY <1>2, <1>4
  <2> QED
    BY <2>1
<1>6. newEpoch \in Nat \ {0}
  BY <1>3, <1>5
<1>7. ASSUME NEW i \in DOMAIN attempts PROVE attempts[i].epoch # newEpoch
  <2>1. attempts[i].epoch <= Max(S) /\ attempts[i].epoch \in Nat
    BY <1>1, <1>2, <1>4
  <2> QED
    BY <1>3, <1>5, <2>1
<1> QED
  BY <1>6, <1>7

(* The step gets an owner: the released one again or one of a new epoch.   *)
(* What was settled of earlier attempts stays settled. *)
LEMMA AcquireStep ==
  ASSUME IndInv, AnalysisAssumption, Acquire
  PROVE  IndInv'
<1>0. /\ st \in StepRecords /\ host \in HostRecords /\ st.pc = "acquire"
      /\ UNCHANGED <<attempts, nodes, torn, disposition, turns, seen, control, mgr, tool, turn, faults>>
  BY DEF IndInv, Types, ProcessTypes, Acquire, disk, ghosts, fine
<1>1. CASE throw /\ UNCHANGED native
  BY <1>0, <1>1, Departs DEF Before, native
<1>2. ASSUME st' = [NoStep EXCEPT !.skipped = TRUE], UNCHANGED native
      PROVE  IndInv'
  <2>1. st' \in StepRecords /\ st'.pc = "idle" /\ st'.reserved = 0
    BY <1>2, NoStepHoldsNothing DEF StepRecords
  <2>2. Types'
    BY <1>0, <1>2, <2>1 DEF IndInv, Types, JournalTypes, StoreTypes, ProcessTypes, CountTypes, native
  <2>3. StepOK' /\ HostOK'
    BY <1>0, <1>2, <2>1, SameJournal DEF IndInv, StepOK, HostOK, Before, Within, Recovering, native
  <2>4. TurnOK' /\ ToolOK'
    BY <1>0, <2>1, SameJournal DEF IndInv, TurnOK, ToolOK, Within
  <2> QED
    BY <1>0, <1>2, <2>1, <2>2, <2>3, <2>4, WritesNothing DEF Placed, native
<1>3. ASSUME goto("owner"), host' \in HostRecords, host'.state = "leased", host'.epoch # 0,
             settled' \subseteq 1..MaxAttempts,
             \A i \in DOMAIN attempts : attempts[i].epoch \in settled => attempts[i].epoch \in settled'
      PROVE  IndInv'
  <2>1. /\ st' \in StepRecords /\ st'.pc = "owner" /\ st'.reserved = st.reserved /\ (st'.retry <=> st.retry)
        /\ st'.called <=> st.called
    BY <1>0, <1>3, Goto DEF Stops
  <2>2. Types'
    BY <1>0, <1>3, <2>1 DEF IndInv, Types, JournalTypes, StoreTypes, ProcessTypes, CountTypes
  <2>3. StepOK' /\ HostOK'
    BY <1>0, <1>3, <2>1, SameJournal DEF IndInv, StepOK, HostOK, Before, Within, Recovering
  <2>4. TurnOK' /\ ToolOK'
    BY <1>0, <2>1, SameJournal DEF IndInv, TurnOK, ToolOK, Within
  <2> QED
    BY <1>0, <1>3, <2>1, <2>2, <2>3, <2>4, WritesNothing DEF Placed
<1>4. CASE host.state = "free" /\ host' = [host EXCEPT !.state = "leased"] /\ UNCHANGED settled /\ goto("owner")
  <2>1. host' \in HostRecords /\ host'.state = "leased" /\ host'.epoch # 0
    BY <1>0, <1>4 DEF HostRecords, IndInv, HostOK
  <2>2. settled' \subseteq 1..MaxAttempts
    BY <1>4 DEF IndInv, Types, CountTypes
  <2> QED
    BY <1>3, <1>4, <2>1, <2>2
<1>5. CASE /\ newEpoch <= MaxAttempts /\ goto("owner")
           /\ host' = [state |-> "leased", epoch |-> newEpoch]
           /\ settled' = (settled \cup (IF host.state = "free" THEN {host.epoch} ELSE {})) \ {newEpoch}
  <2>0. newEpoch \in Nat \ {0} /\ \A i \in DOMAIN attempts : attempts[i].epoch # newEpoch
    BY NewEpochIsNew DEF IndInv
  <2>1. host' \in HostRecords /\ host'.state = "leased" /\ host'.epoch # 0
    BY <1>0, <1>5, <2>0, Constants DEF HostRecords
  <2>2. settled' \subseteq 1..MaxAttempts
    <3>1. settled \subseteq 1..MaxAttempts /\ (host.state = "free" => host.epoch \in 1..MaxAttempts)
      BY <1>0, Constants DEF IndInv, Types, CountTypes, HostOK, HostRecords
    <3> QED
      BY <1>5, <3>1
  <2>3. \A i \in DOMAIN attempts : attempts[i].epoch \in settled => attempts[i].epoch \in settled'
    BY <1>5, <2>0
  <2> QED
    BY <1>3, <1>5, <2>1, <2>2, <2>3
<1> QED
  BY <1>1, <1>2, <1>4, <1>5 DEF Acquire

(* What a step that only goes to another place needs. *)
LEMMA GoesOn ==
  ASSUME IndInv, NEW pc \in Stops, goto(pc), st.pc # "idle",
         UNCHANGED <<attempts, nodes, torn, disposition, turns, seen, control, mgr, tool, turn, host, settled, faults>>,
         <<st.pc, pc>> \in {<<"owner", "reserve">>, <<"reserve", "settle">>, <<"settle", "successor">>,
                           <<"control", "release">>, <<"control", "finish">>, <<"release", "finish">>,
                           <<"recover", "recoverOutcome">>, <<"recoverOutcome", "recoverCommit">>},
         pc = "settle" => st.retry,
         pc = "reserve" /\ ~st.retry /\ some => last.native = "observed" \/ last.epoch \in settled,
         pc = "successor" => last.epoch \in settled
  PROVE  IndInv'
<1>0. st \in StepRecords
  BY DEF IndInv, Types, ProcessTypes
<1>1. st' \in StepRecords /\ st'.pc = pc /\ st'.reserved = st.reserved /\ (st'.retry <=> st.retry)
      /\ (st'.called <=> st.called)
  BY <1>0, Goto
<1>2. Types'
  BY <1>0, <1>1 DEF IndInv, Types, JournalTypes, StoreTypes, ProcessTypes, CountTypes
<1>3. StepOK'
  BY <1>1, SameJournal DEF IndInv, StepOK, Before, Within, Recovering
<1>4. HostOK'
  BY <1>1 DEF IndInv, HostOK, Recovering
<1>5. TurnOK' /\ ToolOK'
  BY <1>1, SameJournal DEF IndInv, TurnOK, ToolOK, Within
<1> QED
  BY <1>1, <1>2, <1>3, <1>4, <1>5, WritesNothing DEF Placed

(* The owner of the predecessor is asked for. *)
LEMMA CheckOwnerStep ==
  ASSUME IndInv, AnalysisAssumption, CheckOwner
  PROVE  IndInv'
<1>0. /\ st.pc = "owner"
      /\ UNCHANGED <<attempts, nodes, torn, disposition, turns, seen, control, mgr, tool, turn, host, settled, faults>>
  BY DEF CheckOwner, disk, native, ghosts, fine
<1>1. CASE throwChecked
  BY <1>0, <1>1, Departs DEF Before
<1>2. CASE goto("reserve") /\ ((some /\ ~st.retry /\ last.native # "observed") => verifiedSettlement)
  BY <1>0, <1>2, GoesOn DEF Stops, verifiedSettlement
<1> QED
  BY <1>1, <1>2 DEF CheckOwner

(* The first phase of a retry. *)
LEMMA SuccessorStep ==
  ASSUME IndInv, AnalysisAssumption, reserveSuccessor
  PROVE  IndInv'
<1>0. /\ st.pc = "reserve" /\ st.retry
      /\ UNCHANGED <<attempts, nodes, torn, disposition, turns, seen, control, mgr, tool, turn, host, settled, faults>>
  BY DEF reserveSuccessor, disk, native, ghosts, fine
<1>1. CASE throw
  BY <1>0, <1>1, Departs DEF Before
<1>2. CASE goto("settle")
  BY <1>0, <1>2, GoesOn DEF Stops
<1> QED
  BY <1>1, <1>2 DEF reserveSuccessor

(* The owner of the predecessor is joined. *)
LEMMA SettleStep ==
  ASSUME IndInv, AnalysisAssumption, SettlePredecessor
  PROVE  IndInv'
<1>0. /\ st.pc = "settle"
      /\ UNCHANGED <<attempts, nodes, torn, disposition, turns, seen, control, mgr, tool, turn, host, settled, faults>>
  BY DEF SettlePredecessor, disk, native, ghosts, fine
<1>1. CASE throwChecked
  BY <1>0, <1>1, Departs DEF Before
<1>2. CASE goto("successor") /\ verifiedSettlement
  BY <1>0, <1>2, GoesOn DEF Stops, verifiedSettlement
<1> QED
  BY <1>1, <1>2 DEF SettlePredecessor

(* The control head is read after the turn. *)
LEMMA AfterControlStep ==
  ASSUME IndInv, AnalysisAssumption, afterControl
  PROVE  IndInv'
<1>0. /\ st.pc = "control"
      /\ UNCHANGED <<attempts, nodes, torn, disposition, turns, seen, control, mgr, tool, turn, host, settled, faults>>
  BY DEF afterControl, disk, native, ghosts, fine
<1>1. goto("release") \/ goto("finish")
  BY DEF afterControl
<1> QED
  BY <1>0, <1>1, GoesOn DEF Stops

(* A recovery needs a settled owner. *)
LEMMA RecoverPreparedStep ==
  ASSUME IndInv, AnalysisAssumption, recoverPrepared
  PROVE  IndInv'
<1>0. /\ st.pc = "recover"
      /\ UNCHANGED <<attempts, nodes, torn, disposition, turns, seen, control, mgr, tool, turn, host, settled, faults>>
  BY DEF recoverPrepared, disk, native, ghosts, fine
<1>1. CASE throwChecked
  BY <1>0, <1>1, Departs DEF Recovering
<1>2. CASE goto("recoverOutcome")
  BY <1>0, <1>2, GoesOn DEF Stops
<1> QED
  BY <1>1, <1>2 DEF recoverPrepared

-----------------------------------------------------------------------------
(* The turn and its tools                                                  *)

(* The tools become usable. *)
LEMMA BeginStep ==
  ASSUME IndInv, AnalysisAssumption, begin
  PROVE  IndInv'
<1>0. /\ st \in StepRecords /\ st.pc = "begin"
      /\ UNCHANGED <<attempts, nodes, torn, disposition, turns, seen, control, mgr, tool, host, settled, faults>>
  BY DEF IndInv, Types, ProcessTypes, begin, disk, native, ghosts, fine
<1>1. CASE throwChecked /\ UNCHANGED turn
  BY <1>0, <1>1, Departs
<1>2. CASE goto("turn") /\ turn' = [NoTurn EXCEPT !.live = TRUE]
  <2>1. st' \in StepRecords /\ st'.pc = "turn" /\ st'.reserved = st.reserved /\ ~st'.called
    <3>1. ~st.called
      BY <1>0 DEF IndInv, StepOK
    <3> QED
      BY <1>0, <1>2, <3>1, Goto DEF Stops
  <2>2. turn' \in TurnRecords /\ turn'.live /\ turn'.shown = "none" /\ ~turn'.commitStarted
    BY <1>2 DEF NoTurn, TurnRecords
  <2>3. Types'
    BY <1>0, <2>1, <2>2 DEF IndInv, Types, JournalTypes, StoreTypes, ProcessTypes, CountTypes
  <2>4. StepOK' /\ HostOK'
    BY <1>0, <2>1, SameJournal DEF IndInv, StepOK, HostOK, Before, Within, Recovering
  <2>5. TurnOK'
    BY <1>0, <2>1, <2>2, SameJournal DEF IndInv, StepOK, TurnOK, Within
  <2>6. ToolOK'
    BY <1>0, <2>1, SameJournal DEF IndInv, ToolOK
  <2> QED
    BY <1>0, <2>1, <2>3, <2>4, <2>5, <2>6, WritesNothing DEF Placed
<1> QED
  BY <1>1, <1>2 DEF begin

(* The turn is counted for the attempt that was reserved for it. *)
LEMMA TurnStep ==
  ASSUME IndInv, AnalysisAssumption, turnAnalysis
  PROVE  IndInv'
<1>0. /\ st \in StepRecords /\ st.pc = "turn" /\ host \in HostRecords
      /\ UNCHANGED <<attempts, nodes, torn, disposition, seen, control, mgr, tool, turn, settled, faults>>
  BY DEF IndInv, Types, ProcessTypes, turnAnalysis, disk, fine
<1>1. CASE throw /\ UNCHANGED <<host, turns>>
  BY <1>0, <1>1, Departs
<1>2. CASE /\ st' = [st EXCEPT !.pc = "turning", !.called = TRUE]
           /\ host' = [host EXCEPT !.state = "busy"]
           /\ turns' = [turns EXCEPT ![st.reserved] = @ + 1]
  <2>1. st' \in StepRecords /\ st'.pc = "turning" /\ st'.reserved = st.reserved /\ st'.called
    BY <1>0, <1>2 DEF StepRecords, Stops
  <2>2. host' \in HostRecords /\ host'.state = "busy" /\ host'.epoch = host.epoch
    BY <1>0, <1>2 DEF HostRecords
  <2>3. st.reserved \in 1..MaxAttempts /\ st.reserved = Len(attempts)
    BY <1>0, Journal, Constants DEF IndInv, StepOK, Within, Types, JournalTypes
  <2>4. /\ turns' \in [1..MaxAttempts -> Nat] /\ turns'[st.reserved] = 1
        /\ \A i \in 1..MaxAttempts : i # st.reserved => turns'[i] = turns[i]
    BY <1>0, <1>2, <2>3 DEF IndInv, Types, CountTypes, SpendOK
  <2>5. Types'
    BY <1>0, <2>1, <2>2, <2>4 DEF IndInv, Types, JournalTypes, StoreTypes, ProcessTypes, CountTypes
  <2>6. SpendOK'
    <3>1. \A i \in 1..MaxAttempts : turns'[i] <= 1 /\ (i > Len(attempts) => turns'[i] = 0)
      BY <2>3, <2>4 DEF IndInv, SpendOK
    <3> QED
      BY <1>0, <2>1, <3>1, SameJournal DEF IndInv, SpendOK
  <2>7. PredecessorsOK'
    BY <1>0, <2>1, SameJournal DEF IndInv, PredecessorsOK, Closed
  <2>8. StepOK' /\ HostOK'
    BY <1>0, <2>1, <2>2, SameJournal DEF IndInv, StepOK, HostOK, Before, Within, Recovering
  <2>9. TurnOK' /\ ToolOK' /\ RestOK'
    BY <1>0, <2>1, SameJournal DEF IndInv, TurnOK, ToolOK, RestOK, Within
  <2>10. JournalOK' /\ RetriesOK' /\ NodesOK'
    BY <1>0, SameStore DEF IndInv
  <2> QED
    BY <2>5, <2>6, <2>7, <2>8, <2>9, <2>10 DEF IndInv
<1> QED
  BY <1>1, <1>2 DEF turnAnalysis

(* While the owner is busy the step waits for the turn. *)
LEMMA BusyMeansTurning ==
  ASSUME IndInv, host.state = "busy"
  PROVE  st.pc = "turning"
<1>1. st.pc \in Stops
  BY StepFields DEF IndInv, Types, ProcessTypes
<1> QED
  BY <1>1 DEF IndInv, HostOK, Recovering, Stops

(* The model asks for the material. *)
LEMMA MaterialStep ==
  ASSUME IndInv, AnalysisAssumption, callMaterial
  PROVE  IndInv'
<1>0. /\ st.pc = "turning" /\ turn \in TurnRecords /\ turn.live
      /\ UNCHANGED <<attempts, nodes, torn, disposition, turns, seen, control, mgr, tool, host, settled, faults, st>>
  BY BusyMeansTurning DEF IndInv, Types, ProcessTypes, callMaterial, toolUsable, disk, native, ghosts, fine
<1>1. turn' \in TurnRecords /\ turn'.live /\ turn'.shown = "staged" /\ (turn'.commitStarted <=> turn.commitStarted)
  BY <1>0 DEF callMaterial, TurnRecords
<1>2. Types'
  BY <1>0, <1>1 DEF IndInv, Types, JournalTypes, StoreTypes, ProcessTypes, CountTypes
<1>3. StepOK' /\ HostOK'
  BY <1>0, SameJournal DEF IndInv, StepOK, HostOK
<1>4. TurnOK' /\ ToolOK'
  BY <1>0, <1>1, SameJournal DEF IndInv, TurnOK, ToolOK
<1> QED
  BY <1>0, <1>2, <1>3, <1>4, WritesNothing DEF Placed

(* The material was sent: the attempt counts as seen. *)
LEMMA SentStep ==
  ASSUME IndInv, AnalysisAssumption, onToolResultSent
  PROVE  IndInv'
<1>0. /\ st.pc = "turning" /\ turn \in TurnRecords /\ turn.live
      /\ UNCHANGED <<attempts, nodes, torn, disposition, turns, control, mgr, tool, host, settled, faults, st>>
      /\ seen' = seen \cup {st.reserved}
  BY BusyMeansTurning DEF IndInv, Types, ProcessTypes, onToolResultSent, disk, native, fine
<1>1. turn' \in TurnRecords /\ turn'.live /\ turn'.shown = "shown" /\ (turn'.commitStarted <=> turn.commitStarted)
  BY <1>0 DEF onToolResultSent, TurnRecords
<1>2. st.reserved \in 1..MaxAttempts /\ st.reserved = Len(attempts)
  BY <1>0, Journal, Constants DEF IndInv, StepOK, Within, Types, JournalTypes
<1>3. Types'
  BY <1>0, <1>1, <1>2 DEF IndInv, Types, JournalTypes, StoreTypes, ProcessTypes, CountTypes
<1>4. StepOK' /\ HostOK'
  BY <1>0, SameJournal DEF IndInv, StepOK, HostOK
<1>5. TurnOK' /\ ToolOK' /\ RestOK'
  BY <1>0, <1>1, <1>2, SameJournal DEF IndInv, TurnOK, ToolOK, RestOK
<1>6. SpendOK' /\ PredecessorsOK'
  BY <1>0, SameJournal DEF IndInv, SpendOK, PredecessorsOK, Closed
<1>7. JournalOK' /\ RetriesOK' /\ NodesOK'
  BY <1>0, SameStore DEF IndInv
<1> QED
  BY <1>3, <1>4, <1>5, <1>6, <1>7 DEF IndInv

(* The model hands in an output. *)
LEMMA CommitStep ==
  ASSUME IndInv, AnalysisAssumption, callCommit
  PROVE  IndInv'
<1>0. /\ st.pc = "turning" /\ turn.live /\ ~turn.commitStarted /\ turn.shown = "shown"
      /\ UNCHANGED <<attempts, nodes, torn, disposition, turns, seen, control, mgr, turn, host, settled, faults, st>>
  BY BusyMeansTurning DEF callCommit, toolUsable, materialShown, disk, native, ghosts, fine
<1>1. PICK o \in Outputs : tool' = [pc |-> "heads", output |-> o]
  BY DEF callCommit
<1>2. tool' \in ToolRecords /\ tool'.pc = "heads" /\ tool'.output # "none"
  BY <1>1, Constants DEF ToolRecords
<1>3. Types'
  BY <1>0, <1>2 DEF IndInv, Types, JournalTypes, StoreTypes, ProcessTypes, CountTypes
<1>4. StepOK' /\ HostOK' /\ TurnOK'
  BY <1>0, SameJournal DEF IndInv, StepOK, HostOK, TurnOK
<1>5. some /\ last.prepared = "none" /\ Len(attempts) \in seen /\ st.reserved = Len(attempts)
  BY <1>0 DEF IndInv, TurnOK
<1>6. ~last.committed
  BY <1>5, Journal DEF IndInv, Types, JournalOK, last
<1>7. ToolOK'
  BY <1>0, <1>2, <1>5, <1>6, SameJournal DEF ToolOK
<1> QED
  BY <1>0, <1>3, <1>4, <1>7, WritesNothing DEF Placed

(* The heads are read before the output is prepared. *)
LEMMA CommitHeadsStep ==
  ASSUME IndInv, AnalysisAssumption, commitHeads
  PROVE  IndInv'
<1>0. /\ tool.pc = "heads" /\ turn \in TurnRecords /\ tool \in ToolRecords
      /\ UNCHANGED <<attempts, nodes, torn, disposition, turns, seen, control, mgr, host, settled, faults, st>>
  BY DEF IndInv, Types, ProcessTypes, commitHeads, disk, native, ghosts, fine
<1>1. /\ st.pc \in {"turning", "outcome", "control", "release", "finish", "cleanup"}
      /\ turn.live /\ ~turn.commitStarted /\ last.prepared = "none"
  BY <1>0 DEF IndInv, ToolOK
<1>2. /\ turn' \in TurnRecords /\ turn'.live /\ turn'.shown = turn.shown
      /\ tool' \in ToolRecords
      /\ \/ tool'.pc = "none"
         \/ tool'.pc = "prepare" /\ tool'.output = tool.output /\ turn'.commitStarted
  <2>1. CASE tool' = [tool EXCEPT !.pc = "prepare"] /\ turn' = [turn EXCEPT !.commitStarted = TRUE]
    BY <1>0, <1>1, <2>1 DEF TurnRecords, ToolRecords
  <2>2. CASE tool' = NoTool /\ turn' = [turn EXCEPT !.commitStarted = heads]
    <3>1. heads \in BOOLEAN
      BY <1>1 DEF heads, guard
    <3>2. tool' \in ToolRecords /\ tool'.pc = "none"
      BY <2>2 DEF ToolRecords, NoTool
    <3> QED
      BY <1>0, <1>1, <2>2, <3>1, <3>2 DEF TurnRecords
  <2> QED
    BY <2>1, <2>2 DEF commitHeads
<1>3. Types'
  BY <1>0, <1>2 DEF IndInv, Types, JournalTypes, StoreTypes, ProcessTypes, CountTypes
<1>4. StepOK' /\ HostOK'
  BY <1>0, SameJournal DEF IndInv, StepOK, HostOK
<1>5. TurnOK'
  BY <1>0, <1>1, <1>2, SameJournal DEF IndInv, TurnOK
<1>6. ToolOK'
  BY <1>0, <1>1, <1>2, SameJournal DEF IndInv, ToolOK
<1> QED
  BY <1>0, <1>1, <1>3, <1>4, <1>5, <1>6, WritesNothing DEF Placed

(* They are read again before the node is appended. *)
LEMMA CommitReheadsStep ==
  ASSUME IndInv, AnalysisAssumption, commitReheads
  PROVE  IndInv'
<1>0. /\ tool.pc = "reheads" /\ tool \in ToolRecords
      /\ UNCHANGED <<attempts, nodes, torn, disposition, turns, seen, control, mgr, turn, host, settled, faults, st>>
  BY DEF IndInv, Types, ProcessTypes, commitReheads, disk, native, ghosts, fine
<1>1. /\ st.pc \in {"turning", "outcome", "control", "release", "finish", "cleanup"}
      /\ last.prepared # "none"
  BY <1>0 DEF IndInv, ToolOK
<1>2. tool' \in ToolRecords /\ (tool'.pc = "none" \/ (tool'.pc = "append" /\ tool'.output = tool.output))
  BY <1>0 DEF commitReheads, ToolRecords, NoTool
<1>3. Types'
  BY <1>0, <1>2 DEF IndInv, Types, JournalTypes, StoreTypes, ProcessTypes, CountTypes
<1>4. StepOK' /\ HostOK' /\ TurnOK'
  BY <1>0, SameJournal DEF IndInv, StepOK, HostOK, TurnOK
<1>5. ToolOK'
  BY <1>0, <1>1, <1>2, SameJournal DEF IndInv, ToolOK
<1> QED
  BY <1>0, <1>1, <1>3, <1>4, <1>5, WritesNothing DEF Placed

(* The turn is over. *)
LEMMA TurnEndsStep ==
  ASSUME IndInv, AnalysisAssumption, TurnEnds
  PROVE  IndInv'
<1>1. PICK outcome \in Outcomes : endTurn(outcome) /\ (fine \/ fault)
  BY DEF TurnEnds, Completed, NotAdmitted, Broken, Aborted, Outcomes
<1>0. /\ st \in StepRecords /\ host \in HostRecords /\ st.pc = "turning"
      /\ UNCHANGED <<attempts, nodes, torn, disposition, turns, seen, control, mgr, turn, tool, settled>>
  BY <1>1 DEF IndInv, Types, ProcessTypes, endTurn, disk, ghosts
<1>2. st' \in StepRecords /\ st'.pc = "outcome" /\ st'.reserved = st.reserved /\ (st'.called <=> st.called)
  BY <1>0, <1>1 DEF endTurn, StepRecords, Stops
<1>3. host' \in HostRecords /\ host'.state = "ended" /\ host'.epoch = host.epoch
  BY <1>0, <1>1 DEF endTurn, HostRecords
<1>4. faults' \in 0..MaxFaults
  BY <1>1, FaultsAreBounded DEF IndInv, Types
<1>5. Types'
  BY <1>0, <1>2, <1>3, <1>4 DEF IndInv, Types, JournalTypes, StoreTypes, ProcessTypes, CountTypes
<1>6. StepOK'
  BY <1>0, <1>2, SameJournal DEF IndInv, StepOK, Before, Within, Recovering
<1>7. HostOK'
  BY <1>0, <1>2, <1>3 DEF IndInv, HostOK, Recovering
<1>8. TurnOK' /\ ToolOK'
  BY <1>0, <1>2, SameJournal DEF IndInv, TurnOK, ToolOK, Within
<1> QED
  BY <1>0, <1>2, <1>5, <1>6, <1>7, <1>8, WritesNothing DEF Placed

(* The release may be acknowledged or not. *)
LEMMA ReleaseStep ==
  ASSUME IndInv, AnalysisAssumption, releaseAnalysis
  PROVE  IndInv'
<1>0. /\ st \in StepRecords /\ st.pc = "release" /\ (fine \/ fault)
      /\ UNCHANGED <<attempts, nodes, torn, disposition, turns, seen, control, mgr, turn, tool, host, settled>>
  BY DEF IndInv, Types, ProcessTypes, releaseAnalysis, disk, native, ghosts
<1>1. st' \in StepRecords /\ st'.pc = "finish" /\ st'.reserved = st.reserved /\ (st'.called <=> st.called)
  BY <1>0 DEF releaseAnalysis, goto, StepRecords, Stops
<1>2. faults' \in 0..MaxFaults
  BY <1>0, FaultsAreBounded DEF IndInv, Types
<1>3. Types'
  BY <1>0, <1>1, <1>2 DEF IndInv, Types, JournalTypes, StoreTypes, ProcessTypes, CountTypes
<1>4. StepOK'
  BY <1>0, <1>1, SameJournal DEF IndInv, StepOK, Before, Within, Recovering
<1>5. HostOK'
  BY <1>0, <1>1 DEF IndInv, HostOK, Recovering
<1>6. TurnOK' /\ ToolOK'
  BY <1>0, <1>1, SameJournal DEF IndInv, TurnOK, ToolOK, Within
<1> QED
  BY <1>0, <1>1, <1>3, <1>4, <1>5, <1>6, WritesNothing DEF Placed

(* The tools stop once the call of the model is joined. *)
LEMMA FinishStep ==
  ASSUME IndInv, AnalysisAssumption, finish
  PROVE  IndInv'
<1>0. /\ st \in StepRecords /\ st.pc = "finish" /\ tool.pc = "none"
      /\ UNCHANGED <<attempts, nodes, torn, disposition, turns, seen, control, mgr, tool, host, settled, faults>>
  BY DEF IndInv, Types, ProcessTypes, finish, toolJoined, disk, native, ghosts, fine
<1>1. st' \in StepRecords /\ st'.pc = "cleanup" /\ st'.reserved = st.reserved /\ (st'.called <=> st.called)
  BY <1>0, Goto DEF finish, Stops
<1>2. turn' \in TurnRecords /\ ~turn'.live /\ turn'.shown = "none"
  BY DEF finish, NoTurn, TurnRecords
<1>3. Types'
  BY <1>0, <1>1, <1>2 DEF IndInv, Types, JournalTypes, StoreTypes, ProcessTypes, CountTypes
<1>4. StepOK'
  BY <1>0, <1>1, SameJournal DEF IndInv, StepOK, Before, Within, Recovering
<1>5. HostOK'
  BY <1>0, <1>1 DEF IndInv, HostOK, Recovering
<1>6. TurnOK' /\ ToolOK'
  BY <1>0, <1>1, <1>2, SameJournal DEF TurnOK, ToolOK
<1> QED
  BY <1>0, <1>1, <1>3, <1>4, <1>5, <1>6, WritesNothing DEF Placed

(* The owner is released, settled or lost, and the step is over. *)
LEMMA CleanupStep ==
  ASSUME IndInv, AnalysisAssumption, cleanup
  PROVE  IndInv'
<1>0. /\ st \in StepRecords /\ st.pc = "cleanup" /\ tool.pc = "none" /\ host \in HostRecords /\ (fine \/ fault)
      /\ UNCHANGED <<attempts, nodes, torn, disposition, turns, seen, control, mgr, tool>>
  BY DEF IndInv, Types, ProcessTypes, cleanup, toolJoined, disk, ghosts
<1>1. st' \in StepRecords /\ st'.pc \in {"idle", "stale"} /\ st'.reserved = 0
  <2>1. CASE st' = NoStep
    BY <2>1, NoStepHoldsNothing
  <2>2. CASE st' = [NoStep EXCEPT !.pc = "stale", !.abort = st.abort]
    BY <1>0, <2>2, NoStepHoldsNothing DEF StepRecords, Stops
  <2> QED
    BY <2>1, <2>2 DEF cleanup
<1>2. turn' \in TurnRecords /\ ~turn'.live /\ turn'.shown = "none"
  BY DEF cleanup, NoTurn, TurnRecords
<1>3. /\ host' \in HostRecords /\ host'.state \in {"free", "none"} /\ host'.epoch = host.epoch
      /\ settled' = settled \/ settled' = settled \cup {host.epoch}
  BY <1>0 DEF cleanup, HostRecords
<1>4. host.epoch \in 1..MaxAttempts
  BY <1>0, Constants DEF IndInv, HostOK, HostRecords
<1>5. faults' \in 0..MaxFaults
  BY <1>0, FaultsAreBounded DEF IndInv, Types
<1>6. Types'
  BY <1>0, <1>1, <1>2, <1>3, <1>4, <1>5 DEF IndInv, Types, JournalTypes, StoreTypes, ProcessTypes, CountTypes
<1>7. StepOK'
  BY <1>0, <1>1, SameJournal DEF StepOK, Before, Within, Recovering
<1>8. HostOK'
  BY <1>1, <1>3, <1>4, Constants DEF HostOK, Recovering
<1>9. TurnOK' /\ ToolOK'
  BY <1>0, <1>1, <1>2, SameJournal DEF TurnOK, ToolOK
<1> QED
  BY <1>0, <1>1, <1>3, <1>6, <1>7, <1>8, <1>9, WritesNothing DEF Placed

-----------------------------------------------------------------------------
(* The manager, the native host and the process                            *)

(* The owner of the group cancels, the step is revoked and joined. *)
LEMMA ManagerStep ==
  ASSUME IndInv, AnalysisAssumption, Manager
  PROVE  IndInv'
<1>0. /\ st \in StepRecords
      /\ UNCHANGED <<attempts, nodes, torn, disposition, turns, seen, tool, turn, host, settled, faults>>
  BY DEF IndInv, Types, ProcessTypes, Manager, Cancel, revoke, revokeJoined, disk, native, ghosts, fine
<1>1. /\ st' \in StepRecords /\ st'.pc = st.pc /\ st'.reserved = st.reserved /\ (st'.called <=> st.called)
      /\ (st'.retry <=> st.retry)
  <2>1. CASE revoke
    <3>1. st' = [st EXCEPT !.abort = (st.pc # "idle")]
      BY <2>1 DEF revoke
    <3> QED
      BY <1>0, <3>1 DEF StepRecords
  <2>2. CASE Cancel \/ revokeJoined
    BY <1>0, <2>2 DEF Cancel, revokeJoined
  <2> QED
    BY <2>1, <2>2 DEF Manager
<1>2. /\ control' \in {"queued", "cancelled"} /\ mgr' \in {"revoke", "join", "answered"}
      /\ control' = "cancelled" /\ (mgr' = "answered" => st.pc = "idle")
  BY DEF Manager, Cancel, revoke, revokeJoined, IndInv, RestOK
<1>3. Types'
  BY <1>0, <1>1, <1>2 DEF IndInv, Types, JournalTypes, StoreTypes, ProcessTypes, CountTypes
<1>4. StepOK' /\ HostOK'
  BY <1>0, <1>1, SameJournal DEF IndInv, StepOK, HostOK
<1>5. TurnOK' /\ ToolOK'
  BY <1>0, <1>1, SameJournal DEF IndInv, TurnOK, ToolOK
<1>6. RestOK'
  BY <1>0, <1>1, <1>2, SameJournal DEF IndInv, RestOK
<1>7. JournalOK' /\ RetriesOK' /\ NodesOK'
  BY <1>0, SameStore DEF IndInv
<1>8. SpendOK' /\ PredecessorsOK'
  BY <1>0, <1>1, SameJournal DEF IndInv, SpendOK, PredecessorsOK, Closed
<1> QED
  BY <1>3, <1>4, <1>5, <1>6, <1>7, <1>8 DEF IndInv

(* An owner that is given up, or lost, is settled. *)
LEMMA HostStep ==
  ASSUME IndInv, AnalysisAssumption, Host
  PROVE  IndInv'
<1>0. /\ host \in HostRecords
      /\ UNCHANGED <<attempts, nodes, torn, disposition, turns, seen, tool, turn, faults, st, control, mgr>>
  BY DEF IndInv, Types, ProcessTypes, Host, RotateEpoch, SettleOrphan, disk, ghosts, fine
<1>1. /\ host' \in HostRecords /\ host'.epoch = host.epoch
      /\ host' = host \/ (host.state = "free" /\ host'.state = "none")
  BY <1>0 DEF Host, RotateEpoch, SettleOrphan, HostRecords
<1>2. settled' \subseteq 1..MaxAttempts /\ settled \subseteq settled'
  <2>1. CASE RotateEpoch
    <3>1. host.epoch \in 1..MaxAttempts
      BY <1>0, <2>1, Constants DEF RotateEpoch, IndInv, HostOK, HostRecords
    <3> QED
      BY <2>1, <3>1 DEF RotateEpoch, IndInv, Types, CountTypes
  <2>2. CASE SettleOrphan
    <3>1. last.epoch \in 1..MaxAttempts
      BY <2>2, Journal, AttemptFields DEF SettleOrphan, IndInv, Types
    <3> QED
      BY <2>2, <3>1 DEF SettleOrphan, IndInv, Types, CountTypes
  <2> QED
    BY <2>1, <2>2 DEF Host
<1>3. Types'
  BY <1>0, <1>1, <1>2 DEF IndInv, Types, JournalTypes, StoreTypes, ProcessTypes, CountTypes
<1>4. HostOK'
  BY <1>0, <1>1 DEF IndInv, HostOK, Recovering
<1>5. StepOK' /\ TurnOK' /\ ToolOK' /\ RestOK'
  BY <1>0, SameJournal DEF IndInv, StepOK, TurnOK, ToolOK, RestOK
<1>6. JournalOK' /\ RetriesOK' /\ NodesOK'
  BY <1>0, SameStore DEF IndInv
<1>7. SpendOK'
  BY <1>0, SameJournal DEF IndInv, SpendOK
<1>8. ASSUME NEW i \in DOMAIN attempts, i < Len(attempts) PROVE Closed(attempts[i])'
  BY <1>0, <1>2, <1>8 DEF IndInv, PredecessorsOK, Closed
<1>9. PredecessorsOK'
  <2>1. /\ st.pc = "reserve" /\ ~st.retry /\ some => last.native = "observed" \/ last.epoch \in settled'
        /\ st.pc = "successor" => last.epoch \in settled'
    BY <1>2 DEF IndInv, PredecessorsOK
  <2> QED
    BY <1>0, <1>8, <2>1, SameJournal DEF PredecessorsOK
<1> QED
  BY <1>3, <1>4, <1>5, <1>6, <1>7, <1>9 DEF IndInv

(* A stop of the process forgets everything but the stores. *)
LEMMA StopStep ==
  ASSUME IndInv, AnalysisAssumption, Stop
  PROVE  IndInv'
<1>0. /\ host \in HostRecords /\ fault
      /\ UNCHANGED <<attempts, nodes, torn, disposition, turns, seen, control, settled>>
      /\ st' = NoStep /\ tool' = NoTool /\ turn' = NoTurn /\ host' = [host EXCEPT !.state = "none"]
      /\ mgr' \in {"idle", "answered"} /\ (mgr' = "answered" => mgr # "idle")
  BY DEF IndInv, Types, ProcessTypes, Stop, disk, ghosts
<1>1. st' \in StepRecords /\ st'.pc = "idle" /\ st'.reserved = 0
  BY <1>0, NoStepHoldsNothing
<1>2. /\ tool' \in ToolRecords /\ tool'.pc = "none" /\ turn' \in TurnRecords /\ ~turn'.live /\ turn'.shown = "none"
      /\ host' \in HostRecords /\ host'.state = "none"
  BY <1>0 DEF ToolRecords, NoTool, TurnRecords, NoTurn, HostRecords
<1>3. faults' \in 0..MaxFaults
  BY <1>0, FaultsAreBounded DEF IndInv, Types
<1>4. Types'
  BY <1>0, <1>1, <1>2, <1>3 DEF IndInv, Types, JournalTypes, StoreTypes, ProcessTypes, CountTypes
<1>5. StepOK' /\ HostOK'
  BY <1>1, <1>2 DEF StepOK, HostOK, Before, Within, Recovering
<1>6. TurnOK' /\ ToolOK'
  BY <1>2 DEF TurnOK, ToolOK
<1>7. RestOK'
  BY <1>0, <1>1, SameJournal DEF IndInv, RestOK
<1>8. JournalOK' /\ RetriesOK' /\ NodesOK'
  BY <1>0, SameStore DEF IndInv
<1>9. SpendOK' /\ PredecessorsOK'
  BY <1>0, <1>1, SameJournal DEF IndInv, SpendOK, PredecessorsOK, Closed
<1> QED
  BY <1>4, <1>5, <1>6, <1>7, <1>8, <1>9 DEF IndInv

-----------------------------------------------------------------------------
(* Records of the runner                                                   *)

(* A task whose last attempt is consumed is recorded as blocked. *)
LEMMA BlockStep ==
  ASSUME IndInv, AnalysisAssumption, blockConsumed
  PROVE  IndInv'
<1>0. /\ st.pc = "idle" /\ some /\ last.prepared = "none" /\ ~canContinueNoOutput /\ (fine \/ fault)
      /\ disposition' \in {disposition, "consumed-without-prepared"}
      /\ UNCHANGED <<control, nodes, attempts, torn, st, tool, turn, host, settled, mgr, seen, turns>>
  BY DEF blockConsumed, consumedWithoutPrepared, pending
<1>1. faults' \in 0..MaxFaults
  BY <1>0, FaultsAreBounded DEF IndInv, Types
<1>2. Types'
  BY <1>0, <1>1 DEF IndInv, Types, JournalTypes, StoreTypes, ProcessTypes, CountTypes
<1>3. StepOK' /\ HostOK' /\ TurnOK' /\ ToolOK'
  BY <1>0, SameJournal DEF IndInv, StepOK, HostOK, TurnOK, ToolOK
<1>4. RestOK'
  BY <1>0, SameJournal DEF IndInv, RestOK
<1>5. JournalOK' /\ RetriesOK' /\ NodesOK'
  BY <1>0, SameStore DEF IndInv
<1>6. SpendOK' /\ PredecessorsOK'
  BY <1>0, SameJournal DEF IndInv, SpendOK, PredecessorsOK, Closed
<1> QED
  BY <1>2, <1>3, <1>4, <1>5, <1>6 DEF IndInv

(* A stale head is recorded. *)
LEMMA StaleStep ==
  ASSUME IndInv, AnalysisAssumption, recordStale
  PROVE  IndInv'
<1>0. /\ st.pc = "stale" /\ st' = NoStep /\ (fine \/ fault)
      /\ disposition' \in {disposition, "stale"}
      /\ UNCHANGED <<control, nodes, attempts, torn, tool, turn, host, settled, mgr, seen, turns>>
  BY DEF recordStale, native, ghosts
<1>1. st' \in StepRecords /\ st'.pc = "idle" /\ st'.reserved = 0
  BY <1>0, NoStepHoldsNothing
<1>2. faults' \in 0..MaxFaults
  BY <1>0, FaultsAreBounded DEF IndInv, Types
<1>3. Types'
  BY <1>0, <1>1, <1>2 DEF IndInv, Types, JournalTypes, StoreTypes, ProcessTypes, CountTypes
<1>4. StepOK' /\ HostOK'
  BY <1>0, <1>1 DEF IndInv, StepOK, HostOK, Before, Within, Recovering
<1>5. TurnOK' /\ ToolOK'
  BY <1>0, <1>1, SameJournal DEF IndInv, TurnOK, ToolOK, Within
<1>6. RestOK'
  BY <1>0, <1>1, SameJournal DEF IndInv, RestOK
<1>7. JournalOK' /\ RetriesOK' /\ NodesOK'
  BY <1>0, SameStore DEF IndInv
<1>8. SpendOK' /\ PredecessorsOK'
  BY <1>0, <1>1, SameJournal DEF IndInv, SpendOK, PredecessorsOK, Closed
<1> QED
  BY <1>3, <1>4, <1>5, <1>6, <1>7, <1>8 DEF IndInv

-----------------------------------------------------------------------------
(* Writing the last attempt                                                *)

(* A sequence without its last element. *)
LEMMA Front ==
  ASSUME NEW S, NEW s \in Seq(S), Len(s) # 0
  PROVE  /\ SubSeq(s, 1, Len(s) - 1) \in Seq(S) /\ Len(SubSeq(s, 1, Len(s) - 1)) = Len(s) - 1
         /\ \A i \in 1..(Len(s) - 1) : SubSeq(s, 1, Len(s) - 1)[i] = s[i]
<1> DEFINE k == Len(s) - 1
<1>1. k \in Nat /\ 1 \in Int /\ k \in Int
  BY LenProperties
<1>2. \A i \in 1..k : s[i] \in S
  BY LenProperties, ElementOfSeq
<1> HIDE DEF k
<1>3. SubSeq(s, 1, k) \in Seq(S)
  BY <1>1, <1>2, SubSeqProperties
<1>4. Len(SubSeq(s, 1, k)) = IF 1 <= k THEN k - 1 + 1 ELSE 0
  BY <1>1, <1>2, SubSeqProperties
<1>5. \A i \in 1..(k - 1 + 1) : SubSeq(s, 1, k)[i] = s[1 + i - 1]
  BY <1>1, <1>2, SubSeqProperties
<1>6. Len(SubSeq(s, 1, k)) = k
  BY <1>1, <1>4
<1>7. ASSUME NEW i \in 1..k PROVE SubSeq(s, 1, k)[i] = s[i]
  <2>1. i \in 1..(k - 1 + 1) /\ 1 + i - 1 = i
    BY <1>1
  <2> QED
    BY <1>5, <2>1
<1> QED
  BY <1>3, <1>6, <1>7 DEF k

(* A journal whose last attempt was written again. *)
LEMMA LastReplaced ==
  ASSUME JournalTypes, some, NEW a \in Attempt, attempts' = with(a)
  PROVE  /\ attempts' \in Seq(Attempt) /\ Len(attempts') = Len(attempts)
         /\ \A i \in 1..Len(attempts) : attempts'[i] = IF i = Len(attempts) THEN a ELSE attempts[i]
<1> DEFINE front == SubSeq(attempts, 1, Len(attempts) - 1)
<1>1. Len(attempts) \in Nat \ {0} /\ attempts \in Seq(Attempt)
  BY Journal DEF JournalTypes
<1>3. /\ front \in Seq(Attempt) /\ Len(front) = Len(attempts) - 1
      /\ \A i \in 1..(Len(attempts) - 1) : front[i] = attempts[i]
  BY <1>1, Front
<1> HIDE DEF front
<1>4. attempts' = Append(front, a)
  BY DEF with, front
<1>5. /\ attempts' \in Seq(Attempt) /\ Len(attempts') = Len(front) + 1
      /\ \A i \in 1..Len(front) : attempts'[i] = front[i]
      /\ attempts'[Len(front) + 1] = a
  BY <1>3, <1>4, AppendProperties
<1> QED
  BY <1>1, <1>3, <1>5

(* What may be written of the last attempt: an output where it has none,   *)
(* that its node is there, and how its turn ended. *)
Rewrites(a) ==
  /\ a.node = last.node /\ a.plan = last.plan /\ a.epoch = last.epoch /\ a.original = last.original
  /\ last.prepared # "none" => a.prepared = last.prepared
  /\ last.committed => a.committed
  /\ a.committed => a.prepared # "none" /\ last.node = Len(nodes)
  /\ a.prepared # "none" => Len(attempts) \in seen

(* Such a write keeps the order of the journal and its nodes. *)
LEMMA LastRewritten ==
  ASSUME IndInv, AnalysisAssumption, some, NEW a \in Attempt, Rewrites(a), attempts' \in {attempts, with(a)},
         UNCHANGED <<nodes, turns, seen, settled>>, st'.pc \notin {"begin", "turn", "reserve", "successor"}
  PROVE  /\ JournalTypes' /\ JournalOK' /\ RetriesOK' /\ NodesOK' /\ SpendOK' /\ PredecessorsOK'
         /\ Len(attempts') = Len(attempts) /\ some' /\ last' \in {last, a}
         /\ attempts' = with(a) => last' = a
<1> DEFINE n == Len(attempts)
<1>0. JournalTypes /\ n \in Nat \ {0} /\ DOMAIN attempts = 1..n /\ n \in 1..n
      /\ \A i \in 1..n : attempts[i] \in Attempt /\ attempts[i].node \in 1..Nodes
  BY Journal, AttemptFields DEF IndInv, Types
<1>1. CASE attempts' = attempts /\ attempts # with(a)
  <2>1. JournalOK' /\ RetriesOK' /\ NodesOK'
    BY <1>1, SameStore DEF IndInv
  <2>2. JournalTypes'
    BY <1>0, <1>1 DEF JournalTypes
  <2>3. SpendOK' /\ PredecessorsOK'
    BY <1>1, SameSpend DEF IndInv
  <2> QED
    BY <1>1, <2>1, <2>2, <2>3, SameJournal
<1>2. CASE attempts' = with(a)
  <2>1. /\ attempts' \in Seq(Attempt) /\ Len(attempts') = n /\ DOMAIN attempts' = 1..n
        /\ \A i \in 1..n : attempts'[i] = IF i = n THEN a ELSE attempts[i]
    BY <1>0, <1>2, LastReplaced, LenProperties, Zenon
  <2>2. JournalTypes' /\ some' /\ last' = a /\ last = attempts[n]
    BY <1>0, <2>1, EmptySeq, Zenon DEF JournalTypes, some, last
  <2> HIDE DEF n
  <2>3. /\ \A i \in 1..n : attempts'[i].node = attempts[i].node /\ attempts'[i].plan = attempts[i].plan
                        /\ attempts'[i].epoch = attempts[i].epoch /\ attempts'[i].original = attempts[i].original
        /\ \A i \in 1..n : i < n => attempts'[i] = attempts[i]
        /\ \A i \in 1..n : attempts[i].prepared # "none" => attempts'[i].prepared = attempts[i].prepared
        /\ \A i \in 1..n : attempts'[i].committed => attempts'[i].prepared # "none"
    BY <1>0, <2>1, <2>2 DEF Rewrites, IndInv, JournalOK
  <2>4. JournalOK'
    <3>1. \A i, j \in 1..n : i < j => Ordered(i, j)'
      <4> SUFFICES ASSUME NEW i \in 1..n, NEW j \in 1..n, i < j PROVE Ordered(i, j)'
        OBVIOUS
      <4>0. i < n
        BY <1>0
      <4>1. Ordered(i, j)
        BY <1>0 DEF IndInv, JournalOK
      <4> QED
        BY <2>3, <4>0, <4>1 DEF Ordered
    <3>2. \A i \in 1..n : IF i = 1 THEN attempts'[i].original = "new" ELSE Follows(i)'
      <4> SUFFICES ASSUME NEW i \in 1..n PROVE IF i = 1 THEN attempts'[i].original = "new" ELSE Follows(i)'
        OBVIOUS
      <4>1. IF i = 1 THEN attempts[i].original = "new" ELSE Follows(i)
        BY <1>0 DEF IndInv, JournalOK
      <4>2. CASE i = 1
        BY <2>3, <4>1, <4>2
      <4>3. CASE i # 1
        <5>1. i - 1 \in 1..n /\ i - 1 < n
          BY <1>0, <4>3
        <5>2. attempts'[i - 1] = attempts[i - 1]
          BY <2>3, <5>1
        <5> QED
          BY <2>3, <4>1, <4>3, <5>2 DEF Follows
      <4> QED
        BY <4>2, <4>3
    <3> QED
      BY <2>1, <2>3, <3>1, <3>2 DEF JournalOK
  <2>5. RetriesOK'
    BY <1>0, <2>1, <2>3 DEF RetriesOK, IndInv
  <2>6. NodesOK'
    <3>1. /\ last.node = Len(nodes) \/ last.node = Len(nodes) + 1
          /\ last.prepared = "none" => last.node = Len(nodes) + 1
          /\ last.node = Len(nodes) => nodes[last.node] = NodeOf(last)
      BY DEF IndInv, NodesOK
    <3>2. Len(nodes) \in Nat /\ DOMAIN nodes = 1..Len(nodes)
      <4>1. nodes \in Seq(Node)
        BY DEF IndInv, Types, StoreTypes
      <4> QED
        BY <4>1, LenProperties
    <3>3. ASSUME last.node = Len(nodes) PROVE last.prepared # "none" /\ NodeOf(a) = NodeOf(last)
      <4>0. last.prepared = "none" => last.node = Len(nodes) + 1
        BY <3>1
      <4>a. Len(nodes) # Len(nodes) + 1
        <5>1. Len(nodes) \in Nat
          BY <3>2, Zenon
        <5> QED
          BY <5>1
      <4>1. last.prepared # "none"
        BY <3>3, <4>0, <4>a
      <4>2. a.prepared = last.prepared /\ a.plan = last.plan
        BY <4>1 DEF Rewrites
      <4> QED
        BY <4>1, <4>2 DEF NodeOf
    <3>4. ASSUME NEW k \in DOMAIN nodes
          PROVE  \E i \in 1..n : attempts'[i].node = k /\ nodes[k] = NodeOf(attempts'[i])
      <4>1. PICK i \in 1..n : attempts[i].node = k /\ nodes[k] = NodeOf(attempts[i])
        BY <1>0 DEF IndInv, NodesOK
      <4>2. CASE i = n
        <5>1. last.node = Len(nodes)
          BY <2>2, <3>1, <3>2, <4>1, <4>2
        <5> QED
          BY <2>1, <2>2, <2>3, <3>3, <4>1, <4>2, <5>1
      <4>3. CASE i # n
        BY <2>1, <4>1, <4>3
      <4> QED
        BY <4>2, <4>3
    <3>5. last'.node = last.node /\ (last'.committed => last.node = Len(nodes)) /\ (last'.prepared = "none" => last.prepared = "none")
      BY <2>2 DEF Rewrites
    <3>6. /\ last'.node = Len(nodes) \/ last'.node = Len(nodes) + 1
          /\ last'.prepared = "none" => last'.node = Len(nodes) + 1
          /\ last'.committed => last'.node = Len(nodes)
          /\ last'.node = Len(nodes) => nodes[last'.node] = NodeOf(last')
      BY <2>2, <3>1, <3>3, <3>5
    <3> QED
      BY <2>1, <2>2, <3>4, <3>6 DEF NodesOK, NodeOf
  <2>7. SpendOK'
    <3>1. \A i \in 1..MaxAttempts : turns[i] <= 1 /\ (i > n => turns[i] = 0)
      BY DEF IndInv, SpendOK, n
    <3>2. ASSUME NEW i \in 1..n, attempts'[i].prepared # "none" PROVE i \in seen
      <4>1. CASE i = n
        BY <2>1, <3>2, <4>1, Zenon DEF Rewrites, n
      <4>2. CASE i # n
        <5>1. attempts[i].prepared # "none"
          BY <2>1, <3>2, <4>2
        <5> QED
          BY <1>0, <5>1 DEF IndInv, SpendOK, n
      <4> QED
        BY <4>1, <4>2
    <3> QED
      BY <2>1, <3>1, <3>2 DEF SpendOK
  <2>8. PredecessorsOK'
    <3>1. ASSUME NEW i \in 1..n, i < n PROVE Closed(attempts[i])'
      <4>1. Closed(attempts[i])
        BY <1>0, <3>1 DEF IndInv, PredecessorsOK, n
      <4>2. attempts'[i] = attempts[i]
        BY <2>3, <3>1
      <4> QED
        BY <4>1, <4>2 DEF Closed
    <3> QED
      BY <2>1, <3>1, Zenon DEF PredecessorsOK, n
  <2>9. Len(attempts') = Len(attempts) /\ last' \in {last, a}
    BY <2>1, <2>2, Zenon DEF n
  <2> QED
    BY <2>2, <2>4, <2>5, <2>6, <2>7, <2>8, <2>9, Zenon
<1> QED
  BY <1>1, <1>2

-----------------------------------------------------------------------------
(* Steps that write the last attempt                                       *)

(* What a save of the last attempt leaves, whether it fails or not. *)
LEMMA Saved ==
  ASSUME IndInv, AnalysisAssumption, NEW journal, written(journal) \/ failed(journal)
  PROVE  /\ attempts' \in {attempts, journal} /\ UNCHANGED <<nodes, disposition>>
         /\ torn' \subseteq {"attempts", "analysis"} /\ faults' \in 0..MaxFaults
<1>1. fine \/ fault
  BY DEF written, failed
<1>2. faults' \in 0..MaxFaults
  BY <1>1, FaultsAreBounded DEF IndInv, Types
<1>3. torn' = torn \/ torn' = torn \cup {"attempts"}
  BY DEF written, failed
<1> QED
  BY <1>2, <1>3 DEF written, failed, IndInv, Types, StoreTypes

(* A step that saves the last attempt keeps the invariant when it leaves   *)
(* the parts of the process in their places. *)
LEMMA RewriteKeeps ==
  ASSUME IndInv, AnalysisAssumption, some, NEW a \in Attempt, Rewrites(a), written(with(a)) \/ failed(with(a)),
         UNCHANGED <<control, turn, host, settled, mgr, seen, turns>>, st.pc # "idle",
         st' \in StepRecords, tool' \in ToolRecords,
         st'.pc \notin {"begin", "turn", "reserve", "successor"}, Placed'
  PROVE  IndInv'
<1>1. /\ attempts' \in {attempts, with(a)} /\ UNCHANGED <<nodes, disposition>>
      /\ torn' \subseteq {"attempts", "analysis"} /\ faults' \in 0..MaxFaults
  BY Saved
<1>2. JournalTypes' /\ JournalOK' /\ RetriesOK' /\ NodesOK' /\ SpendOK' /\ PredecessorsOK'
  BY <1>1, LastRewritten
<1>3. StoreTypes' /\ ProcessTypes' /\ CountTypes'
  BY <1>1 DEF IndInv, Types, StoreTypes, ProcessTypes, CountTypes
<1>4. RestOK'
  BY <1>1 DEF IndInv, RestOK
<1> QED
  BY <1>2, <1>3, <1>4 DEF IndInv, Types, Placed

(* What stays of the journal in such a step. *)
LEMMA RewriteLeaves ==
  ASSUME IndInv, AnalysisAssumption, some, NEW a \in Attempt, Rewrites(a), written(with(a)) \/ failed(with(a)),
         UNCHANGED <<settled, seen, turns>>, st'.pc \notin {"begin", "turn", "reserve", "successor"}
  PROVE  /\ Len(attempts)' = Len(attempts) /\ some' /\ last' \in {last, a} /\ UNCHANGED nodes
         /\ written(with(a)) => last' = a
<1>1. attempts' \in {attempts, with(a)} /\ UNCHANGED nodes /\ (written(with(a)) => attempts' = with(a))
  BY Saved DEF written
<1> QED
  BY <1>1, LastRewritten

(* The last attempt has what an attempt has. *)
LEMMA LastIs ==
  ASSUME IndInv, some
  PROVE  /\ last \in Attempt
         /\ last.committed => last.prepared # "none" /\ last.node = Len(nodes)
         /\ last.prepared # "none" => Len(attempts) \in seen
<1>1. last \in Attempt /\ Len(attempts) \in DOMAIN attempts
  BY Journal DEF IndInv, Types
<1> QED
  BY <1>1 DEF IndInv, JournalOK, NodesOK, SpendOK, last

(* How a turn ended may always be saved. *)
LEMMA OutcomeRewrites ==
  ASSUME IndInv, some, NEW outcome \in Outcomes, NEW a, a = [last EXCEPT !.native = outcome]
  PROVE  /\ a \in Attempt /\ Rewrites(a) /\ a.prepared = last.prepared /\ (a.committed <=> last.committed)
         /\ a.node = last.node
<1>1. last \in Attempt
  BY LastIs
<1>2. /\ a \in Attempt /\ a.node = last.node /\ a.plan = last.plan /\ a.epoch = last.epoch
      /\ a.original = last.original /\ a.prepared = last.prepared /\ a.committed = last.committed
  BY <1>1 DEF Attempt
<1> QED
  BY <1>2, LastIs DEF Rewrites

(* So may be that the node of an output is there. *)
LEMMA CommitRewrites ==
  ASSUME IndInv, some, last.prepared # "none", last.node = Len(nodes), NEW a, a = [last EXCEPT !.committed = TRUE]
  PROVE  a \in Attempt /\ Rewrites(a) /\ a.prepared = last.prepared /\ a.node = last.node
<1>1. last \in Attempt
  BY LastIs
<1>2. /\ a \in Attempt /\ a.node = last.node /\ a.plan = last.plan /\ a.epoch = last.epoch
      /\ a.original = last.original /\ a.prepared = last.prepared /\ a.committed = TRUE
  BY <1>1 DEF Attempt
<1> QED
  BY <1>2, LastIs DEF Rewrites

(* The output the model handed in is prepared. *)
LEMMA PrepareStep ==
  ASSUME IndInv, AnalysisAssumption, prepare
  PROVE  IndInv'
<1> DEFINE a == [last EXCEPT !.prepared = tool.output]
<1>0. /\ st \in StepRecords /\ tool \in ToolRecords /\ tool.pc = "prepare"
      /\ UNCHANGED <<control, turn, host, settled, mgr, seen, turns>>
      /\ written(with(a)) \/ failed(with(a))
  BY DEF IndInv, Types, ProcessTypes, prepare, native, ghosts
<1>1. /\ st.pc \in {"turning", "outcome", "control", "release", "finish", "cleanup"}
      /\ st.reserved = Len(attempts) /\ some /\ Len(attempts) \in seen /\ tool.output # "none" /\ ~last.committed
      /\ turn.commitStarted /\ last.prepared = "none"
  BY <1>0 DEF IndInv, ToolOK
<1>2. last \in Attempt
  BY <1>1, LastIs
<1>3. /\ a \in Attempt /\ a.node = last.node /\ a.plan = last.plan /\ a.epoch = last.epoch
      /\ a.original = last.original /\ a.prepared = tool.output /\ a.committed = last.committed
  BY <1>0, <1>2 DEF Attempt, ToolRecords
<1>4. Rewrites(a)
  BY <1>1, <1>3 DEF Rewrites
<1> HIDE DEF a
<1>5. /\ st' \in StepRecords /\ st'.pc = st.pc /\ st'.reserved = st.reserved /\ (st'.called <=> st.called)
      /\ tool' \in ToolRecords
      /\ \/ tool'.pc = "none"
         \/ written(with(a)) /\ tool'.pc = "reheads" /\ tool'.output = tool.output
  <2>1. CASE written(with(a)) /\ UNCHANGED st /\ tool' = [tool EXCEPT !.pc = "reheads"]
    BY <1>0, <2>1 DEF ToolRecords
  <2>2. CASE st' = [st EXCEPT !.tail = TRUE] /\ tool' = NoTool
    BY <1>0, <2>2 DEF ToolRecords, NoTool, StepRecords
  <2> QED
    BY <2>1, <2>2 DEF prepare, a
<1>6. st'.pc \notin {"begin", "turn", "reserve", "successor"}
  BY <1>1, <1>5
<1>7. /\ Len(attempts)' = Len(attempts) /\ some' /\ last' \in {last, a} /\ UNCHANGED nodes
      /\ written(with(a)) => last' = a
  BY <1>0, <1>1, <1>3, <1>4, <1>6, RewriteLeaves
<1>8. StepOK' /\ HostOK'
  BY <1>0, <1>1, <1>5, <1>7 DEF IndInv, StepOK, HostOK, Before, Within, Recovering
<1>9. TurnOK' /\ ToolOK'
  BY <1>0, <1>1, <1>3, <1>5, <1>7 DEF IndInv, TurnOK, ToolOK
<1> QED
  BY <1>0, <1>1, <1>3, <1>4, <1>5, <1>6, <1>8, <1>9, RewriteKeeps DEF Placed

(* The attempt is saved as committed in the turn. *)
LEMMA CommitRecordStep ==
  ASSUME IndInv, AnalysisAssumption, commitRecord
  PROVE  IndInv'
<1> DEFINE a == [last EXCEPT !.committed = TRUE]
<1>0. /\ st \in StepRecords /\ tool.pc = "node"
      /\ UNCHANGED <<control, turn, host, settled, mgr, seen, turns>>
  BY DEF IndInv, Types, ProcessTypes, commitRecord, native, ghosts
<1>1. /\ st.pc \in {"turning", "outcome", "control", "release", "finish", "cleanup"}
      /\ st.reserved = Len(attempts) /\ some /\ turn.commitStarted /\ last.prepared # "none" /\ last.node = Len(nodes)
  BY <1>0 DEF IndInv, ToolOK
<1>2. a \in Attempt /\ Rewrites(a) /\ a.prepared = last.prepared /\ a.node = last.node
  BY <1>1, CommitRewrites
<1> HIDE DEF a
<1>3. tool' \in ToolRecords /\ tool'.pc = "none"
  BY DEF commitRecord, NoTool, ToolRecords
<1>4. /\ st' \in StepRecords /\ st'.pc = st.pc /\ st'.reserved = st.reserved /\ (st'.called <=> st.called)
  <2>1. UNCHANGED st \/ st' = [st EXCEPT !.tail = TRUE]
    BY DEF commitRecord
  <2> QED
    BY <1>0, <2>1 DEF StepRecords
<1>5. CASE written(with(a)) \/ failed(with(a))
  <2>1. Len(attempts)' = Len(attempts) /\ some' /\ last' \in {last, a} /\ UNCHANGED nodes
    BY <1>0, <1>1, <1>2, <1>4, <1>5, RewriteLeaves
  <2>2. StepOK' /\ HostOK'
    BY <1>0, <1>1, <1>4, <2>1 DEF IndInv, StepOK, HostOK, Before, Within, Recovering
  <2>3. TurnOK' /\ ToolOK'
    BY <1>0, <1>1, <1>2, <1>3, <1>4, <2>1 DEF IndInv, TurnOK, ToolOK
  <2> QED
    BY <1>0, <1>1, <1>2, <1>3, <1>4, <1>5, <2>2, <2>3, RewriteKeeps DEF Placed
<1>6. CASE UNCHANGED disk /\ fine
  <2>1. UNCHANGED <<attempts, nodes, torn, disposition, faults>>
    BY <1>6 DEF disk, fine
  <2>2. Types'
    BY <1>0, <1>3, <1>4, <2>1 DEF IndInv, Types, JournalTypes, StoreTypes, ProcessTypes, CountTypes
  <2>3. StepOK' /\ HostOK' /\ TurnOK' /\ ToolOK'
    BY <1>0, <1>1, <1>3, <1>4, <2>1, SameJournal DEF IndInv, StepOK, HostOK, TurnOK, ToolOK, Before, Within, Recovering
  <2> QED
    BY <1>0, <1>1, <1>4, <2>1, <2>2, <2>3, WritesNothing DEF Placed
<1> QED
  BY <1>5, <1>6 DEF commitRecord, committedRecord, a

(* The outcome of the turn is saved; a call of the model that is still     *)
(* running, or a failed write, ends the step instead. *)
LEMMA OutcomeStep ==
  ASSUME IndInv, AnalysisAssumption, recordModelOutcome
  PROVE  IndInv'
<1> DEFINE a == [last EXCEPT !.native = st.outcome]
<1>0. /\ st \in StepRecords /\ st.pc = "outcome"
      /\ UNCHANGED <<control, tool, turn, host, settled, mgr, seen, turns>>
  BY DEF IndInv, Types, ProcessTypes, recordModelOutcome, native, ghosts
<1>1. st.reserved = Len(attempts) /\ some /\ st.called /\ host.state = "ended" /\ tool \in ToolRecords
  BY <1>0 DEF IndInv, StepOK, HostOK, Within, Types, ProcessTypes
<1>2. a \in Attempt /\ Rewrites(a) /\ a.prepared = last.prepared /\ (a.committed <=> last.committed) /\ a.node = last.node
  BY <1>0, <1>1, OutcomeRewrites, StepFields
<1> HIDE DEF a
<1>3. CASE (written(with(a)) /\ goto("control")) \/ (failed(with(a)) /\ throwTail)
  <2>1. /\ st' \in StepRecords /\ st'.pc \in {"control", "cleanup"} /\ st'.reserved = st.reserved
        /\ (st'.called <=> st.called)
    BY <1>0, <1>1, <1>3, Goto, ThrowsTail DEF Stops
  <2>2. Len(attempts)' = Len(attempts) /\ some' /\ last' \in {last, a} /\ UNCHANGED nodes
    BY <1>0, <1>1, <1>2, <1>3, <2>1, RewriteLeaves
  <2>3. StepOK' /\ HostOK'
    BY <1>0, <1>1, <2>1, <2>2 DEF IndInv, StepOK, HostOK, Before, Within, Recovering
  <2>4. TurnOK' /\ ToolOK'
    BY <1>0, <1>1, <1>2, <2>1, <2>2 DEF IndInv, TurnOK, ToolOK, Within
  <2> QED
    BY <1>0, <1>1, <1>2, <1>3, <2>1, <2>3, <2>4, RewriteKeeps DEF Placed
<1>4. CASE UNCHANGED disk /\ fine /\ throw
  BY <1>0, <1>4, Departs DEF disk, fine
<1> QED
  BY <1>3, <1>4 DEF recordModelOutcome, outcomeSaved, a

(* A reservation without a turn is saved as unknown. *)
LEMMA UnknownStep ==
  ASSUME IndInv, AnalysisAssumption, recordUnknown
  PROVE  IndInv'
<1> DEFINE a == [last EXCEPT !.native = "unknown"]
<1>0. /\ st \in StepRecords /\ st.pc = "unknown"
      /\ UNCHANGED <<control, tool, turn, host, settled, mgr, seen, turns>>
  BY DEF IndInv, Types, ProcessTypes, recordUnknown, native, ghosts
<1>1. /\ st.reserved = Len(attempts) /\ some /\ host.state = "leased" /\ tool \in ToolRecords /\ tool.pc = "none"
      /\ host.epoch # 0
  BY <1>0 DEF IndInv, StepOK, HostOK, ToolOK, Within, Types, ProcessTypes
<1>2. a \in Attempt /\ Rewrites(a) /\ a.prepared = last.prepared /\ (a.committed <=> last.committed) /\ a.node = last.node
  BY <1>0, <1>1, OutcomeRewrites DEF Outcomes
<1> HIDE DEF a
<1>3. st' \in StepRecords /\ st'.pc = "cleanup" /\ st'.reserved = st.reserved
  <2>1. CASE goto("cleanup")
    BY <1>0, <2>1, Goto DEF Stops
  <2>2. CASE st' = [st EXCEPT !.tail = TRUE, !.pc = "cleanup"]
    BY <1>0, <2>2 DEF StepRecords, Stops
  <2> QED
    BY <2>1, <2>2 DEF recordUnknown
<1>4. CASE written(with(a)) \/ failed(with(a))
  <2>2. Len(attempts)' = Len(attempts) /\ some' /\ last' \in {last, a} /\ UNCHANGED nodes
    BY <1>0, <1>1, <1>2, <1>3, <1>4, RewriteLeaves
  <2>3. StepOK' /\ HostOK'
    BY <1>0, <1>1, <1>3, <2>2 DEF StepOK, HostOK, Before, Within, Recovering
  <2>4. TurnOK' /\ ToolOK'
    BY <1>0, <1>1, <1>2, <1>3, <2>2 DEF IndInv, TurnOK, ToolOK, Within
  <2> QED
    BY <1>0, <1>1, <1>2, <1>3, <1>4, <2>3, <2>4, RewriteKeeps DEF Placed
<1>5. CASE UNCHANGED disk /\ fine
  <2>1. UNCHANGED <<attempts, nodes, torn, disposition, faults>>
    BY <1>5 DEF disk, fine
  <2>2. Types'
    BY <1>0, <1>3, <2>1 DEF IndInv, Types, JournalTypes, StoreTypes, ProcessTypes, CountTypes
  <2>3. StepOK' /\ HostOK' /\ TurnOK' /\ ToolOK'
    BY <1>0, <1>1, <1>3, <2>1, SameJournal DEF IndInv, StepOK, HostOK, TurnOK, ToolOK, Before, Within, Recovering
  <2> QED
    BY <1>0, <1>1, <1>3, <2>1, <2>2, <2>3, WritesNothing DEF Placed
<1> QED
  BY <1>4, <1>5 DEF recordUnknown, outcomeSaved, a

(* A recovery first gives the attempt an outcome. *)
LEMMA RecoverOutcomeStep ==
  ASSUME IndInv, AnalysisAssumption, recoverOutcome
  PROVE  IndInv'
<1> DEFINE a == [last EXCEPT !.native = "unknown"]
<1>0. /\ st \in StepRecords /\ st.pc = "recoverOutcome"
      /\ UNCHANGED <<control, tool, turn, host, settled, mgr, seen, turns>>
  BY DEF IndInv, Types, ProcessTypes, recoverOutcome, native, ghosts
<1>1. /\ st.reserved = 0 /\ some /\ last.prepared # "none" /\ tool \in ToolRecords /\ tool.pc = "none" /\ ~turn.live
      /\ host.state \in {"none", "free"} /\ turn.shown = "none"
  BY <1>0 DEF IndInv, StepOK, HostOK, ToolOK, TurnOK, Within, Recovering, Types, ProcessTypes
<1>2. a \in Attempt /\ Rewrites(a) /\ a.prepared = last.prepared /\ (a.committed <=> last.committed) /\ a.node = last.node
  BY <1>0, <1>1, OutcomeRewrites DEF Outcomes
<1> HIDE DEF a
<1>3. CASE \/ written(with(a)) /\ (goto("recoverCommit") \/ throwChecked)
           \/ failed(with(a)) /\ throwTail
  <2>1. st' \in StepRecords /\ st'.pc \in {"recoverCommit", "idle", "stale"} /\ st'.reserved = 0
    BY <1>0, <1>1, <1>3, Goto, ThrowsChecked, ThrowsTail DEF Stops
  <2>2. Len(attempts)' = Len(attempts) /\ some' /\ last' \in {last, a} /\ UNCHANGED nodes
    BY <1>0, <1>1, <1>2, <1>3, <2>1, RewriteLeaves
  <2>3. StepOK' /\ HostOK'
    BY <1>0, <1>1, <1>2, <2>1, <2>2 DEF IndInv, StepOK, HostOK, Before, Within, Recovering
  <2>4. TurnOK' /\ ToolOK'
    BY <1>0, <1>1 DEF TurnOK, ToolOK
  <2> QED
    BY <1>0, <1>1, <1>2, <1>3, <2>1, <2>3, <2>4, RewriteKeeps DEF Placed
<1>4. CASE UNCHANGED disk /\ fine /\ throwChecked
  BY <1>0, <1>4, Departs DEF disk, fine, Recovering
<1>5. CASE UNCHANGED disk /\ fine /\ goto("recoverCommit")
  BY <1>0, <1>5, GoesOn DEF disk, fine, Stops
<1> QED
  BY <1>3, <1>4, <1>5 DEF recoverOutcome, outcomeSaved, a

(* At its end the attempt is saved as committed. *)
LEMMA RecoverNodeStep ==
  ASSUME IndInv, AnalysisAssumption, recoverNode
  PROVE  IndInv'
<1> DEFINE a == [last EXCEPT !.committed = TRUE]
<1>0. /\ st \in StepRecords /\ st.pc = "recoverNode" /\ st' = NoStep
      /\ UNCHANGED <<control, tool, turn, host, settled, mgr, seen, turns>>
  BY DEF IndInv, Types, ProcessTypes, recoverNode, native, ghosts
<1>1. /\ some /\ last.prepared # "none" /\ last.node = Len(nodes)
      /\ tool \in ToolRecords /\ tool.pc = "none" /\ ~turn.live /\ turn.shown = "none"
      /\ host.state \in {"none", "free"}
  BY <1>0 DEF IndInv, StepOK, HostOK, ToolOK, TurnOK, Within, Recovering, Types, ProcessTypes
<1>2. a \in Attempt /\ Rewrites(a)
  BY <1>1, CommitRewrites
<1> HIDE DEF a
<1>3. st' \in StepRecords /\ st'.pc = "idle" /\ st'.reserved = 0
  BY <1>0, NoStepHoldsNothing
<1>4. StepOK' /\ HostOK'
  BY <1>0, <1>1, <1>3 DEF IndInv, StepOK, HostOK, Before, Within, Recovering
<1>5. TurnOK' /\ ToolOK'
  BY <1>0, <1>1 DEF TurnOK, ToolOK
<1>6. CASE written(with(a)) \/ failed(with(a))
  BY <1>0, <1>1, <1>2, <1>3, <1>4, <1>5, <1>6, RewriteKeeps DEF Placed
<1>7. CASE UNCHANGED disk /\ fine
  <2>1. UNCHANGED <<attempts, nodes, torn, disposition, faults>>
    BY <1>7 DEF disk, fine
  <2>2. Types'
    BY <1>0, <1>3, <2>1 DEF IndInv, Types, JournalTypes, StoreTypes, ProcessTypes, CountTypes
  <2> QED
    BY <1>0, <1>3, <1>4, <1>5, <2>1, <2>2, WritesNothing DEF Placed
<1> QED
  BY <1>6, <1>7 DEF recoverNode, committedRecord, a

-----------------------------------------------------------------------------
(* Appending the node                                                      *)

(* The output of the last attempt becomes the node it was made for. *)
LEMMA NodeAppended ==
  ASSUME IndInv, some, last.prepared # "none", Len(nodes) < last.node,
         nodes' = Append(nodes, NodeOf(last)), UNCHANGED attempts
  PROVE  /\ nodes' \in Seq(Node) /\ Len(nodes') <= Nodes /\ last.node = Len(nodes')
         /\ JournalOK' /\ RetriesOK' /\ NodesOK'
<1>1. nodes \in Seq(Node) /\ Len(nodes) \in Nat /\ DOMAIN nodes = 1..Len(nodes)
  <2>1. nodes \in Seq(Node)
    BY DEF IndInv, Types, StoreTypes
  <2> QED
    BY <2>1, LenProperties
<1>2. last \in Attempt /\ last.node \in 1..Nodes
  BY LastIs, AttemptFields
<1>3. NodeOf(last) \in Node
  BY <1>2, AttemptFields DEF NodeOf, Node
<1>4. /\ nodes' \in Seq(Node) /\ Len(nodes') = Len(nodes) + 1
      /\ \A k \in 1..Len(nodes) : nodes'[k] = nodes[k]
      /\ nodes'[Len(nodes) + 1] = NodeOf(last)
  BY <1>1, <1>3, AppendProperties
<1>5. last.node = Len(nodes) + 1
  <2>1. last.node = Len(nodes) \/ last.node = Len(nodes) + 1
    BY DEF IndInv, NodesOK
  <2> QED
    BY <1>1, <2>1
<1>6. Len(nodes') <= Nodes
  <2>1. last.node <= Nodes
    BY <1>2
  <2> QED
    BY <1>4, <1>5, <2>1
<1>7. some' = some /\ last' = last /\ DOMAIN attempts' = DOMAIN attempts
  BY SameJournal
<1>8. DOMAIN nodes' = 1..(Len(nodes) + 1)
  BY <1>4, LenProperties
<1>9. ASSUME NEW k \in DOMAIN nodes'
      PROVE  \E i \in DOMAIN attempts : attempts[i].node = k /\ nodes'[k] = NodeOf(attempts[i])
  <2>1. CASE k \in 1..Len(nodes)
    <3>1. \E i \in DOMAIN attempts : attempts[i].node = k /\ nodes[k] = NodeOf(attempts[i])
      BY <1>1, <2>1 DEF IndInv, NodesOK
    <3> QED
      BY <1>4, <2>1, <3>1
  <2>2. CASE k = Len(nodes) + 1
    <3>1. Len(attempts) \in DOMAIN attempts /\ last = attempts[Len(attempts)]
      BY Journal DEF IndInv, Types, last
    <3> QED
      BY <1>4, <1>5, <2>2, <3>1
  <2> QED
    BY <1>1, <1>8, <2>1, <2>2
<1>10. NodesOK'
  <2>1. /\ last.node = Len(nodes') /\ last.prepared # "none" /\ nodes'[last.node] = NodeOf(last)
    BY <1>4, <1>5
  <2> QED
    BY <1>7, <1>9, <2>1 DEF NodesOK, NodeOf
<1>11. JournalOK' /\ RetriesOK'
  <2>1. JournalOK /\ RetriesOK
    BY DEF IndInv
  <2> QED
    BY <2>1, <1>7 DEF JournalOK, Ordered, Follows, RetriesOK
<1> QED
  BY <1>4, <1>5, <1>6, <1>10, <1>11

(* What an append of the node, or its failure, leaves. *)
LEMMA NodeSaved ==
  ASSUME IndInv, AnalysisAssumption, some, last.prepared # "none", (fine /\ appendNode) \/ appendFailed
  PROVE  /\ UNCHANGED <<attempts, disposition>> /\ faults' \in 0..MaxFaults
         /\ StoreTypes' /\ JournalOK' /\ RetriesOK' /\ NodesOK'
         /\ appendNode => last.node = Len(nodes')
<1>1. UNCHANGED <<attempts, disposition>> /\ (fine \/ fault)
  BY DEF appendNode, appendFailed
<1>2. faults' \in 0..MaxFaults
  BY <1>1, FaultsAreBounded DEF IndInv, Types
<1>3. torn' \subseteq {"attempts", "analysis"}
  BY DEF appendNode, appendFailed, IndInv, Types, StoreTypes
<1>4. nodes' = nodes \/ (Len(nodes) < last.node /\ nodes' = Append(nodes, NodeOf(last)))
  <2>1. Len(nodes) \in Nat /\ last.node \in Nat
    <3>1. nodes \in Seq(Node)
      BY DEF IndInv, Types, StoreTypes
    <3>2. last.node \in 1..Nodes
      BY LastIs, AttemptFields
    <3>3. Len(nodes) \in Nat
      BY <3>1, LenProperties
    <3> QED
      BY <3>2, <3>3
  <2>2. Len(nodes) >= last.node \/ Len(nodes) < last.node
    BY <2>1
  <2> QED
    BY <2>2 DEF appendNode, appendFailed, NodeOf
<1>5. CASE nodes' = nodes
  <2>1. JournalOK' /\ RetriesOK' /\ NodesOK'
    BY <1>1, <1>5, SameStore DEF IndInv
  <2>2. StoreTypes'
    BY <1>1, <1>3, <1>5 DEF IndInv, Types, StoreTypes
  <2>3. appendNode => last.node = Len(nodes)
    <3>1. ASSUME appendNode PROVE Len(nodes) >= last.node
      <4>1. nodes \in Seq(Node) /\ NodeOf(last) \in Node
        BY LastIs, AttemptFields DEF IndInv, Types, StoreTypes, NodeOf, Node
      <4>2. nodes # Append(nodes, NodeOf(last))
        <5>1. Len(Append(nodes, NodeOf(last))) = Len(nodes) + 1 /\ Len(nodes) \in Nat
          BY <4>1, AppendProperties, LenProperties
        <5> QED
          BY <5>1
      <4> QED
        BY <1>5, <3>1, <4>2 DEF appendNode, NodeOf
    <3>2. last.node = Len(nodes) \/ last.node = Len(nodes) + 1
      BY DEF IndInv, NodesOK
    <3>3. Len(nodes) \in Nat
      BY LenProperties DEF IndInv, Types, StoreTypes
    <3> QED
      BY <3>1, <3>2, <3>3
  <2> QED
    BY <1>1, <1>2, <1>5, <2>1, <2>2, <2>3
<1>6. CASE Len(nodes) < last.node /\ nodes' = Append(nodes, NodeOf(last))
  <2>1. /\ nodes' \in Seq(Node) /\ Len(nodes') <= Nodes /\ last.node = Len(nodes')
        /\ JournalOK' /\ RetriesOK' /\ NodesOK'
    BY <1>1, <1>6, NodeAppended
  <2> QED
    BY <1>1, <1>2, <1>3, <2>1 DEF IndInv, Types, StoreTypes
<1> QED
  BY <1>4, <1>5, <1>6

(* What a step that appends the node keeps of the rest. *)
LEMMA AppendKeeps ==
  ASSUME IndInv, AnalysisAssumption, some, last.prepared # "none", (fine /\ appendNode) \/ appendFailed,
         UNCHANGED <<control, turn, host, settled, mgr, seen, turns>>, st.pc # "idle",
         st' \in StepRecords, tool' \in ToolRecords,
         st'.pc \notin {"begin", "turn", "reserve", "successor"}, Placed'
  PROVE  IndInv'
<1>1. /\ UNCHANGED <<attempts, disposition>> /\ faults' \in 0..MaxFaults
      /\ StoreTypes' /\ JournalOK' /\ RetriesOK' /\ NodesOK'
  BY NodeSaved
<1>2. Types'
  BY <1>1 DEF IndInv, Types, JournalTypes, ProcessTypes, CountTypes
<1>3. SpendOK'
  BY <1>1 DEF IndInv, SpendOK
<1>4. PredecessorsOK'
  <2>1. ASSUME NEW i \in DOMAIN attempts, i < Len(attempts) PROVE Closed(attempts[i])'
    BY <1>1, <2>1 DEF IndInv, PredecessorsOK, Closed
  <2> QED
    BY <1>1, <2>1 DEF PredecessorsOK
<1>5. RestOK'
  BY <1>1 DEF IndInv, RestOK
<1> QED
  BY <1>1, <1>2, <1>3, <1>4, <1>5 DEF IndInv, Placed

(* The call of the model appends its node. *)
LEMMA CommitPreparedStep ==
  ASSUME IndInv, AnalysisAssumption, commitPrepared
  PROVE  IndInv'
<1>0. /\ tool.pc = "append" /\ tool \in ToolRecords /\ st \in StepRecords
      /\ UNCHANGED <<control, st, turn, host, settled, mgr, seen, turns>>
      /\ (fine /\ appendNode) \/ appendFailed
  BY DEF IndInv, Types, ProcessTypes, commitPrepared, native, ghosts
<1>1. /\ st.pc \in {"turning", "outcome", "control", "release", "finish", "cleanup"}
      /\ st.reserved = Len(attempts) /\ some /\ Len(attempts) \in seen /\ tool.output # "none" /\ ~last.committed
      /\ turn.commitStarted /\ last.prepared # "none"
  BY <1>0 DEF IndInv, ToolOK
<1>2. UNCHANGED attempts /\ (appendNode => last.node = Len(nodes'))
  BY <1>0, <1>1, NodeSaved
<1>3. /\ tool' \in ToolRecords
      /\ \/ tool'.pc = "none"
         \/ appendNode /\ tool'.pc = "node" /\ tool'.output = tool.output
  BY <1>0 DEF commitPrepared, ToolRecords, NoTool
<1>4. StepOK' /\ HostOK'
  BY <1>0, <1>1, <1>2, SameJournal DEF IndInv, StepOK, HostOK, Before, Within, Recovering
<1>5. TurnOK' /\ ToolOK'
  BY <1>0, <1>1, <1>2, <1>3, SameJournal DEF IndInv, TurnOK, ToolOK
<1> QED
  BY <1>0, <1>1, <1>3, <1>4, <1>5, AppendKeeps DEF Placed

(* A recovery appends it without a turn. *)
LEMMA RecoverCommitStep ==
  ASSUME IndInv, AnalysisAssumption, recoverCommit
  PROVE  IndInv'
<1>0. /\ st.pc = "recoverCommit" /\ st \in StepRecords
      /\ UNCHANGED <<control, tool, turn, host, settled, mgr, seen, turns>>
      /\ (fine /\ appendNode) \/ appendFailed
  BY DEF IndInv, Types, ProcessTypes, recoverCommit, native, ghosts
<1>1. /\ st.reserved = 0 /\ some /\ last.prepared # "none" /\ tool \in ToolRecords /\ tool.pc = "none" /\ ~turn.live
      /\ host.state \in {"none", "free"} /\ turn.shown = "none"
  BY <1>0 DEF IndInv, StepOK, HostOK, ToolOK, TurnOK, Within, Recovering, Types, ProcessTypes
<1>2. UNCHANGED attempts /\ (appendNode => last.node = Len(nodes'))
  BY <1>0, <1>1, NodeSaved
<1>3. /\ st' \in StepRecords /\ st'.reserved = 0
      /\ \/ st'.pc = "idle"
         \/ appendNode /\ st'.pc = "recoverNode"
  <2>1. CASE appendNode /\ goto("recoverNode")
    BY <1>0, <1>1, <2>1, Goto DEF Stops
  <2>2. CASE throw
    BY <1>0, <1>1, <2>2, Throws
  <2> QED
    BY <2>1, <2>2 DEF recoverCommit
<1>4. StepOK' /\ HostOK'
  BY <1>0, <1>1, <1>2, <1>3, SameJournal DEF IndInv, StepOK, HostOK, Before, Within, Recovering
<1>5. TurnOK' /\ ToolOK'
  BY <1>0, <1>1 DEF TurnOK, ToolOK
<1> QED
  BY <1>0, <1>1, <1>3, <1>4, <1>5, AppendKeeps DEF Placed

-----------------------------------------------------------------------------
(* Reserving an attempt                                                    *)

(* The attempts without output at the end of the journal: none of them is  *)
(* the one that ends the count, and that one left an output. *)
LEMMA NoOutputCount ==
  ASSUME Types
  PROVE  \E m \in 0..Len(attempts) :
             /\ noOutputCount = Len(attempts) - m
             /\ m # 0 => ~successorCandidate(attempts[m])
             /\ some /\ successorCandidate(last) => m < Len(attempts)
<1> DEFINE n == Len(attempts)
           S == {0} \cup {i \in 1..n : ~successorCandidate(attempts[i])}
<1>1. n \in Nat
  BY Journal DEF Types
<1>2. S \in SUBSET (0..n) /\ S # {}
  BY <1>1
<1>3. noOutputCount = n - Max(S)
  BY DEF noOutputCount
<1>4. \A i \in S : i = 0 \/ ~successorCandidate(attempts[i])
  OBVIOUS
<1>5. some => last = attempts[n] /\ n # 0
  BY Journal DEF Types, last
<1> HIDE DEF n, S
<1>6. Max(S) \in S
  BY <1>1, <1>2, Greatest
<1> DEFINE m == Max(S)
<1>7. m \in 0..n /\ (m # 0 => ~successorCandidate(attempts[m]))
  BY <1>2, <1>4, <1>6
<1>8. noOutputCount = n - m
  BY <1>3
<1> HIDE DEF m
<1>9. some /\ successorCandidate(last) => m # n
  BY <1>5, <1>7
<1>10. some /\ successorCandidate(last) => m < n
  BY <1>1, <1>7, <1>9
<1> QED
  BY <1>7, <1>8, <1>10 DEF n

(* A reservation is allowed after a complete attempt, or as a successor of *)
(* one that left no output. *)
Fresh(o) == o = "new" /\ previousComplete
Retry(o) == /\ some /\ o = last.native /\ last.prepared = "none" /\ noOutputCount < MaxNoOutput
            /\ st.plan = last.plan /\ \A i \in consecutive : attempts[i].epoch # host.epoch
Record(o) == [node |-> Len(nodes) + 1, plan |-> st.plan, epoch |-> host.epoch, original |-> o,
              prepared |-> "none", committed |-> FALSE, native |-> "none"]

(* The reservation becomes the last attempt. *)
LEMMA ReservationAppended ==
  ASSUME IndInv, AnalysisAssumption, st.pc \in Before, host.epoch # 0, Len(attempts) < MaxAttempts,
         NEW o \in Outcomes \cup {"new"}, attempts' = Append(attempts, Record(o))
  PROVE  /\ JournalTypes' /\ Len(attempts)' = Len(attempts) + 1 /\ some' /\ last' = Record(o)
         /\ DOMAIN attempts' = 1..(Len(attempts) + 1)
         /\ \A i \in 1..Len(attempts) : attempts'[i] = attempts[i]
         /\ attempts'[Len(attempts) + 1] = Record(o)
<1>1. attempts \in Seq(Attempt) /\ Len(attempts) \in Nat
  BY Journal DEF IndInv, Types, JournalTypes
<1>2. Record(o) \in Attempt
  <2>1. Len(nodes) \in Nat /\ Len(nodes) < Nodes /\ st.plan \in Plans /\ host.epoch \in 1..MaxAttempts
    <3>1. nodes \in Seq(Node) /\ host \in HostRecords /\ st \in StepRecords
      BY DEF IndInv, Types, StoreTypes, ProcessTypes
    <3>2. host.epoch \in 0..MaxAttempts /\ st.plan \in Plans
      BY <3>1 DEF HostRecords, StepRecords
    <3>3. host.epoch \in 1..MaxAttempts
      BY <3>2, Constants
    <3>4. Len(nodes) \in Nat
      BY <3>1, LenProperties
    <3> QED
      BY <3>2, <3>3, <3>4 DEF IndInv, StepOK
  <2>2. Len(nodes) + 1 \in 1..Nodes
    BY <2>1, Constants
  <2> QED
    BY <2>1, <2>2 DEF Record, Attempt, Outcomes
<1>3. /\ attempts' \in Seq(Attempt) /\ Len(attempts') = Len(attempts) + 1
      /\ \A i \in 1..Len(attempts) : attempts'[i] = attempts[i]
      /\ attempts'[Len(attempts) + 1] = Record(o)
  BY <1>1, <1>2, AppendProperties
<1>4. Len(attempts') <= MaxAttempts
  BY <1>1, <1>3, Constants
<1>5. DOMAIN attempts' = 1..(Len(attempts) + 1)
  BY <1>3, LenProperties
<1>6. attempts' # <<>>
  BY <1>1, <1>3, EmptySeq
<1>7. last' = Record(o)
  BY <1>3 DEF last
<1> QED
  BY <1>3, <1>4, <1>5, <1>6, <1>7 DEF JournalTypes, some

(* Where the nodes of the journal stand when an attempt is reserved.       *)
LEMMA ReservedNodes ==
  ASSUME IndInv, AnalysisAssumption, NEW o, Fresh(o) \/ Retry(o), NEW i \in 1..Len(attempts)
  PROVE  /\ attempts[i].node \in Nat /\ attempts[i].node <= Len(nodes) + 1
         /\ attempts[i].prepared # "none" => attempts[i].node < Len(nodes) + 1
         /\ Fresh(o) => attempts[i].node < Len(nodes) + 1
         /\ attempts[i].node = Len(nodes) + 1 => Len(attempts) + 1 < i + MaxNoOutput
<1> DEFINE n == Len(attempts)
<1>1. /\ n \in Nat \ {0} /\ DOMAIN attempts = 1..n /\ n \in 1..n /\ last = attempts[n] /\ some
      /\ \A j \in 1..n : attempts[j] \in Attempt
  BY Journal DEF IndInv, Types, last
<1>2. \A j \in 1..n : attempts[j].node \in Nat
  <2>1. ASSUME NEW j \in 1..n PROVE attempts[j].node \in Nat
    <3>1. attempts[j].node \in 1..Nodes
      BY <1>1, AttemptFields
    <3> QED
      BY <3>1
  <2> QED
    BY <2>1
<1>3. Len(nodes) \in Nat
  <2>1. nodes \in Seq(Node)
    BY DEF IndInv, Types, StoreTypes
  <2> QED
    BY <2>1, LenProperties
<1>4. \A j, k \in 1..n : j < k => Ordered(j, k)
  BY <1>1 DEF IndInv, JournalOK
<1>5. /\ last.prepared = "none" => last.node = Len(nodes) + 1
      /\ last.committed => last.node = Len(nodes) /\ last.prepared # "none"
  BY <1>1, LastIs DEF IndInv, NodesOK
<1> HIDE DEF n
<1>6. i = n \/ i < n
  <2>1. n \in Nat /\ i \in 1..n
    BY <1>1, Zenon DEF n
  <2> QED
    BY <2>1
<1>7. attempts[i].node <= last.node /\ (i < n /\ attempts[i].prepared # "none" => attempts[i].node < last.node)
  <2>1. CASE i = n
    BY <1>1, <1>2, <2>1
  <2>2. CASE i < n
    <3>1. Ordered(i, n)
      BY <1>1, <1>4, <2>2 DEF n
    <3> QED
      BY <1>1, <1>2, <2>2, <3>1 DEF Ordered
  <2> QED
    BY <1>6, <2>1, <2>2
<1>8. attempts[i].node \in Nat /\ last.node \in Nat
  BY <1>1, <1>2 DEF n
<1>9. CASE Fresh(o)
  <2>1. last.node = Len(nodes)
    BY <1>1, <1>5, <1>9 DEF Fresh, previousComplete
  <2>2. attempts[i].node <= Len(nodes)
    BY <1>7, <2>1
  <2>3. attempts[i].node < Len(nodes) + 1
    BY <1>3, <1>8, <2>2
  <2>4. attempts[i].node <= Len(nodes) + 1 /\ attempts[i].node # Len(nodes) + 1
    BY <1>3, <1>8, <2>3
  <2> QED
    BY <1>8, <2>3, <2>4
<1>10. CASE Retry(o)
  <2>1. last.node = Len(nodes) + 1 /\ last.prepared = "none" /\ ~last.committed
    BY <1>5, <1>10 DEF Retry
  <2>2. attempts[i].node <= Len(nodes) + 1
    BY <1>7, <2>1
  <2>3. attempts[i].prepared # "none" => attempts[i].node < Len(nodes) + 1
    BY <1>1, <1>6, <1>7, <2>1
  <2>4. ASSUME Fresh(o) PROVE FALSE
    BY <1>1, <1>5, <2>1, <2>4 DEF Fresh, previousComplete
  <2>5. ASSUME attempts[i].node = Len(nodes) + 1 PROVE n + 1 < i + MaxNoOutput
    <3>1. PICK m \in 0..n : /\ noOutputCount = n - m
                            /\ m # 0 => ~successorCandidate(attempts[m])
                            /\ some /\ successorCandidate(last) => m < n
      BY NoOutputCount DEF IndInv, n
    <3>2. n - m < MaxNoOutput
      BY <1>10, <3>1 DEF Retry
    <3>3. m < n
      BY <1>1, <2>1, <3>1 DEF successorCandidate, isRetryableNoOutput
    <3>4. ASSUME i <= m PROVE FALSE
      <4>1. m # 0 /\ m \in 1..n
        BY <1>1, <3>4 DEF n
      <4>2. attempts[m].prepared # "none"
        <5>1. attempts[m].committed => attempts[m].prepared # "none"
          BY <1>1, <4>1 DEF IndInv, JournalOK, n
        <5> QED
          BY <3>1, <4>1, <5>1 DEF successorCandidate, isRetryableNoOutput
      <4>3. attempts[m].node < last.node
        BY <1>1, <1>4, <3>3, <4>1, <4>2 DEF Ordered
      <4>4. attempts[i].node <= attempts[m].node
        <5>1. CASE i = m
          BY <1>8, <5>1
        <5>2. CASE i # m
          <6>1. i < m
            BY <3>4, <4>1, <5>2 DEF n
          <6> QED
            BY <1>4, <4>1, <6>1 DEF Ordered, n
        <5> QED
          BY <5>1, <5>2
      <4>5. attempts[m].node \in Nat
        BY <1>2, <4>1
      <4> QED
        BY <1>8, <2>1, <2>5, <4>3, <4>4, <4>5
    <3>5. i \in Nat /\ m \in Nat /\ n \in Nat /\ MaxNoOutput \in Nat
      BY <1>1, Constants DEF n
    <3> QED
      BY <3>2, <3>4, <3>5
  <2> QED
    BY <1>8, <2>2, <2>3, <2>4, <2>5 DEF n
<1> QED
  BY <1>9, <1>10

(* A successor has an epoch that its predecessor did not have. *)
LEMMA RetriedInNewEpoch ==
  ASSUME IndInv, NEW o, Retry(o)
  PROVE  last.epoch # host.epoch /\ last.native = o /\ o # "new" /\ last.plan = st.plan
<1>1. some /\ last.prepared = "none" /\ \A i \in consecutive : attempts[i].epoch # host.epoch
  BY DEF Retry
<1>2. successorCandidate(last)
  <2>1. ~last.committed
    BY <1>1, LastIs
  <2> QED
    BY <1>1, <2>1 DEF successorCandidate, isRetryableNoOutput
<1>3. PICK m \in 0..Len(attempts) : noOutputCount = Len(attempts) - m /\ m < Len(attempts)
  BY <1>1, <1>2, NoOutputCount DEF IndInv
<1>4. Len(attempts) \in Nat \ {0} /\ last = attempts[Len(attempts)]
  BY <1>1, Journal DEF IndInv, Types, last
<1>5. Len(attempts) \in consecutive
  <2>1. Len(attempts) > Len(attempts) - noOutputCount /\ Len(attempts) \in 1..Len(attempts)
    BY <1>3, <1>4
  <2> QED
    BY <2>1 DEF consecutive
<1>6. last.native \in Outcomes
  BY <1>1, LastIs, AttemptFields
<1> QED
  BY <1>1, <1>4, <1>5, <1>6 DEF Retry, Outcomes

(* The journal stays in order when an attempt is reserved. *)
LEMMA ReservationOK ==
  ASSUME IndInv, AnalysisAssumption, st.pc \in Before, host.epoch # 0, Len(attempts) < MaxAttempts,
         NEW o \in Outcomes \cup {"new"}, Fresh(o) \/ Retry(o), attempts' = Append(attempts, Record(o)), UNCHANGED nodes
  PROVE  JournalOK' /\ RetriesOK' /\ NodesOK'
<1> DEFINE n == Len(attempts)
           r == Record(o)
<1>1. /\ n \in Nat /\ DOMAIN attempts = 1..n
      /\ last = attempts[n] /\ (some <=> n # 0)
  BY Journal DEF IndInv, Types, last
<1>2. /\ some' /\ last' = r /\ DOMAIN attempts' = 1..(n + 1) /\ Len(attempts)' = n + 1
      /\ \A i \in 1..n : attempts'[i] = attempts[i]
      /\ attempts'[n + 1] = r
  BY ReservationAppended
<1>3. /\ r.node = Len(nodes) + 1 /\ r.plan = st.plan /\ r.epoch = host.epoch /\ r.original = o
      /\ r.prepared = "none" /\ r.committed = FALSE
  BY DEF Record
<1>4. \A i \in 1..n :
         /\ attempts[i].node \in Nat /\ attempts[i].node <= r.node
         /\ attempts[i].prepared # "none" => attempts[i].node < r.node
         /\ attempts[i].node = r.node => n + 1 < i + MaxNoOutput
  BY <1>3, ReservedNodes
<1>5. Len(nodes) \in Nat
  <2>1. nodes \in Seq(Node)
    BY DEF IndInv, Types, StoreTypes
  <2> QED
    BY <2>1, LenProperties
<1>6. MaxNoOutput \in Nat \ {0}
  BY Constants
<1> HIDE DEF n, r
<1>7. JournalOK'
  <2>1. \A i \in 1..(n + 1) : attempts'[i].committed => attempts'[i].prepared # "none"
    <3>1. \A i \in 1..n : attempts[i].committed => attempts[i].prepared # "none"
      BY <1>1 DEF IndInv, JournalOK
    <3>2. ASSUME NEW i \in 1..(n + 1) PROVE i \in 1..n \/ i = n + 1
      BY <1>1
    <3> QED
      BY <1>2, <1>3, <3>1, <3>2
  <2>2. ASSUME NEW i \in 1..(n + 1), NEW j \in 1..(n + 1), i < j PROVE Ordered(i, j)'
    <3>1. i \in 1..n
      BY <1>1, <2>2
    <3>2. CASE j \in 1..n
      <4>1. Ordered(i, j)
        BY <1>1, <2>2, <3>1, <3>2 DEF IndInv, JournalOK
      <4> QED
        BY <1>2, <3>1, <3>2, <4>1 DEF Ordered
    <3>3. CASE j = n + 1
      BY <1>2, <1>4, <3>1, <3>3 DEF Ordered
    <3>4. j \in 1..n \/ j = n + 1
      BY <1>1
    <3> QED
      BY <3>2, <3>3, <3>4
  <2>3. ASSUME NEW i \in 1..(n + 1) PROVE IF i = 1 THEN attempts'[i].original = "new" ELSE Follows(i)'
    <3>1. CASE i \in 1..n
      <4>1. IF i = 1 THEN attempts[i].original = "new" ELSE Follows(i)
        BY <1>1, <3>1 DEF IndInv, JournalOK
      <4>2. i # 1 => i - 1 \in 1..n
        BY <1>1, <3>1
      <4> QED
        BY <1>2, <3>1, <4>1, <4>2 DEF Follows
    <3>2. CASE i = n + 1 /\ Fresh(o)
      <4>1. CASE n = 0
        BY <1>2, <1>3, <3>2, <4>1 DEF Fresh
      <4>2. CASE n # 0
        <5>1. n \in 1..n /\ i # 1 /\ i - 1 = n
          BY <1>1, <3>2, <4>2
        <5>2. attempts'[n] = last /\ last.committed
          BY <1>1, <1>2, <3>2, <4>2, <5>1 DEF Fresh, previousComplete
        <5>3. Follows(i)'
          BY <1>2, <1>3, <3>2, <5>1, <5>2 DEF Follows, Fresh
        <5> QED
          BY <5>1, <5>3
      <4> QED
        BY <4>1, <4>2
    <3>3. CASE i = n + 1 /\ Retry(o)
      <4>1. n # 0 /\ last.prepared = "none"
        BY <1>1, <3>3 DEF Retry
      <4>2. n \in 1..n /\ i # 1 /\ i - 1 = n
        BY <1>1, <3>3, <4>1
      <4>3. last.epoch # host.epoch /\ last.native = o /\ o # "new" /\ last.plan = st.plan
        BY <3>3, RetriedInNewEpoch
      <4>4. last.node = Len(nodes) + 1
        BY <1>1, <4>1 DEF IndInv, NodesOK
      <4>5. attempts'[n] = last
        BY <1>1, <1>2, <4>2
      <4>6. Follows(i)'
        BY <1>2, <1>3, <3>3, <4>1, <4>2, <4>3, <4>4, <4>5 DEF Follows
      <4> QED
        BY <4>2, <4>6
    <3>4. i \in 1..n \/ i = n + 1
      BY <1>1
    <3> QED
      BY <3>1, <3>2, <3>3, <3>4
  <2> QED
    BY <1>2, <2>1, <2>2, <2>3 DEF JournalOK
<1>8. RetriesOK'
  <2> SUFFICES ASSUME NEW i \in 1..(n + 1), NEW j \in 1..(n + 1), attempts'[i].node = attempts'[j].node
               PROVE  j < i + MaxNoOutput
    BY <1>2 DEF RetriesOK
  <2>0. (i \in 1..n \/ i = n + 1) /\ (j \in 1..n \/ j = n + 1)
    BY <1>1
  <2>1. CASE i \in 1..n /\ j \in 1..n
    BY <1>1, <1>2, <2>1 DEF IndInv, RetriesOK
  <2>2. CASE i \in 1..n /\ j = n + 1
    BY <1>2, <1>4, <2>2
  <2>3. CASE i = n + 1
    BY <1>1, <1>6, <2>3
  <2> QED
    BY <2>0, <2>1, <2>2, <2>3
<1>9. NodesOK'
  <2>1. ASSUME NEW k \in DOMAIN nodes
        PROVE  \E i \in 1..(n + 1) : attempts'[i].node = k /\ nodes[k] = NodeOf(attempts'[i])
    <3>1. PICK i \in 1..n : attempts[i].node = k /\ nodes[k] = NodeOf(attempts[i])
      BY <1>1 DEF IndInv, NodesOK
    <3>2. i \in 1..(n + 1)
      BY <1>1
    <3> QED
      BY <1>2, <3>1, <3>2
  <2>2. last'.node # Len(nodes)
    BY <1>2, <1>3, <1>5
  <2> QED
    BY <1>2, <1>3, <2>1, <2>2 DEF NodesOK, NodeOf
<1> QED
  BY <1>7, <1>8, <1>9

(* A reservation, saved or failed, keeps the invariant. *)
LEMMA ReservationKeeps ==
  ASSUME IndInv, AnalysisAssumption, st.pc \in {"reserve", "successor"}, Len(attempts) < MaxAttempts,
         NEW o \in Outcomes \cup {"new"}, Fresh(o) \/ Retry(o), some => Closed(last),
         (written(reservation(o)) /\ reserved) \/ (failed(reservation(o)) /\ throwTail),
         UNCHANGED <<control, tool, turn, host, settled, mgr, seen, turns>>
  PROVE  IndInv'
<1> DEFINE n == Len(attempts)
<1>0. /\ st \in StepRecords /\ st.reserved = 0 /\ ~st.called /\ host.state = "leased" /\ host.epoch # 0
      /\ tool.pc = "none" /\ ~turn.live /\ turn.shown = "none" /\ st.pc \in Before
  BY DEF IndInv, Types, ProcessTypes, StepOK, HostOK, TurnOK, ToolOK, Before, Within
<1>1. /\ attempts' \in {attempts, reservation(o)} /\ UNCHANGED <<nodes, disposition>>
      /\ torn' \subseteq {"attempts", "analysis"} /\ faults' \in 0..MaxFaults
  BY Saved
<1>2. reservation(o) = Append(attempts, Record(o))
  BY DEF reservation, Record
<1>3. n \in Nat /\ DOMAIN attempts = 1..n /\ last = attempts[n] /\ (some <=> n # 0)
  BY Journal DEF IndInv, Types, last
<1>4. MaxAttempts \in Nat
  BY Constants
<1>5. CASE attempts' = attempts /\ throwTail
  <2>1. st' \in StepRecords /\ st'.reserved = 0 /\ st'.pc = "cleanup"
    BY <1>0, <1>5, ThrowsTail
  <2>2. Types'
    BY <1>0, <1>1, <1>5, <2>1 DEF IndInv, Types, JournalTypes, StoreTypes, ProcessTypes, CountTypes
  <2>3. StepOK' /\ HostOK' /\ TurnOK' /\ ToolOK'
    BY <1>0, <2>1 DEF StepOK, HostOK, TurnOK, ToolOK, Before, Within, Recovering
  <2> QED
    BY <1>0, <1>1, <1>5, <2>1, <2>2, <2>3, WritesNothing DEF Placed, Before
<1>6. CASE attempts' = reservation(o) /\ (reserved \/ throwTail)
  <2>1. /\ JournalTypes' /\ Len(attempts)' = n + 1 /\ some' /\ last' = Record(o)
        /\ DOMAIN attempts' = 1..(n + 1)
        /\ \A i \in 1..n : attempts'[i] = attempts[i]
        /\ attempts'[n + 1] = Record(o)
    BY <1>0, <1>2, <1>6, ReservationAppended
  <2>2. JournalOK' /\ RetriesOK' /\ NodesOK'
    BY <1>0, <1>1, <1>2, <1>6, ReservationOK
  <2>3. n + 1 \in 1..MaxAttempts /\ n + 1 # 0
    BY <1>3, <1>4
  <2>4. /\ st' \in StepRecords
        /\ \/ st'.pc = "begin" /\ st'.reserved = n + 1 /\ ~st'.called
           \/ st'.pc = "cleanup" /\ st'.reserved = 0
    <3>1. CASE throwTail
      BY <1>0, <3>1, ThrowsTail
    <3>2. CASE reserved
      <4>1. st' = [st EXCEPT !.pc = "begin", !.reserved = n + 1]
        BY <3>2 DEF reserved
      <4> HIDE DEF n
      <4>2. n + 1 \in 0..MaxAttempts
        BY <2>3
      <4> QED
        BY <1>0, <4>1, <4>2 DEF StepRecords, Stops
    <3> QED
      BY <1>6, <3>1, <3>2
  <2>5. Record(o).prepared = "none"
    BY DEF Record
  <2> HIDE DEF n
  <2>6. Types'
    BY <1>0, <1>1, <2>1, <2>4 DEF IndInv, Types, StoreTypes, ProcessTypes, CountTypes
  <2>7. StepOK'
    BY <2>1, <2>4, <2>5 DEF StepOK, Before, Within, Recovering
  <2>8. HostOK' /\ TurnOK' /\ ToolOK'
    BY <1>0, <2>4 DEF HostOK, TurnOK, ToolOK, Recovering
  <2>9. SpendOK'
    <3>1. ASSUME NEW i \in 1..MaxAttempts PROVE turns'[i] <= 1 /\ (i > n + 1 => turns'[i] = 0)
      <4>1. i > n + 1 => i > n
        BY <1>3
      <4> QED
        BY <4>1 DEF IndInv, SpendOK, n
    <3>2. ASSUME NEW i \in 1..(n + 1), attempts'[i].prepared # "none" PROVE i \in seen'
      <4>1. i \in 1..n \/ i = n + 1
        BY <1>3
      <4> QED
        BY <1>3, <2>1, <2>5, <3>2, <4>1 DEF IndInv, SpendOK
    <3>3. st'.pc \in {"begin", "turn"} => turns'[st'.reserved] = 0
      <4>1. n + 1 > n
        BY <1>3
      <4>2. turns[n + 1] = 0
        BY <2>3, <4>1 DEF IndInv, SpendOK, n
      <4> QED
        BY <2>4, <4>2
    <3> QED
      BY <2>1, <3>1, <3>2, <3>3 DEF SpendOK
  <2>10. PredecessorsOK'
    <3>1. ASSUME NEW i \in 1..(n + 1), i < n + 1 PROVE Closed(attempts[i])'
      <4>1. i \in 1..n
        BY <1>3, <3>1
      <4>2. Closed(attempts[i])
        <5>1. CASE i = n
          <6>1. some
            BY <1>3, <4>1, <5>1
          <6> QED
            BY <1>3, <5>1, <6>1
        <5>2. CASE i # n
          <6>1. i < n
            BY <1>3, <4>1, <5>2
          <6> QED
            BY <1>3, <4>1, <6>1 DEF IndInv, PredecessorsOK, n
        <5> QED
          BY <5>1, <5>2
      <4>3. attempts'[i] = attempts[i]
        BY <2>1, <4>1
      <4> QED
        BY <4>2, <4>3 DEF Closed
    <3> QED
      BY <2>1, <2>4, <3>1 DEF PredecessorsOK
  <2>11. RestOK'
    BY <1>0, <1>1 DEF IndInv, RestOK, Before
  <2> QED
    BY <2>2, <2>6, <2>7, <2>8, <2>9, <2>10, <2>11 DEF IndInv
<1> QED
  BY <1>1, <1>5, <1>6 DEF written, failed

(* An attempt for the next node, after a complete one. *)
LEMMA ReserveStep ==
  ASSUME IndInv, AnalysisAssumption, reserve
  PROVE  IndInv'
<1>0. /\ st.pc = "reserve" /\ ~st.retry /\ UNCHANGED <<control, tool, turn, host, settled, mgr, seen, turns>>
  BY DEF reserve, native, ghosts
<1>1. CASE UNCHANGED disk /\ fine /\ throw
  BY <1>0, <1>1, Departs DEF disk, fine, Before
<1>2. CASE /\ admitted /\ previousComplete
           /\ (written(reservation("new")) /\ reserved) \/ (failed(reservation("new")) /\ throwTail)
  <2>1. some => Closed(last)
    BY <1>0, <1>2 DEF IndInv, PredecessorsOK, previousComplete, Closed
  <2>2. Fresh("new") /\ Len(attempts) < MaxAttempts
    BY <1>2 DEF Fresh, admitted
  <2> QED
    BY <1>0, <1>2, <2>1, <2>2, ReservationKeeps
<1> QED
  BY <1>1, <1>2 DEF reserve

(* A successor of an attempt that left no output. *)
LEMMA ReserveSettledStep ==
  ASSUME IndInv, AnalysisAssumption, ReserveSettled
  PROVE  IndInv'
<1>0. /\ st.pc = "successor" /\ UNCHANGED <<control, tool, turn, host, settled, mgr, seen, turns>>
  BY DEF ReserveSettled, native, ghosts
<1>1. CASE UNCHANGED disk /\ fine /\ throw
  BY <1>0, <1>1, Departs DEF disk, fine, Before
<1>2. CASE /\ admitted /\ successorCandidate(last) /\ verifySuccessor(st.plan, host.epoch)
           /\ \/ written(reservation(last.native)) /\ reserved
              \/ failed(reservation(last.native)) /\ throwTail
  <2>1. Closed(last)
    BY <1>0 DEF IndInv, PredecessorsOK, Closed
  <2>2. some
    BY <1>0 DEF IndInv, StepOK, Before
  <2>3. Retry(last.native) /\ Len(attempts) < MaxAttempts
    BY <1>2, <2>2 DEF Retry, admitted, verifySuccessor, successorCandidate, isRetryableNoOutput
  <2>4. last.native \in Outcomes
    BY <2>2, LastIs, AttemptFields
  <2> QED
    BY <1>0, <1>2, <2>1, <2>3, <2>4, ReservationKeeps
<1> QED
  BY <1>1, <1>2 DEF ReserveSettled, continuationRecord

-----------------------------------------------------------------------------
(* The inductive invariant                                                 *)

(* It holds initially. *)
LEMMA InitOK ==
  ASSUME Init, AnalysisAssumption
  PROVE  IndInv
<1>0. /\ control = "queued" /\ nodes = <<>> /\ attempts = <<>> /\ torn = {} /\ disposition = "none"
      /\ st = NoStep /\ tool = NoTool /\ turn = NoTurn
      /\ host = [state |-> "none", epoch |-> 0] /\ settled = {} /\ mgr = "idle"
      /\ seen = {} /\ turns = [i \in 1..MaxAttempts |-> 0] /\ faults = 0
  BY DEF Init
<1>1. st \in StepRecords /\ st.pc = "idle" /\ st.reserved = 0
  BY <1>0, NoStepHoldsNothing
<1>2. /\ tool \in ToolRecords /\ tool.pc = "none" /\ turn \in TurnRecords /\ ~turn.live /\ turn.shown = "none"
      /\ host \in HostRecords /\ host.state = "none"
  BY <1>0, Constants DEF NoTool, ToolRecords, NoTurn, TurnRecords, HostRecords
<1>3. attempts \in Seq(Attempt) /\ nodes \in Seq(Node) /\ Len(attempts) = 0 /\ Len(nodes) = 0
      /\ DOMAIN attempts = 1..0 /\ DOMAIN nodes = 1..0 /\ ~some
  BY <1>0 DEF some
<1>4. turns \in [1..MaxAttempts -> Nat] /\ (\A i \in 1..MaxAttempts : turns[i] = 0) /\ faults \in 0..MaxFaults
  BY <1>0, Constants
<1>5. JournalTypes /\ StoreTypes
  BY <1>0, <1>3, Constants DEF JournalTypes, StoreTypes
<1>6. ProcessTypes /\ CountTypes
  BY <1>0, <1>1, <1>2, <1>4 DEF ProcessTypes, CountTypes
<1>7. 1..0 = {}
  OBVIOUS
<1>8. JournalOK /\ RetriesOK /\ NodesOK
  BY <1>3, <1>7 DEF JournalOK, RetriesOK, NodesOK
<1>9. SpendOK /\ PredecessorsOK
  BY <1>1, <1>3, <1>4, <1>7 DEF SpendOK, PredecessorsOK
<1>10. StepOK /\ HostOK /\ TurnOK /\ ToolOK /\ RestOK
  BY <1>0, <1>1, <1>2 DEF StepOK, HostOK, TurnOK, ToolOK, RestOK, Before, Within, Recovering
<1> QED
  BY <1>5, <1>6, <1>8, <1>9, <1>10 DEF IndInv, Types

(* A stutter keeps it. *)
LEMMA StutterOK ==
  ASSUME IndInv, UNCHANGED vars
  PROVE  IndInv'
<1>0. UNCHANGED <<control, nodes, attempts, torn, disposition, st, tool, turn, host, settled, mgr, seen, turns, faults>>
  BY DEF vars
<1>1. JournalOK' /\ RetriesOK' /\ NodesOK'
  BY <1>0, SameStore DEF IndInv
<1>2. Types'
  BY <1>0 DEF IndInv, Types, JournalTypes, StoreTypes, ProcessTypes, CountTypes
<1>3. SpendOK' /\ PredecessorsOK'
  BY <1>0, SameJournal DEF IndInv, SpendOK, PredecessorsOK, Closed
<1>4. StepOK' /\ HostOK' /\ TurnOK' /\ ToolOK' /\ RestOK'
  BY <1>0, SameJournal DEF IndInv, StepOK, HostOK, TurnOK, ToolOK, RestOK
<1> QED
  BY <1>1, <1>2, <1>3, <1>4 DEF IndInv

(* Every step keeps it. *)
LEMMA NextOK ==
  ASSUME IndInv, AnalysisAssumption, [Next]_vars
  PROVE  IndInv'
<1>1. CASE Runner
  BY <1>1, InspectStep, BlockStep, StaleStep DEF Runner
<1>2. CASE NextStep
  BY <1>2, PlanStep, AcquireStep, CheckOwnerStep, ReserveStep, SuccessorStep, SettleStep, ReserveSettledStep,
     BeginStep, TurnStep, OutcomeStep, AfterControlStep, ReleaseStep, FinishStep, UnknownStep, CleanupStep DEF NextStep
<1>3. CASE Recovery
  BY <1>3, RecoverPreparedStep, RecoverOutcomeStep, RecoverCommitStep, RecoverNodeStep DEF Recovery
<1>4. CASE Tools
  BY <1>4, MaterialStep, SentStep, CommitStep, CommitHeadsStep, PrepareStep, CommitReheadsStep, CommitPreparedStep,
     CommitRecordStep DEF Tools
<1>5. CASE TurnEnds
  BY <1>5, TurnEndsStep
<1>6. CASE Manager
  BY <1>6, ManagerStep
<1>7. CASE Host
  BY <1>7, HostStep
<1>8. CASE Stop
  BY <1>8, StopStep
<1>9. CASE UNCHANGED vars
  BY <1>9, StutterOK
<1> QED
  BY <1>1, <1>2, <1>3, <1>4, <1>5, <1>6, <1>7, <1>8, <1>9 DEF Next

(* It is an invariant of the analysis. *)
THEOREM IndInvariant ==
  ASSUME AnalysisAssumption
  PROVE  Spec => []IndInv
<1>1. Init => IndInv
  BY InitOK
<1>2. IndInv /\ [Next]_vars => IndInv'
  BY NextOK
<1> QED
  BY <1>1, <1>2, PTL DEF Spec

-----------------------------------------------------------------------------
(* What follows                                                            *)

(* The type invariant of the analysis. *)
THEOREM TypesHold ==
  ASSUME AnalysisAssumption
  PROVE  Spec => []TypeOK
<1>1. IndInv => TypeOK
  <2> SUFFICES ASSUME IndInv PROVE TypeOK
    OBVIOUS
  <2>1. /\ st.pc \in Stops /\ st.plan \in Plans /\ st.reserved \in 0..MaxAttempts /\ st.outcome \in Outcomes
        /\ {st.retry, st.called, st.release, st.tail, st.abort, st.skipped, st.stale} \subseteq BOOLEAN
    BY DEF IndInv, Types, ProcessTypes, StepRecords
  <2>2. /\ tool.pc \in {"none", "heads", "prepare", "reheads", "append", "node"} /\ tool.output \in Outputs \cup {"none"}
        /\ turn.shown \in {"none", "staged", "shown"} /\ {turn.live, turn.commitStarted} \subseteq BOOLEAN
        /\ host.state \in {"none", "free", "leased", "busy", "ended"} /\ host.epoch \in 0..MaxAttempts
    BY DEF IndInv, Types, ProcessTypes, ToolRecords, TurnRecords, HostRecords
  <2> QED
    BY <2>1, <2>2 DEF IndInv, Types, JournalTypes, StoreTypes, ProcessTypes, CountTypes, Node, TypeOK
<1> QED
  BY <1>1, IndInvariant, PTL

(* A node has the output of one attempt, the last that was made for it,    *)
(* whether it was appended by the turn or by a recovery after a stop. *)
THEOREM NodesHaveOneOutput ==
  ASSUME AnalysisAssumption
  PROVE  Spec => []OneOutputPerNode
<1>1. IndInv => OneOutputPerNode
  <2> SUFFICES ASSUME IndInv PROVE OneOutputPerNode
    OBVIOUS
  <2>1. ASSUME NEW i \in DOMAIN attempts, NEW j \in DOMAIN attempts,
               attempts[i].node = attempts[j].node, attempts[i].prepared # "none"
        PROVE  j <= i
    <3>1. /\ DOMAIN attempts = 1..Len(attempts) /\ Len(attempts) \in Nat
          /\ attempts[i] \in Attempt
      BY Journal DEF IndInv, Types
    <3>2. attempts[i].node \in 1..Nodes
      BY <3>1, AttemptFields
    <3>3. ASSUME i < j PROVE FALSE
      <4>1. attempts[i].node < attempts[j].node
        BY <2>1, <3>3 DEF IndInv, JournalOK, Ordered
      <4> QED
        BY <2>1, <3>2, <4>1
    <3>4. i \in 1..Len(attempts) /\ j \in 1..Len(attempts)
      BY <3>1
    <3> QED
      BY <3>1, <3>3, <3>4
  <2>2. ASSUME NEW k \in DOMAIN nodes
        PROVE  \E i \in DOMAIN attempts : /\ attempts[i].node = k /\ attempts[i].prepared = nodes[k].output
                                          /\ attempts[i].plan = nodes[k].plan
    BY DEF IndInv, NodesOK, NodeOf
  <2> QED
    BY <2>1, <2>2 DEF OneOutputPerNode
<1> QED
  BY <1>1, IndInvariant, PTL

(* Two turns of a task never work at the same time. *)
THEOREM TurnsFollowOneAnother ==
  ASSUME AnalysisAssumption
  PROVE  Spec => []PredecessorsSettled
<1>1. IndInv => PredecessorsSettled
  <2> SUFFICES ASSUME IndInv PROVE PredecessorsSettled
    OBVIOUS
  <2> SUFFICES ASSUME NEW i \in 1..(Len(attempts) - 1) PROVE Closed(attempts[i])
    BY DEF PredecessorsSettled, Closed
  <2>1. DOMAIN attempts = 1..Len(attempts) /\ Len(attempts) \in Nat
    BY Journal DEF IndInv, Types
  <2>2. i \in 1..Len(attempts) /\ i < Len(attempts)
    BY <2>1
  <2> QED
    BY <2>1, <2>2 DEF IndInv, PredecessorsOK
<1> QED
  BY <1>1, IndInvariant, PTL

(* An output comes from a model that was sent the material. *)
THEOREM OutputsComeFromMaterial ==
  ASSUME AnalysisAssumption
  PROVE  Spec => []PreparedFromMaterial
<1>1. IndInv => PreparedFromMaterial
  BY DEF IndInv, SpendOK, PreparedFromMaterial
<1> QED
  BY <1>1, IndInvariant, PTL

(* The journal of attempts opens again after every stop. *)
THEOREM TheJournalReopens ==
  ASSUME AnalysisAssumption
  PROVE  Spec => []JournalReopens
<1>1. IndInv => JournalReopens
  <2> SUFFICES ASSUME IndInv PROVE JournalReopens
    OBVIOUS
  <2> SUFFICES ASSUME NEW i \in DOMAIN attempts
               PROVE  /\ attempts[i].committed => attempts[i].prepared # "none"
                      /\ attempts[i].original # "new" =>
                           /\ attempts[i - 1].node = attempts[i].node
                           /\ attempts[i - 1].native = attempts[i].original /\ attempts[i - 1].prepared = "none"
                           /\ attempts[i - 1].plan = attempts[i].plan /\ attempts[i - 1].epoch # attempts[i].epoch
                      /\ (attempts[i].original = "new" /\ i > 1) => attempts[i - 1].committed
    BY DEF JournalReopens
  <2>1. /\ attempts[i].committed => attempts[i].prepared # "none"
        /\ IF i = 1 THEN attempts[i].original = "new" ELSE Follows(i)
    BY DEF IndInv, JournalOK
  <2>2. i > 1 => i # 1
    <3>1. DOMAIN attempts = 1..Len(attempts) /\ Len(attempts) \in Nat
      BY Journal DEF IndInv, Types
    <3>2. i \in Nat
      BY <3>1
    <3> QED
      BY <3>2
  <2> QED
    BY <2>1, <2>2 DEF Follows
<1> QED
  BY <1>1, IndInvariant, PTL

(* The runner never gives up a task whose last attempt holds an output. *)
THEOREM GivenUpWithoutOutput ==
  ASSUME AnalysisAssumption
  PROVE  Spec => []BlockedHasNoOutput
<1>1. IndInv => BlockedHasNoOutput
  BY DEF IndInv, RestOK, BlockedHasNoOutput
<1> QED
  BY <1>1, IndInvariant, PTL

(* The model is asked at most MaxNoOutput times for a node: the attempts   *)
(* for it lie within so many places of the journal, and each has one turn  *)
(* at most. *)
THEOREM TurnsAreBounded ==
  ASSUME AnalysisAssumption
  PROVE  Spec => []BoundedTurns
<1>1. IndInv => BoundedTurns
  <2> SUFFICES ASSUME IndInv PROVE BoundedTurns
    OBVIOUS
  <2>1. ASSUME NEW i \in DOMAIN turns PROVE turns[i] <= 1
    BY DEF IndInv, SpendOK, Types, CountTypes
  <2>2. ASSUME NEW k \in 1..Nodes
        PROVE  Cardinality({i \in DOMAIN attempts : attempts[i].node = k /\ turns[i] > 0}) <= MaxNoOutput
    <3> DEFINE S == {i \in DOMAIN attempts : attempts[i].node = k /\ turns[i] > 0}
    <3>1. DOMAIN attempts = 1..Len(attempts) /\ Len(attempts) \in Nat /\ MaxNoOutput \in Nat \ {0}
      BY Journal, Constants DEF IndInv, Types
    <3>2. S \subseteq Nat /\ \A i, j \in S : j < i + MaxNoOutput
      <4>1. ASSUME NEW i \in S PROVE i \in Nat
        BY <3>1
      <4>2. ASSUME NEW i \in S, NEW j \in S PROVE j < i + MaxNoOutput
        BY DEF IndInv, RetriesOK
      <4> QED
        BY <4>1, <4>2
    <3> HIDE DEF S
    <3>3. CASE S = {}
      <4>1. Cardinality(S) = 0
        BY <3>3, FS_EmptySet
      <4> QED
        BY <3>1, <4>1 DEF S
    <3>4. CASE S # {}
      <4>1. IsWellFoundedOn(NatLess, Nat)
        BY NatLessThanWellFounded DEF NatLess, OpToRel
      <4>2. PICK x \in S : \A y \in S : ~ (<<y, x>> \in NatLess)
        BY <3>2, <3>4, <4>1, WFMin
      <4>3. \A y \in S : y \in x..(x + MaxNoOutput - 1)
        <5> SUFFICES ASSUME NEW y \in S PROVE y \in x..(x + MaxNoOutput - 1)
          OBVIOUS
        <5>1. x \in Nat /\ y \in Nat /\ y < x + MaxNoOutput
          BY <3>2
        <5>2. ~ (y < x)
          BY <4>2, <5>1 DEF NatLess
        <5> QED
          BY <3>1, <5>1, <5>2
      <4> DEFINE b == x + MaxNoOutput - 1
                 T == x..b
      <4>4. x \in Int /\ b \in Int /\ ~ (x > b) /\ b - x + 1 = MaxNoOutput
        BY <3>1, <3>2
      <4> HIDE DEF b
      <4>5. IsFiniteSet(T) /\ Cardinality(T) = IF x > b THEN 0 ELSE b - x + 1
        BY <4>4, FS_Interval, Zenon
      <4>6. Cardinality(T) = MaxNoOutput
        BY <4>4, <4>5, Zenon
      <4>7. S \in SUBSET T
        BY <4>3 DEF b
      <4> HIDE DEF T
      <4>8. Cardinality(S) <= Cardinality(T)
        BY <4>5, <4>7, FS_Subset
      <4> QED
        BY <4>6, <4>8 DEF S
    <3> QED
      BY <3>3, <3>4
  <2> QED
    BY <2>1, <2>2 DEF BoundedTurns
<1> QED
  BY <1>1, IndInvariant, PTL

(* After a cancellation was answered nothing is written for the task, not  *)
(* by a late answer of the model, a recovery or a record of the runner. *)
THEOREM CancellationIsTheEnd ==
  ASSUME AnalysisAssumption
  PROVE  Spec => [][QuietAfterCancel]_vars
<1>1. IndInv /\ [Next]_vars => [QuietAfterCancel]_vars
  <2> SUFFICES ASSUME IndInv, Next, mgr = "answered" PROVE UNCHANGED disk
    BY DEF QuietAfterCancel
  <2>1. st.pc = "idle" /\ control = "cancelled" /\ tool.pc = "none"
    BY DEF IndInv, RestOK, ToolOK
  <2>2. CASE Runner
    BY <2>1, <2>2 DEF Runner, Inspect, blockConsumed, recordStale
  <2>3. CASE NextStep
    BY <2>1, <2>3 DEF NextStep, planNext, Acquire, CheckOwner, reserve, reserveSuccessor, SettlePredecessor, ReserveSettled,
       begin, turnAnalysis, recordModelOutcome, afterControl, releaseAnalysis, finish, recordUnknown, cleanup
  <2>4. CASE Recovery
    BY <2>1, <2>4 DEF Recovery, recoverPrepared, recoverOutcome, recoverCommit, recoverNode
  <2>5. CASE Tools
    BY <2>1, <2>5 DEF Tools, callMaterial, onToolResultSent, callCommit, commitHeads, prepare, commitReheads,
       commitPrepared, commitRecord
  <2>6. CASE TurnEnds \/ Manager \/ Host \/ Stop
    BY <2>6 DEF TurnEnds, Completed, NotAdmitted, Broken, Aborted, endTurn, Manager, Cancel, revoke, revokeJoined,
       Host, RotateEpoch, SettleOrphan, Stop
  <2> QED
    BY <2>2, <2>3, <2>4, <2>5, <2>6 DEF Next
<1> QED
  BY <1>1, IndInvariant, PTL DEF Spec

-----------------------------------------------------------------------------
(* The publication                                                         *)

(* A save of anything but an output accepts nothing. *)
LEMMA SameAccepted ==
  ASSUME DOMAIN attempts' = DOMAIN attempts,
         \A i \in DOMAIN attempts : /\ attempts'[i].node = attempts[i].node
                                    /\ attempts'[i].prepared = attempts[i].prepared
  PROVE  acceptedOutputs' = acceptedOutputs
<1>1. ASSUME NEW k \in 1..Nodes PROVE acceptedOutputs'[k] = acceptedOutputs[k]
  BY DEF acceptedOutputs
<1> QED
  BY <1>1 DEF acceptedOutputs

(* Neither does a reservation. *)
LEMMA ReservationAcceptsNothing ==
  ASSUME NEW n \in Nat, DOMAIN attempts = 1..n, DOMAIN attempts' = 1..(n + 1),
         \A i \in 1..n : attempts'[i] = attempts[i], attempts'[n + 1].prepared = "none"
  PROVE  acceptedOutputs' = acceptedOutputs
<1>1. ASSUME NEW k \in 1..Nodes PROVE acceptedOutputs'[k] = acceptedOutputs[k]
  <2>1. ASSUME NEW o \in acceptedOutputs'[k] PROVE o \in acceptedOutputs[k]
    <3>1. o # "none" /\ \E i \in 1..(n + 1) : attempts'[i].node = k /\ attempts'[i].prepared = o
      BY <2>1 DEF acceptedOutputs
    <3>2. PICK i \in 1..(n + 1) : attempts'[i].node = k /\ attempts'[i].prepared = o
      BY <3>1
    <3>3. i \in 1..n
      <4>1. i # n + 1
        BY <3>1, <3>2
      <4> QED
        BY <4>1
    <3> QED
      BY <3>1, <3>2, <3>3 DEF acceptedOutputs
  <2>2. ASSUME NEW o \in acceptedOutputs[k] PROVE o \in acceptedOutputs'[k]
    <3>1. o # "none" /\ \E i \in 1..n : attempts[i].node = k /\ attempts[i].prepared = o
      BY <2>2 DEF acceptedOutputs
    <3>2. PICK i \in 1..n : attempts[i].node = k /\ attempts[i].prepared = o
      BY <3>1
    <3>3. i \in 1..(n + 1)
      OBVIOUS
    <3> QED
      BY <3>1, <3>2, <3>3 DEF acceptedOutputs
  <2> QED
    BY <2>1, <2>2
<1> QED
  BY <1>1 DEF acceptedOutputs

(* A step that changes neither store publishes nothing. *)
LEMMA StoresAreSame ==
  ASSUME UNCHANGED <<attempts, nodes>>
  PROVE  PublicationStep
BY DEF PublicationStep, acceptedOutputs, publishedOutputs, Publication!vars

(* Nor does one that saves how a turn ended or that a node is there. *)
LEMMA RewriteStutters ==
  ASSUME IndInv, some, NEW a \in Attempt, a.node = last.node, a.prepared = last.prepared,
         attempts' \in {attempts, with(a)}, UNCHANGED nodes
  PROVE  PublicationStep
<1>1. CASE attempts' = attempts
  BY <1>1, StoresAreSame
<1>2. CASE attempts' = with(a)
  <2>1. /\ attempts' \in Seq(Attempt) /\ Len(attempts') = Len(attempts)
        /\ \A i \in 1..Len(attempts) : attempts'[i] = IF i = Len(attempts) THEN a ELSE attempts[i]
    BY <1>2, LastReplaced DEF IndInv, Types
  <2>2. DOMAIN attempts = 1..Len(attempts) /\ DOMAIN attempts' = 1..Len(attempts)
    BY <2>1, LenProperties, Journal DEF IndInv, Types
  <2>3. \A i \in DOMAIN attempts : /\ attempts'[i].node = attempts[i].node
                                   /\ attempts'[i].prepared = attempts[i].prepared
    BY <2>1, <2>2, Zenon DEF last
  <2>4. acceptedOutputs' = acceptedOutputs
    BY <2>2, <2>3, SameAccepted
  <2> QED
    BY <2>4 DEF PublicationStep, publishedOutputs, Publication!vars
<1> QED
  BY <1>1, <1>2

(* The output that is prepared is the first one accepted for its node. *)
LEMMA PrepareAccepts ==
  ASSUME IndInv, AnalysisAssumption, prepare
  PROVE  PublicationStep
<1> DEFINE a == [last EXCEPT !.prepared = tool.output]
           n == Len(attempts)
           k == last.node
<1>1. /\ some /\ tool.output # "none" /\ last.prepared = "none" /\ tool \in ToolRecords
      /\ attempts' \in {attempts, with(a)} /\ UNCHANGED nodes
  <2>1. written(with(a)) \/ failed(with(a))
    BY DEF prepare
  <2>2. attempts' \in {attempts, with(a)} /\ UNCHANGED nodes
    BY <2>1, Saved
  <2> QED
    BY <2>2 DEF prepare, IndInv, ToolOK, Types, ProcessTypes
<1>2. CASE attempts' = attempts
  BY <1>1, <1>2, StoresAreSame
<1>3. CASE attempts' = with(a)
  <2>1. last \in Attempt /\ tool.output \in Outputs
    BY <1>1, LastIs DEF ToolRecords
  <2>2. a \in Attempt /\ a.node = k /\ a.prepared = tool.output
    BY <2>1 DEF Attempt
  <2> HIDE DEF a
  <2>3. /\ attempts' \in Seq(Attempt) /\ Len(attempts') = n
        /\ \A i \in 1..n : attempts'[i] = IF i = n THEN a ELSE attempts[i]
    BY <1>1, <1>3, <2>2, LastReplaced DEF IndInv, Types
  <2>4. DOMAIN attempts = 1..n /\ DOMAIN attempts' = 1..n /\ n \in 1..n /\ n \in Nat /\ last = attempts[n]
    BY <1>1, <2>3, LenProperties, Journal DEF IndInv, Types, last
  <2>5. k \in 1..Nodes
    BY <2>1, AttemptFields
  <2> HIDE DEF n
  <2>6. ASSUME NEW i \in 1..n, attempts[i].node = k PROVE attempts[i].prepared = "none"
    <3>1. CASE i = n
      BY <1>1, <2>4, <3>1
    <3>2. CASE i # n
      <4>1. i < n
        BY <2>4, <3>2
      <4>2. Ordered(i, n)
        BY <2>4, <4>1 DEF IndInv, JournalOK
      <4> QED
        BY <2>4, <2>5, <2>6, <4>2 DEF Ordered
    <3> QED
      BY <3>1, <3>2
  <2>7. acceptedOutputs[k] = {}
    BY <2>4, <2>5, <2>6 DEF acceptedOutputs
  <2>8. acceptedOutputs' = [acceptedOutputs EXCEPT ![k] = {tool.output}]
    <3>1. ASSUME NEW j \in 1..Nodes, j # k PROVE acceptedOutputs'[j] = acceptedOutputs[j]
      <4>1. \A i \in 1..n : attempts'[i].node = j <=> attempts[i].node = j
        BY <2>2, <2>3, <2>4
      <4>2. \A i \in 1..n : attempts[i].node = j => attempts'[i] = attempts[i]
        BY <2>3, <2>4, <3>1
      <4> QED
        BY <2>4, <4>1, <4>2 DEF acceptedOutputs
    <3>2. acceptedOutputs'[k] = {tool.output}
      <4>1. attempts'[n].node = k /\ attempts'[n].prepared = tool.output
        BY <2>2, <2>3, <2>4
      <4>2. \A i \in 1..n : attempts'[i].node = k /\ attempts'[i].prepared # "none" => attempts'[i].prepared = tool.output
        BY <2>2, <2>3, <2>4, <2>6
      <4>3. tool.output \in acceptedOutputs'[k]
        BY <1>1, <2>4, <2>5, <4>1 DEF acceptedOutputs
      <4>4. ASSUME NEW o \in acceptedOutputs'[k] PROVE o = tool.output
        BY <2>4, <2>5, <4>2 DEF acceptedOutputs
      <4> QED
        BY <4>3, <4>4
    <3>3. /\ acceptedOutputs' = [j \in 1..Nodes |-> acceptedOutputs'[j]]
          /\ DOMAIN acceptedOutputs = 1..Nodes
      BY DEF acceptedOutputs
    <3> QED
      BY <3>1, <3>2, <3>3
  <2>9. publishedOutputs' = publishedOutputs
    BY <1>1 DEF publishedOutputs
  <2>10. Publication!Accept(k, tool.output)
    BY <2>7, <2>8, <2>9 DEF Publication!Accept
  <2> QED
    BY <2>1, <2>5, <2>10 DEF PublicationStep, Publication!Next
<1> QED
  BY <1>1, <1>2, <1>3

(* The outputs of the nodes are a sequence as long as the nodes are. *)
LEMMA PublishedIs ==
  ASSUME NEW s \in Seq(Node), NEW t, t = [k \in DOMAIN s |-> s[k].output]
  PROVE  t \in Seq(Outputs) /\ Len(t) = Len(s) /\ \A k \in 1..Len(s) : t[k] = s[k].output
<1>1. Len(s) \in Nat /\ DOMAIN s = 1..Len(s) /\ \A k \in 1..Len(s) : s[k] \in Node
  BY LenProperties, ElementOfSeq
<1>2. t \in [1..Len(s) -> Outputs] /\ DOMAIN t = 1..Len(s)
  BY <1>1 DEF Node
<1>3. t \in Seq(Outputs)
  BY <1>1, <1>2, SeqDef
<1>4. Len(t) = Len(s)
  <2>1. Len(t) \in Nat /\ 1..Len(t) = 1..Len(s)
    BY <1>2, <1>3, LenProperties
  <2>2. ASSUME NEW m \in Nat, NEW n \in Nat, 1..m = 1..n PROVE m <= n
    <3>1. CASE m = 0
      BY <3>1
    <3>2. CASE m # 0
      <4>1. m \in 1..m
        BY <3>2
      <4>2. m \in 1..n
        BY <2>2, <4>1
      <4> QED
        BY <4>2
    <3> QED
      BY <3>1, <3>2
  <2>3. Len(t) <= Len(s) /\ Len(s) <= Len(t)
    BY <1>1, <2>1, <2>2
  <2> QED
    BY <1>1, <2>1, <2>3
<1> QED
  BY <1>1, <1>3, <1>4

(* A node that is appended publishes the output accepted for it. *)
LEMMA AppendPublishes ==
  ASSUME IndInv, AnalysisAssumption, commitPrepared \/ recoverCommit
  PROVE  PublicationStep
<1>1. /\ some /\ last.prepared # "none" /\ UNCHANGED attempts
      /\ nodes' = nodes \/ (Len(nodes) < last.node /\ nodes' = Append(nodes, NodeOf(last)))
  <2>1. some /\ last.prepared # "none"
    BY DEF commitPrepared, recoverCommit, IndInv, ToolOK, StepOK, Recovering
  <2>2. (fine /\ appendNode) \/ appendFailed
    BY DEF commitPrepared, recoverCommit
  <2>3. Len(nodes) \in Nat /\ last.node \in Nat
    <3>1. nodes \in Seq(Node)
      BY DEF IndInv, Types, StoreTypes
    <3>2. last.node \in 1..Nodes
      BY <2>1, LastIs, AttemptFields
    <3>3. Len(nodes) \in Nat
      BY <3>1, LenProperties
    <3> QED
      BY <3>2, <3>3
  <2>4. Len(nodes) >= last.node \/ Len(nodes) < last.node
    BY <2>3
  <2> QED
    BY <2>1, <2>2, <2>4 DEF appendNode, appendFailed, NodeOf
<1>2. CASE nodes' = nodes
  BY <1>1, <1>2, StoresAreSame
<1>3. CASE Len(nodes) < last.node /\ nodes' = Append(nodes, NodeOf(last))
  <2>1. nodes \in Seq(Node) /\ nodes' \in Seq(Node) /\ Len(nodes') <= Nodes /\ last.node = Len(nodes')
    BY <1>1, <1>3, NodeAppended DEF IndInv, Types, StoreTypes
  <2>2. NodeOf(last) \in Node /\ NodeOf(last).output = last.prepared /\ last.prepared \in Outputs /\ last.node \in 1..Nodes
    BY <1>1, LastIs, AttemptFields DEF NodeOf, Node
  <2>3. /\ Len(nodes') = Len(nodes) + 1 /\ Len(nodes) \in Nat
        /\ \A k \in 1..Len(nodes) : nodes'[k] = nodes[k]
        /\ nodes'[Len(nodes) + 1] = NodeOf(last)
    BY <1>3, <2>1, <2>2, AppendProperties, LenProperties
  <2> DEFINE s == publishedOutputs
             t == publishedOutputs'
             n == Len(nodes)
  <2>4. s \in Seq(Outputs) /\ Len(s) = n /\ \A k \in 1..n : s[k] = nodes[k].output
    BY <2>1, PublishedIs DEF publishedOutputs
  <2>5. t \in Seq(Outputs) /\ Len(t) = n + 1 /\ \A k \in 1..(n + 1) : t[k] = nodes'[k].output
    <3>1. t = [k \in DOMAIN nodes' |-> nodes'[k].output] /\ nodes' \in Seq(Node)
      BY <2>1 DEF publishedOutputs
    <3> HIDE DEF t
    <3>2. t \in Seq(Outputs) /\ Len(t) = Len(nodes') /\ \A k \in 1..Len(nodes') : t[k] = nodes'[k].output
      BY <3>1, PublishedIs
    <3> QED
      BY <2>3, <3>2
  <2>6. /\ Append(s, last.prepared) \in Seq(Outputs) /\ Len(Append(s, last.prepared)) = n + 1
        /\ \A k \in 1..n : Append(s, last.prepared)[k] = s[k]
        /\ Append(s, last.prepared)[n + 1] = last.prepared
    BY <2>2, <2>4, AppendProperties
  <2>7. n < Nodes /\ n + 1 = last.node
    <3>1. last.node \in 1..Nodes /\ last.node = n + 1 /\ n \in Nat
      BY <2>1, <2>2, <2>3
    <3>2. Nodes \in Nat
      BY Constants
    <3> HIDE DEF n
    <3> QED
      BY <3>1, <3>2
  <2> HIDE DEF n, s, t
  <2>8. \A k \in 1..(n + 1) : t[k] = Append(s, last.prepared)[k]
    <3> SUFFICES ASSUME NEW k \in 1..(n + 1) PROVE t[k] = Append(s, last.prepared)[k]
      OBVIOUS
    <3>1. k \in 1..n \/ k = n + 1
      BY <2>3 DEF n
    <3> QED
      BY <2>2, <2>3, <2>4, <2>5, <2>6, <3>1 DEF n
  <2>9. t = Append(s, last.prepared)
    BY <2>5, <2>6, <2>8, SeqEqual
  <2>10. last.prepared \in acceptedOutputs[n + 1]
    <3>1. Len(attempts) \in DOMAIN attempts /\ last = attempts[Len(attempts)]
      BY <1>1, Journal DEF IndInv, Types, last
    <3> QED
      BY <1>1, <2>2, <2>7, <3>1 DEF acceptedOutputs
  <2>11. acceptedOutputs' = acceptedOutputs
    BY <1>1 DEF acceptedOutputs
  <2>12. Publication!Publish
    BY <2>4, <2>7, <2>9, <2>10, <2>11 DEF Publication!Publish, s, t, n
  <2> QED
    BY <2>12 DEF PublicationStep, Publication!Next
<1> QED
  BY <1>1, <1>2, <1>3

(* A save of the last attempt by the step or the call of the model. *)
LEMMA SavesStutter ==
  ASSUME IndInv, AnalysisAssumption,
         commitRecord \/ recordModelOutcome \/ recordUnknown \/ recoverOutcome \/ recoverNode
  PROVE  PublicationStep
<1>1. some
  BY DEF commitRecord, recordModelOutcome, recordUnknown, recoverOutcome, recoverNode, IndInv, ToolOK, StepOK, Within,
         Recovering
<1>2. ASSUME UNCHANGED disk PROVE PublicationStep
  BY <1>2, StoresAreSame DEF disk
<1>3. ASSUME written(committedRecord) \/ failed(committedRecord), commitRecord \/ recoverNode PROVE PublicationStep
  <2> DEFINE a == [last EXCEPT !.committed = TRUE]
  <2>1. last.prepared # "none" /\ last.node = Len(nodes)
    BY <1>3 DEF commitRecord, recoverNode, IndInv, ToolOK, StepOK, Recovering
  <2>2. a \in Attempt /\ a.prepared = last.prepared /\ a.node = last.node
    BY <1>1, <2>1, CommitRewrites
  <2>3. attempts' \in {attempts, with(a)} /\ UNCHANGED nodes
    BY <1>3, Saved DEF committedRecord
  <2> QED
    BY <1>1, <2>2, <2>3, RewriteStutters
<1>4. ASSUME NEW o \in Outcomes, written(outcomeSaved(o)) \/ failed(outcomeSaved(o)) PROVE PublicationStep
  <2> DEFINE a == [last EXCEPT !.native = o]
  <2>1. a \in Attempt /\ a.prepared = last.prepared /\ a.node = last.node
    BY <1>1, OutcomeRewrites
  <2>2. attempts' \in {attempts, with(a)} /\ UNCHANGED nodes
    BY <1>4, Saved DEF outcomeSaved
  <2> QED
    BY <1>1, <2>1, <2>2, RewriteStutters
<1>5. CASE commitRecord \/ recoverNode
  BY <1>2, <1>3, <1>5 DEF commitRecord, recoverNode
<1>6. CASE recordModelOutcome
  <2>1. st.outcome \in Outcomes
    BY StepFields DEF IndInv, Types, ProcessTypes
  <2> QED
    BY <1>2, <1>4, <1>6, <2>1 DEF recordModelOutcome
<1>7. CASE recordUnknown \/ recoverOutcome
  <2>1. "unknown" \in Outcomes
    BY DEF Outcomes
  <2> QED
    BY <1>2, <1>4, <1>7, <2>1 DEF recordUnknown, recoverOutcome
<1> QED
  BY <1>5, <1>6, <1>7

(* A reservation, saved or not. *)
LEMMA ReservationsStutter ==
  ASSUME IndInv, AnalysisAssumption, reserve \/ ReserveSettled
  PROVE  PublicationStep
<1>1. CASE UNCHANGED <<attempts, nodes>>
  BY <1>1, StoresAreSame
<1>2. ASSUME NEW o \in Outcomes \cup {"new"}, written(reservation(o)) \/ failed(reservation(o)), admitted
      PROVE  PublicationStep
  <2>1. attempts' \in {attempts, reservation(o)} /\ UNCHANGED nodes
    BY <1>2, Saved
  <2>2. CASE attempts' = attempts
    BY <2>1, <2>2, StoresAreSame
  <2>3. CASE attempts' = reservation(o)
    <3>1. st.pc \in Before /\ host.epoch # 0 /\ Len(attempts) < MaxAttempts
      BY <1>2 DEF reserve, ReserveSettled, admitted, IndInv, HostOK, Before
    <3>2. attempts' = Append(attempts, Record(o))
      BY <2>3 DEF reservation, Record
    <3>3. /\ DOMAIN attempts' = 1..(Len(attempts) + 1)
          /\ \A i \in 1..Len(attempts) : attempts'[i] = attempts[i]
          /\ attempts'[Len(attempts) + 1] = Record(o)
      BY <3>1, <3>2, ReservationAppended
    <3>4. DOMAIN attempts = 1..Len(attempts) /\ Len(attempts) \in Nat
      BY Journal DEF IndInv, Types
    <3>5. Record(o).prepared = "none"
      BY DEF Record
    <3>6. acceptedOutputs' = acceptedOutputs
      BY <3>3, <3>4, <3>5, ReservationAcceptsNothing
    <3> QED
      BY <2>1, <3>6 DEF PublicationStep, publishedOutputs, Publication!vars
  <2> QED
    BY <2>1, <2>2, <2>3
<1>3. CASE reserve
  BY <1>1, <1>2, <1>3 DEF reserve, disk
<1>4. CASE ReserveSettled
  <2>1. last.native \in Outcomes
    BY <1>4, LastIs, AttemptFields DEF ReserveSettled, IndInv, StepOK, Before
  <2> QED
    BY <1>1, <1>2, <1>4, <2>1 DEF ReserveSettled, continuationRecord, disk
<1> QED
  BY <1>3, <1>4

(* The serial analysis implements the ordered publication: for every node  *)
(* one output is accepted, once and for all, and the accepted outputs are  *)
(* published in the order of the nodes, whatever is retried or recovered.  *)
THEOREM ImplementsPublication ==
  ASSUME AnalysisAssumption
  PROVE  Spec => PublicationStart /\ [][PublicationStep]_vars /\ Publication!Spec
<1>1. Init => Publication!Init
  <2> SUFFICES ASSUME Init PROVE Publication!Init
    OBVIOUS
  <2>1. attempts = <<>> /\ nodes = <<>> /\ DOMAIN attempts = {} /\ DOMAIN nodes = {}
    BY DEF Init
  <2>2. acceptedOutputs = [l \in 1..Nodes |-> {}]
    BY <2>1 DEF acceptedOutputs
  <2>3. publishedOutputs = <<>>
    BY <2>1 DEF publishedOutputs
  <2> QED
    BY <2>2, <2>3 DEF Publication!Init
<1>2. IndInv /\ [Next]_vars => PublicationStep
  <2> SUFFICES ASSUME IndInv, [Next]_vars PROVE PublicationStep
    OBVIOUS
  <2>1. ASSUME UNCHANGED <<attempts, nodes>> PROVE PublicationStep
    BY <2>1, StoresAreSame
  <2>2. CASE UNCHANGED vars
    BY <2>1, <2>2 DEF vars
  <2>3. CASE Runner \/ TurnEnds \/ Manager \/ Host \/ Stop
    <3>1. UNCHANGED <<attempts, nodes>>
      BY <2>3 DEF Runner, Inspect, blockConsumed, recordStale, TurnEnds, Completed, NotAdmitted, Broken, Aborted, endTurn,
         Manager, Cancel, revoke, revokeJoined, Host, RotateEpoch, SettleOrphan, Stop, disk
    <3> QED
      BY <2>1, <3>1
  <2>4. CASE NextStep
    <3>1. CASE reserve \/ ReserveSettled
      BY <3>1, ReservationsStutter
    <3>2. CASE recordModelOutcome \/ recordUnknown
      BY <3>2, SavesStutter
    <3>3. CASE planNext \/ Acquire \/ CheckOwner \/ reserveSuccessor \/ SettlePredecessor \/ begin \/ turnAnalysis
               \/ afterControl \/ releaseAnalysis \/ finish \/ cleanup
      <4>1. UNCHANGED <<attempts, nodes>>
        BY <3>3, Zenon DEF planNext, Acquire, CheckOwner, reserveSuccessor, SettlePredecessor, begin, turnAnalysis,
           afterControl, releaseAnalysis, finish, cleanup, disk
      <4> QED
        BY <2>1, <4>1
    <3> QED
      BY <2>4, <3>1, <3>2, <3>3 DEF NextStep
  <2>5. CASE Recovery
    <3>1. CASE recoverPrepared
      BY <2>1, <3>1 DEF recoverPrepared, disk
    <3>2. CASE recoverCommit
      BY <3>2, AppendPublishes
    <3>3. CASE recoverOutcome \/ recoverNode
      BY <3>3, SavesStutter
    <3> QED
      BY <2>5, <3>1, <3>2, <3>3 DEF Recovery
  <2>6. CASE Tools
    <3>1. CASE prepare
      BY <3>1, PrepareAccepts
    <3>2. CASE commitPrepared
      BY <3>2, AppendPublishes
    <3>3. CASE commitRecord
      BY <3>3, SavesStutter
    <3>4. CASE callMaterial \/ onToolResultSent \/ callCommit \/ commitHeads \/ commitReheads
      BY <2>1, <3>4 DEF callMaterial, onToolResultSent, callCommit, commitHeads, commitReheads, disk
    <3> QED
      BY <2>6, <3>1, <3>2, <3>3, <3>4 DEF Tools
  <2> QED
    BY <2>2, <2>3, <2>4, <2>5, <2>6 DEF Next
<1>3. Init => PublicationStart
  BY <1>1 DEF PublicationStart
<1>4. IndInv /\ [Next]_vars => [Publication!Next]_(Publication!vars)
  BY <1>2 DEF PublicationStep
<1> QED
  BY <1>1, <1>2, <1>3, <1>4, IndInvariant, PTL DEF Spec, Publication!Spec
=============================================================================
