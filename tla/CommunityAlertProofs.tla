------------------------ MODULE CommunityAlertProofs ------------------------
(***************************************************************************)
(* Theorems about the alerts of the community observer, for every set of   *)
(* cases and calls and every bound: the outbox implements the one-shot     *)
(* ledger, an alert leaves only under the policy its rows were assessed    *)
(* under, alerts keep their distance, and a call changes the settings once.*)
(***************************************************************************)
EXTENDS CommunityAlert, FiniteSetTheorems, TLAPS

(* The types, part by part.                                                *)
Settings1 == [rev : Nat, mode : Modes, by : Calls \cup {NoCall}]
CallRecords == [state : {"new", "issued", "ok", "conflict"}, expected : Nat, mode : Modes]
StepRecords == [pc : Stops, rev : Nat, answer : Cases \cup {"silent"},
                verdict : {"none", "verified", "not-sent", "unknown"},
                abort : BOOLEAN, closing : BOOLEAN, fatal : BOOLEAN]
PolicyTypes == /\ settings \in Settings1 /\ calls \in [Calls -> CallRecords]
               /\ applied \in [Calls -> Nat] /\ notify \in BOOLEAN
LedgerTypes == /\ ledger \in [Cases -> [state : States, rev : Nat]]
               /\ wire \in [Cases -> {"none", "invoked", "done"}]
               /\ marked \in [Cases -> Settings1] /\ fresh \subseteq Cases
StepTypes == /\ obs \in StepRecords /\ owner \in {"none", "held", "released", "lost"} /\ lease \in BOOLEAN
RowTypes == through \in 0..Batches /\ reserved \in BOOLEAN
BoundTypes == broken \subseteq {"outbox", "settings"} /\ faults \in 0..MaxFaults
Types == PolicyTypes /\ LedgerTypes /\ StepTypes /\ RowTypes /\ BoundTypes

(* At most MaxCases cases are in the outbox.                               *)
CapacityOK == IsFiniteSet(used) /\ Cardinality(used) <= MaxCases

(* A call is written at most once, at the revision it expected, and the    *)
(* revision only grows.                                                    *)
CallOK(c) ==
  /\ applied[c] <= 1
  /\ calls[c].state = "new" => applied[c] = 0
  /\ calls[c].state = "issued" => calls[c].expected >= 1
  /\ applied[c] = 1 => calls[c].expected < settings.rev
  /\ calls[c].state = "ok" => applied[c] = 1
  /\ settings.rev > 1 /\ settings.by = c => applied[c] = 1
CallsOK == settings.rev >= 1 /\ \A c \in Calls : CallOK(c)

(* The mark of a case is the settings of a revision; a revision names its  *)
(* settings.                                                               *)
MarksOK == /\ obs.rev <= settings.rev
           /\ \A k \in Cases : /\ marked[k].rev <= settings.rev
                               /\ marked[k].rev = settings.rev => marked[k].mode = settings.mode

(* What the outbox says of Telegram.                                       *)
LedgerOK(k) ==
  /\ ledger[k].state \in {"absent", "reserved", "not-sent"} => wire[k] = "none"
  /\ ledger[k].state = "verified" => wire[k] = "done"
  /\ wire[k] # "none" => marked[k].rev = ledger[k].rev /\ marked[k].mode = "alert"

(* The step of the observer: the batch it took is still ahead, and it owns *)
(* a native owner or a lease only where it gives them back.                *)
OwnedOK ==
  /\ obs.pc \notin {"idle", "closed"} => through < Batches
  /\ \/ owner = "none" \/ obs.pc \in {"turn", "release", "closeTurn", "join", "closed"}
     \/ obs.pc = "finish" /\ obs.fatal
  /\ \/ ~lease \/ obs.pc \in {"mark", "refresh", "send", "sent", "read", "close", "closed"}
     \/ obs.pc \in {"settle", "finish"} /\ obs.fatal

(* The delivery: how far the case of the step has come.                    *)
Delivering == {"lease", "mark", "refresh", "send", "sent", "read", "close", "settle"}
DeliveryOK ==
  /\ obs.pc \in Delivering \cup {"case"} => obs.answer \in Cases
  /\ obs.pc = "case" => ledger[obs.answer].state = "absent"
  /\ obs.pc \in Delivering => obs.answer \in fresh /\ ledger[obs.answer].rev = obs.rev
  /\ obs.pc \in {"lease", "mark"} => ledger[obs.answer].state = "reserved"
  /\ obs.pc \in {"refresh", "send", "sent", "read"} => ledger[obs.answer].state = "sending"
  /\ obs.pc = "refresh" => obs.rev <= marked[obs.answer].rev
  /\ obs.pc \in {"refresh", "send"} => wire[obs.answer] = "none"
  /\ obs.pc \in {"send", "sent", "read"} =>
       marked[obs.answer].rev = obs.rev /\ marked[obs.answer].mode = "alert"
  /\ obs.pc = "read" => wire[obs.answer] = "done"
  /\ obs.pc \in {"close", "settle"} =>
       /\ ledger[obs.answer].state \in {"reserved", "sending"} /\ obs.verdict # "none"
       /\ obs.verdict = "not-sent" => wire[obs.answer] = "none"
       /\ obs.verdict = "verified" => wire[obs.answer] = "done" /\ ledger[obs.answer].state = "sending"

(* The interval: a step begins only when no alert was sent in it.          *)
BeforeSend == {"reserve", "prepare", "turn", "release", "closeTurn", "join", "decided", "case", "lease",
               "mark", "refresh", "send"}
IntervalOK ==
  /\ \A j, k \in fresh : wire[j] # "none" /\ wire[k] # "none" => j = k
  /\ obs.pc \in BeforeSend => \A k \in fresh : wire[k] = "none"
  /\ obs.pc \in {"sent", "read", "close", "settle"} => \A k \in fresh : wire[k] # "none" => k = obs.answer

IndInv == /\ Types /\ CapacityOK /\ CallsOK /\ MarksOK /\ (\A k \in Cases : LedgerOK(k))
          /\ OwnedOK /\ DeliveryOK /\ IntervalOK

(* The types, part by part, are the type invariant.                      *)
LEMMA TypesAreTypeOK == IndInv => TypeOK
<1> SUFFICES ASSUME IndInv PROVE TypeOK
  OBVIOUS
<1>1. settings.mode \in Modes /\ settings.rev \in Nat /\ settings.by \in Calls \cup {NoCall}
  BY DEF IndInv, Types, PolicyTypes, Settings1
<1>2. /\ obs.pc \in Stops /\ obs.answer \in Cases \cup {"silent"}
      /\ obs.verdict \in {"none", "verified", "not-sent", "unknown"}
      /\ obs.abort \in BOOLEAN /\ obs.closing \in BOOLEAN /\ obs.fatal \in BOOLEAN
  BY DEF IndInv, Types, StepTypes, StepRecords
<1>3. notify \in BOOLEAN /\ reserved \in BOOLEAN /\ lease \in BOOLEAN
  BY DEF IndInv, Types, PolicyTypes, RowTypes, StepTypes
<1>4. Cardinality({k \in Cases : ledger[k].state # "absent"}) <= MaxCases
  BY DEF IndInv, CapacityOK, used
<1> QED
  BY <1>1, <1>2, <1>3, <1>4 DEF IndInv, Types, PolicyTypes, CallRecords, LedgerTypes, StepTypes, RowTypes,
                                 BoundTypes, TypeOK

(* Faults stay within their bound.                                       *)
LEMMA FaultStep ==
  ASSUME AlertAssumption, faults \in 0..MaxFaults, fault \/ fine
  PROVE  faults' \in 0..MaxFaults
BY DEF AlertAssumption, fault, fine

-----------------------------------------------------------------------------
(* Steps of the observer that write nothing to the outbox                  *)

Quiet == UNCHANGED <<settings, calls, applied, ledger, wire, marked, fresh>>

(* A step that writes neither settings nor outbox keeps what they say.   *)
LEMMA QuietKeeps ==
  ASSUME IndInv, Quiet, notify' \in BOOLEAN
  PROVE  /\ PolicyTypes' /\ LedgerTypes' /\ CapacityOK' /\ CallsOK'
         /\ \A k \in Cases : LedgerOK(k)'
<1>1. PolicyTypes' /\ LedgerTypes'
  BY DEF Quiet, IndInv, Types, PolicyTypes, LedgerTypes
<1>2. CapacityOK'
  BY DEF Quiet, IndInv, CapacityOK, used
<1>3. CallsOK'
  BY DEF Quiet, IndInv, CallsOK, CallOK
<1>4. \A k \in Cases : LedgerOK(k)'
  BY DEF Quiet, IndInv, LedgerOK
<1> QED
  BY <1>1, <1>2, <1>3, <1>4

(* A batch is taken, reserved and put away.                                *)
LEMMA BatchStep ==
  ASSUME IndInv, AlertAssumption,
         step \/ reserveBatch \/ decide \/ finish
  PROVE  IndInv'
<1> USE DEF goto, finishWith, closeWith, ended, NoStep, processed, policyState, outbox, rows, fine, fault, verdict, case
<1>1. Quiet /\ notify' \in BOOLEAN
  BY DEF Quiet, IndInv, Types, PolicyTypes, step, reserveBatch, decide, finish
<1>2. faults' \in 0..MaxFaults
  BY FaultStep DEF IndInv, Types, BoundTypes, step, reserveBatch, decide, finish
<1>3. broken' \subseteq {"outbox", "settings"}
  BY DEF IndInv, Types, BoundTypes, step, reserveBatch, decide, finish
<1>4. obs \in StepRecords /\ settings.rev \in Nat /\ obs.rev \in Nat /\ obs.rev <= settings.rev
  BY DEF IndInv, Types, StepTypes, StepRecords, PolicyTypes, Settings1, MarksOK
<1>5. obs' \in StepRecords /\ obs'.rev \in {0, obs.rev, settings.rev}
  <2>1. CASE step
    BY <1>4, <2>1 DEF StepRecords, Stops, step
  <2>2. CASE reserveBatch
    <3>1. \/ obs' = [NoStep EXCEPT !.pc = "closed"] \/ obs' = NoStep
          \/ obs' = [obs EXCEPT !.pc = "prepare"]
      BY <2>2 DEF reserveBatch
    <3>2. CASE obs' = [NoStep EXCEPT !.pc = "closed"] \/ obs' = NoStep
      <4>1. NoStep \in StepRecords /\ [NoStep EXCEPT !.pc = "closed"] \in StepRecords
        BY DEF StepRecords, Stops
      <4>2. obs'.rev = 0
        BY <3>2
      <4> QED
        BY <3>2, <4>1, <4>2
    <3>3. CASE obs' = [obs EXCEPT !.pc = "prepare"]
      BY <1>4, <3>3 DEF StepRecords, Stops
    <3> QED
      BY <3>1, <3>2, <3>3
  <2>3. CASE decide
    BY <1>4, <2>3 DEF StepRecords, Stops, decide
  <2>4. CASE finish
    BY <1>4, <2>4 DEF StepRecords, Stops, finish
  <2> QED
    BY <2>1, <2>2, <2>3, <2>4
<1>6. owner' \in {"none", "held", "released", "lost"} /\ lease' \in BOOLEAN
  <2>1. CASE step
    BY <2>1 DEF IndInv, Types, StepTypes, step
  <2>2. CASE reserveBatch
    BY <2>2 DEF IndInv, Types, StepTypes, reserveBatch
  <2>3. CASE decide
    BY <2>3 DEF IndInv, Types, StepTypes, decide
  <2>4. CASE finish
    BY <2>4 DEF IndInv, Types, StepTypes, finish
  <2> QED
    BY <2>1, <2>2, <2>3, <2>4
<1>7. RowTypes'
  <2>1. CASE step
    <3>1. through \in 0..Batches /\ reserved \in BOOLEAN /\ Batches \in Nat
      BY DEF AlertAssumption, IndInv, Types, RowTypes
    <3>2. through < Batches
      BY <2>1 DEF IndInv, OwnedOK, step
    <3>3. through' = through + 1 \/ through' = through
      BY <2>1 DEF step
    <3>4. reserved' \in BOOLEAN
      BY <3>1, <2>1 DEF step
    <3>5. through' \in 0..Batches
      BY <3>1, <3>2, <3>3
    <3> QED
      BY <3>4, <3>5 DEF RowTypes
  <2>2. CASE reserveBatch
    <3>1. through \in 0..Batches /\ reserved \in BOOLEAN /\ Batches \in Nat
      BY DEF AlertAssumption, IndInv, Types, RowTypes
    <3>2. through < Batches
      BY <2>2 DEF IndInv, OwnedOK, reserveBatch
    <3>3. through' = through + 1 \/ through' = through
      BY <2>2 DEF reserveBatch
    <3>4. reserved' \in BOOLEAN
      BY <3>1, <2>2 DEF reserveBatch
    <3>5. through' \in 0..Batches
      BY <3>1, <3>2, <3>3
    <3> QED
      BY <3>4, <3>5 DEF RowTypes
  <2>3. CASE decide
    BY <2>3 DEF AlertAssumption, IndInv, Types, RowTypes, OwnedOK, decide
  <2>4. CASE finish
    <3>1. through \in 0..Batches /\ reserved \in BOOLEAN /\ Batches \in Nat
      BY DEF AlertAssumption, IndInv, Types, RowTypes
    <3>2. through < Batches
      BY <2>4 DEF IndInv, OwnedOK, finish
    <3>3. through' = through + 1 \/ through' = through
      BY <2>4 DEF finish
    <3>4. reserved' \in BOOLEAN
      BY <3>1, <2>4 DEF finish
    <3>5. through' \in 0..Batches
      BY <3>1, <3>2, <3>3
    <3> QED
      BY <3>4, <3>5 DEF RowTypes
  <2> QED
    BY <2>1, <2>2, <2>3, <2>4
<1>8. OwnedOK'
  <2>1. CASE step
    BY <1>4, <2>1 DEF AlertAssumption, IndInv, Types, RowTypes, OwnedOK, StepRecords, step
  <2>2. CASE reserveBatch
    BY <1>4, <2>2 DEF AlertAssumption, IndInv, Types, RowTypes, OwnedOK, StepRecords, reserveBatch
  <2>3. CASE decide
    BY <1>4, <2>3 DEF AlertAssumption, IndInv, Types, RowTypes, OwnedOK, StepRecords, decide
  <2>4. CASE finish
    BY <1>4, <2>4 DEF AlertAssumption, IndInv, Types, RowTypes, OwnedOK, StepRecords, finish
  <2> QED
    BY <2>1, <2>2, <2>3, <2>4
<1>9. DeliveryOK'
  <2>1. CASE step
    BY <1>1, <1>4, <2>1 DEF Quiet, IndInv, DeliveryOK, Delivering, StepRecords, MarksOK, step
  <2>2. CASE reserveBatch
    BY <1>1, <1>4, <2>2 DEF Quiet, IndInv, DeliveryOK, Delivering, StepRecords, MarksOK, reserveBatch
  <2>3. CASE decide
    <3>1. /\ obs'.answer = obs.answer /\ obs.answer \in Cases \cup {"silent"} /\ obs'.pc \in {"case", "finish"}
          /\ obs'.pc = "case" => obs.answer # "silent" /\ unsent(obs.answer)
      BY <1>4, <2>3 DEF decide, StepRecords
    <3> QED
      BY <1>1, <3>1 DEF Quiet, unsent, DeliveryOK, Delivering
  <2>4. CASE finish
    BY <1>1, <1>4, <2>4 DEF Quiet, IndInv, DeliveryOK, Delivering, StepRecords, MarksOK, finish
  <2> QED
    BY <2>1, <2>2, <2>3, <2>4
<1>10. IntervalOK'
  <2>1. CASE step
    <3>1. \/ obs' = obs /\ obs.pc = "idle"
          \/ obs'.pc = "reserve" /\ \A k \in Cases : ~cooling(k)
      BY <2>1 DEF step, suppressed
    <3>2. CASE obs' = obs
      BY <1>1, <3>2 DEF Quiet, IndInv, IntervalOK
    <3>3. CASE obs'.pc = "reserve" /\ \A k \in Cases : ~cooling(k)
      <4>1. ASSUME NEW k \in fresh PROVE wire[k] = "none"
        <5>1. k \in Cases /\ ledger[k].state \in States /\ LedgerOK(k)
          BY DEF IndInv, Types, LedgerTypes
        <5>2. ledger[k].state \notin {"sending", "verified", "unknown"}
          BY <3>3, <5>1 DEF cooling, potentialSend
        <5> QED
          BY <5>1, <5>2 DEF LedgerOK, States
      <4> QED
        BY <1>1, <3>3, <4>1 DEF Quiet, IntervalOK
    <3> QED
      BY <3>1, <3>2, <3>3
  <2>2. CASE reserveBatch
    BY <1>1, <1>4, <2>2 DEF Quiet, IndInv, IntervalOK, BeforeSend, StepRecords, DeliveryOK, Delivering, reserveBatch
  <2>3. CASE decide
    BY <1>1, <1>4, <2>3 DEF Quiet, IndInv, IntervalOK, BeforeSend, StepRecords, DeliveryOK, Delivering, decide
  <2>4. CASE finish
    BY <1>1, <1>4, <2>4 DEF Quiet, IndInv, IntervalOK, BeforeSend, StepRecords, DeliveryOK, Delivering, finish
  <2> QED
    BY <2>1, <2>2, <2>3, <2>4
<1>11. MarksOK'
  BY <1>1, <1>4, <1>5 DEF Quiet, IndInv, MarksOK
<1> QED
  BY <1>1, <1>2, <1>3, <1>5, <1>6, <1>7, <1>8, <1>9, <1>10, <1>11, QuietKeeps
  DEF IndInv, Types, StepTypes, BoundTypes

(* The assessment and its native owner.                                    *)
LEMMA AssessStep ==
  ASSUME IndInv, AlertAssumption,
         acquire \/ turn \/ release \/ closeOwned \/ join
  PROVE  IndInv'
<1> USE DEF goto, finishWith, closeWith, ended, NoStep, processed, policyState, outbox, rows, fine, fault, verdict, case
<1>1. Quiet /\ notify' \in BOOLEAN
  BY DEF Quiet, IndInv, Types, PolicyTypes, acquire, turn, release, closeOwned, join
<1>2. faults' \in 0..MaxFaults
  BY FaultStep DEF IndInv, Types, BoundTypes, acquire, turn, release, closeOwned, join
<1>3. broken' \subseteq {"outbox", "settings"}
  BY DEF IndInv, Types, BoundTypes, acquire, turn, release, closeOwned, join
<1>4. obs \in StepRecords /\ settings.rev \in Nat /\ obs.rev \in Nat /\ obs.rev <= settings.rev
  BY DEF IndInv, Types, StepTypes, StepRecords, PolicyTypes, Settings1, MarksOK
<1>5. obs' \in StepRecords /\ obs'.rev \in {0, obs.rev, settings.rev}
  <2>1. CASE acquire
    BY <1>4, <2>1 DEF StepRecords, Stops, acquire
  <2>2. CASE turn
    BY <1>4, <2>2 DEF StepRecords, Stops, turn
  <2>3. CASE release
    BY <1>4, <2>3 DEF StepRecords, Stops, release
  <2>4. CASE closeOwned
    BY <1>4, <2>4 DEF StepRecords, Stops, closeOwned
  <2>5. CASE join
    BY <1>4, <2>5 DEF StepRecords, Stops, join
  <2> QED
    BY <2>1, <2>2, <2>3, <2>4, <2>5
<1>6. owner' \in {"none", "held", "released", "lost"} /\ lease' \in BOOLEAN
  <2>1. CASE acquire
    BY <2>1 DEF IndInv, Types, StepTypes, acquire
  <2>2. CASE turn
    BY <2>2 DEF IndInv, Types, StepTypes, turn
  <2>3. CASE release
    BY <2>3 DEF IndInv, Types, StepTypes, release
  <2>4. CASE closeOwned
    BY <2>4 DEF IndInv, Types, StepTypes, closeOwned
  <2>5. CASE join
    BY <2>5 DEF IndInv, Types, StepTypes, join
  <2> QED
    BY <2>1, <2>2, <2>3, <2>4, <2>5
<1>7. RowTypes'
  <2>1. CASE acquire
    BY <2>1 DEF AlertAssumption, IndInv, Types, RowTypes, OwnedOK, acquire
  <2>2. CASE turn
    BY <2>2 DEF AlertAssumption, IndInv, Types, RowTypes, OwnedOK, turn
  <2>3. CASE release
    BY <2>3 DEF AlertAssumption, IndInv, Types, RowTypes, OwnedOK, release
  <2>4. CASE closeOwned
    BY <2>4 DEF AlertAssumption, IndInv, Types, RowTypes, OwnedOK, closeOwned
  <2>5. CASE join
    BY <2>5 DEF AlertAssumption, IndInv, Types, RowTypes, OwnedOK, join
  <2> QED
    BY <2>1, <2>2, <2>3, <2>4, <2>5
<1>8. OwnedOK'
  <2>1. CASE acquire
    BY <1>4, <2>1 DEF AlertAssumption, IndInv, Types, RowTypes, OwnedOK, StepRecords, acquire
  <2>2. CASE turn
    BY <1>4, <2>2 DEF AlertAssumption, IndInv, Types, RowTypes, OwnedOK, StepRecords, turn
  <2>3. CASE release
    BY <1>4, <2>3 DEF AlertAssumption, IndInv, Types, RowTypes, OwnedOK, StepRecords, release
  <2>4. CASE closeOwned
    BY <1>4, <2>4 DEF AlertAssumption, IndInv, Types, RowTypes, OwnedOK, StepRecords, closeOwned
  <2>5. CASE join
    BY <1>4, <2>5 DEF AlertAssumption, IndInv, Types, RowTypes, OwnedOK, StepRecords, join
  <2> QED
    BY <2>1, <2>2, <2>3, <2>4, <2>5
<1>9. DeliveryOK'
  <2>1. CASE acquire
    BY <1>1, <1>4, <2>1 DEF Quiet, IndInv, DeliveryOK, Delivering, StepRecords, MarksOK, acquire
  <2>2. CASE turn
    BY <1>1, <1>4, <2>2 DEF Quiet, IndInv, DeliveryOK, Delivering, StepRecords, MarksOK, turn
  <2>3. CASE release
    BY <1>1, <1>4, <2>3 DEF Quiet, IndInv, DeliveryOK, Delivering, StepRecords, MarksOK, release
  <2>4. CASE closeOwned
    BY <1>1, <1>4, <2>4 DEF Quiet, IndInv, DeliveryOK, Delivering, StepRecords, MarksOK, closeOwned
  <2>5. CASE join
    BY <1>1, <1>4, <2>5 DEF Quiet, IndInv, DeliveryOK, Delivering, StepRecords, MarksOK, join
  <2> QED
    BY <2>1, <2>2, <2>3, <2>4, <2>5
<1>10. IntervalOK'
  <2>1. CASE acquire
    BY <1>1, <1>4, <2>1 DEF Quiet, IndInv, IntervalOK, BeforeSend, StepRecords, DeliveryOK, Delivering, acquire
  <2>2. CASE turn
    <3>1. /\ obs.pc = "turn" /\ obs'.pc \in {"join", "release"}
      BY <1>4, <2>2 DEF turn, StepRecords
    <3> QED
      BY <1>1, <3>1 DEF Quiet, IndInv, DeliveryOK, IntervalOK, BeforeSend, Delivering
  <2>3. CASE release
    BY <1>1, <1>4, <2>3 DEF Quiet, IndInv, IntervalOK, BeforeSend, StepRecords, DeliveryOK, Delivering, release
  <2>4. CASE closeOwned
    BY <1>1, <1>4, <2>4 DEF Quiet, IndInv, IntervalOK, BeforeSend, StepRecords, DeliveryOK, Delivering, closeOwned
  <2>5. CASE join
    BY <1>1, <1>4, <2>5 DEF Quiet, IndInv, IntervalOK, BeforeSend, StepRecords, DeliveryOK, Delivering, join
  <2> QED
    BY <2>1, <2>2, <2>3, <2>4, <2>5
<1>11. MarksOK'
  BY <1>1, <1>4, <1>5 DEF Quiet, IndInv, MarksOK
<1> QED
  BY <1>1, <1>2, <1>3, <1>5, <1>6, <1>7, <1>8, <1>9, <1>10, <1>11, QuietKeeps
  DEF IndInv, Types, StepTypes, BoundTypes

(* The lease of an alert and what Telegram answers.                        *)
LEMMA LeaseStep ==
  ASSUME IndInv, AlertAssumption,
         openAlert \/ refreshPolicy \/ acknowledged \/ readExact \/ closeLease
  PROVE  IndInv'
<1> USE DEF goto, finishWith, closeWith, ended, NoStep, processed, policyState, outbox, rows, fine, fault, verdict, case
<1>1. Quiet /\ notify' \in BOOLEAN
  BY DEF Quiet, IndInv, Types, PolicyTypes, openAlert, refreshPolicy, acknowledged, readExact, closeLease
<1>2. faults' \in 0..MaxFaults
  BY FaultStep DEF IndInv, Types, BoundTypes, openAlert, refreshPolicy, acknowledged, readExact, closeLease
<1>3. broken' \subseteq {"outbox", "settings"}
  BY DEF IndInv, Types, BoundTypes, openAlert, refreshPolicy, acknowledged, readExact, closeLease
<1>4. obs \in StepRecords /\ settings.rev \in Nat /\ obs.rev \in Nat /\ obs.rev <= settings.rev
  BY DEF IndInv, Types, StepTypes, StepRecords, PolicyTypes, Settings1, MarksOK
<1>5. obs' \in StepRecords /\ obs'.rev \in {0, obs.rev, settings.rev}
  <2>1. CASE openAlert
    BY <1>4, <2>1 DEF StepRecords, Stops, openAlert
  <2>2. CASE refreshPolicy
    BY <1>4, <2>2 DEF StepRecords, Stops, refreshPolicy
  <2>3. CASE acknowledged
    BY <1>4, <2>3 DEF StepRecords, Stops, acknowledged
  <2>4. CASE readExact
    BY <1>4, <2>4 DEF StepRecords, Stops, readExact
  <2>5. CASE closeLease
    BY <1>4, <2>5 DEF StepRecords, Stops, closeLease
  <2> QED
    BY <2>1, <2>2, <2>3, <2>4, <2>5
<1>6. owner' \in {"none", "held", "released", "lost"} /\ lease' \in BOOLEAN
  <2>1. CASE openAlert
    BY <2>1 DEF IndInv, Types, StepTypes, openAlert
  <2>2. CASE refreshPolicy
    BY <2>2 DEF IndInv, Types, StepTypes, refreshPolicy
  <2>3. CASE acknowledged
    BY <2>3 DEF IndInv, Types, StepTypes, acknowledged
  <2>4. CASE readExact
    BY <2>4 DEF IndInv, Types, StepTypes, readExact
  <2>5. CASE closeLease
    BY <2>5 DEF IndInv, Types, StepTypes, closeLease
  <2> QED
    BY <2>1, <2>2, <2>3, <2>4, <2>5
<1>7. RowTypes'
  <2>1. CASE openAlert
    BY <2>1 DEF AlertAssumption, IndInv, Types, RowTypes, OwnedOK, openAlert
  <2>2. CASE refreshPolicy
    BY <2>2 DEF AlertAssumption, IndInv, Types, RowTypes, OwnedOK, refreshPolicy
  <2>3. CASE acknowledged
    BY <2>3 DEF AlertAssumption, IndInv, Types, RowTypes, OwnedOK, acknowledged
  <2>4. CASE readExact
    BY <2>4 DEF AlertAssumption, IndInv, Types, RowTypes, OwnedOK, readExact
  <2>5. CASE closeLease
    BY <2>5 DEF AlertAssumption, IndInv, Types, RowTypes, OwnedOK, closeLease
  <2> QED
    BY <2>1, <2>2, <2>3, <2>4, <2>5
<1>8. OwnedOK'
  <2>1. CASE openAlert
    BY <1>4, <2>1 DEF AlertAssumption, IndInv, Types, RowTypes, OwnedOK, StepRecords, openAlert
  <2>2. CASE refreshPolicy
    BY <1>4, <2>2 DEF AlertAssumption, IndInv, Types, RowTypes, OwnedOK, StepRecords, refreshPolicy
  <2>3. CASE acknowledged
    BY <1>4, <2>3 DEF AlertAssumption, IndInv, Types, RowTypes, OwnedOK, StepRecords, acknowledged
  <2>4. CASE readExact
    BY <1>4, <2>4 DEF AlertAssumption, IndInv, Types, RowTypes, OwnedOK, StepRecords, readExact
  <2>5. CASE closeLease
    BY <1>4, <2>5 DEF AlertAssumption, IndInv, Types, RowTypes, OwnedOK, StepRecords, closeLease
  <2> QED
    BY <2>1, <2>2, <2>3, <2>4, <2>5
<1>9. DeliveryOK'
  <2>1. CASE openAlert
    <3>1. /\ obs.pc = "lease" /\ obs'.answer = obs.answer /\ obs'.rev = obs.rev
          /\ obs'.pc = "mark" \/ (obs'.pc = "settle" /\ obs'.verdict = "not-sent")
      BY <1>4, <2>1 DEF openAlert, StepRecords
    <3>2. /\ obs.answer \in Cases /\ obs.answer \in fresh /\ ledger[obs.answer].rev = obs.rev
          /\ ledger[obs.answer].state = "reserved"
      BY <3>1 DEF IndInv, DeliveryOK, Delivering
    <3>3. wire[obs.answer] = "none"
      BY <3>2 DEF IndInv, LedgerOK
    <3> QED
      BY <1>1, <3>1, <3>2, <3>3 DEF Quiet, DeliveryOK, Delivering
  <2>2. CASE refreshPolicy
    <3>1. /\ obs.pc = "refresh" /\ obs'.answer = obs.answer /\ obs'.rev = obs.rev
          /\ \/ obs'.pc = "send" /\ settings.mode = "alert" /\ settings.rev = ledger[obs.answer].rev
             \/ obs'.pc = "close" /\ obs'.verdict = "not-sent"
      BY <1>4, <2>2 DEF refreshPolicy, StepRecords, policySame, policyStands, alertsOn
    <3>2. /\ obs.answer \in Cases /\ obs.answer \in fresh /\ ledger[obs.answer].rev = obs.rev
          /\ ledger[obs.answer].state = "sending" /\ obs.rev <= marked[obs.answer].rev
          /\ wire[obs.answer] = "none"
      BY <3>1 DEF IndInv, DeliveryOK, Delivering
    <3>3. obs'.pc = "send" => marked[obs.answer].rev = obs.rev /\ marked[obs.answer].mode = "alert"
      <4>1. /\ marked[obs.answer].rev <= settings.rev /\ marked[obs.answer].rev \in Nat
            /\ marked[obs.answer].rev = settings.rev => marked[obs.answer].mode = settings.mode
        BY <3>2 DEF IndInv, MarksOK, Types, LedgerTypes, Settings1
      <4> QED
        BY <1>4, <3>1, <3>2, <4>1
    <3> QED
      BY <1>1, <3>1, <3>2, <3>3 DEF Quiet, DeliveryOK, Delivering
  <2>3. CASE acknowledged
    BY <1>1, <1>4, <2>3 DEF Quiet, IndInv, DeliveryOK, Delivering, StepRecords, MarksOK, acknowledged
  <2>4. CASE readExact
    BY <1>1, <1>4, <2>4 DEF Quiet, IndInv, DeliveryOK, Delivering, StepRecords, MarksOK, readExact
  <2>5. CASE closeLease
    BY <1>1, <1>4, <2>5 DEF Quiet, IndInv, DeliveryOK, Delivering, StepRecords, MarksOK, closeLease
  <2> QED
    BY <2>1, <2>2, <2>3, <2>4, <2>5
<1>10. IntervalOK'
  <2>1. CASE openAlert
    BY <1>1, <1>4, <2>1 DEF Quiet, IndInv, IntervalOK, BeforeSend, StepRecords, DeliveryOK, Delivering, openAlert
  <2>2. CASE refreshPolicy
    BY <1>1, <1>4, <2>2 DEF Quiet, IndInv, IntervalOK, BeforeSend, StepRecords, DeliveryOK, Delivering, refreshPolicy
  <2>3. CASE acknowledged
    <3>1. /\ obs.pc = "sent" /\ obs'.pc \in {"read", "close"} /\ obs'.answer = obs.answer
      BY <1>4, <2>3 DEF acknowledged, StepRecords
    <3> QED
      BY <1>1, <3>1 DEF Quiet, IndInv, DeliveryOK, IntervalOK, BeforeSend, Delivering
  <2>4. CASE readExact
    <3>1. /\ obs.pc = "read" /\ obs'.pc \in {"close"} /\ obs'.answer = obs.answer
      BY <1>4, <2>4 DEF readExact, StepRecords
    <3> QED
      BY <1>1, <3>1 DEF Quiet, IndInv, DeliveryOK, IntervalOK, BeforeSend, Delivering
  <2>5. CASE closeLease
    <3>1. /\ obs.pc = "close" /\ obs'.pc \in {"settle"} /\ obs'.answer = obs.answer
      BY <1>4, <2>5 DEF closeLease, StepRecords
    <3> QED
      BY <1>1, <3>1 DEF Quiet, IndInv, DeliveryOK, IntervalOK, BeforeSend, Delivering
  <2> QED
    BY <2>1, <2>2, <2>3, <2>4, <2>5
<1>11. MarksOK'
  BY <1>1, <1>4, <1>5 DEF Quiet, IndInv, MarksOK
<1> QED
  BY <1>1, <1>2, <1>3, <1>5, <1>6, <1>7, <1>8, <1>9, <1>10, <1>11, QuietKeeps
  DEF IndInv, Types, StepTypes, BoundTypes

(* The service is told of a change, is closed, or the process ends.        *)
LEMMA ProcessStep ==
  ASSUME IndInv, AlertAssumption,
         policyChanged \/ close \/ Restart
  PROVE  IndInv'
<1> USE DEF goto, finishWith, closeWith, ended, NoStep, processed, policyState, outbox, rows, fine, fault, verdict, case
<1>1. Quiet /\ notify' \in BOOLEAN
  BY DEF Quiet, IndInv, Types, PolicyTypes, policyChanged, close, Restart
<1>2. faults' \in 0..MaxFaults
  BY FaultStep DEF IndInv, Types, BoundTypes, policyChanged, close, Restart
<1>3. broken' \subseteq {"outbox", "settings"}
  BY DEF IndInv, Types, BoundTypes, policyChanged, close, Restart
<1>4. obs \in StepRecords /\ settings.rev \in Nat /\ obs.rev \in Nat /\ obs.rev <= settings.rev
  BY DEF IndInv, Types, StepTypes, StepRecords, PolicyTypes, Settings1, MarksOK
<1>5. obs' \in StepRecords /\ obs'.rev \in {0, obs.rev, settings.rev}
  <2>1. CASE policyChanged
    BY <1>4, <2>1 DEF StepRecords, Stops, policyChanged
  <2>2. CASE close
    BY <1>4, <2>2 DEF StepRecords, Stops, close
  <2>3. CASE Restart
    BY <1>4, <2>3 DEF StepRecords, Stops, Restart
  <2> QED
    BY <2>1, <2>2, <2>3
<1>6. owner' \in {"none", "held", "released", "lost"} /\ lease' \in BOOLEAN
  <2>1. CASE policyChanged
    BY <2>1 DEF IndInv, Types, StepTypes, policyChanged
  <2>2. CASE close
    BY <2>2 DEF IndInv, Types, StepTypes, close
  <2>3. CASE Restart
    BY <2>3 DEF IndInv, Types, StepTypes, Restart
  <2> QED
    BY <2>1, <2>2, <2>3
<1>7. RowTypes'
  <2>1. CASE policyChanged
    BY <2>1 DEF AlertAssumption, IndInv, Types, RowTypes, OwnedOK, policyChanged
  <2>2. CASE close
    BY <2>2 DEF AlertAssumption, IndInv, Types, RowTypes, OwnedOK, close
  <2>3. CASE Restart
    BY <2>3 DEF AlertAssumption, IndInv, Types, RowTypes, OwnedOK, Restart
  <2> QED
    BY <2>1, <2>2, <2>3
<1>8. OwnedOK'
  <2>1. CASE policyChanged
    BY <1>4, <2>1 DEF AlertAssumption, IndInv, Types, RowTypes, OwnedOK, StepRecords, policyChanged
  <2>2. CASE close
    BY <1>4, <2>2 DEF AlertAssumption, IndInv, Types, RowTypes, OwnedOK, StepRecords, close
  <2>3. CASE Restart
    BY <1>4, <2>3 DEF AlertAssumption, IndInv, Types, RowTypes, OwnedOK, StepRecords, Restart
  <2> QED
    BY <2>1, <2>2, <2>3
<1>9. DeliveryOK'
  <2>1. CASE policyChanged
    BY <1>1, <1>4, <2>1 DEF Quiet, IndInv, DeliveryOK, Delivering, StepRecords, MarksOK, policyChanged
  <2>2. CASE close
    BY <1>1, <1>4, <2>2 DEF Quiet, IndInv, DeliveryOK, Delivering, StepRecords, MarksOK, close
  <2>3. CASE Restart
    BY <1>1, <1>4, <2>3 DEF Quiet, IndInv, DeliveryOK, Delivering, StepRecords, MarksOK, Restart
  <2> QED
    BY <2>1, <2>2, <2>3
<1>10. IntervalOK'
  <2>1. CASE policyChanged
    BY <1>1, <1>4, <2>1 DEF Quiet, IndInv, IntervalOK, BeforeSend, StepRecords, DeliveryOK, Delivering, policyChanged
  <2>2. CASE close
    BY <1>1, <1>4, <2>2 DEF Quiet, IndInv, IntervalOK, BeforeSend, StepRecords, DeliveryOK, Delivering, close
  <2>3. CASE Restart
    BY <1>1, <1>4, <2>3 DEF Quiet, IndInv, IntervalOK, BeforeSend, StepRecords, DeliveryOK, Delivering, Restart
  <2> QED
    BY <2>1, <2>2, <2>3
<1>11. MarksOK'
  BY <1>1, <1>4, <1>5 DEF Quiet, IndInv, MarksOK
<1> QED
  BY <1>1, <1>2, <1>3, <1>5, <1>6, <1>7, <1>8, <1>9, <1>10, <1>11, QuietKeeps
  DEF IndInv, Types, StepTypes, BoundTypes

-----------------------------------------------------------------------------
(* The calls of the owner of the group                                     *)

(* A step of the owner's calls leaves the observer's part alone.         *)
LEMMA ObserverUntouched ==
  ASSUME IndInv, UNCHANGED <<through, reserved, obs, owner, lease, ledger, fresh, marked, wire>>
  PROVE  /\ LedgerTypes' /\ StepTypes' /\ RowTypes' /\ CapacityOK' /\ (\A k \in Cases : LedgerOK(k)')
         /\ OwnedOK' /\ DeliveryOK' /\ IntervalOK'
<1>1. LedgerTypes' /\ StepTypes' /\ RowTypes'
  BY DEF IndInv, Types, LedgerTypes, StepTypes, RowTypes
<1>2. CapacityOK' /\ OwnedOK'
  BY DEF IndInv, CapacityOK, used, OwnedOK
<1>3. \A k \in Cases : LedgerOK(k)'
  BY DEF IndInv, LedgerOK
<1>4. DeliveryOK' /\ IntervalOK'
  BY DEF IndInv, DeliveryOK, IntervalOK, Delivering
<1> QED
  BY <1>1, <1>2, <1>3, <1>4

(* A call of the owner is issued.                                        *)
LEMMA IssueStep ==
  ASSUME IndInv, AlertAssumption, NEW c \in Calls, issue(c)
  PROVE  IndInv'
<1> USE DEF rows, outbox, fine
<1>1. /\ UNCHANGED <<settings, notify, applied, through, reserved, obs, owner, lease, ledger, fresh, broken, marked,
                     wire, faults>>
      /\ calls[c].state = "new" /\ settings \in Settings1 /\ calls \in [Calls -> CallRecords]
  BY DEF issue, IndInv, Types, PolicyTypes
<1>2. PICK mode \in Modes : calls' = [calls EXCEPT ![c] = [state |-> "issued", expected |-> settings.rev, mode |-> mode]]
  BY DEF issue
<1>3. /\ calls' \in [Calls -> CallRecords] /\ (\A b \in Calls \ {c} : calls'[b] = calls[b])
      /\ calls'[c].state = "issued" /\ calls'[c].expected = settings.rev
  BY <1>1, <1>2 DEF CallRecords, Settings1
<1>4. settings.rev >= 1 /\ applied[c] = 0 /\ ~(settings.rev > 1 /\ settings.by = c)
  BY <1>1 DEF IndInv, CallsOK, CallOK
<1>5. ASSUME NEW b \in Calls PROVE CallOK(b)'
  <2>1. CASE b = c
    BY <1>1, <1>3, <1>4, <2>1 DEF CallOK
  <2>2. CASE b # c
    BY <1>1, <1>3, <2>2 DEF IndInv, CallsOK, CallOK
  <2> QED
    BY <2>1, <2>2
<1>6. CallsOK' /\ MarksOK'
  BY <1>1, <1>4, <1>5 DEF CallsOK, IndInv, MarksOK
<1>7. PolicyTypes' /\ BoundTypes'
  BY <1>1, <1>3 DEF IndInv, Types, PolicyTypes, BoundTypes
<1> QED
  BY <1>1, <1>6, <1>7, ObserverUntouched DEF IndInv, Types

(* Answering a call changes that call alone.                             *)
LEMMA Answered ==
  ASSUME NEW c \in Calls, NEW st \in {"ok", "conflict"}, calls \in [Calls -> CallRecords], answered(c, st)
  PROVE  /\ calls' \in [Calls -> CallRecords] /\ \A b \in Calls \ {c} : calls'[b] = calls[b]
         /\ calls'[c].expected = calls[c].expected /\ calls'[c].state \in {calls[c].state, st}
<1>1. CASE calls' = [calls EXCEPT ![c].state = st]
  BY <1>1 DEF CallRecords
<1>2. CASE calls' = calls
  BY <1>2
<1> QED
  BY <1>1, <1>2 DEF answered

(* A call is written at the revision it expected, which no call finds      *)
(* again: written once, it is replayed or in conflict.                     *)
LEMMA UpdateStep ==
  ASSUME IndInv, AlertAssumption, NEW c \in Calls, update(c)
  PROVE  IndInv'
<1> USE DEF rows
<1>1. /\ UNCHANGED <<through, reserved, obs, owner, lease, ledger, fresh, marked, wire>>
      /\ calls[c].state = "issued" /\ settings \in Settings1 /\ calls \in [Calls -> CallRecords]
      /\ applied \in [Calls -> Nat] /\ notify \in BOOLEAN /\ faults \in 0..MaxFaults
      /\ broken \subseteq {"outbox", "settings"}
  BY DEF update, IndInv, Types, PolicyTypes, BoundTypes
<1>2. /\ settings.rev \in Nat /\ settings.rev >= 1 /\ calls[c] \in CallRecords /\ calls[c].expected >= 1
      /\ \A b \in Calls : CallOK(b)
  BY <1>1 DEF IndInv, CallsOK, CallOK, Settings1
<1>3. broken' \subseteq {"outbox", "settings"} /\ faults' \in 0..MaxFaults
  <2>1. broken' \in {broken, broken \cup {"settings"}}
    BY DEF update
  <2>2. fault \/ fine
    BY DEF update, answered
  <2> QED
    BY <1>1, <2>1, <2>2, FaultStep
<1>4. notify' \in BOOLEAN
  BY <1>1 DEF update
<1>5. CASE UNCHANGED <<settings, applied>>
  <2>1. /\ calls' \in [Calls -> CallRecords] /\ (\A b \in Calls \ {c} : calls'[b] = calls[b])
        /\ calls'[c].expected = calls[c].expected
        /\ calls'[c].state \in {"issued", "conflict"} \/ (calls'[c].state = "ok" /\ replay(c))
    <3>1. CASE replay(c) /\ answered(c, "ok")
      BY <1>1, <3>1, Answered
    <3>2. CASE answered(c, "conflict")
      BY <1>1, <3>2, Answered
    <3>3. CASE UNCHANGED calls
      BY <1>1, <3>3
    <3>4. CASE applied' = [applied EXCEPT ![c] = @ + 1]
      <4>1. applied'[c] = applied[c] + 1 /\ applied[c] \in Nat
        BY <1>1, <3>4
      <4> QED
        BY <1>5, <4>1
    <3> QED
      BY <3>1, <3>2, <3>3, <3>4 DEF update
  <2>2. replay(c) => applied[c] = 1
    BY <1>2 DEF replay, CallOK, CallRecords
  <2>3. ASSUME NEW b \in Calls PROVE CallOK(b)'
    <3>1. CASE b = c
      BY <1>1, <1>2, <1>5, <2>1, <2>2, <3>1 DEF CallOK
    <3>2. CASE b # c
      BY <1>2, <1>5, <2>1, <3>2 DEF CallOK
    <3> QED
      BY <3>1, <3>2
  <2>4. CallsOK' /\ MarksOK'
    BY <1>1, <1>2, <1>5, <2>3 DEF CallsOK, IndInv, MarksOK
  <2>5. PolicyTypes'
    BY <1>1, <1>4, <1>5, <2>1 DEF PolicyTypes
  <2> QED
    BY <1>1, <1>3, <2>4, <2>5, ObserverUntouched DEF IndInv, Types, BoundTypes
<1>6. CASE /\ settings.rev = calls[c].expected /\ settings' = candidate(c)
           /\ applied' = [applied EXCEPT ![c] = @ + 1]
           /\ answered(c, "ok") \/ UNCHANGED calls
  <2>1. /\ calls' \in [Calls -> CallRecords] /\ (\A b \in Calls \ {c} : calls'[b] = calls[b])
        /\ calls'[c].expected = calls[c].expected /\ calls'[c].state \in {"issued", "ok"}
    <3>1. CASE answered(c, "ok")
      BY <1>1, <3>1, Answered
    <3>2. CASE UNCHANGED calls
      BY <1>1, <3>2
    <3> QED
      BY <1>6, <3>1, <3>2
  <2>2. settings' \in Settings1 /\ settings'.rev = settings.rev + 1 /\ settings'.by = c
    BY <1>1, <1>2, <1>6 DEF candidate, Settings1, CallRecords
  <2>3. /\ applied[c] = 0 /\ applied' \in [Calls -> Nat] /\ applied'[c] = 1
        /\ \A b \in Calls \ {c} : applied'[b] = applied[b]
    BY <1>1, <1>2, <1>6 DEF CallOK
  <2>4. ASSUME NEW b \in Calls PROVE CallOK(b)'
    <3>1. CASE b = c
      BY <1>2, <1>6, <2>1, <2>2, <2>3, <3>1 DEF CallOK
    <3>2. CASE b # c
      <4>1. calls[b].expected \in Nat
        BY <1>1 DEF CallRecords
      <4> QED
        BY <1>2, <2>1, <2>2, <2>3, <3>2, <4>1 DEF CallOK
    <3> QED
      BY <3>1, <3>2
  <2>5. CallsOK'
    BY <1>2, <2>2, <2>4 DEF CallsOK
  <2>6. MarksOK'
    <3>1. /\ obs.rev \in Nat /\ obs.rev <= settings.rev
          /\ \A k \in Cases : marked[k].rev \in Nat /\ marked[k].rev <= settings.rev
      BY DEF IndInv, MarksOK, Types, StepTypes, StepRecords, LedgerTypes, Settings1
    <3>2. obs'.rev = obs.rev /\ \A k \in Cases : marked'[k].rev = marked[k].rev
      BY <1>1
    <3> QED
      BY <1>2, <2>2, <3>1, <3>2 DEF MarksOK
  <2>7. PolicyTypes'
    BY <1>4, <2>1, <2>2, <2>3 DEF PolicyTypes
  <2> QED
    BY <1>1, <1>3, <2>5, <2>6, <2>7, ObserverUntouched DEF IndInv, Types, BoundTypes
<1> QED
  BY <1>5, <1>6 DEF update


-----------------------------------------------------------------------------
(* The outbox                                                              *)

(* A step of the delivery that may write the entry of its case.            *)
Writes == /\ UNCHANGED <<settings, calls, applied, notify, through, reserved, owner, wire>>
          /\ obs' \in StepRecords /\ obs'.rev = obs.rev /\ obs'.answer = obs.answer /\ obs.answer \in Cases
          /\ broken' \subseteq {"outbox", "settings"} /\ faults' \in 0..MaxFaults

(* A step that writes the outbox keeps calls and settings.               *)
LEMMA WritesKeep ==
  ASSUME IndInv, Writes
  PROVE  PolicyTypes' /\ RowTypes' /\ BoundTypes' /\ CallsOK' /\ obs'.rev <= settings.rev
<1>1. PolicyTypes' /\ RowTypes' /\ BoundTypes'
  BY DEF Writes, IndInv, Types, PolicyTypes, RowTypes, BoundTypes
<1>2. CallsOK' /\ obs'.rev <= settings.rev
  BY DEF Writes, IndInv, CallsOK, CallOK, MarksOK
<1> QED
  BY <1>1, <1>2

(* A write of the outbox that fails left the old or the new contents.    *)
LEMMA WriteFailure ==
  ASSUME IndInv, AlertAssumption, NEW new, writeLedger(new) \/ writeFails(new)
  PROVE  ledger' \in {ledger, new} /\ broken' \subseteq {"outbox", "settings"} /\ faults' \in 0..MaxFaults
<1>1. faults' \in 0..MaxFaults
  BY FaultStep DEF IndInv, Types, BoundTypes, writeLedger, writeFails
<1>2. broken' \subseteq {"outbox", "settings"}
  BY DEF IndInv, Types, BoundTypes, writeLedger, writeFails
<1> QED
  BY <1>1, <1>2 DEF writeLedger, writeFails

(* The entry of the case is replaced; the others stay.                     *)
LEMMA Entered ==
  ASSUME ledger \in [Cases -> [state : States, rev : Nat]], case \in Cases, NEW st \in States,
         ledger' = entered(st)
  PROVE  /\ ledger' \in [Cases -> [state : States, rev : Nat]]
         /\ ledger'[case].state = st /\ ledger'[case].rev = ledger[case].rev
         /\ \A k \in Cases \ {case} : ledger'[k] = ledger[k]
BY DEF entered

(* A case that is in the outbox already takes no more room.              *)
LEMMA CapacityKept ==
  ASSUME IndInv, NEW c \in Cases, ledger[c].state # "absent", ledger'[c].state # "absent",
         \A k \in Cases \ {c} : ledger'[k] = ledger[k]
  PROVE  CapacityOK'
<1>1. used' = used
  BY DEF used
<1> QED
  BY <1>1 DEF IndInv, CapacityOK

(* A case is reserved under the revision that was read.                  *)
LEMMA ReserveCaseStep ==
  ASSUME IndInv, AlertAssumption, reserveCase
  PROVE  IndInv'
<1> USE DEF policyState, rows, goto, finishWith
<1> DEFINE c == obs.answer
           new == [ledger EXCEPT ![c] = [state |-> "reserved", rev |-> obs.rev]]
<1>1. /\ obs.pc = "case" /\ c \in Cases /\ ledger[c].state = "absent" /\ obs \in StepRecords /\ obs.rev \in Nat
      /\ ledger \in [Cases -> [state : States, rev : Nat]] /\ MaxCases \in Nat
  BY DEF reserveCase, IndInv, DeliveryOK, Types, StepTypes, StepRecords, LedgerTypes, AlertAssumption
<1>2. UNCHANGED <<settings, calls, applied, notify, through, reserved, owner, lease, marked, wire>>
      /\ fresh' = fresh \cup {c}
  BY DEF reserveCase, case
<1>3. /\ obs' \in StepRecords /\ obs'.rev = obs.rev /\ obs'.answer = c /\ obs'.pc \in {"lease", "finish"}
      /\ obs'.fatal = obs.fatal
  <2>1. obs' = [obs EXCEPT !.pc = "lease"] \/ obs' = [obs EXCEPT !.pc = "finish"]
    BY DEF reserveCase
  <2> QED
    BY <1>1, <2>1 DEF StepRecords, Stops
<1>4. /\ broken' \subseteq {"outbox", "settings"} /\ faults' \in 0..MaxFaults
      /\ ledger' = ledger \/ (ledger' = new /\ ~capacityFull)
  <2>1. CASE writeLedger(new) \/ writeFails(new)
    BY <2>1, WriteFailure DEF reserveCase, case, fine
  <2>2. CASE fine /\ UNCHANGED <<ledger, broken>>
    BY <2>2, FaultStep DEF IndInv, Types, BoundTypes
  <2>3. (writeLedger(new) \/ writeFails(new)) => ~capacityFull \/ UNCHANGED ledger
    BY DEF reserveCase, case
  <2>4. \/ ~capacityFull /\ (writeLedger(new) \/ writeFails(new))
        \/ fine /\ UNCHANGED <<ledger, broken>>
    BY DEF reserveCase, case
  <2> QED
    BY <2>1, <2>2, <2>4, WriteFailure
<1>5. /\ obs'.pc = "lease" => ledger' = new
      /\ wire[c] = "none" /\ \A k \in fresh : wire[k] = "none"
  <2>1. obs'.pc = "lease" => ledger' = new
    BY <1>1 DEF reserveCase, case, writeLedger, StepRecords
  <2>2. wire[c] = "none"
    BY <1>1 DEF IndInv, LedgerOK
  <2>3. \A k \in fresh : wire[k] = "none"
    BY <1>1 DEF IndInv, IntervalOK, BeforeSend
  <2> QED
    BY <2>1, <2>2, <2>3
<1>6. /\ new \in [Cases -> [state : States, rev : Nat]] /\ new[c].state = "reserved" /\ new[c].rev = obs.rev
      /\ \A k \in Cases \ {c} : new[k] = ledger[k]
  BY <1>1 DEF States
<1> HIDE DEF new
<1>7. Writes
  BY <1>1, <1>2, <1>3, <1>4 DEF Writes
<1>8. LedgerTypes' /\ StepTypes'
  BY <1>1, <1>2, <1>3, <1>4, <1>6 DEF IndInv, Types, LedgerTypes, StepTypes
<1>9. CapacityOK'
  <2>1. CASE ledger' = ledger
    BY <2>1 DEF IndInv, CapacityOK, used
  <2>2. CASE ledger' = new /\ ~capacityFull
    <3>1. used' = used \cup {c} /\ c \notin used
      BY <1>1, <1>6, <2>2 DEF used
    <3>2. IsFiniteSet(used) /\ Cardinality(used) \in Nat
      BY FS_CardinalityType DEF IndInv, CapacityOK
    <3>3. IsFiniteSet(used') /\ Cardinality(used') = Cardinality(used) + 1
      BY <3>1, <3>2, FS_AddElement
    <3> QED
      BY <1>1, <2>2, <3>2, <3>3 DEF capacityFull, CapacityOK
  <2> QED
    BY <1>4, <2>1, <2>2
<1>10. ASSUME NEW k \in Cases PROVE LedgerOK(k)'
  <2>1. CASE k = c
    BY <1>1, <1>2, <1>4, <1>5, <1>6, <2>1 DEF LedgerOK
  <2>2. CASE k # c
    BY <1>2, <1>4, <1>6, <2>2 DEF IndInv, LedgerOK
  <2> QED
    BY <2>1, <2>2
<1>11. MarksOK'
  BY <1>2, <1>3 DEF IndInv, MarksOK
<1>12. OwnedOK'
  BY <1>1, <1>2, <1>3 DEF IndInv, OwnedOK
<1>13. DeliveryOK'
  BY <1>1, <1>2, <1>3, <1>5, <1>6 DEF DeliveryOK, Delivering
<1>14. IntervalOK'
  BY <1>2, <1>3, <1>5 DEF IntervalOK, BeforeSend
<1> QED
  BY <1>7, <1>8, <1>9, <1>10, <1>11, <1>12, <1>13, <1>14, WritesKeep DEF IndInv, Types

(* The sending mark records the settings in force.                       *)
LEMMA MarkStep ==
  ASSUME IndInv, AlertAssumption, markSending
  PROVE  IndInv'
<1> USE DEF policyState, rows, goto, finishWith, closeWith
<1> DEFINE c == obs.answer
<1>1. /\ obs.pc = "mark" /\ c \in Cases /\ c \in fresh /\ ledger[c].state = "reserved" /\ ledger[c].rev = obs.rev
      /\ obs \in StepRecords /\ ledger \in [Cases -> [state : States, rev : Nat]]
      /\ settings \in Settings1 /\ marked \in [Cases -> Settings1] /\ lease \in BOOLEAN
      /\ obs.rev <= settings.rev
  BY DEF markSending, IndInv, DeliveryOK, Delivering, Types, StepTypes, LedgerTypes, PolicyTypes, MarksOK
<1>2. UNCHANGED <<settings, calls, applied, notify, through, reserved, owner, fresh, wire>>
  BY DEF markSending
<1>3. /\ obs' \in StepRecords /\ obs'.rev = obs.rev /\ obs'.answer = c
      /\ \/ obs'.pc = "close" /\ obs'.verdict = "not-sent" /\ UNCHANGED <<ledger, lease, marked>>
         \/ /\ obs'.pc = "refresh" /\ ledger' = entered("sending") /\ marked' = [marked EXCEPT ![c] = settings]
            /\ UNCHANGED lease
         \/ /\ obs'.pc = "finish" /\ ledger' \in {ledger, entered("sending")} /\ lease' = FALSE
            /\ marked' = [marked EXCEPT ![c] = settings]
  <2>1. \/ /\ obs' = [obs EXCEPT !.pc = "close", !.verdict = "not-sent"] /\ UNCHANGED <<ledger, lease, marked>>
        \/ /\ obs' = [obs EXCEPT !.pc = "refresh"] /\ ledger' = entered("sending") /\ UNCHANGED lease
           /\ marked' = [marked EXCEPT ![c] = settings]
        \/ /\ obs' = [obs EXCEPT !.pc = "finish"] /\ ledger' \in {ledger, entered("sending")} /\ lease' = FALSE
           /\ marked' = [marked EXCEPT ![c] = settings]
    BY DEF markSending, case, writeLedger, writeFails
  <2> QED
    BY <1>1, <2>1 DEF StepRecords, Stops
<1>4. broken' \subseteq {"outbox", "settings"} /\ faults' \in 0..MaxFaults
  <2>1. CASE fine /\ UNCHANGED broken
    BY <2>1, FaultStep DEF IndInv, Types, BoundTypes
  <2>2. CASE writeLedger(entered("sending")) \/ writeFails(entered("sending"))
    BY <2>2, WriteFailure
  <2> QED
    BY <2>1, <2>2 DEF markSending
<1>5. /\ ledger' \in [Cases -> [state : States, rev : Nat]]
      /\ ledger' = ledger \/ (ledger'[c].state = "sending" /\ ledger'[c].rev = ledger[c].rev)
      /\ ledger'[c].state # "absent"
      /\ \A k \in Cases \ {c} : ledger'[k] = ledger[k]
      /\ obs'.pc = "refresh" => ledger'[c].state = "sending"
  <2>1. CASE ledger' = ledger
    <3>1. obs'.pc # "refresh"
      <4>1. ledger' = entered("sending") => ledger'[c].state = "sending"
        BY <1>1, Entered DEF case, States
      <4> QED
        BY <1>1, <1>3, <2>1, <4>1
    <3> QED
      BY <1>1, <2>1, <3>1
  <2>2. CASE ledger' = entered("sending")
    <3>1. "sending" \in States /\ case = c
      BY DEF States, case
    <3> QED
      BY <1>1, <2>2, <3>1, Entered
  <2> QED
    BY <1>3, <2>1, <2>2
<1>6. /\ marked' \in [Cases -> Settings1] /\ (\A k \in Cases \ {c} : marked'[k] = marked[k])
      /\ marked'[c] \in {marked[c], settings}
      /\ obs'.pc = "refresh" => marked'[c] = settings
  <2>1. CASE marked' = marked
    BY <1>1, <1>3, <2>1
  <2>2. CASE marked' = [marked EXCEPT ![c] = settings]
    BY <1>1, <2>2
  <2> QED
    BY <1>3, <2>1, <2>2
<1>7. /\ wire[c] = "none" /\ \A k \in fresh : wire[k] = "none"
  BY <1>1 DEF IndInv, LedgerOK, IntervalOK, BeforeSend
<1>8. Writes
  BY <1>1, <1>2, <1>3, <1>4 DEF Writes
<1>9. LedgerTypes' /\ StepTypes'
  <2>1. lease' \in BOOLEAN
    BY <1>1 DEF markSending
  <2> QED
    BY <1>2, <1>3, <1>5, <1>6, <2>1 DEF IndInv, Types, LedgerTypes, StepTypes
<1>10. CapacityOK'
  BY <1>1, <1>5, CapacityKept
<1>11. ASSUME NEW k \in Cases PROVE LedgerOK(k)'
  <2>1. CASE k = c
    BY <1>1, <1>2, <1>5, <1>7, <2>1 DEF LedgerOK
  <2>2. CASE k # c
    BY <1>2, <1>5, <1>6, <2>2 DEF IndInv, LedgerOK
  <2> QED
    BY <2>1, <2>2
<1>12. MarksOK'
  <2>1. settings.rev \in Nat
    BY <1>1 DEF Settings1
  <2>2. ASSUME NEW k \in Cases
        PROVE  marked'[k].rev <= settings.rev /\ (marked'[k].rev = settings.rev => marked'[k].mode = settings.mode)
    <3>1. marked'[k] = marked[k] \/ marked'[k] = settings
      BY <1>6
    <3> QED
      BY <2>1, <3>1 DEF IndInv, MarksOK
  <2> QED
    BY <1>1, <1>2, <1>3, <2>2 DEF MarksOK
<1>13. OwnedOK'
  BY <1>1, <1>2, <1>3 DEF IndInv, OwnedOK
<1>14. DeliveryOK'
  <2>1. ledger'[c].rev = obs.rev
    BY <1>1, <1>5
  <2>2. obs'.pc = "close" => ledger'[c].state \in {"reserved", "sending"}
    BY <1>1, <1>3
  <2>3. obs'.pc = "refresh" => obs.rev <= marked'[c].rev
    BY <1>1, <1>6
  <2> QED
    BY <1>1, <1>2, <1>3, <1>5, <1>7, <2>1, <2>2, <2>3 DEF DeliveryOK, Delivering
<1>15. IntervalOK'
  BY <1>2, <1>3, <1>7 DEF IntervalOK, BeforeSend
<1> QED
  BY <1>8, <1>9, <1>10, <1>11, <1>12, <1>13, <1>14, <1>15, WritesKeep DEF IndInv, Types

(* What the step found out of its alert is written down.                   *)
LEMMA SettleStep ==
  ASSUME IndInv, AlertAssumption, settle
  PROVE  IndInv'
<1> USE DEF policyState, rows, finishWith
<1> DEFINE c == obs.answer
<1>1. /\ obs.pc = "settle" /\ c \in Cases /\ c \in fresh /\ ledger[c].state \in {"reserved", "sending"}
      /\ obs.verdict # "none" /\ (obs.verdict = "not-sent" => wire[c] = "none")
      /\ (obs.verdict = "verified" => wire[c] = "done")
      /\ obs \in StepRecords /\ ledger \in [Cases -> [state : States, rev : Nat]]
  BY DEF settle, IndInv, DeliveryOK, Delivering, Types, StepTypes, LedgerTypes
<1>2. UNCHANGED <<settings, calls, applied, notify, through, reserved, owner, lease, marked, wire>> /\ fresh' = fresh
  BY <1>1 DEF settle, case
<1>3. /\ obs' \in StepRecords /\ obs'.rev = obs.rev /\ obs'.answer = c /\ obs'.pc = "finish" /\ obs'.fatal = obs.fatal
  BY <1>1 DEF settle, StepRecords, Stops
<1>4. /\ ledger' \in {ledger, entered(obs.verdict)}
      /\ broken' \subseteq {"outbox", "settings"} /\ faults' \in 0..MaxFaults
  BY WriteFailure DEF settle, verdict
<1>5. obs.verdict \in {"verified", "not-sent", "unknown"} /\ obs.verdict \in States
  BY <1>1 DEF StepRecords, States
<1>6. /\ ledger' \in [Cases -> [state : States, rev : Nat]]
      /\ ledger' = ledger \/ (ledger'[c].state = obs.verdict /\ ledger'[c].rev = ledger[c].rev)
      /\ ledger'[c].state # "absent"
      /\ \A k \in Cases \ {c} : ledger'[k] = ledger[k]
  <2>1. CASE ledger' = ledger
    BY <1>1, <2>1
  <2>2. CASE ledger' = entered(obs.verdict)
    <3>1. case = c
      BY DEF case
    <3> QED
      BY <1>1, <1>5, <2>2, <3>1, Entered
  <2> QED
    BY <1>4, <2>1, <2>2
<1>7. Writes
  BY <1>1, <1>2, <1>3, <1>4 DEF Writes
<1>8. LedgerTypes' /\ StepTypes'
  BY <1>2, <1>3, <1>6 DEF IndInv, Types, LedgerTypes, StepTypes
<1>9. CapacityOK'
  BY <1>1, <1>6, CapacityKept
<1>10. ASSUME NEW k \in Cases PROVE LedgerOK(k)'
  <2>1. CASE k = c
    BY <1>1, <1>2, <1>5, <1>6, <2>1 DEF IndInv, LedgerOK
  <2>2. CASE k # c
    BY <1>2, <1>6, <2>2 DEF IndInv, LedgerOK
  <2> QED
    BY <2>1, <2>2
<1>11. MarksOK' /\ OwnedOK'
  BY <1>1, <1>2, <1>3 DEF IndInv, MarksOK, OwnedOK
<1>12. DeliveryOK'
  BY <1>3 DEF DeliveryOK, Delivering
<1>13. IntervalOK'
  BY <1>2, <1>3 DEF IndInv, IntervalOK, BeforeSend
<1> QED
  BY <1>7, <1>8, <1>9, <1>10, <1>11, <1>12, <1>13, WritesKeep DEF IndInv, Types


-----------------------------------------------------------------------------
(* Telegram and time                                                       *)

(* The alert is handed over.                                             *)
LEMMA SendStep ==
  ASSUME IndInv, AlertAssumption, sendOnce
  PROVE  IndInv'
<1> USE DEF policyState, outbox, rows, fine, goto, closeWith
<1> DEFINE c == obs.answer
<1>1. /\ obs.pc = "send" /\ c \in Cases /\ c \in fresh /\ ledger[c].state = "sending" /\ ledger[c].rev = obs.rev
      /\ wire[c] = "none" /\ marked[c].rev = obs.rev /\ marked[c].mode = "alert"
      /\ obs \in StepRecords /\ wire \in [Cases -> {"none", "invoked", "done"}] /\ fresh \subseteq Cases
  BY DEF sendOnce, IndInv, DeliveryOK, Delivering, Types, StepTypes, LedgerTypes
<1>2. UNCHANGED <<settings, calls, applied, notify, through, reserved, owner, lease, ledger, fresh, broken, marked, faults>>
  BY DEF sendOnce
<1>3. /\ obs' \in StepRecords /\ obs'.rev = obs.rev /\ obs'.answer = c
      /\ \/ obs'.pc = "close" /\ obs'.verdict = "unknown" /\ UNCHANGED wire
         \/ obs'.pc = "sent" /\ wire' = [wire EXCEPT ![c] = "invoked"]
  <2>1. \/ obs' = [obs EXCEPT !.pc = "close", !.verdict = "unknown"] /\ UNCHANGED wire
        \/ obs' = [obs EXCEPT !.pc = "sent"] /\ wire' = [wire EXCEPT ![c] = "invoked"]
    BY DEF sendOnce, case
  <2> QED
    BY <1>1, <2>1 DEF StepRecords, Stops
<1>4. /\ wire' \in [Cases -> {"none", "invoked", "done"}] /\ (\A k \in Cases \ {c} : wire'[k] = wire[k])
      /\ obs'.pc = "close" => wire'[c] = "none"
  <2>1. CASE UNCHANGED wire
    BY <1>1, <2>1
  <2>2. CASE obs'.pc = "sent" /\ wire' = [wire EXCEPT ![c] = "invoked"]
    BY <1>1, <2>2
  <2> QED
    BY <1>3, <2>1, <2>2
<1>5. LedgerTypes' /\ StepTypes' /\ PolicyTypes' /\ RowTypes' /\ BoundTypes'
  BY <1>2, <1>3, <1>4 DEF IndInv, Types, LedgerTypes, StepTypes, PolicyTypes, RowTypes, BoundTypes
<1>6. CapacityOK' /\ CallsOK' /\ MarksOK'
  BY <1>2, <1>3 DEF IndInv, CapacityOK, used, CallsOK, CallOK, MarksOK
<1>7. ASSUME NEW k \in Cases PROVE LedgerOK(k)'
  <2>1. CASE k = c
    BY <1>1, <1>2, <2>1 DEF LedgerOK
  <2>2. CASE k # c
    BY <1>2, <1>4, <2>2 DEF IndInv, LedgerOK
  <2> QED
    BY <2>1, <2>2
<1>8. OwnedOK'
  BY <1>1, <1>2, <1>3 DEF IndInv, OwnedOK
<1>9. DeliveryOK'
  BY <1>1, <1>2, <1>3, <1>4 DEF DeliveryOK, Delivering
<1>10. IntervalOK'
  <2>1. \A k \in fresh : wire[k] = "none"
    BY <1>1 DEF IndInv, IntervalOK, BeforeSend
  <2>2. \A k \in fresh : wire'[k] # "none" => k = c
    BY <1>1, <1>4, <2>1
  <2> QED
    BY <1>2, <1>3, <2>2 DEF IntervalOK, BeforeSend
<1> QED
  BY <1>5, <1>6, <1>7, <1>8, <1>9, <1>10 DEF IndInv, Types

(* Telegram carries out what it was asked.                               *)
LEMMA HappenStep ==
  ASSUME IndInv, NEW c \in Cases, Happen(c)
  PROVE  IndInv'
<1> USE DEF policyState, outbox, rows, fine
<1>1. UNCHANGED <<settings, calls, applied, notify, through, reserved, obs, owner, lease, ledger, fresh, broken, marked, faults>>
  BY DEF Happen
<1>2. /\ wire' \in [Cases -> {"none", "invoked", "done"}] /\ wire[c] = "invoked" /\ wire'[c] = "done"
      /\ \A k \in Cases \ {c} : wire'[k] = wire[k]
  BY DEF Happen, IndInv, Types, LedgerTypes
<1>3. LedgerTypes' /\ StepTypes' /\ PolicyTypes' /\ RowTypes' /\ BoundTypes'
  BY <1>1, <1>2 DEF IndInv, Types, LedgerTypes, StepTypes, PolicyTypes, RowTypes, BoundTypes
<1>4. CapacityOK' /\ CallsOK' /\ MarksOK' /\ OwnedOK'
  BY <1>1 DEF IndInv, CapacityOK, used, CallsOK, CallOK, MarksOK, OwnedOK
<1>5. ASSUME NEW k \in Cases PROVE LedgerOK(k)'
  <2>1. CASE k = c
    BY <1>1, <1>2, <2>1 DEF IndInv, LedgerOK
  <2>2. CASE k # c
    BY <1>1, <1>2, <2>2 DEF IndInv, LedgerOK
  <2> QED
    BY <2>1, <2>2
<1>6. \A k \in Cases : /\ wire'[k] = "none" <=> wire[k] = "none"
                       /\ wire[k] = "done" => wire'[k] = "done"
  BY <1>2
<1>7. DeliveryOK'
  BY <1>1, <1>6 DEF IndInv, DeliveryOK, Delivering
<1>8. IntervalOK'
  BY <1>1, <1>6 DEF IndInv, IntervalOK, Types, LedgerTypes
<1> QED
  BY <1>3, <1>4, <1>5, <1>7, <1>8 DEF IndInv, Types

(* The interval ends.                                                    *)
LEMMA TickStep ==
  ASSUME IndInv, Tick
  PROVE  IndInv'
<1> USE DEF policyState, rows, fine
<1>1. /\ UNCHANGED <<settings, calls, applied, notify, through, reserved, obs, owner, lease, ledger, broken, marked,
                     wire, faults>>
      /\ fresh' = {} /\ obs.pc = "idle"
  BY DEF Tick
<1>2. LedgerTypes' /\ StepTypes' /\ PolicyTypes' /\ RowTypes' /\ BoundTypes'
  BY <1>1 DEF IndInv, Types, LedgerTypes, StepTypes, PolicyTypes, RowTypes, BoundTypes
<1>3. CapacityOK' /\ CallsOK' /\ MarksOK' /\ OwnedOK' /\ \A k \in Cases : LedgerOK(k)'
  BY <1>1 DEF IndInv, CapacityOK, used, CallsOK, CallOK, MarksOK, OwnedOK, LedgerOK
<1>4. DeliveryOK' /\ IntervalOK'
  BY <1>1 DEF DeliveryOK, Delivering, IntervalOK, BeforeSend
<1> QED
  BY <1>2, <1>3, <1>4 DEF IndInv, Types

-----------------------------------------------------------------------------
(* The invariant                                                           *)

(* The invariant holds of an empty outbox and the first settings.        *)
LEMMA InitIndInv == ASSUME AlertAssumption, Init PROVE IndInv
<1>1. PolicyTypes /\ LedgerTypes
  BY DEF Init, PolicyTypes, LedgerTypes, defaultSettings, Settings1, CallRecords, Modes, States
<1>2. StepTypes
  BY DEF Init, StepTypes, StepRecords, NoStep, Stops
<1>3. RowTypes /\ BoundTypes
  <2>1. reserved \in BOOLEAN
    BY DEF Init
  <2>2. through = 0 /\ faults = 0 /\ broken = {}
    BY DEF Init
  <2> QED
    BY <2>1, <2>2 DEF RowTypes, BoundTypes, AlertAssumption
<1>4. CapacityOK
  <2>1. used = {}
    BY DEF Init, used
  <2> QED
    BY <2>1, FS_EmptySet DEF CapacityOK, AlertAssumption
<1>5. CallsOK
  BY DEF Init, CallsOK, CallOK, defaultSettings
<1>6. MarksOK /\ \A k \in Cases : LedgerOK(k)
  BY DEF Init, MarksOK, LedgerOK, defaultSettings, NoStep
<1>7. OwnedOK /\ DeliveryOK /\ IntervalOK
  BY DEF Init, OwnedOK, DeliveryOK, Delivering, IntervalOK, BeforeSend, NoStep
<1> QED
  BY <1>1, <1>2, <1>3, <1>4, <1>5, <1>6, <1>7 DEF IndInv, Types

(* Every step of observer and owner keeps the invariant.                 *)
LEMMA NextIndInv == ASSUME AlertAssumption, IndInv, [Next]_vars PROVE IndInv'
<1>1. CASE Settings
  BY <1>1, IssueStep, UpdateStep DEF Settings
<1>2. CASE step \/ reserveBatch \/ decide \/ finish
  BY <1>2, BatchStep
<1>3. CASE Assess
  BY <1>3, AssessStep DEF Assess
<1>4. CASE Deliver
  BY <1>4, LeaseStep, ReserveCaseStep, MarkStep, SendStep, SettleStep DEF Deliver
<1>5. CASE policyChanged \/ close \/ Restart
  BY <1>5, ProcessStep
<1>6. CASE Telegram \/ Tick
  BY <1>6, HappenStep, TickStep DEF Telegram
<1>7. CASE UNCHANGED vars
  <2>1. Quiet /\ UNCHANGED <<notify, through, reserved, obs, owner, lease, broken, faults>>
    BY <1>7 DEF vars, Quiet
  <2>2. PolicyTypes' /\ BoundTypes' /\ CallsOK' /\ MarksOK'
    BY <2>1 DEF Quiet, IndInv, Types, PolicyTypes, BoundTypes, CallsOK, CallOK, MarksOK
  <2>3. UNCHANGED <<through, reserved, obs, owner, lease, ledger, fresh, marked, wire>>
    BY <2>1 DEF Quiet
  <2> QED
    BY <2>2, <2>3, ObserverUntouched DEF IndInv, Types
<1> QED
  BY <1>1, <1>2, <1>3, <1>4, <1>5, <1>6, <1>7 DEF Next, Observer

-----------------------------------------------------------------------------
(* The theorems                                                            *)

(* The inductive invariant: the calls and the settings, the marks, what    *)
(* the outbox says of Telegram, and how far step and deliver have come, in *)
(* every reachable state, with lost answers, failed writes and restarts.   *)
THEOREM IndInvariant ==
  ASSUME AlertAssumption
  PROVE  Spec => []IndInv
<1>1. Init => IndInv
  BY InitIndInv
<1>2. IndInv /\ [Next]_vars => IndInv'
  BY NextIndInv
<1> QED
  BY <1>1, <1>2, PTL DEF Spec

(* Every variable keeps its type, and the outbox its capacity.             *)
THEOREM TypesHold ==
  ASSUME AlertAssumption
  PROVE  Spec => []TypeOK
BY IndInvariant, TypesAreTypeOK, PTL

(* sendOnce is reached only when the policy under which markSending wrote  *)
(* the mark is the one reserveBatch reserved the rows under, with alerts   *)
(* enabled: refreshPolicy reads a revision, and a revision has one mode.   *)
THEOREM AlertsObeyThePolicy ==
  ASSUME AlertAssumption
  PROVE  Spec => []DispatchedUnderPolicy
<1>1. IndInv => DispatchedUnderPolicy
  BY DEF IndInv, LedgerOK, DispatchedUnderPolicy
<1> QED
  BY <1>1, IndInvariant, PTL

(* Whenever the observer waits for rows, the native owner of the last      *)
(* assessment is settled and the lease of the last alert is closed.        *)
THEOREM NothingIsHeldWhenIdle ==
  ASSUME AlertAssumption
  PROVE  Spec => []IdleOwnsNothing
<1>1. IndInv => IdleOwnsNothing
  BY DEF IndInv, OwnedOK, IdleOwnsNothing
<1> QED
  BY <1>1, IndInvariant, PTL

(* step lets no assessment begin while an alert of the interval may have   *)
(* been sent, so no second one follows it.                                 *)
THEOREM AlertsKeepTheirDistance ==
  ASSUME AlertAssumption
  PROVE  Spec => []Spacing
<1>1. IndInv => Spacing
  <2> SUFFICES ASSUME IndInv PROVE Spacing
    OBVIOUS
  <2> DEFINE sent == {k \in fresh : wire[k] # "none"}
  <2>1. \A j, k \in sent : j = k
    BY DEF IndInv, IntervalOK
  <2>2. CASE sent = {}
    BY <2>2, FS_EmptySet DEF Spacing
  <2>3. CASE sent # {}
    <3>1. PICK k : k \in sent
      BY <2>3
    <3>2. sent = {k}
      BY <2>1, <3>1
    <3>3. Cardinality({k}) = 1
      BY FS_Singleton
    <3> QED
      BY <3>2, <3>3 DEF Spacing
  <2> QED
    BY <2>2, <2>3
<1> QED
  BY <1>1, IndInvariant, PTL

(* update writes a call once, and a call answered "ok" was written: a      *)
(* retry finds its own revision, or another's and is in conflict.          *)
THEOREM CallsAreAppliedOnce ==
  ASSUME AlertAssumption
  PROVE  Spec => []UpdateOnce
<1>1. IndInv => UpdateOnce
  BY DEF IndInv, CallsOK, CallOK, UpdateOnce
<1> QED
  BY <1>1, IndInvariant, PTL

-----------------------------------------------------------------------------
(* The refinement                                                          *)

record == [k \in Cases |-> Said(ledger[k].state)]

(* The cases are slots of the ledger.                                    *)
LEMMA RecordTyped ==
  ASSUME IndInv
  PROVE  record \in [Cases -> Ledger!Records]
<1>1. \A k \in Cases : ledger[k].state \in States
  BY DEF IndInv, Types, LedgerTypes
<1> QED
  BY <1>1 DEF record, Said, States, Ledger!Records

(* The entry of one case moves as the ledger allows.                       *)
LEMMA EntryMove ==
  ASSUME IndInv, NEW c \in Cases, NEW r, UNCHANGED wire,
         record' = record \/ record' = [record EXCEPT ![c] = r],
         \/ record[c] = "absent" /\ r = "claimed"
         \/ record[c] = "claimed" /\ r = "sending"
         \/ /\ record[c] \in {"claimed", "sending"} /\ r \in {"verified", "unknown", "refused"}
            /\ r = "verified" => record[c] = "sending" /\ wire[c] = "done"
            /\ r = "refused" => wire[c] = "none"
  PROVE  LedgerStep
<1>1. CASE record' = record
  BY <1>1 DEF LedgerStep, Ledger!vars, record
<1>2. CASE record' = [record EXCEPT ![c] = r]
  <2>1. CASE record[c] = "absent" /\ r = "claimed"
    BY <1>2, <2>1 DEF LedgerStep, Ledger!Next, Ledger!Claim, record
  <2>2. CASE record[c] = "claimed" /\ r = "sending"
    BY <1>2, <2>2 DEF LedgerStep, Ledger!Next, Ledger!Mark, record
  <2>3. CASE /\ record[c] \in {"claimed", "sending"} /\ r \in {"verified", "unknown", "refused"}
             /\ r = "verified" => record[c] = "sending" /\ wire[c] = "done"
             /\ r = "refused" => wire[c] = "none"
    <3>1. Ledger!Settle(c, r)
      BY <1>2, <2>3 DEF Ledger!Settle, Ledger!Open, record
    <3> QED
      BY <2>3, <3>1 DEF LedgerStep, Ledger!Next
  <2> QED
    BY <2>1, <2>2, <2>3
<1> QED
  BY <1>1, <1>2

(* Where neither the outbox nor Telegram changes the ledger stutters.    *)
LEMMA NoMove ==
  ASSUME UNCHANGED <<ledger, wire>>
  PROVE  LedgerStep
BY DEF LedgerStep, Ledger!vars

(* An entry of the outbox is a move of one record.                       *)
LEMMA EnteredIs ==
  ASSUME IndInv, case \in Cases, NEW st \in States, ledger' \in {ledger, entered(st)}
  PROVE  record' = record \/ record' = [record EXCEPT ![case] = Said(st)]
<1>1. CASE ledger' = ledger
  BY <1>1 DEF record
<1>2. CASE ledger' = entered(st)
  <2>1. ledger'[case].state = st /\ \A k \in Cases \ {case} : ledger'[k] = ledger[k]
    BY <1>2, Entered DEF IndInv, Types, LedgerTypes
  <2>2. record'[case] = Said(st) /\ \A k \in Cases \ {case} : record'[k] = record[k]
    BY <2>1 DEF record
  <2> QED
    BY <2>2 DEF record
<1> QED
  BY <1>1, <1>2

(* Every action of a delivery is a move of its case or a stutter.        *)
LEMMA DeliverIsALedgerStep ==
  ASSUME IndInv, AlertAssumption, Deliver
  PROVE  LedgerStep
<1> USE DEF policyState, outbox, rows, fine
<1>1. CASE openAlert \/ refreshPolicy \/ acknowledged \/ readExact \/ closeLease
  <2>1. UNCHANGED <<ledger, wire>>
    BY <1>1 DEF openAlert, refreshPolicy, acknowledged, readExact, closeLease
  <2> QED
    BY <2>1, NoMove
<1>2. CASE reserveCase
  <2> DEFINE new == [ledger EXCEPT ![case] = [state |-> "reserved", rev |-> obs.rev]]
  <2>1. case \in Cases /\ ledger[case].state = "absent" /\ UNCHANGED wire
    BY <1>2 DEF reserveCase, case, IndInv, DeliveryOK
  <2>2. ledger' = ledger \/ ledger' = new
    BY <1>2 DEF reserveCase, writeLedger, writeFails
  <2>3. record[case] = "absent" /\ (record' = record \/ record' = [record EXCEPT ![case] = "claimed"])
    <3>1. record[case] = "absent"
      BY <2>1 DEF record, Said
    <3>2. CASE ledger' = ledger
      BY <3>1, <3>2 DEF record
    <3>3. CASE ledger' = new
      <4>1. new[case].state = "reserved" /\ \A k \in Cases \ {case} : new[k] = ledger[k]
        BY <2>1 DEF IndInv, Types, LedgerTypes
      <4> HIDE DEF new
      <4>2. record'[case] = "claimed" /\ \A k \in Cases \ {case} : record'[k] = record[k]
        BY <2>1, <3>3, <4>1 DEF record, Said
      <4> QED
        BY <3>1, <4>2 DEF record
    <3> QED
      BY <2>2, <3>2, <3>3
  <2> QED
    BY <2>1, <2>3, EntryMove
<1>3. CASE markSending
  <2>1. case \in Cases /\ ledger[case].state = "reserved" /\ UNCHANGED wire
    BY <1>3 DEF markSending, case, IndInv, DeliveryOK, Delivering
  <2>2. "sending" \in States /\ ledger' \in {ledger, entered("sending")}
    BY <1>3 DEF markSending, writeLedger, writeFails, States
  <2>3. record[case] = "claimed" /\ Said("sending") = "sending"
    BY <2>1 DEF record, Said
  <2>4. record' = record \/ record' = [record EXCEPT ![case] = "sending"]
    BY <2>1, <2>2, <2>3, EnteredIs
  <2> QED
    BY <2>1, <2>3, <2>4, EntryMove
<1>4. CASE sendOnce
  <2>1. CASE UNCHANGED wire
    BY <1>4, <2>1, NoMove DEF sendOnce
  <2>2. CASE wire' = [wire EXCEPT ![case] = "invoked"]
    <3>1. case \in Cases /\ ledger[case].state = "sending" /\ wire[case] = "none" /\ UNCHANGED ledger
      BY <1>4 DEF sendOnce, case, IndInv, DeliveryOK, Delivering
    <3>2. record[case] = "sending" /\ UNCHANGED record
      BY <3>1 DEF record, Said
    <3>3. Ledger!Invoke(case)
      BY <2>2, <3>1, <3>2 DEF Ledger!Invoke, record
    <3> QED
      BY <3>1, <3>3 DEF LedgerStep, Ledger!Next
  <2> QED
    BY <1>4, <2>1, <2>2 DEF sendOnce
<1>5. CASE settle
  <2>1. /\ case \in Cases /\ ledger[case].state \in {"reserved", "sending"} /\ UNCHANGED wire
        /\ obs.verdict \in {"verified", "not-sent", "unknown"}
        /\ obs.verdict = "not-sent" => wire[case] = "none"
        /\ obs.verdict = "verified" => wire[case] = "done" /\ ledger[case].state = "sending"
    BY <1>5 DEF settle, case, IndInv, DeliveryOK, Delivering, Types, StepTypes, StepRecords
  <2>2. obs.verdict \in States /\ ledger' \in {ledger, entered(obs.verdict)}
    BY <1>5, <2>1 DEF settle, verdict, writeLedger, writeFails, States
  <2>3. record' = record \/ record' = [record EXCEPT ![case] = Said(obs.verdict)]
    BY <2>1, <2>2, EnteredIs
  <2>4. /\ record[case] \in {"claimed", "sending"} /\ Said(obs.verdict) \in {"verified", "unknown", "refused"}
        /\ Said(obs.verdict) = "verified" => record[case] = "sending" /\ wire[case] = "done"
        /\ Said(obs.verdict) = "refused" => wire[case] = "none"
    BY <2>1 DEF record, Said
  <2> QED
    BY <2>1, <2>3, <2>4, EntryMove
<1> QED
  BY <1>1, <1>2, <1>3, <1>4, <1>5 DEF Deliver

(* The outbox of deliver is a one-shot ledger: a case is claimed once, its *)
(* message handed to Telegram once and under its mark, and settled as it   *)
(* was; every other step, a restart in the middle included, leaves it be.  *)
THEOREM ImplementsLedger ==
  ASSUME AlertAssumption
  PROVE  Spec => LedgerStart /\ [][LedgerStep]_vars /\ Ledger!Spec
<1>1. Init => Ledger!Init
  BY DEF Init, Ledger!Init, Said
<1>2. IndInv /\ [Next]_vars => LedgerStep
  <2> SUFFICES ASSUME IndInv, [Next]_vars PROVE LedgerStep
    OBVIOUS
  <2> USE DEF policyState, outbox, rows, fine
  <2>1. CASE Deliver
    BY <2>1, DeliverIsALedgerStep
  <2>2. CASE Telegram
    <3>1. PICK k \in Cases : Happen(k)
      BY <2>2 DEF Telegram
    <3>2. Ledger!Happen(k)
      BY <3>1 DEF Happen, Ledger!Happen
    <3> QED
      BY <3>2 DEF LedgerStep, Ledger!Next
  <2>3. CASE Settings \/ policyChanged \/ Tick \/ close \/ Restart \/ UNCHANGED vars
    <3>1. UNCHANGED <<ledger, wire>>
      BY <2>3 DEF Settings, issue, update, policyChanged, Tick, close, Restart, vars
    <3> QED
      BY <3>1, NoMove
  <2>4. CASE step \/ reserveBatch \/ Assess \/ decide \/ finish
    <3>1. UNCHANGED <<ledger, wire>>
      BY <2>4 DEF step, reserveBatch, Assess, acquire, turn, release, closeOwned, join, decide, finish
    <3> QED
      BY <3>1, NoMove
  <2> QED
    BY <2>1, <2>2, <2>3, <2>4 DEF Next, Observer
<1>3. LedgerStep => [Ledger!Next]_(Ledger!vars)
  BY DEF LedgerStep
<1> QED
  BY <1>1, <1>2, <1>3, IndInvariant, PTL DEF Spec, Ledger!Spec, LedgerStart
=============================================================================
