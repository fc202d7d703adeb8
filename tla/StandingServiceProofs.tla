----------------------- MODULE StandingServiceProofs -----------------------
(***************************************************************************)
(* Theorems about the standing service, for every number of messages,      *)
(* crashes, restored checkpoints and reconnections: a message is answered  *)
(* once, the journal says what Telegram saw, the cursor is past a message  *)
(* before a turn is spent on it, and clients follow one another.           *)
(***************************************************************************)
EXTENDS StandingService, TLAPS

(* The type invariant, flag by flag.                                       *)
Journals == [Messages -> [question : {"none", "torn", "whole"}, admission : {"none", "torn", "whole"},
                          outcome : {"none", "torn"} \cup Outcomes]]
Places == {"down", "connect", "poll", "question", "checkpoint", "selected", "admission", "model", "turn",
           "compose", "dispatch", "sent", "outcome", "release", "closing", "joining", "ended"}
WorkTypes ==
  /\ sel \in 0..N /\ fresh \in BOOLEAN /\ tries \in 0..2
  /\ reply \in {"none", "answer", "deferred", "notice", "too large", "silence"}
  /\ verdict \in Outcomes \cup {"refused"}
OwnerTypes ==
  /\ pc \in Places /\ claims \subseteq Messages /\ client \in {"none", "live", "settled"}
  /\ lock \in BOOLEAN /\ reconnect \in BOOLEAN /\ blocked \in BOOLEAN /\ stopping \in BOOLEAN
  /\ failures \in 0..MaxReconnects
OutsideTypes ==
  /\ turns \in [Messages -> Nat] /\ sends \in [Messages -> Nat]
  /\ wire \in [Messages -> {"none", "invoked", "done"}]
BoundTypes == crashes \in 0..MaxCrashes /\ restores \in 0..MaxRestores
Types == cursor \in 0..N /\ journal \in Journals /\ WorkTypes /\ OwnerTypes /\ OutsideTypes /\ BoundTypes

(* The types, part by part, are the type invariant.                      *)
LEMMA TypesAreTypeOK == Types => TypeOK
BY DEF Types, TypeOK, Journals, Places, WorkTypes, OwnerTypes, OutsideTypes, BoundTypes

(* The steps in which the service works on a message.                      *)
Working == {"question", "checkpoint", "selected", "admission", "model", "turn", "compose",
            "dispatch", "sent", "outcome", "release"}

(* What the durable files keep of a message.  The admission is on disk     *)
(* before a turn begins, and never leaves it.                              *)
MessageOK(m) ==
  /\ turns[m] <= 1 /\ sends[m] <= 1
  /\ journal[m].question = "none" => journal[m].admission = "none"
  /\ journal[m].admission = "none" => turns[m] = 0 /\ sends[m] = 0
  /\ wire[m] = "none" <=> sends[m] = 0
  /\ journal[m].outcome = "not-sent" => wire[m] = "none"
  /\ journal[m].outcome = "verified" => wire[m] = "done"
  /\ restores = 0 /\ turns[m] > 0 => m <= cursor

(* What the service may rely on at each of its awaits.                     *)
SelectionOK ==
  /\ pc \in Working => sel \in Messages
  /\ pc \in {"question", "checkpoint"} => cursor < sel
  /\ pc \in {"selected", "admission", "model"} => sel <= cursor
  /\ pc \in {"checkpoint", "selected", "admission"} => journal[sel].question = "whole"
  /\ pc \in {"checkpoint", "selected"} /\ fresh => journal[sel].admission = "none"
  /\ pc = "model" => turns[sel] = 0
  /\ pc \in {"model", "turn", "compose", "dispatch"} =>
       journal[sel].admission # "none" /\ journal[sel].outcome = "none" /\ sends[sel] = 0
  /\ pc = "outcome" /\ verdict \in {"not-sent", "refused"} => wire[sel] = "none"
  /\ pc = "outcome" /\ verdict = "verified" => wire[sel] = "done"

(* A client is created only where the one before it is settled.            *)
ClientOK ==
  /\ pc = "down" => client = "none"
  /\ pc = "connect" => client \in {"none", "settled"}

IndInv == Types /\ (\A m \in Messages : MessageOK(m)) /\ SelectionOK /\ ClientOK

-----------------------------------------------------------------------------
(* Steps that write nothing down and send nothing                          *)

Quiet == UNCHANGED <<cursor, journal, turns, sends, wire, restores, crashes>>

(* A step that writes no file and asks nobody keeps what is known of every message. *)
LEMMA QuietKeeps ==
  ASSUME IndInv, Quiet
  PROVE  /\ \A m \in Messages : MessageOK(m)'
         /\ cursor' \in 0..N /\ journal' \in Journals /\ OutsideTypes' /\ BoundTypes'
BY DEF IndInv, MessageOK, Quiet, Types, OutsideTypes, BoundTypes

(* The process, its lock and its clients.                                  *)
LEMMA ProcessStep ==
  ASSUME IndInv, BoundsAssumption, acquireLock \/ connect \/ connectFails \/ settleClient \/ joinOwners \/ Reconnect \/ releaseLock
  PROVE  IndInv'
<1> USE DEF leave, again, refuse, go, decline, mayReconnect, goesOn, durable, work, outside, bounds, flags
<1>1. Quiet
  BY DEF Quiet, acquireLock, connect, connectFails, settleClient, joinOwners, Reconnect, releaseLock
<1>2. WorkTypes'
  <2>1. CASE acquireLock
    BY <2>1 DEF IndInv, Types, WorkTypes, OwnerTypes, Outcomes, BoundsAssumption, acquireLock
  <2>2. CASE connect
    BY <2>2 DEF IndInv, Types, WorkTypes, OwnerTypes, Outcomes, BoundsAssumption, connect
  <2>3. CASE connectFails
    BY <2>3 DEF IndInv, Types, WorkTypes, OwnerTypes, Outcomes, BoundsAssumption, connectFails
  <2>4. CASE settleClient
    BY <2>4 DEF IndInv, Types, WorkTypes, OwnerTypes, Outcomes, BoundsAssumption, settleClient
  <2>5. CASE joinOwners
    <3>1. sel' = 0 /\ fresh' \in BOOLEAN /\ tries' = 0 /\ reply' = "none" /\ verdict' = "not-sent"
      BY <2>5 DEF joinOwners
    <3> QED
      BY <3>1 DEF WorkTypes, Outcomes, BoundsAssumption
  <2>6. CASE Reconnect
    BY <2>6 DEF IndInv, Types, WorkTypes, OwnerTypes, Outcomes, BoundsAssumption, Reconnect
  <2>7. CASE releaseLock
    BY <2>7 DEF IndInv, Types, WorkTypes, OwnerTypes, Outcomes, BoundsAssumption, releaseLock
  <2> QED
    BY <2>1, <2>2, <2>3, <2>4, <2>5, <2>6, <2>7
<1>3. OwnerTypes'
  <2>1. CASE acquireLock
    BY <2>1 DEF IndInv, Types, OwnerTypes, Places, acquireLock
  <2>2. CASE connect
    BY <2>2 DEF IndInv, Types, OwnerTypes, Places, connect
  <2>3. CASE connectFails
    BY <2>3 DEF IndInv, Types, OwnerTypes, Places, connectFails
  <2>4. CASE settleClient
    BY <2>4 DEF IndInv, Types, OwnerTypes, Places, settleClient
  <2>5. CASE joinOwners
    BY <2>5 DEF IndInv, Types, OwnerTypes, Places, joinOwners
  <2>6. CASE Reconnect
    BY <2>6 DEF IndInv, Types, OwnerTypes, Places, BoundsAssumption, Reconnect
  <2>7. CASE releaseLock
    <3>1. /\ pc' = "down" /\ client' = "none" /\ claims' = {} /\ failures' = 0
          /\ reconnect' \in BOOLEAN /\ blocked' \in BOOLEAN /\ stopping' \in BOOLEAN
      BY <2>7 DEF releaseLock
    <3>2. lock' \in BOOLEAN
      BY <2>7 DEF releaseLock
    <3> QED
      BY <3>1, <3>2 DEF OwnerTypes, Places, BoundsAssumption
  <2> QED
    BY <2>1, <2>2, <2>3, <2>4, <2>5, <2>6, <2>7
<1>4. SelectionOK'
  <2>1. CASE acquireLock
    BY <1>1, <2>1 DEF IndInv, SelectionOK, Working, Quiet, acquireLock
  <2>2. CASE connect
    BY <1>1, <2>2 DEF IndInv, SelectionOK, Working, Quiet, connect
  <2>3. CASE connectFails
    BY <1>1, <2>3 DEF IndInv, SelectionOK, Working, Quiet, connectFails
  <2>4. CASE settleClient
    BY <1>1, <2>4 DEF IndInv, SelectionOK, Working, Quiet, settleClient
  <2>5. CASE joinOwners
    BY <1>1, <2>5 DEF IndInv, SelectionOK, Working, Quiet, joinOwners
  <2>6. CASE Reconnect
    BY <1>1, <2>6 DEF IndInv, SelectionOK, Working, Quiet, Reconnect
  <2>7. CASE releaseLock
    BY <1>1, <2>7 DEF IndInv, SelectionOK, Working, Quiet, releaseLock
  <2> QED
    BY <2>1, <2>2, <2>3, <2>4, <2>5, <2>6, <2>7
<1>5. ClientOK'
  <2>1. CASE acquireLock
    BY <2>1 DEF IndInv, ClientOK, acquireLock
  <2>2. CASE connect
    BY <2>2 DEF IndInv, ClientOK, connect
  <2>3. CASE connectFails
    BY <2>3 DEF IndInv, ClientOK, connectFails
  <2>4. CASE settleClient
    BY <2>4 DEF IndInv, ClientOK, settleClient
  <2>5. CASE joinOwners
    BY <2>5 DEF IndInv, ClientOK, joinOwners
  <2>6. CASE Reconnect
    BY <2>6 DEF IndInv, ClientOK, Reconnect
  <2>7. CASE releaseLock
    BY <2>7 DEF IndInv, ClientOK, releaseLock
  <2> QED
    BY <2>1, <2>2, <2>3, <2>4, <2>5, <2>6, <2>7
<1> QED
  BY <1>1, <1>2, <1>3, <1>4, <1>5, QuietKeeps DEF IndInv, Types

(* The service waits, gives up or goes on with what it has.                *)
LEMMA WaitStep ==
  ASSUME IndInv, BoundsAssumption, pollFails \/ selected \/ inputTooLarge \/ turnCompleted \/ turnFailed
  PROVE  IndInv'
<1> USE DEF leave, again, refuse, go, decline, mayReconnect, goesOn, durable, work, outside, bounds, flags
<1>1. Quiet
  BY DEF Quiet, pollFails, selected, inputTooLarge, turnCompleted, turnFailed
<1>2. WorkTypes'
  <2>1. CASE pollFails
    BY <2>1 DEF IndInv, Types, WorkTypes, OwnerTypes, Outcomes, BoundsAssumption, pollFails
  <2>2. CASE selected
    BY <2>2 DEF IndInv, Types, WorkTypes, OwnerTypes, Outcomes, BoundsAssumption, selected
  <2>3. CASE inputTooLarge
    BY <2>3 DEF IndInv, Types, WorkTypes, OwnerTypes, Outcomes, BoundsAssumption, inputTooLarge
  <2>4. CASE turnCompleted
    BY <2>4 DEF IndInv, Types, WorkTypes, OwnerTypes, Outcomes, BoundsAssumption, turnCompleted
  <2>5. CASE turnFailed
    BY <2>5 DEF IndInv, Types, WorkTypes, OwnerTypes, Outcomes, BoundsAssumption, turnFailed
  <2> QED
    BY <2>1, <2>2, <2>3, <2>4, <2>5
<1>3. OwnerTypes'
  <2>1. CASE pollFails
    BY <2>1 DEF IndInv, Types, OwnerTypes, Places, pollFails
  <2>2. CASE selected
    BY <2>2 DEF IndInv, Types, OwnerTypes, Places, selected
  <2>3. CASE inputTooLarge
    BY <2>3 DEF IndInv, Types, OwnerTypes, Places, inputTooLarge
  <2>4. CASE turnCompleted
    BY <2>4 DEF IndInv, Types, OwnerTypes, Places, turnCompleted
  <2>5. CASE turnFailed
    BY <2>5 DEF IndInv, Types, OwnerTypes, Places, turnFailed
  <2> QED
    BY <2>1, <2>2, <2>3, <2>4, <2>5
<1>4. SelectionOK'
  <2>1. CASE pollFails
    BY <1>1, <2>1 DEF IndInv, SelectionOK, Working, Quiet, pollFails
  <2>2. CASE selected
    BY <1>1, <2>2 DEF IndInv, SelectionOK, Working, MessageOK, Quiet, selected
  <2>3. CASE inputTooLarge
    BY <1>1, <2>3 DEF IndInv, SelectionOK, Working, Quiet, inputTooLarge
  <2>4. CASE turnCompleted
    BY <1>1, <2>4 DEF IndInv, SelectionOK, Working, Quiet, turnCompleted
  <2>5. CASE turnFailed
    BY <1>1, <2>5 DEF IndInv, SelectionOK, Working, Quiet, turnFailed
  <2> QED
    BY <2>1, <2>2, <2>3, <2>4, <2>5
<1>5. ClientOK'
  <2>1. CASE pollFails
    BY <2>1 DEF IndInv, ClientOK, pollFails
  <2>2. CASE selected
    BY <2>2 DEF IndInv, ClientOK, selected
  <2>3. CASE inputTooLarge
    BY <2>3 DEF IndInv, ClientOK, inputTooLarge
  <2>4. CASE turnCompleted
    BY <2>4 DEF IndInv, ClientOK, turnCompleted
  <2>5. CASE turnFailed
    BY <2>5 DEF IndInv, ClientOK, turnFailed
  <2> QED
    BY <2>1, <2>2, <2>3, <2>4, <2>5
<1> QED
  BY <1>1, <1>2, <1>3, <1>4, <1>5, QuietKeeps DEF IndInv, Types

(* A verdict is drawn from what Telegram answered.                         *)
LEMMA VerdictStep ==
  ASSUME IndInv, BoundsAssumption, compose \/ delivered \/ release \/ Stop \/ ReconcileLock
  PROVE  IndInv'
<1> USE DEF leave, again, refuse, go, decline, mayReconnect, goesOn, durable, work, outside, bounds, flags
<1>1. Quiet
  BY DEF Quiet, compose, delivered, release, Stop, ReconcileLock
<1>2. WorkTypes'
  <2>1. CASE compose
    BY <2>1 DEF IndInv, Types, WorkTypes, OwnerTypes, Outcomes, BoundsAssumption, compose
  <2>2. CASE delivered
    BY <2>2 DEF IndInv, Types, WorkTypes, OwnerTypes, Outcomes, BoundsAssumption, delivered
  <2>3. CASE release
    <3>1. sel' = 0 /\ fresh' \in BOOLEAN /\ tries' = 0 /\ reply' = "none" /\ verdict' = "not-sent"
      BY <2>3 DEF release
    <3> QED
      BY <3>1 DEF WorkTypes, Outcomes, BoundsAssumption
  <2>4. CASE Stop
    BY <2>4 DEF IndInv, Types, WorkTypes, OwnerTypes, Outcomes, BoundsAssumption, Stop
  <2>5. CASE ReconcileLock
    BY <2>5 DEF IndInv, Types, WorkTypes, OwnerTypes, Outcomes, BoundsAssumption, ReconcileLock
  <2> QED
    BY <2>1, <2>2, <2>3, <2>4, <2>5
<1>3. OwnerTypes'
  <2>1. CASE compose
    BY <2>1 DEF IndInv, Types, OwnerTypes, Places, compose
  <2>2. CASE delivered
    BY <2>2 DEF IndInv, Types, OwnerTypes, Places, delivered
  <2>3. CASE release
    BY <2>3 DEF IndInv, Types, OwnerTypes, Places, release
  <2>4. CASE Stop
    BY <2>4 DEF IndInv, Types, OwnerTypes, Places, Stop
  <2>5. CASE ReconcileLock
    BY <2>5 DEF IndInv, Types, OwnerTypes, Places, ReconcileLock
  <2> QED
    BY <2>1, <2>2, <2>3, <2>4, <2>5
<1>4. SelectionOK'
  <2>1. CASE compose
    BY <1>1, <2>1 DEF IndInv, SelectionOK, Working, MessageOK, Quiet, compose
  <2>2. CASE delivered
    BY <1>1, <2>2 DEF IndInv, SelectionOK, Working, Quiet, delivered
  <2>3. CASE release
    BY <1>1, <2>3 DEF IndInv, SelectionOK, Working, Quiet, release
  <2>4. CASE Stop
    BY <1>1, <2>4 DEF IndInv, SelectionOK, Working, Quiet, Stop
  <2>5. CASE ReconcileLock
    BY <1>1, <2>5 DEF IndInv, SelectionOK, Working, Quiet, ReconcileLock
  <2> QED
    BY <2>1, <2>2, <2>3, <2>4, <2>5
<1>5. ClientOK'
  <2>1. CASE compose
    BY <2>1 DEF IndInv, ClientOK, compose
  <2>2. CASE delivered
    BY <2>2 DEF IndInv, ClientOK, delivered
  <2>3. CASE release
    BY <2>3 DEF IndInv, ClientOK, release
  <2>4. CASE Stop
    BY <2>4 DEF IndInv, ClientOK, Stop
  <2>5. CASE ReconcileLock
    BY <2>5 DEF IndInv, ClientOK, ReconcileLock
  <2> QED
    BY <2>1, <2>2, <2>3, <2>4, <2>5
<1> QED
  BY <1>1, <1>2, <1>3, <1>4, <1>5, QuietKeeps DEF IndInv, Types

-----------------------------------------------------------------------------
(* Steps that move the cursor                                              *)

(* The cursor is polled, written, or put back by an operator.            *)
LEMMA CursorStep ==
  ASSUME IndInv, BoundsAssumption, pollOne \/ checkpointCursor \/ RestoreCheckpoint
  PROVE  IndInv'
<1> USE DEF refuse, go, durable, work, outside, bounds, flags
<1>0. CASE pollOne
  <2>1. PICK m \in Messages :
          /\ m > cursor
          /\ \/ sel' = m /\ pc' = "question" /\ UNCHANGED cursor
             \/ cursor' = m /\ UNCHANGED <<pc, sel>>
    BY <1>0 DEF pollOne
  <2>2. /\ pc = "poll" /\ m \in 0..N /\ cursor \in 0..N /\ sel \in 0..N /\ N \in Nat
        /\ UNCHANGED <<journal, lock, fresh, tries, reply, verdict, claims, client, reconnect, blocked,
                       failures, stopping, turns, sends, wire, crashes, restores>>
    <3>1. m \in 0..N /\ N \in Nat
      BY DEF Messages, BoundsAssumption
    <3>2. cursor \in 0..N /\ sel \in 0..N
      BY DEF IndInv, Types, WorkTypes
    <3> QED
      BY <1>0, <3>1, <3>2 DEF pollOne
  <2>3. cursor' \in 0..N /\ cursor <= cursor' /\ sel' \in 0..N
    <3>1. CASE sel' = m /\ cursor' = cursor
      BY <2>2, <3>1
    <3>2. CASE cursor' = m /\ sel' = sel
      BY <2>1, <2>2, <3>2
    <3> QED
      BY <2>1, <3>1, <3>2
  <2>4. ASSUME NEW k \in Messages PROVE MessageOK(k)'
    BY <2>2, <2>3 DEF IndInv, MessageOK, Messages, BoundsAssumption
  <2>5. pc' \in {"poll", "question"} /\ pc' \in Places
    BY <2>1, <2>2 DEF Places
  <2>6. WorkTypes' /\ OwnerTypes'
    BY <2>2, <2>3, <2>5 DEF IndInv, Types, WorkTypes, OwnerTypes
  <2>7. SelectionOK'
    BY <2>1, <2>2, <2>5 DEF SelectionOK, Working
  <2>8. ClientOK'
    BY <2>5 DEF ClientOK
  <2> QED
    BY <2>2, <2>3, <2>4, <2>6, <2>7, <2>8 DEF IndInv, Types, OutsideTypes, BoundTypes
<1> SUFFICES ASSUME checkpointCursor \/ RestoreCheckpoint PROVE IndInv'
  BY <1>0
<1>1. /\ UNCHANGED <<journal, turns, sends, wire, crashes>>
      /\ cursor' \in 0..N /\ restores' \in 0..MaxRestores
      /\ restores' = 0 => restores = 0 /\ cursor <= cursor'
  <2>2. CASE checkpointCursor
    <3>1. /\ sel \in 0..N /\ cursor \in 0..N /\ restores \in 0..MaxRestores /\ cursor < sel
          /\ UNCHANGED <<journal, turns, sends, wire, crashes, restores>>
      BY <2>2 DEF checkpointCursor, IndInv, Types, BoundTypes, WorkTypes, SelectionOK
    <3>2. cursor' = sel \/ cursor' = cursor
      BY <2>2 DEF checkpointCursor
    <3> QED
      BY <3>1, <3>2 DEF BoundsAssumption
  <2>3. CASE RestoreCheckpoint
    <3>1. restores \in 0..MaxRestores /\ restores < MaxRestores /\ restores' = restores + 1
      BY <2>3 DEF RestoreCheckpoint, IndInv, Types, BoundTypes
    <3>2. restores' \in 0..MaxRestores /\ restores' # 0
      BY <3>1 DEF BoundsAssumption
    <3> QED
      BY <2>3, <3>2 DEF RestoreCheckpoint
  <2> QED
    BY <2>2, <2>3
<1>2. ASSUME NEW m \in Messages PROVE MessageOK(m)'
  BY <1>1 DEF IndInv, Types, MessageOK, Messages, BoundsAssumption
<1>3. WorkTypes' /\ OwnerTypes'
  <2>2. CASE checkpointCursor
    BY <2>2 DEF checkpointCursor, IndInv, Types, WorkTypes, OwnerTypes, Places
  <2>3. CASE RestoreCheckpoint
    BY <2>3 DEF RestoreCheckpoint, IndInv, Types, WorkTypes, OwnerTypes
  <2> QED
    BY <2>2, <2>3
<1>4. SelectionOK'
  <2>2. CASE checkpointCursor
    <3>1. pc = "checkpoint" /\ sel \in Messages /\ UNCHANGED <<sel, journal, fresh>>
          /\ journal[sel].question = "whole" /\ (fresh => journal[sel].admission = "none")
      BY <2>2 DEF checkpointCursor, IndInv, SelectionOK, Working
    <3>2. CASE cursor' = sel /\ pc' = "selected"
      BY <3>1, <3>2 DEF SelectionOK, Working, Messages, BoundsAssumption
    <3>3. CASE pc' = "closing"
      BY <3>3 DEF SelectionOK, Working
    <3> QED
      BY <2>2, <3>2, <3>3 DEF checkpointCursor
  <2>3. CASE RestoreCheckpoint
    BY <1>1, <2>3 DEF RestoreCheckpoint, IndInv, SelectionOK, Working
  <2> QED
    BY <2>2, <2>3
<1>5. ClientOK'
  BY DEF checkpointCursor, RestoreCheckpoint, IndInv, ClientOK
<1> QED
  BY <1>1, <1>2, <1>3, <1>4, <1>5 DEF IndInv, Types, OutsideTypes, BoundTypes

-----------------------------------------------------------------------------
(* Steps that write to the journal                                         *)

(* One file of the selected message is written; the others stay.           *)
LEMMA Written ==
  ASSUME journal \in Journals, sel \in Messages, NEW f \in {"question", "admission", "outcome"}, NEW v,
         v \in (IF f = "outcome" THEN {"none", "torn"} \cup Outcomes ELSE {"none", "torn", "whole"}),
         put(f, v)
  PROVE  /\ journal' \in Journals
         /\ \A m \in Messages \ {sel} : journal'[m] = journal[m]
         /\ journal'[sel].question = IF f = "question" THEN v ELSE journal[sel].question
         /\ journal'[sel].admission = IF f = "admission" THEN v ELSE journal[sel].admission
         /\ journal'[sel].outcome = IF f = "outcome" THEN v ELSE journal[sel].outcome
<1> DEFINE d == journal[sel]
           e == [d EXCEPT ![f] = v]
           Record == [question : {"none", "torn", "whole"}, admission : {"none", "torn", "whole"},
                      outcome : {"none", "torn"} \cup Outcomes]
<1>1. journal' = [journal EXCEPT ![sel] = e]
  BY DEF put
<1>2. d \in Record
  BY DEF Journals
<1>3. /\ e \in Record
      /\ e.question = IF f = "question" THEN v ELSE d.question
      /\ e.admission = IF f = "admission" THEN v ELSE d.admission
      /\ e.outcome = IF f = "outcome" THEN v ELSE d.outcome
  <2>1. CASE f = "question"
    BY <1>2, <2>1
  <2>2. CASE f = "admission"
    BY <1>2, <2>2
  <2>3. CASE f = "outcome"
    BY <1>2, <2>3
  <2> QED
    BY <2>1, <2>2, <2>3
<1> HIDE DEF e, Record
<1>4. journal \in [Messages -> Record]
  BY DEF Journals, Record
<1>5. journal' \in [Messages -> Record]
  BY <1>1, <1>3, <1>4
<1> QED
  BY <1>1, <1>3, <1>4, <1>5 DEF Journals, Record

(* The others' clauses are not about the selected message.                 *)
LEMMA WrittenKeeps ==
  ASSUME IndInv, NEW k \in Messages, \A m \in Messages \ {k} : journal'[m] = journal[m],
         UNCHANGED <<cursor, turns, sends, wire, restores>>, MessageOK(k)'
  PROVE  \A m \in Messages : MessageOK(m)'
<1> SUFFICES ASSUME NEW m \in Messages \ {k} PROVE MessageOK(m)'
  OBVIOUS
<1>1. MessageOK(m) /\ journal'[m] = journal[m]
  BY DEF IndInv
<1> QED
  BY <1>1 DEF MessageOK

(* The question is written.                                              *)
LEMMA QuestionStep ==
  ASSUME IndInv, BoundsAssumption, recordQuestion
  PROVE  IndInv'
<1> USE DEF refuse, go, durable, work, outside, bounds, flags
<1>1. /\ pc = "question" /\ sel \in Messages /\ cursor < sel /\ journal \in Journals
      /\ UNCHANGED <<cursor, sel, turns, sends, wire, restores, crashes, verdict, client, tries, reply>>
  BY DEF recordQuestion, IndInv, SelectionOK, Working, Types
<1>2. CASE /\ journal[sel].question = "none" /\ put("question", "whole")
           /\ fresh' = TRUE /\ claims' = claims \cup {sel} /\ pc' = "checkpoint"
           /\ UNCHANGED <<blocked, reconnect>>
  <2>1. /\ journal' \in Journals /\ (\A m \in Messages \ {sel} : journal'[m] = journal[m])
        /\ journal'[sel].question = "whole" /\ journal'[sel].admission = journal[sel].admission
        /\ journal'[sel].outcome = journal[sel].outcome
    BY <1>1, <1>2, Written
  <2> PICK k \in Messages : k = sel
    BY <1>1
  <2>2. MessageOK(k)' /\ journal'[sel].admission = "none"
    BY <1>1, <1>2, <2>1 DEF IndInv, MessageOK
  <2>3. \A m \in Messages : MessageOK(m)'
    BY <1>1, <2>1, <2>2, WrittenKeeps
  <2>4. SelectionOK'
    BY <1>1, <1>2, <2>1, <2>2 DEF SelectionOK, Working
  <2>5. WorkTypes' /\ OwnerTypes'
    <3>1. fresh' \in BOOLEAN
      BY <1>2
    <3> QED
      BY <1>1, <1>2, <3>1 DEF IndInv, Types, WorkTypes, OwnerTypes, Places, recordQuestion
  <2>6. ClientOK'
    BY <1>1, <1>2 DEF ClientOK
  <2> QED
    BY <1>1, <2>1, <2>3, <2>4, <2>5, <2>6 DEF IndInv, Types, OutsideTypes, BoundTypes
<1>3. CASE UNCHANGED journal
  <2>1. Quiet
    BY <1>1, <1>3 DEF Quiet
  <2>2. CASE fresh' = FALSE /\ pc' = "checkpoint" /\ UNCHANGED <<claims, blocked, reconnect>>
             /\ journal[sel].question = "whole"
    <3>1. fresh' \in BOOLEAN
      BY <2>2
    <3>2. WorkTypes' /\ OwnerTypes' /\ SelectionOK' /\ ClientOK'
      BY <1>1, <1>3, <2>2, <3>1 DEF IndInv, Types, WorkTypes, OwnerTypes, Places, SelectionOK, Working,
                                    ClientOK, recordQuestion
    <3> QED
      BY <2>1, <3>2, QuietKeeps DEF IndInv, Types
  <2>3. CASE refuse /\ UNCHANGED <<fresh, claims>>
    <3>1. WorkTypes' /\ OwnerTypes'
      BY <1>1, <2>3 DEF IndInv, Types, WorkTypes, OwnerTypes, Places, recordQuestion
    <3>2. SelectionOK' /\ ClientOK'
      BY <1>1, <2>3 DEF SelectionOK, Working, ClientOK
    <3> QED
      BY <2>1, <3>1, <3>2, QuietKeeps DEF IndInv, Types
  <2>4. CASE journal' # journal
    BY <1>3, <2>4
  <2> QED
    BY <1>2, <1>3, <2>2, <2>3 DEF recordQuestion
<1> QED
  BY <1>2, <1>3 DEF recordQuestion

(* The admission to the model is written.                                *)
LEMMA AdmissionStep ==
  ASSUME IndInv, BoundsAssumption, recordModelAdmission
  PROVE  IndInv'
<1> USE DEF refuse, again, go, durable, work, outside, bounds, flags
<1>1. /\ pc = "admission" /\ sel \in Messages /\ sel <= cursor /\ journal \in Journals
      /\ journal[sel].question = "whole"
      /\ UNCHANGED <<cursor, lock, sel, fresh, client, failures, stopping, turns, sends, wire, restores, crashes>>
  BY DEF recordModelAdmission, IndInv, SelectionOK, Working, Types
<1>2. CASE /\ unclaimed(sel)
           /\ put("admission", "whole") /\ claims' = claims \cup {sel}
           /\ reply' = "none" /\ verdict' = "not-sent" /\ tries' = 0
           /\ pc' = IF stopping THEN "outcome" ELSE "model"
           /\ UNCHANGED <<blocked, reconnect>>
  <2>1. /\ journal' \in Journals /\ (\A m \in Messages \ {sel} : journal'[m] = journal[m])
        /\ journal'[sel].question = journal[sel].question /\ journal'[sel].admission = "whole"
        /\ journal'[sel].outcome = journal[sel].outcome
    BY <1>1, <1>2, Written
  <2> PICK k \in Messages : k = sel
    BY <1>1
  <2>2. /\ MessageOK(k) /\ journal[k].admission = "none" /\ journal[k].outcome = "none"
        /\ turns[k] = 0 /\ sends[k] = 0 /\ wire[k] = "none"
    BY <1>2 DEF unclaimed, IndInv, MessageOK
  <2>3. MessageOK(k)'
    BY <1>1, <2>1, <2>2 DEF MessageOK
  <2>4. \A m \in Messages : MessageOK(m)'
    BY <1>1, <2>1, <2>3, WrittenKeeps
  <2>5. SelectionOK'
    BY <1>1, <1>2, <2>1, <2>2 DEF SelectionOK, Working
  <2>6. WorkTypes' /\ OwnerTypes'
    <3>1. /\ sel \in 0..N /\ fresh \in BOOLEAN /\ claims \subseteq Messages
          /\ client \in {"none", "live", "settled"} /\ lock \in BOOLEAN /\ reconnect \in BOOLEAN
          /\ blocked \in BOOLEAN /\ stopping \in BOOLEAN /\ failures \in 0..MaxReconnects
      BY DEF IndInv, Types, WorkTypes, OwnerTypes
    <3>2. WorkTypes'
      BY <1>1, <1>2, <3>1 DEF WorkTypes, Outcomes
    <3>3. pc' \in Places
      BY <1>2 DEF Places
    <3>4. claims' \subseteq Messages
      BY <1>1, <1>2, <3>1
    <3> QED
      BY <1>1, <1>2, <3>1, <3>2, <3>3, <3>4 DEF OwnerTypes
  <2>7. ClientOK'
    BY <1>1, <1>2 DEF ClientOK
  <2> QED
    BY <1>1, <2>1, <2>4, <2>5, <2>6, <2>7 DEF IndInv, Types, OutsideTypes, BoundTypes
<1>3. CASE UNCHANGED <<journal, reply, verdict, tries>> /\ pc' = "closing"
           /\ claims' \in {claims, claims \ {sel}} /\ reconnect' \in BOOLEAN /\ blocked' \in BOOLEAN
  <2>1. Quiet
    BY <1>1, <1>3 DEF Quiet
  <2>2. WorkTypes' /\ OwnerTypes'
    BY <1>1, <1>3 DEF IndInv, Types, WorkTypes, OwnerTypes, Places
  <2>3. SelectionOK' /\ ClientOK'
    BY <1>3 DEF SelectionOK, Working, ClientOK
  <2> QED
    BY <2>1, <2>2, <2>3, QuietKeeps DEF IndInv, Types
<1>4. CASE again /\ claims' = claims \ {sel} /\ UNCHANGED <<journal, reply, verdict, tries>>
  <2>1. reconnect' \in BOOLEAN /\ blocked' \in BOOLEAN
    BY <1>4 DEF IndInv, Types, OwnerTypes
  <2> QED
    BY <1>3, <1>4, <2>1
<1>5. CASE refuse /\ UNCHANGED <<journal, claims, reply, verdict, tries>>
  <2>1. reconnect' \in BOOLEAN /\ blocked' \in BOOLEAN
    BY <1>5 DEF IndInv, Types, OwnerTypes
  <2> QED
    BY <1>3, <1>5, <2>1
<1> QED
  BY <1>2, <1>4, <1>5 DEF recordModelAdmission

(* The outcome that is written is the verdict, which is true.              *)
LEMMA OutcomeStep ==
  ASSUME IndInv, BoundsAssumption, recordOutcome
  PROVE  IndInv'
<1> USE DEF refuse, again, go, durable, work, outside, bounds, flags
<1>1. /\ pc = "outcome" /\ sel \in Messages /\ journal \in Journals /\ verdict \in Outcomes \cup {"refused"}
      /\ claims' = claims \ {sel}
      /\ UNCHANGED <<cursor, lock, sel, fresh, tries, reply, verdict, client, failures, stopping,
                     turns, sends, wire, restores, crashes>>
  BY DEF recordOutcome, IndInv, SelectionOK, Working, Types, WorkTypes
<1>2. CASE put("outcome", Recorded[verdict]) /\ pc' = "release" /\ UNCHANGED <<blocked, reconnect>>
  <2>1. Recorded[verdict] = (IF verdict = "refused" THEN "not-sent" ELSE verdict)
        /\ Recorded[verdict] \in Outcomes
    BY <1>1 DEF Recorded, Outcomes
  <2>2. /\ journal' \in Journals /\ (\A m \in Messages \ {sel} : journal'[m] = journal[m])
        /\ journal'[sel].question = journal[sel].question
        /\ journal'[sel].admission = journal[sel].admission
        /\ journal'[sel].outcome = Recorded[verdict]
    BY <1>1, <1>2, <2>1, Written
  <2> PICK k \in Messages : k = sel
    BY <1>1
  <2>3. /\ MessageOK(k)
        /\ Recorded[verdict] = "not-sent" => wire[k] = "none"
        /\ Recorded[verdict] = "verified" => wire[k] = "done"
    BY <1>1, <2>1 DEF IndInv, SelectionOK
  <2>4. MessageOK(k)'
    BY <1>1, <2>2, <2>3 DEF MessageOK
  <2>5. \A m \in Messages : MessageOK(m)'
    BY <1>1, <2>2, <2>4, WrittenKeeps
  <2>6. SelectionOK' /\ ClientOK'
    BY <1>1, <1>2 DEF SelectionOK, Working, ClientOK
  <2>7. WorkTypes' /\ OwnerTypes'
    BY <1>1, <1>2 DEF IndInv, Types, WorkTypes, OwnerTypes, Places
  <2> QED
    BY <1>1, <2>2, <2>5, <2>6, <2>7 DEF IndInv, Types, OutsideTypes, BoundTypes
<1>3. CASE UNCHANGED journal /\ refuse
  <2>1. Quiet
    BY <1>1, <1>3 DEF Quiet
  <2>2. reconnect' \in BOOLEAN /\ blocked' \in BOOLEAN
    BY <1>3 DEF IndInv, Types, OwnerTypes
  <2>3. WorkTypes' /\ OwnerTypes'
    BY <1>1, <1>3, <2>2 DEF IndInv, Types, WorkTypes, OwnerTypes, Places
  <2>4. SelectionOK' /\ ClientOK'
    BY <1>3 DEF SelectionOK, Working, ClientOK
  <2> QED
    BY <2>1, <2>3, <2>4, QuietKeeps DEF IndInv, Types
<1> QED
  BY <1>2, <1>3 DEF recordOutcome

(* A crash may leave the file that was being written torn: an admission    *)
(* found torn is one that is spent.                                        *)
LEMMA CrashStep ==
  ASSUME IndInv, BoundsAssumption, Crash
  PROVE  IndInv'
<1> USE DEF go, durable, work, outside, bounds, flags
<1>1. /\ pc' = "down" /\ sel' = 0 /\ fresh' \in BOOLEAN /\ claims' = {} /\ tries' = 0
      /\ reply' = "none" /\ verdict' = "not-sent" /\ client' = "none"
      /\ reconnect' \in BOOLEAN /\ blocked' \in BOOLEAN /\ stopping' \in BOOLEAN /\ failures' = 0
      /\ UNCHANGED <<cursor, lock, turns, sends, wire, restores>>
  BY DEF Crash
<1>2. crashes' \in 0..MaxCrashes
  <2>1. crashes \in 0..MaxCrashes /\ crashes < MaxCrashes /\ crashes' = crashes + 1
    BY DEF Crash, IndInv, Types, BoundTypes
  <2> QED
    BY <2>1 DEF BoundsAssumption
<1>3. journal' \in Journals /\ \A m \in Messages : MessageOK(m)'
  <2>1. CASE UNCHANGED journal
    BY <1>1, <2>1 DEF IndInv, Types, MessageOK
  <2>2. CASE /\ pc \in DOMAIN WrittenAt /\ journal[sel][WrittenAt[pc]] = "none"
             /\ put(WrittenAt[pc], "torn")
    <3> DEFINE f == WrittenAt[pc]
    <3>1. /\ f \in {"question", "admission", "outcome"} /\ f = pc /\ journal[sel][f] = "none"
          /\ put(f, "torn") /\ pc \in Working
      BY <2>2 DEF WrittenAt, Working
    <3>2. sel \in Messages /\ journal \in Journals
      BY <3>1 DEF IndInv, SelectionOK, Types
    <3> HIDE DEF f
    <3>3. /\ journal' \in Journals /\ (\A m \in Messages \ {sel} : journal'[m] = journal[m])
          /\ journal'[sel].question = IF f = "question" THEN "torn" ELSE journal[sel].question
          /\ journal'[sel].admission = IF f = "admission" THEN "torn" ELSE journal[sel].admission
          /\ journal'[sel].outcome = IF f = "outcome" THEN "torn" ELSE journal[sel].outcome
      BY <3>1, <3>2, Written
    <3> PICK k \in Messages : k = sel
      BY <3>2
    <3>4. MessageOK(k) /\ (f = "admission" => journal[k].question = "whole")
      BY <3>1 DEF IndInv, SelectionOK
    <3>5. MessageOK(k)'
      BY <1>1, <3>1, <3>3, <3>4 DEF MessageOK
    <3> QED
      BY <1>1, <3>3, <3>5, WrittenKeeps
  <2> QED
    BY <2>1, <2>2 DEF Crash
<1>4. WorkTypes' /\ OwnerTypes'
  <2>1. 0 \in 0..N /\ 0 \in 0..2 /\ 0 \in 0..MaxReconnects
    BY DEF BoundsAssumption
  <2>2. WorkTypes'
    BY <1>1, <2>1 DEF WorkTypes, Outcomes
  <2>3. pc' \in Places /\ client' \in {"none", "live", "settled"} /\ claims' \subseteq Messages
    BY <1>1 DEF Places
  <2>4. lock' \in BOOLEAN
    BY <1>1 DEF IndInv, Types, OwnerTypes
  <2> QED
    BY <1>1, <2>1, <2>2, <2>3, <2>4 DEF OwnerTypes
<1>5. SelectionOK' /\ ClientOK'
  BY <1>1 DEF SelectionOK, Working, ClientOK
<1> QED
  BY <1>1, <1>2, <1>3, <1>4, <1>5 DEF IndInv, Types, OutsideTypes, BoundTypes

-----------------------------------------------------------------------------
(* The turn and the reply                                                  *)

(* A turn is begun for a message that had none, and the cursor is past it. *)
LEMMA TurnStep ==
  ASSUME IndInv, BoundsAssumption, turn
  PROVE  IndInv'
<1> USE DEF refuse, again, go, durable, work, outside, bounds, flags
<1>1. /\ pc = "model" /\ sel \in Messages /\ sel <= cursor /\ turns[sel] = 0
      /\ UNCHANGED <<cursor, journal, sel, sends, wire, restores, crashes, lock, fresh, reply, verdict, claims,
                     client, failures, stopping>>
  BY DEF turn, IndInv, SelectionOK, Working
<1>2. CASE ~stopping /\ turns' = [turns EXCEPT ![sel] = @ + 1] /\ pc' = "turn"
           /\ UNCHANGED <<tries, blocked, reconnect>>
  <2> PICK k \in Messages : k = sel
    BY <1>1
  <2>1. /\ turns' \in [Messages -> Nat] /\ turns'[k] = 1
        /\ \A m \in Messages \ {k} : turns'[m] = turns[m]
    BY <1>1, <1>2 DEF IndInv, Types, OutsideTypes
  <2>2. MessageOK(k) /\ journal[k].admission # "none"
    BY <1>1 DEF IndInv, SelectionOK
  <2>3. MessageOK(k)'
    BY <1>1, <2>1, <2>2 DEF MessageOK
  <2>4. ASSUME NEW m \in Messages \ {k} PROVE MessageOK(m)'
    BY <1>1, <2>1 DEF IndInv, MessageOK
  <2>5. WorkTypes' /\ OwnerTypes'
    BY <1>1, <1>2 DEF IndInv, Types, WorkTypes, OwnerTypes, Places
  <2>6. SelectionOK' /\ ClientOK'
    BY <1>1, <1>2 DEF IndInv, SelectionOK, Working, ClientOK
  <2> QED
    BY <1>1, <2>1, <2>3, <2>4, <2>5, <2>6 DEF IndInv, Types, OutsideTypes, BoundTypes
<1>3. CASE UNCHANGED turns
  <2>1. Quiet
    BY <1>1, <1>3 DEF Quiet
  <2>2. CASE tries < 1 /\ tries' = tries + 1 /\ UNCHANGED <<pc, blocked, reconnect>>
    <3>0. tries \in 0..2
      BY DEF IndInv, Types, WorkTypes
    <3>1. tries' \in 0..2
      BY <2>2, <3>0
    <3>2. WorkTypes' /\ OwnerTypes'
      BY <1>1, <2>2, <3>1 DEF IndInv, Types, WorkTypes, OwnerTypes
    <3>3. SelectionOK' /\ ClientOK'
      BY <1>1, <1>3, <2>2 DEF IndInv, SelectionOK, Working, ClientOK
    <3> QED
      BY <2>1, <3>2, <3>3, QuietKeeps DEF IndInv, Types
  <2>3. CASE (refuse \/ again) /\ UNCHANGED tries
    <3>1. WorkTypes' /\ OwnerTypes'
      BY <1>1, <2>3 DEF IndInv, Types, WorkTypes, OwnerTypes, Places
    <3>2. SelectionOK' /\ ClientOK'
      BY <2>3 DEF SelectionOK, Working, ClientOK
    <3> QED
      BY <2>1, <3>1, <3>2, QuietKeeps DEF IndInv, Types
  <2>4. CASE turns' # turns
    BY <1>3, <2>4
  <2> QED
    BY <1>2, <1>3, <2>2, <2>3 DEF turn
<1> QED
  BY <1>2, <1>3 DEF turn

(* A reply is handed to Telegram for a message that had none.              *)
LEMMA DispatchStep ==
  ASSUME IndInv, BoundsAssumption, dispatch
  PROVE  IndInv'
<1> USE DEF go, durable, work, outside, bounds, flags
<1>1. /\ pc = "dispatch" /\ sel \in Messages /\ journal[sel].outcome = "none"
      /\ journal[sel].admission # "none" /\ sends[sel] = 0
      /\ UNCHANGED <<cursor, journal, sel, turns, restores, crashes, lock, fresh, tries, reply, claims,
                     client, reconnect, blocked, failures, stopping>>
  BY DEF dispatch, IndInv, SelectionOK, Working
<1>2. CASE /\ sends' = [sends EXCEPT ![sel] = @ + 1] /\ wire' = [wire EXCEPT ![sel] = "invoked"]
           /\ pc' = "sent" /\ UNCHANGED verdict
  <2> PICK k \in Messages : k = sel
    BY <1>1
  <2>1. /\ sends' \in [Messages -> Nat] /\ sends'[k] = 1
        /\ \A m \in Messages \ {k} : sends'[m] = sends[m]
    BY <1>1, <1>2 DEF IndInv, Types, OutsideTypes
  <2>2. /\ wire' \in [Messages -> {"none", "invoked", "done"}] /\ wire'[k] = "invoked"
        /\ \A m \in Messages \ {k} : wire'[m] = wire[m]
    BY <1>1, <1>2 DEF IndInv, Types, OutsideTypes
  <2>3. MessageOK(k)
    BY DEF IndInv
  <2>4. MessageOK(k)'
    BY <1>1, <2>1, <2>2, <2>3 DEF MessageOK
  <2>5. ASSUME NEW m \in Messages \ {k} PROVE MessageOK(m)'
    BY <1>1, <2>1, <2>2 DEF IndInv, MessageOK
  <2>6. WorkTypes' /\ OwnerTypes'
    BY <1>1, <1>2 DEF IndInv, Types, WorkTypes, OwnerTypes, Places
  <2>7. SelectionOK' /\ ClientOK'
    BY <1>1, <1>2 DEF SelectionOK, Working, ClientOK
  <2> QED
    BY <1>1, <2>1, <2>2, <2>4, <2>5, <2>6, <2>7 DEF IndInv, Types, OutsideTypes, BoundTypes
<1>3. CASE verdict' \in {"not-sent", "refused"} /\ pc' = "outcome" /\ UNCHANGED <<sends, wire>>
  <2>1. Quiet
    BY <1>1, <1>3 DEF Quiet
  <2>2. WorkTypes' /\ OwnerTypes'
    BY <1>1, <1>3 DEF IndInv, Types, WorkTypes, OwnerTypes, Places, Outcomes
  <2>3. wire[sel] = "none"
    BY <1>1 DEF IndInv, MessageOK
  <2>4. SelectionOK' /\ ClientOK'
    BY <1>1, <1>3, <2>3 DEF SelectionOK, Working, ClientOK
  <2> QED
    BY <2>1, <2>2, <2>4, QuietKeeps DEF IndInv, Types
<1> QED
  BY <1>2, <1>3 DEF dispatch

(* What was handed to Telegram may still arrive, long after.               *)
LEMMA HappenStep ==
  ASSUME IndInv, NEW k \in Messages, Happen(k)
  PROVE  IndInv'
<1> USE DEF durable, work, outside, bounds, flags
<1>1. /\ wire' \in [Messages -> {"none", "invoked", "done"}] /\ wire[k] = "invoked" /\ wire'[k] = "done"
      /\ \A m \in Messages \ {k} : wire'[m] = wire[m]
  BY DEF Happen, IndInv, Types, OutsideTypes
<1>2. UNCHANGED <<cursor, journal, lock, pc, sel, fresh, tries, reply, verdict, claims, client, reconnect,
                  blocked, failures, stopping, turns, sends, crashes, restores>>
  BY DEF Happen
<1>3. ASSUME NEW m \in Messages PROVE MessageOK(m)'
  <2>1. CASE m = k
    BY <1>1, <1>2, <2>1 DEF IndInv, MessageOK
  <2>2. CASE m # k
    BY <1>1, <1>2, <2>2 DEF IndInv, MessageOK
  <2> QED
    BY <2>1, <2>2
<1>4. WorkTypes' /\ OwnerTypes' /\ ClientOK'
  BY <1>2 DEF IndInv, Types, WorkTypes, OwnerTypes, ClientOK
<1>5. SelectionOK'
  <2>1. \A m \in Messages : /\ wire[m] = "none" => wire'[m] = "none"
                            /\ wire[m] = "done" => wire'[m] = "done"
    BY <1>1
  <2>2. pc \in Working => sel \in Messages
    BY DEF IndInv, SelectionOK
  <2> QED
    BY <1>2, <2>1, <2>2 DEF IndInv, SelectionOK, Working
<1> QED
  BY <1>1, <1>2, <1>3, <1>4, <1>5 DEF IndInv, Types, OutsideTypes, BoundTypes

-----------------------------------------------------------------------------
(* The invariant                                                           *)

(* The invariant holds of an empty journal.                              *)
LEMMA InitIndInv == ASSUME BoundsAssumption, Init PROVE IndInv
<1>1. Types
  <2>1. 0 \in 0..N /\ 0 \in 0..2 /\ 0 \in 0..MaxReconnects /\ 0 \in 0..MaxCrashes /\ 0 \in 0..MaxRestores
    BY DEF BoundsAssumption
  <2>2. journal \in Journals
    BY DEF Init, Journals, NoFiles
  <2>3. WorkTypes
    BY <2>1 DEF Init, WorkTypes, Outcomes
  <2>4. OwnerTypes
    BY <2>1 DEF Init, OwnerTypes, Places
  <2>5. OutsideTypes
    BY DEF Init, OutsideTypes
  <2> QED
    BY <2>1, <2>2, <2>3, <2>4, <2>5 DEF Init, Types, BoundTypes
<1>2. ASSUME NEW m \in Messages PROVE MessageOK(m)
  BY DEF Init, MessageOK, NoFiles
<1>3. SelectionOK /\ ClientOK
  BY DEF Init, SelectionOK, ClientOK, Working
<1> QED
  BY <1>1, <1>2, <1>3 DEF IndInv

(* Every step of the service keeps the invariant.                        *)
LEMMA NextIndInv == ASSUME BoundsAssumption, IndInv, [Next]_vars PROVE IndInv'
<1>1. CASE Poll
  BY <1>1, CursorStep, WaitStep, QuestionStep DEF Poll
<1>2. CASE Turn
  BY <1>2, AdmissionStep, TurnStep, WaitStep DEF Turn
<1>3. CASE Reply
  BY <1>3, VerdictStep, DispatchStep, OutcomeStep DEF Reply
<1>4. CASE Process
  BY <1>4, ProcessStep DEF Process
<1>5. CASE Stop \/ ReconcileLock
  BY <1>5, VerdictStep
<1>6. CASE Crash
  BY <1>6, CrashStep
<1>7. CASE RestoreCheckpoint
  BY <1>7, CursorStep
<1>8. CASE \E m \in Messages : Happen(m)
  BY <1>8, HappenStep
<1>9. CASE UNCHANGED vars
  <2>1. Quiet
    BY <1>9 DEF vars, durable, work, outside, bounds, flags, Quiet
  <2>2. UNCHANGED <<cursor, journal, lock, pc, sel, fresh, tries, reply, verdict, claims, client, reconnect,
                    blocked, failures, stopping, turns, sends, wire>>
    BY <1>9 DEF vars, durable, work, outside, bounds, flags
  <2>3. WorkTypes' /\ OwnerTypes'
    BY <2>2 DEF IndInv, Types, WorkTypes, OwnerTypes
  <2>4. SelectionOK' /\ ClientOK'
    BY <2>2 DEF IndInv, SelectionOK, ClientOK, Working
  <2> QED
    BY <2>1, <2>3, <2>4, QuietKeeps DEF IndInv, Types
<1> QED
  BY <1>1, <1>2, <1>3, <1>4, <1>5, <1>6, <1>7, <1>8, <1>9 DEF Next, Service

-----------------------------------------------------------------------------
(* The theorems                                                            *)

(* The inductive invariant: the files of a message, what the service may   *)
(* rely on at each of its awaits, and the clients, in every reachable      *)
(* state of recordQuestion, recordModelAdmission, turn, dispatch and       *)
(* recordOutcome, of crashes, reconnections and restored checkpoints.      *)
THEOREM IndInvariant ==
  ASSUME BoundsAssumption
  PROVE  Spec => []IndInv
<1>1. Init => IndInv
  BY InitIndInv
<1>2. IndInv /\ [Next]_vars => IndInv'
  BY NextIndInv
<1> QED
  BY <1>1, <1>2, PTL DEF Spec

(* Every variable keeps its type in every reachable state.                 *)
THEOREM TypesHold ==
  ASSUME BoundsAssumption
  PROVE  Spec => []TypeOK
<1>1. IndInv => TypeOK
  BY TypesAreTypeOK DEF IndInv
<1> QED
  BY <1>1, IndInvariant, PTL

(* A message gets one model turn and one reply at most: recordQuestion and *)
(* recordModelAdmission create their files exclusively, and what they left *)
(* is found again after any crash, reconnection or restored checkpoint.    *)
THEOREM MessagesAreAnsweredOnce ==
  ASSUME BoundsAssumption
  PROVE  Spec => []AnsweredOnce
<1>1. IndInv => AnsweredOnce
  BY DEF IndInv, MessageOK, AnsweredOnce
<1> QED
  BY <1>1, IndInvariant, PTL

(* recordOutcome never writes "not-sent" for a reply Telegram was handed,  *)
(* nor "verified" for one that did not arrive; afterwards it stays so.     *)
THEOREM OutcomesAreTrue ==
  ASSUME BoundsAssumption
  PROVE  Spec => []OutcomeIsTrue
<1>1. IndInv => OutcomeIsTrue
  BY DEF IndInv, MessageOK, OutcomeIsTrue
<1> QED
  BY <1>1, IndInvariant, PTL

(* Unless the operator restores a checkpoint, checkpointCursor has saved a *)
(* cursor past every message a turn was begun for.                         *)
THEOREM CursorIsAhead ==
  ASSUME BoundsAssumption
  PROVE  Spec => []CursorPrecedesTurn
<1>1. IndInv => CursorPrecedesTurn
  BY DEF IndInv, MessageOK, CursorPrecedesTurn
<1> QED
  BY <1>1, IndInvariant, PTL

(* A reconnection finds the client of the connection before it settled.    *)
THEOREM ClientsFollowOneAnother ==
  ASSUME BoundsAssumption
  PROVE  Spec => []SettledBeforeReconnect
<1>1. IndInv => SettledBeforeReconnect
  BY DEF IndInv, ClientOK, SettledBeforeReconnect
<1> QED
  BY <1>1, IndInvariant, PTL
=============================================================================
