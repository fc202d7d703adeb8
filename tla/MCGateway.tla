------------------------------- MODULE MCGateway -------------------------------
(* The components of the group gateway: the sizes of their instances for TLC and  *)
(* the properties checked of them.  A property names one promise of the gateway   *)
(* and says for each component that has a share in it what the share is.          *)
EXTENDS Parts

(* A message with one crash after another and a checkpoint that is put back; two *)
(* messages, with a crash and a reconnection.                                    *)
StandingSizes == {
    [N |-> 1, MaxCrashes |-> 2, MaxRestores |-> 1, MaxReconnects |-> 1],
    [N |-> 2, MaxCrashes |-> 1, MaxRestores |-> 0, MaxReconnects |-> 0]}

(* File operations, and a reply, for a message that is answered again after a    *)
(* crash; a turn with any of them.                                               *)
MediaSizes == {
    [Messages |-> {"m1"}, Kinds |-> {"file"}, FileSlots |-> 2, MaxCrashes |-> 1, MaxTurns |-> 2],
    [Messages |-> {"m1"}, Kinds |-> {"image"}, FileSlots |-> 1, MaxCrashes |-> 1, MaxTurns |-> 2],
    [Messages |-> {"m1"}, Kinds |-> {"text", "file"}, FileSlots |-> 1, MaxCrashes |-> 0, MaxTurns |-> 1]}

(* Four messages, one without an item, for a store of two rows.                  *)
RowsSizes == {
    [N |-> 4, Service |-> {2}, PageLimit |-> 3, MaxRecent |-> 2, MaxCrashes |-> 1, MaxDeletes |-> 1]}

(* Two batches and cases; a case and two calls of the owner.                     *)
AlertSizes == {
    [Batches |-> 2, Cases |-> {"k1", "k2"}, Calls |-> {"c1"}, MaxCases |-> 2, MaxFaults |-> 2],
    [Batches |-> 1, Cases |-> {"k1"}, Calls |-> {"c1", "c2"}, MaxCases |-> 2, MaxFaults |-> 1]}

(* A chat that changes while it is read, with faults; a longer one without.      *)
ReadingSizes == {
    [Tasks |-> {"t1"}, MaxId |-> 2, FromDate |-> 2, ToDate |-> 2, Limit |-> 1, MaxPages |-> 2,
     ForegroundLimit |-> 1, MaxFaults |-> 1],
    [Tasks |-> {"t1"}, MaxId |-> 3, FromDate |-> 2, ToDate |-> 2, Limit |-> 2, MaxPages |-> 3,
     ForegroundLimit |-> 1, MaxFaults |-> 0]}

(* Two reports of two parts and three faults.                                    *)
DeliverySizes == {
    [Bodies |-> {"b1", "b2"}, Long |-> {"b1", "b2"}, MaxParts |-> 2, MaxFaults |-> 3]}

(* Two nodes with a choice of plans; one node with every retry.                  *)
AnalysisSizes == {
    [Nodes |-> 2, Plans |-> {"p", "q"}, Outputs |-> {"x"}, MaxNoOutput |-> 2, MaxAttempts |-> 5,
     MaxFaults |-> 1],
    [Nodes |-> 1, Plans |-> {"p"}, Outputs |-> {"x"}, MaxNoOutput |-> 2, MaxAttempts |-> 4,
     MaxFaults |-> 3]}

(* Two leaves side by side.                                                      *)
WaveSizes == {
    [Leaves |-> 2, Width |-> 2, MaxNoOutput |-> 3, MaxEpochs |-> 6, MaxFaults |-> 1]}

(* Two turns, the second over the limit or late; a call of a tool; a fault.      *)
EpochSizes == {
    [Requests |-> 2, TurnLimit |-> 2, CallLimit |-> 1, MaxFaults |-> 0],
    [Requests |-> 2, TurnLimit |-> 1, CallLimit |-> 0, MaxFaults |-> 1]}

ASSUME SizesAreLegal ==
    /\ \A s \in StandingSizes : Standing(s)!BoundsAssumption
    /\ \A s \in MediaSizes : Media(s)!KindsAssumption /\ Media(s)!SlotsAssumption
    /\ \A s \in RowsSizes : Rows(s)!RowsAssumption
    /\ \A s \in AlertSizes : Alert(s)!AlertAssumption
    /\ \A s \in ReadingSizes : Reading(s)!PeriodAssumption /\ Reading(s)!LimitAssumption
    /\ \A s \in DeliverySizes : Delivery(s)!BodiesAssumption
    /\ \A s \in AnalysisSizes : Analysis(s)!AnalysisAssumption
    /\ \A s \in WaveSizes : Wave(s)!WaveAssumption
    /\ \A s \in EpochSizes : Epoch(s)!EpochAssumption

------------------------------------------------------------------------------
Init == \/ \E s \in StandingSizes : Runs("standing", s) /\ Standing(s)!Init /\ Starts(20)
        \/ \E s \in MediaSizes : Runs("media", s) /\ Media(s)!Init /\ Starts(12)
        \/ \E s \in RowsSizes : Runs("rows", s) /\ Rows(s)!Init /\ Starts(9)
        \/ \E s \in AlertSizes : Runs("alert", s) /\ Alert(s)!Init /\ Starts(15)
        \/ \E s \in ReadingSizes : Runs("reading", s) /\ Reading(s)!Init /\ Starts(10)
        \/ \E s \in DeliverySizes : Runs("delivery", s) /\ Delivery(s)!Init /\ Starts(11)
        \/ \E s \in AnalysisSizes : Runs("analysis", s) /\ Analysis(s)!Init /\ Starts(14)
        \/ \E s \in WaveSizes : Runs("wave", s) /\ Wave(s)!Init /\ Starts(15)
        \/ \E s \in EpochSizes : Runs("epoch", s) /\ Epoch(s)!Init /\ Starts(20)

Next == \/ \E s \in StandingSizes : Runs("standing", s) /\ Standing(s)!Next /\ Steps(20)
        \/ \E s \in MediaSizes : Runs("media", s) /\ Media(s)!Next /\ Steps(12)
        \/ \E s \in RowsSizes : Runs("rows", s) /\ Rows(s)!Next /\ Steps(9)
        \/ \E s \in AlertSizes : Runs("alert", s) /\ Alert(s)!Next /\ Steps(15)
        \/ \E s \in ReadingSizes : Runs("reading", s) /\ Reading(s)!Next /\ Steps(10)
        \/ \E s \in DeliverySizes : Runs("delivery", s) /\ Delivery(s)!Next /\ Steps(11)
        \/ \E s \in AnalysisSizes : Runs("analysis", s) /\ Analysis(s)!Next /\ Steps(14)
        \/ \E s \in WaveSizes : Runs("wave", s) /\ Wave(s)!Next /\ Steps(15)
        \/ \E s \in EpochSizes : Runs("epoch", s) /\ Epoch(s)!Next /\ Steps(20)

Spec == Init /\ [][Next]_vars

------------------------------------------------------------------------------
(* Properties.                                                              *)

\* The records of every component of the gateway are well formed.
GatewayTypes ==
    /\ \A s \in StandingSizes : Runs("standing", s) => Standing(s)!TypeOK
    /\ \A s \in MediaSizes : Runs("media", s) => Media(s)!TypeOK
    /\ \A s \in RowsSizes : Runs("rows", s) => Rows(s)!TypeOK
    /\ \A s \in AlertSizes : Runs("alert", s) => Alert(s)!TypeOK
    /\ \A s \in ReadingSizes : Runs("reading", s) => Reading(s)!TypeOK
    /\ \A s \in DeliverySizes : Runs("delivery", s) => Delivery(s)!TypeOK
    /\ \A s \in AnalysisSizes : Runs("analysis", s) => Analysis(s)!TypeOK
    /\ \A s \in WaveSizes : Runs("wave", s) => Wave(s)!TypeOK
    /\ \A s \in EpochSizes : Runs("epoch", s) => Epoch(s)!TypeOK

\* The gateway acts once: a message gets one model turn and one reply
\* (standing-service.ts), a row one assessment, a case one alert and an interval
\* one alert, a settings call one change, a report part one request per delivery
\* and recovery, a node one output, a leaf one turn at a time, and the sole client
\* carries one send at a time, whatever crashes and restarts come in between.
ActsOnce ==
    /\ \A s \in StandingSizes : Runs("standing", s) => Standing(s)!AnsweredOnce
    /\ \A s \in MediaSizes : Runs("media", s) => Media(s)!SoleClient
    /\ \A s \in RowsSizes : Runs("rows", s) => Rows(s)!AssessedOnce
    /\ \A s \in AlertSizes : Runs("alert", s) => Alert(s)!UpdateOnce /\ Alert(s)!Spacing
    /\ \A s \in DeliverySizes : Runs("delivery", s) => Delivery(s)!AskedAgainOnlyByRecovery
    /\ \A s \in AnalysisSizes : Runs("analysis", s) => Analysis(s)!OneOutputPerNode
    /\ \A s \in WaveSizes : Runs("wave", s) => Wave(s)!OneTurnPerLeaf

\* What the gateway's records say of Telegram is so: a message journalled as not
\* sent was never handed over and one journalled as verified arrived; what inspect
\* reports of an attempt and the slot of a report of its parts is what Telegram
\* was asked; and the messages of a report are its parts in their order.
RepliesAreTrue ==
    /\ \A s \in StandingSizes : Runs("standing", s) => Standing(s)!OutcomeIsTrue
    /\ \A s \in MediaSizes : Runs("media", s) => Media(s)!InspectionIsTruthful
    /\ \A s \in DeliverySizes :
           Runs("delivery", s) => Delivery(s)!PostedIsOneReport /\ Delivery(s)!StatusIsTrue

\* The service goes forward: its cursor is past a message before a turn is spent
\* on it, and a client is connected only when the one before it is settled.
AnswersInOrder ==
    \A s \in StandingSizes : Runs("standing", s) =>
        Standing(s)!CursorPrecedesTurn /\ Standing(s)!SettledBeforeReconnect

\* Model turns are accounted for: a node and a leaf cost a bounded number of them,
\* two of one task never work at the same time, an output comes from a turn that
\* was sent the material, a task given up holds none, and none runs for a leaf
\* that was published; a cancelled task publishes at most what was being appended.
\* A turn the session calls not admitted never began in the guest, and an epoch that
\* ends clean has answered and released every turn it began.
TurnsAreAccounted ==
    /\ \A s \in AnalysisSizes : Runs("analysis", s) =>
           /\ Analysis(s)!BoundedTurns /\ Analysis(s)!PredecessorsSettled
           /\ Analysis(s)!PreparedFromMaterial /\ Analysis(s)!BlockedHasNoOutput
    /\ \A s \in WaveSizes : Runs("wave", s) =>
           Wave(s)!SpendBound /\ Wave(s)!QuietWhenPublished /\ Wave(s)!CancelStops
    /\ \A s \in EpochSizes : Runs("epoch", s) => Epoch(s)!RefusedNeverBegan /\ Epoch(s)!CleanEndAccounts

\* Nothing of the group is passed over: the watermark of the rows jumps over no
\* message that is still there, an unprocessed row is kept, and a history task
\* that ends complete has every message of its period.
NothingIsLost ==
    /\ \A s \in RowsSizes : Runs("rows", s) => Rows(s)!NoGap /\ Rows(s)!PassedIsKept
    /\ \A s \in ReadingSizes :
           Runs("reading", s) => Reading(s)!CompleteIsComplete /\ Reading(s)!OutcomeIsTrue

\* Every snapshot of the rows and of the analysis journal is one the code that
\* opens it after a stop accepts.
StoresReopen ==
    /\ \A s \in RowsSizes : Runs("rows", s) => Rows(s)!Reopens
    /\ \A s \in AnalysisSizes : Runs("analysis", s) => Analysis(s)!JournalReopens

\* An alert leaves only under the policy its rows were assessed under, and an idle
\* observer holds neither an owner nor a lease.
AlertsUnderPolicy ==
    \A s \in AlertSizes : Runs("alert", s) =>
        Alert(s)!DispatchedUnderPolicy /\ Alert(s)!IdleOwnsNothing

\* The reply journal and the alert outbox implement the one-shot ledger, the serial
\* analysis and the waves of leaves the ordered publication, through torn files,
\* lost answers and restarts: nothing is sent twice, unmarked or settled untruthfully,
\* and the published nodes are the accepted outputs in the order of the source.
GatewayRefines ==
    /\ \A s \in MediaSizes : Runs("media", s) => Media(s)!LedgerStart
    /\ \A s \in AlertSizes : Runs("alert", s) => Alert(s)!LedgerStart
    /\ \A s \in AnalysisSizes : Runs("analysis", s) => Analysis(s)!PublicationStart
    /\ \A s \in WaveSizes : Runs("wave", s) => Wave(s)!PublicationStart
    /\ [][ /\ \A s \in MediaSizes : Runs("media", s) => Media(s)!LedgerStep
           /\ \A s \in AlertSizes : Runs("alert", s) => Alert(s)!LedgerStep
           /\ \A s \in AnalysisSizes : Runs("analysis", s) => Analysis(s)!PublicationStep
           /\ \A s \in WaveSizes : Runs("wave", s) => Wave(s)!PublicationStep ]_vars

\* Once a cancellation of a history task was answered nothing more is read, asked
\* of Telegram or written for it, and no file follows one of uncertain outcome.
NothingFollows ==
    [][ /\ \A s \in MediaSizes : Runs("media", s) => Media(s)!NothingAfterUncertain
        /\ \A s \in ReadingSizes : Runs("reading", s) => Reading(s)!CancelStops
        /\ \A s \in DeliverySizes : Runs("delivery", s) => Delivery(s)!CancelStops
        /\ \A s \in AnalysisSizes : Runs("analysis", s) => Analysis(s)!QuietAfterCancel ]_vars
==============================================================================
