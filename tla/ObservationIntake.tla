------------------------- MODULE ObservationIntake -------------------------
(***************************************************************************)
(* The installed host around the broker (personal-agent/src/app.ts) and    *)
(* its intake (ingress.ts): observations of the Telegram feed are handled  *)
(* side by side, ordinary ones at most `Concurrency` at a time behind a    *)
(* bounded queue, controls of the owner at once; beside them one loop      *)
(* polls.  Whichever of the two ends takes the other down; the connections *)
(* are closed when both have settled, and the lease of the profile is      *)
(* given back only if every closure was confirmed.                         *)
(*                                                                         *)
(* What a handler does is the broker's; what happens to an observation     *)
(* that was not handled is in TelegramAdapter.                             *)
(***************************************************************************)
EXTENDS Naturals, FiniteSets, Sequences

CONSTANTS Ordinary, Controls,   \* the observations of the feed
          Concurrency, QueueLimit

IntakeAssumption ==
       /\ Ordinary \cap Controls = {}
       /\ Concurrency \in Nat \ {0} /\ QueueLimit \in Nat /\ QueueLimit >= Concurrency

VARIABLES unfed,     \* what the feed still holds
          waiting,   \* the queue of ordinary observations
          active,    \* observations whose handler runs
          handled,   \* history: observations whose handler succeeded
          failure,   \* a handler has failed
          intake,    \* consumeObservations
          polling,   \* the polling loop
          aborted,   \* the controller
          app,       \* startApplication
          closed,    \* connections asked to close: none, all, or not all confirmed
          lease

vars == <<unfed, waiting, active, handled, failure, intake, polling, aborted, app,
          closed, lease>>

Observations == Ordinary \cup Controls
host == <<polling, aborted, app, closed, lease>>

Init == /\ unfed = Observations /\ waiting = <<>> /\ active = {} /\ handled = {}
        /\ failure = FALSE /\ intake = "off" /\ polling = "off"
        /\ aborted = FALSE /\ app = "starting" /\ closed = "no" /\ lease = "held"

------------------------------------------------------------------------------
(* consumeObservations.                                                     *)

\* The feed's signal: the application's or the intake's own.
\* Mutant: an idle feed does not hear of a failed handler.
deafFeed == aborted
feedAborted == aborted \/ failure

running(S) == Cardinality(S \cap Ordinary)

\* pump: start what the limit allows, in the order of arrival.
pumped(q, S, failed) ==
    LET room == IF Concurrency > running(S) THEN Concurrency - running(S) ELSE 0
        k == IF failed \/ aborted THEN 0 ELSE IF room < Len(q) THEN room ELSE Len(q)
    IN [q |-> SubSeq(q, k + 1, Len(q)), S |-> S \cup {q[i] : i \in 1..k}]

Pump(q, S, failed) == /\ waiting' = pumped(q, S, failed).q
                      /\ active' = pumped(q, S, failed).S

\* Scheduling priority only: every event is authenticated by the broker.
control(o) == o \in Controls

Feed(o) ==
    /\ intake = "open" /\ o \in unfed /\ ~feedAborted
    /\ unfed' = unfed \ {o}
    /\ IF control(o) THEN active' = active \cup {o} /\ UNCHANGED <<waiting, intake>>
       ELSE IF Len(waiting) >= QueueLimit
            THEN intake' = "overflowed" /\ UNCHANGED <<waiting, active>>
            ELSE Pump(Append(waiting, o), active, failure) /\ UNCHANGED intake
    /\ UNCHANGED <<handled, failure, host>>

FeedEnds ==
    /\ intake = "open" /\ feedAborted /\ intake' = "draining"
    /\ UNCHANGED <<unfed, waiting, active, handled, failure, host>>

\* The connection's own fault ends the feed with an error.
FeedThrows ==
    /\ intake = "open" /\ intake' = "overflowed"
    /\ UNCHANGED <<unfed, waiting, active, handled, failure, host>>

Handled(o) ==
    /\ o \in active /\ handled' = handled \cup {o}
    /\ Pump(waiting, active \ {o}, failure)
    /\ UNCHANGED <<unfed, failure, intake, host>>

Fails(o) ==
    /\ o \in active /\ failure' = TRUE
    /\ Pump(waiting, active \ {o}, TRUE)
    /\ UNCHANGED <<unfed, handled, intake, host>>

\* Mutant: the intake ends without its handlers.
unawaited == TRUE
settled == active = {}

Settle ==
    /\ intake \in {"draining", "overflowed"} /\ settled
    /\ intake' = IF intake = "overflowed" \/ failure THEN "failed" ELSE "ended"
    /\ UNCHANGED <<unfed, waiting, active, handled, failure, host>>

------------------------------------------------------------------------------
(* startApplication.                                                        *)

feeding == <<unfed, waiting, active, handled, failure>>

\* Everything before the intake; a step that fails goes to the shutdown.
Started ==
    /\ app = "starting"
    /\ \/ ~aborted /\ app' = "running" /\ intake' = "open" /\ polling' = "on"
       \/ app' = "stopping" /\ UNCHANGED <<intake, polling>>
    /\ UNCHANGED <<feeding, aborted, closed, lease>>

\* The caller's signal.
Abort == /\ ~aborted /\ app \in {"starting", "running"} /\ aborted' = TRUE
         /\ UNCHANGED <<feeding, intake, polling, app, closed, lease>>

\* One round of the polling loop may find the STOP file, fail, or see the abort.
Poll ==
    /\ polling = "on"
    /\ \/ polling' = "ended" /\ aborted' = TRUE
       \/ polling' = "failed" /\ UNCHANGED aborted
    /\ UNCHANGED <<feeding, intake, app, closed, lease>>

PollEnds == /\ polling = "on" /\ aborted /\ polling' = "ended"
            /\ UNCHANGED <<feeding, intake, aborted, app, closed, lease>>

over(x) == x \in {"off", "ended", "failed"}

\* The race is over, won or lost: the controller is aborted.
RaceEnds ==
    /\ app = "running" /\ (over(intake) \/ over(polling))
    /\ app' = "stopping"
    /\ UNCHANGED <<feeding, intake, polling, aborted, closed, lease>>

Stopping == /\ app = "stopping" /\ ~aborted /\ aborted' = TRUE
            /\ UNCHANGED <<feeding, intake, polling, app, closed, lease>>

\* allSettled of the intake and the polling loop, then of the closures.
bothOver == over(intake) /\ over(polling)

Close ==
    /\ app = "stopping" /\ aborted /\ bothOver /\ closed = "no"
    /\ closed' \in {"confirmed", "unknown"}
    /\ UNCHANGED <<feeding, intake, polling, aborted, app, lease>>

\* An unconfirmed closure leaves the lease behind a reconciliation marker.
confirmed == closed = "confirmed"

Finish ==
    /\ app = "stopping" /\ closed # "no"
    /\ app' = "stopped"
    /\ lease' = IF confirmed THEN "released" ELSE "retained"
    /\ UNCHANGED <<feeding, intake, polling, aborted, closed>>

Next == \/ \E o \in unfed : Feed(o)
        \/ \E o \in active : Handled(o) \/ Fails(o)
        \/ FeedEnds \/ FeedThrows \/ Settle
        \/ Started \/ Abort \/ Poll \/ PollEnds \/ RaceEnds \/ Stopping \/ Close \/ Finish

Spec == Init /\ [][Next]_vars

------------------------------------------------------------------------------
(* Properties.                                                              *)

TypeOK == /\ unfed \subseteq Observations /\ active \subseteq Observations
          /\ handled \subseteq Observations
          /\ waiting \in Seq(Ordinary) /\ Len(waiting) <= QueueLimit
          /\ intake \in {"off", "open", "overflowed", "draining", "ended", "failed"}
          /\ polling \in {"off", "on", "ended", "failed"}
          /\ app \in {"starting", "running", "stopping", "stopped"}
          /\ closed \in {"no", "confirmed", "unknown"}
          /\ lease \in {"held", "released", "retained"}
          /\ failure \in BOOLEAN /\ aborted \in BOOLEAN
          /\ Cardinality(active \cap Ordinary) <= Concurrency

\* No handler and no round of the loop runs on connections that were closed.
ClosedWhenQuiet == closed # "no" => active = {} /\ polling # "on" /\ intake # "open"

\* The profile is free for another process only when nothing of this one is
\* left: no handler, and every connection known to be closed.
FreedWhenClosed == lease = "released" => closed = "confirmed" /\ active = {}

\* An ordinary observation waits only while the limit is used up, the intake
\* fails or the application stops: a handler's end never leaves the queue idle.
WaitsForRoom == waiting # <<>> /\ ~failure /\ ~aborted
                  => Cardinality(active \cap Ordinary) = Concurrency

\* A control the owner gave, and its handling, which does not wait for
\* ordinary handlers unless the intake is going down.
ControlGiven(o)  == intake = "open" /\ o \in unfed
ControlPassed(o) == o \in handled \/ intake # "open" \/ aborted \/ failure

\* A host that is told to stop, or one of whose loops ended, and its stop.
StopDue == aborted \/ intake = "overflowed" \/ failure
Stopped == app = "stopped"
==============================================================================
