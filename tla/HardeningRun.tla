---------------------------- MODULE HardeningRun ----------------------------
(***************************************************************************)
(* The phase-3 hardening controllers: a carrier of commands, authorised    *)
(* for one attempt, is validated and then executed in order through the    *)
(* sidecar.  Its first Guards commands only read the repository; a durable *)
(* attempt marker is created before the first command that changes the     *)
(* guest.  Every request is a new durable file, so what an earlier or a    *)
(* concurrent attempt already asked for is never asked again.              *)
(*                                                                         *)
(* V2 distinguishes the second controller, which reads the clock again     *)
(* after the request is written and after the result.                      *)
(***************************************************************************)
EXTENDS Naturals, Sequences, FiniteSetsExt

CONSTANTS Attempts,  \* processes that run the controller on this carrier
          Guards,    \* number of git guards: 6 in version 2, 5 in version 1
          Mutators,  \* number of WSL commands in the well-formed carrier
          V2,        \* TRUE for the second controller
          Stale,     \* files that may exist before: 0 is the marker, o the request of command o
          MaxClock   \* bound on the clock

HardeningAssumption == /\ Guards \in Nat \ {0} /\ Mutators \in Nat \ {0}
                       /\ V2 \in BOOLEAN /\ Stale \subseteq 0..(Guards + Mutators) /\ MaxClock \in Nat

VARIABLES carrier,   \* what the carrier file says
          files,     \* durable files: the marker and the requests
          ran,       \* external: the commands the sidecar was asked for, in order
          clock,
          pc, ord,   \* ord[a]: the ordinal attempt a is at
          acc, rust, \* accepted commands and sidecar invocations of the attempt
          marked,    \* the attempt recorded its evidence
          started,   \* when it started
          outcome

vars == <<carrier, files, ran, clock, pc, ord, acc, rust, marked, started, outcome>>

Marker == 0
Total == Guards + Mutators
Outcomes == {"known-clear", "terminal-known-failure", "terminal-refused", "terminal-unknown"}
Results == {"threw", "unbound", "unknown", "nonzero", "refused", "clear"}

Good == [literals |-> TRUE, startup |-> TRUE, aggregate |-> Total,
         commands |-> [o \in 1..Total |->
             [role |-> IF o <= Guards THEN "git" ELSE "wsl", path |-> o, ms |-> 1]]]
\* The well-formed carrier and one for each way in which it can be malformed.
Carriers ==
    {Good, [Good EXCEPT !.literals = FALSE], [Good EXCEPT !.startup = FALSE], [Good EXCEPT !.aggregate = Total - 1],
     [Good EXCEPT !.commands[Guards].role = "wsl"],
     [Good EXCEPT !.commands[Total].role = "git"],
     [Good EXCEPT !.commands[Total].path = Marker],
     [Good EXCEPT !.commands[Total].path = 1],
     [Good EXCEPT !.commands = SubSeq(@, 1, Guards)]}

TypeOK ==
    /\ carrier \in Carriers /\ files \subseteq 0..Total
    /\ ran \in Seq([a : Attempts, o : 1..Total, result : {"pending"} \cup Results])
    /\ clock \in 0..MaxClock
    /\ pc \in [Attempts -> {"idle", "validating", "next", "written", "waiting", "done", "crashed"}]
    /\ ord \in [Attempts -> 1..Total] /\ acc \in [Attempts -> 0..Total] /\ rust \in [Attempts -> 0..Total]
    /\ marked \in [Attempts -> BOOLEAN] /\ started \in [Attempts -> 0..MaxClock]
    /\ outcome \in [Attempts -> {"none"} \cup Outcomes]

Init ==
    /\ carrier \in Carriers /\ files \in SUBSET Stale /\ ran = <<>> /\ clock = 0
    /\ pc = [a \in Attempts |-> "idle"] /\ ord = [a \in Attempts |-> 1]
    /\ acc = [a \in Attempts |-> 0] /\ rust = [a \in Attempts |-> 0]
    /\ marked = [a \in Attempts |-> FALSE] /\ started = [a \in Attempts |-> 0]
    /\ outcome = [a \in Attempts |-> "none"]

-----------------------------------------------------------------------------
(* Validation of the carrier.                                              *)

declaredTime(cs) == MapThenSumSet(LAMBDA o : cs[o].ms, 1..Len(cs))

commandOrder(cs) ==
    \A o \in 1..Len(cs) : cs[o].role = IF o <= Guards THEN "git" ELSE "wsl"
distinctPaths(cs) ==
    /\ \A o \in 1..Len(cs) : cs[o].path # Marker
    /\ \A o, q \in 1..Len(cs) : cs[o].path = cs[q].path => o = q

parseCommands(cs, aggregate) ==
    /\ Len(cs) > Guards
    /\ commandOrder(cs) /\ distinctPaths(cs)
    /\ declaredTime(cs) <= aggregate

\* Every binding, policy and authorisation of the carrier has its literal
\* value; version 2 also compares it with the binding captured at startup.
literalsV1 == carrier.literals
literalsV2 == carrier.literals /\ carrier.startup
parseCarrier == /\ IF V2 THEN literalsV2 ELSE literalsV1
                /\ parseCommands(carrier.commands, carrier.aggregate)

Ends(a, v) == /\ pc' = [pc EXCEPT ![a] = "done"]
              /\ outcome' = [outcome EXCEPT ![a] = v]

begin(a) ==
    /\ pc[a] = "idle"
    /\ IF parseCarrier
       THEN pc' = [pc EXCEPT ![a] = "validating"] /\ UNCHANGED outcome
       ELSE Ends(a, "terminal-refused")
    /\ UNCHANGED <<carrier, files, ran, clock, ord, acc, rust, marked, started>>

\* The bound files are read back, then the clock starts.
validateAllBoundFiles(a) ==
    /\ pc[a] = "validating"
    /\ \/ /\ started' = [started EXCEPT ![a] = clock]
          /\ pc' = [pc EXCEPT ![a] = "next"] /\ UNCHANGED outcome
       \/ Ends(a, "terminal-refused") /\ UNCHANGED started
    /\ UNCHANGED <<carrier, files, ran, clock, ord, acc, rust, marked>>

-----------------------------------------------------------------------------
(* One command.                                                            *)

elapsed(a) == clock - started[a]
remaining(a) == elapsed(a) + carrier.commands[ord[a]].ms <= carrier.aggregate
afterEffect(a) == rust[a] > 0 \/ marked[a]

\* createNewDurableFile: created and read back, a collision, or unknown.
created(f) == f \notin files /\ files' = files \cup {f}
collides(f) == f \in files /\ UNCHANGED files
writeUnknown(f) == UNCHANGED files \/ created(f)

\* The marker precedes the first command after the guards.
markerAt(a) == ord[a] = Guards + 1
markerDue(a) == markerAt(a) /\ ~marked[a]

createMarker(a) ==
    /\ pc[a] = "next" /\ markerDue(a)
    /\ IF V2 /\ (acc[a] # Guards \/ rust[a] # Guards)
       THEN Ends(a, "terminal-unknown") /\ UNCHANGED <<files, marked>>
       ELSE \/ created(Marker) /\ marked' = [marked EXCEPT ![a] = TRUE] /\ UNCHANGED <<pc, outcome>>
            \/ collides(Marker) /\ Ends(a, "terminal-refused") /\ UNCHANGED marked
            \/ writeUnknown(Marker) /\ Ends(a, "terminal-unknown") /\ UNCHANGED marked
    /\ UNCHANGED <<carrier, ran, clock, ord, acc, rust, started>>

\* The remaining deadline, then the request file.
overwrites(a, f) == files' = files \cup {f} /\ pc' = [pc EXCEPT ![a] = "written"] /\ UNCHANGED outcome
createNew(a, f) ==
    \/ created(f) /\ pc' = [pc EXCEPT ![a] = "written"] /\ UNCHANGED outcome
    \/ collides(f) /\ Ends(a, "terminal-refused")
    \/ writeUnknown(f) /\ Ends(a, "terminal-unknown")
\* A clock that fails, or leaves no time, refuses only what has done nothing yet.
\* Mutant: it refuses always.
alwaysRefused(a) == Ends(a, "terminal-refused")
clockRefused(a) == Ends(a, IF afterEffect(a) THEN "terminal-unknown" ELSE "terminal-refused")

createRequest(a) ==
    /\ pc[a] = "next" /\ ~markerDue(a)
    /\ \/ clockRefused(a) /\ UNCHANGED files        \* it throws or runs backwards
       \/ /\ ~remaining(a)
          /\ clockRefused(a) /\ UNCHANGED files
       \/ remaining(a) /\ createNew(a, carrier.commands[ord[a]].path)
    /\ UNCHANGED <<carrier, ran, clock, ord, acc, rust, marked, started>>

invokeAcceptedRustSidecar(a) ==
    /\ pc[a] = "written"
    /\ \/ /\ ~V2 \/ remaining(a)
          /\ ran' = Append(ran, [a |-> a, o |-> ord[a], result |-> "pending"])
          /\ rust' = [rust EXCEPT ![a] = @ + 1]
          /\ pc' = [pc EXCEPT ![a] = "waiting"] /\ UNCHANGED outcome
       \/ V2 /\ Ends(a, "terminal-unknown") /\ UNCHANGED <<ran, rust>>
    /\ UNCHANGED <<carrier, files, clock, ord, acc, marked, started>>

\* What the sidecar's answer makes of the run; only "clear" goes on.
validateSidecarResult(r) == r \notin {"threw", "unbound"}
validateCommandOutput(r) == r # "refused"
answered(r) ==
    IF ~validateSidecarResult(r) \/ r = "unknown" THEN "terminal-unknown"
    ELSE IF r = "nonzero" THEN "terminal-known-failure"
    ELSE IF validateCommandOutput(r) THEN "none" ELSE "terminal-unknown"

lastCommand(a) == ord[a] = Len(carrier.commands)
inTime(a) == ~V2 \/ elapsed(a) <= carrier.aggregate

receiveResult(a) ==
    /\ pc[a] = "waiting"
    /\ \E r \in Results :
          /\ ran' = [i \in 1..Len(ran) |-> IF ran[i].a = a /\ ran[i].o = ord[a]
                                           THEN [ran[i] EXCEPT !.result = r] ELSE ran[i]]
          /\ IF answered(r) # "none"
             THEN Ends(a, answered(r)) /\ UNCHANGED <<acc, ord>>
             ELSE \/ /\ inTime(a)
                     /\ acc' = [acc EXCEPT ![a] = @ + 1]
                     /\ IF lastCommand(a)
                        THEN Ends(a, "known-clear") /\ UNCHANGED ord
                        ELSE /\ ord' = [ord EXCEPT ![a] = @ + 1]
                             /\ pc' = [pc EXCEPT ![a] = "next"] /\ UNCHANGED outcome
                  \/ V2 /\ Ends(a, "terminal-unknown") /\ UNCHANGED <<acc, ord>>
    /\ UNCHANGED <<carrier, files, clock, rust, marked, started>>

Crash(a) ==
    /\ pc[a] \notin {"idle", "done", "crashed"}
    /\ pc' = [pc EXCEPT ![a] = "crashed"]
    /\ UNCHANGED <<carrier, files, ran, clock, ord, acc, rust, marked, started, outcome>>

Tick == /\ clock < MaxClock /\ clock' = clock + 1
        /\ UNCHANGED <<carrier, files, ran, pc, ord, acc, rust, marked, started, outcome>>

Next == \/ \E a \in Attempts : \/ begin(a) \/ validateAllBoundFiles(a) \/ createMarker(a)
                               \/ createRequest(a) \/ invokeAcceptedRustSidecar(a)
                               \/ receiveResult(a) \/ Crash(a)
        \/ Tick

Spec == Init /\ [][Next]_vars

-----------------------------------------------------------------------------
(* Properties.                                                             *)

RoleOf(i) == carrier.commands[ran[i].o].role

\* Whatever attempts run, crash and run again on a carrier, its commands are
\* asked for at most once, in their order, by one attempt, and each only
\* after the one before it is known to be clear.
OneAttemptInOrder ==
    \A i \in 1..Len(ran) :
        /\ ran[i].o = i /\ ran[i].a = ran[1].a
        /\ i < Len(ran) => ran[i].result = "clear"

\* The guest is changed only after every guard read what the carrier binds,
\* and with the attempt marker on disk.
MutatesUnderMarker ==
    \A i \in 1..Len(ran) : RoleOf(i) = "wsl" =>
        /\ Marker \in files
        /\ \A o \in 1..Guards : ran[o].result = "clear" /\ RoleOf(o) = "git"

\* A refusal leaves nothing in doubt: whatever the attempt asked for came back
\* clear and is counted, and once it asked for something or made the marker, only
\* a file that was there already stops it as refused; a clock that fails then is
\* reported as unknown.
stoppedAt(a) == IF markerDue(a) THEN Marker ELSE carrier.commands[ord[a]].path
RefusedIsKnown ==
    \A a \in Attempts : outcome[a] = "terminal-refused" =>
        /\ \A i \in 1..Len(ran) : ran[i].a = a => ran[i].result = "clear"
        /\ acc[a] = rust[a]
        /\ afterEffect(a) => stoppedAt(a) \in files

\* A clear run executed the whole carrier itself.
ClearIsWhole ==
    \A a \in Attempts : outcome[a] = "known-clear" =>
        /\ Len(ran) = Len(carrier.commands)
        /\ \A i \in 1..Len(ran) : ran[i].a = a /\ ran[i].result = "clear"
        /\ acc[a] = Len(ran) /\ rust[a] = Len(ran)
\* The moment a version-2 run becomes clear lies within its deadline, however
\* slow the writes and the sidecar were.
ClearInTime ==
    \A a \in Attempts : outcome[a] # outcome'[a] /\ outcome'[a] = "known-clear" =>
          clock - started[a] <= carrier.aggregate
=============================================================================
