---------------------------- MODULE Phase3Proofs ----------------------------
(***************************************************************************)
(* Theorems about three programs of the phase-3 runner, each for every     *)
(* size: the adapter of the Rust sidecar, on its own variables; the pipes  *)
(* of a launcher, as Io; and the hardening controllers, as Hardening.      *)
(* They share no variable: they are three specifications side by side, and *)
(* each theorem is about one of them.                                      *)
(***************************************************************************)
EXTENDS RustSidecar, SequenceTheorems, FiniteSetTheorems, TLAPS

CONSTANTS Cap, MaxWrites, MaxFaults                          \* of Io
VARIABLES place, op, os, mem, handle, retired, process, fed, wrote, pipe, captured, late, over, result, faults
Io == INSTANCE LauncherIo WITH pc <- place, child <- process

CONSTANTS Attempts, Guards, Mutators, V2, Stale, MaxClock    \* of Hardening
VARIABLES carrier, files, ran, clock, step, ord, acc, rust, marked, started, outcome
Hardening == INSTANCE HardeningRun WITH pc <- step

-----------------------------------------------------------------------------
(* The adapter of the Rust sidecar.                                        *)

Leases == [generation : 0..MaxGeneration, quarantine : BOOLEAN, closed : BOOLEAN, unknown : BOOLEAN]
Places == {"idle", "verifying", "running", "reading"} \cup Returned

(* Where the lease of a call is when the call has returned: gone, unless   *)
(* its child is in quarantine and was not seen to close.                   *)
Quarantined(c) == /\ pc[c] = "unknown" /\ lease[c].quarantine /\ lease[c].unknown
                  /\ ~lease[c].closed /\ ~closeSeen[c] /\ child[c] # "none"

(* A call, its lease and its child.                                        *)
CallOK(c) ==
  /\ pc[c] \in {"verifying", "running", "reading"} => active = c
  /\ pc[c] = "idle" => active # c
  /\ pc[c] \in {"idle", "verifying"} => child[c] = "none" /\ lease[c] = NewLease /\ ~trigger[c]
  /\ pc[c] \in {"idle", "verifying", "running"} => kills[c] = 0
  /\ child[c] = "none" => evidence[c] = "absent" /\ ack[c] = "none" /\ pc[c] # "result"
  /\ child[c] # "none" => lease[c].generation # 0
  /\ closeSeen[c] => child[c] = "gone"
  /\ child[c] = "live" => pc[c] \in {"running", "unknown"} /\ active = c
  /\ pc[c] = "running" => /\ child[c] # "none" /\ ~lease[c].unknown
                          /\ lease[c].quarantine <=> trigger[c]
                          /\ lease[c].closed <=> closeSeen[c]
                          /\ closeSeen[c] => trigger[c]
  /\ pc[c] \in {"reading", "result"} => /\ child[c] = "gone" /\ kills[c] = 0
                                        /\ ~lease[c].quarantine /\ closeSeen[c]
  /\ pc[c] \in Returned /\ active = c => Quarantined(c)
  /\ pc[c] = "result" => cause[c] = "exit" /\ evidence[c] = "whole" /\ ack[c] = "bound"

IndInv == TypeOK /\ \A c \in Calls : CallOK(c)

-----------------------------------------------------------------------------
(* One step of one call                                                    *)

Same(d) == /\ pc'[d] = pc[d] /\ lease'[d] = lease[d] /\ trigger'[d] = trigger[d] /\ kills'[d] = kills[d]
           /\ child'[d] = child[d] /\ closeSeen'[d] = closeSeen[d] /\ cause'[d] = cause[d]
           /\ evidence'[d] = evidence[d] /\ ack'[d] = ack[d]
           /\ active' = d <=> active = d

(* A step of a call keeps the invariant when it keeps the call's own part  *)
(* and leaves the entries of the others, and their lease, alone.           *)
LEMMA OneCall ==
  ASSUME IndInv, NEW c \in Calls, TypeOK', CallOK(c)', \A d \in Calls \ {c} : Same(d)
  PROVE  IndInv'
<1> SUFFICES ASSUME NEW d \in Calls \ {c} PROVE CallOK(d)'
  BY DEF IndInv
<1>1. CallOK(d) /\ Same(d)
  BY DEF IndInv
<1> QED
  BY <1>1 DEF Same, CallOK, Quarantined

(* The entries of one call and their types.                              *)
LEMMA Entries ==
  ASSUME IndInv, GenerationAssumption, NEW c \in Calls
  PROVE  /\ CallOK(c) /\ active \in Calls \cup {NoCall} /\ lastGen \in 0..MaxGeneration /\ NoCall # c
         /\ lease \in [Calls -> Leases] /\ pc \in [Calls -> Places]
         /\ trigger \in [Calls -> BOOLEAN] /\ kills \in [Calls -> 0..1]
         /\ child \in [Calls -> {"none", "live", "gone"}] /\ closeSeen \in [Calls -> BOOLEAN]
         /\ cause \in [Calls -> {"none", "exit", "bad", "killed", "spawn"}]
         /\ evidence \in [Calls -> {"absent", "torn", "whole"}]
         /\ ack \in [Calls -> {"none", "torn", "other", "bound"}]
BY DEF IndInv, TypeOK, Leases, Places, GenerationAssumption

(* The lease of one call is changed in one field.                          *)
LEMMA LeaseEntry ==
  ASSUME lease \in [Calls -> Leases], NEW c \in Calls, NEW l \in Leases, lease' = [lease EXCEPT ![c] = l]
  PROVE  lease' \in [Calls -> Leases] /\ lease'[c] = l /\ \A d \in Calls \ {c} : lease'[d] = lease[d]
<1> HIDE DEF Leases
<1> QED
  OBVIOUS

(* Writing a field of a lease gives a lease.                             *)
LEMMA LeaseFields ==
  ASSUME NEW l \in Leases
  PROVE  /\ [l EXCEPT !.quarantine = TRUE] \in Leases /\ [l EXCEPT !.closed = TRUE] \in Leases
         /\ [l EXCEPT !.unknown = TRUE] \in Leases
         /\ \A g \in 0..MaxGeneration : [l EXCEPT !.generation = g] \in Leases
BY DEF Leases

(* A call takes the lease or is refused.                                   *)
LEMMA InvokeStep ==
  ASSUME IndInv, GenerationAssumption, NEW c \in Calls, invokeRustSidecar(c)
  PROVE  IndInv'
<1> USE DEF Return, releaseSidecarInvocationIfSafe, outside, invokeRustSidecar
<1>1. TypeOK'
  BY Entries DEF TypeOK, Leases, Places, Returned, NewLease, GenerationAssumption
<1>2. CallOK(c)'
  BY Entries DEF CallOK, Quarantined, Leases, Returned, NewLease, accepted
<1>3. ASSUME NEW d \in Calls \ {c} PROVE Same(d)
  BY Entries DEF Same, CallOK, NewLease, Leases
<1> QED
  BY <1>1, <1>2, <1>3, OneCall

(* What it is to run is not what was accepted.                             *)
LEMMA VerifyStep ==
  ASSUME IndInv, GenerationAssumption, NEW c \in Calls, verifyExactRegularFile(c)
  PROVE  IndInv'
<1> USE DEF Return, releaseSidecarInvocationIfSafe, outside, verifyExactRegularFile
<1>1. TypeOK'
  BY Entries DEF TypeOK, Leases, Places, Returned, NewLease, GenerationAssumption
<1>2. CallOK(c)'
  BY Entries DEF CallOK, Quarantined, Leases, Returned, NewLease, accepted
<1>3. ASSUME NEW d \in Calls \ {c} PROVE Same(d)
  BY Entries DEF Same, CallOK, NewLease, Leases
<1> QED
  BY <1>1, <1>2, <1>3, OneCall

(* The child is spawned under a generation of its own.                     *)
LEMMA AllocateStep ==
  ASSUME IndInv, GenerationAssumption, NEW c \in Calls, allocateSidecarGeneration(c)
  PROVE  IndInv'
<1> USE DEF outside
<1>1. CASE Return(c, "refused", lease[c]) /\ UNCHANGED <<lastGen, child>>
  <2> USE DEF Return, releaseSidecarInvocationIfSafe, allocateSidecarGeneration
  <2>1. TypeOK'
    BY <1>1, Entries DEF TypeOK, Leases, Places, Returned
  <2>2. CallOK(c)'
    BY <1>1, Entries DEF CallOK, Quarantined, Leases, Returned, NewLease
  <2>3. ASSUME NEW d \in Calls \ {c} PROVE Same(d)
    BY <1>1, Entries DEF Same
  <2> QED
    BY <2>1, <2>2, <2>3, OneCall
<1>2. CASE /\ lastGen < MaxGeneration /\ lastGen' = lastGen + 1
           /\ lease' = [lease EXCEPT ![c].generation = lastGen + 1]
           /\ child' = [child EXCEPT ![c] = "live"]
           /\ pc' = [pc EXCEPT ![c] = "running"] /\ UNCHANGED active
  <2>1. UNCHANGED <<trigger, kills, closeSeen, cause, evidence, ack>> /\ pc[c] = "verifying"
    BY DEF allocateSidecarGeneration
  <2>2. lastGen \in Nat /\ lastGen + 1 \in 1..MaxGeneration /\ lastGen + 1 \in 0..MaxGeneration
    BY <1>2, Entries DEF GenerationAssumption
  <2>3. /\ lease' \in [Calls -> Leases] /\ lease'[c] = [NewLease EXCEPT !.generation = lastGen + 1]
        /\ \A d \in Calls \ {c} : lease'[d] = lease[d]
    <3>1. lease[c] = NewLease /\ lease[c] \in Leases
      BY <2>1, Entries DEF CallOK
    <3>2. lease' = [lease EXCEPT ![c] = [lease[c] EXCEPT !.generation = lastGen + 1]]
      BY <1>2
    <3> QED
      BY <2>2, <3>1, <3>2, Entries, LeaseFields, LeaseEntry
  <2>4. /\ child' \in [Calls -> {"none", "live", "gone"}] /\ child'[c] = "live"
        /\ \A d \in Calls \ {c} : child'[d] = child[d]
    BY <1>2, Entries
  <2>5. pc' \in [Calls -> Places] /\ pc'[c] = "running" /\ \A d \in Calls \ {c} : pc'[d] = pc[d]
    BY <1>2, Entries DEF Places
  <2>6. TypeOK'
    BY <1>2, <2>1, <2>2, <2>3, <2>4, <2>5 DEF IndInv, TypeOK, Leases, Places
  <2>7. CallOK(c)'
    <3>1. /\ lease'[c].generation = lastGen + 1 /\ ~lease'[c].quarantine /\ ~lease'[c].closed
          /\ ~lease'[c].unknown
      BY <2>3 DEF NewLease
    <3> QED
      BY <1>2, <2>1, <2>2, <2>4, <2>5, <3>1, Entries DEF CallOK, Returned
  <2>8. ASSUME NEW d \in Calls \ {c} PROVE Same(d)
    BY <1>2, <2>1, <2>3, <2>4, <2>5 DEF Same
  <2> QED
    BY <2>6, <2>7, <2>8, OneCall
<1>3. exhausted <=> ~(lastGen < MaxGeneration)
  BY Entries DEF exhausted, GenerationAssumption
<1> QED
  BY <1>1, <1>2, <1>3 DEF allocateSidecarGeneration

(* The spawn fails, and the lease goes back.                               *)
LEMMA SpawnErrorStep ==
  ASSUME IndInv, GenerationAssumption, NEW c \in Calls, onceError(c)
  PROVE  IndInv'
<1> USE DEF Return, releaseSidecarInvocationIfSafe, outside, onceError
<1>1. TypeOK'
  BY Entries DEF TypeOK, Leases, Places, Returned, NewLease, GenerationAssumption
<1>2. CallOK(c)'
  BY Entries DEF CallOK, Quarantined, Leases, Returned, NewLease, accepted
<1>3. ASSUME NEW d \in Calls \ {c} PROVE Same(d)
  BY Entries DEF Same, CallOK, NewLease, Leases
<1> QED
  BY <1>1, <1>2, <1>3, OneCall

(* The child writes its evidence and prints.                               *)
LEMMA ChildWorksStep ==
  ASSUME IndInv, GenerationAssumption, NEW c \in Calls, ChildWorks(c)
  PROVE  IndInv'
<1> USE DEF Return, releaseSidecarInvocationIfSafe, outside, ChildWorks
<1>1. TypeOK'
  BY Entries DEF TypeOK, Leases, Places, Returned, NewLease, GenerationAssumption
<1>2. CallOK(c)'
  BY Entries DEF CallOK, Quarantined, Leases, Returned, NewLease, accepted
<1>3. ASSUME NEW d \in Calls \ {c} PROVE Same(d)
  BY Entries DEF Same, CallOK, NewLease, Leases
<1> QED
  BY <1>1, <1>2, <1>3, OneCall

(* The child ends.                                                         *)
LEMMA ChildEndsStep ==
  ASSUME IndInv, GenerationAssumption, NEW c \in Calls, ChildEnds(c)
  PROVE  IndInv'
<1> USE DEF Return, releaseSidecarInvocationIfSafe, outside, ChildEnds
<1>1. TypeOK'
  BY Entries DEF TypeOK, Leases, Places, Returned, NewLease, GenerationAssumption
<1>2. CallOK(c)'
  BY Entries DEF CallOK, Quarantined, Leases, Returned, NewLease, accepted
<1>3. ASSUME NEW d \in Calls \ {c} PROVE Same(d)
  BY Entries DEF Same, CallOK, NewLease, Leases
<1> QED
  BY <1>1, <1>2, <1>3, OneCall

(* The deadline or a cap puts the lease in quarantine.                     *)
LEMMA RequestStep ==
  ASSUME IndInv, GenerationAssumption, NEW c \in Calls, requestTermination(c)
  PROVE  IndInv'
<1> USE DEF outside, requestTermination
<1>1. /\ lease' \in [Calls -> Leases] /\ lease'[c] = [lease[c] EXCEPT !.quarantine = TRUE]
      /\ \A d \in Calls \ {c} : lease'[d] = lease[d]
  <2>1. lease' = [lease EXCEPT ![c] = [lease[c] EXCEPT !.quarantine = TRUE]]
    OBVIOUS
  <2> QED
    BY <2>1, Entries, LeaseFields, LeaseEntry
<1>2. trigger' \in [Calls -> BOOLEAN] /\ trigger'[c] = TRUE /\ \A d \in Calls \ {c} : trigger'[d] = trigger[d]
  BY Entries
<1>3. UNCHANGED <<active, lastGen, pc, kills, child, closeSeen, cause, evidence, ack>>
  OBVIOUS
<1>4. TypeOK'
  BY <1>1, <1>2, <1>3 DEF IndInv, TypeOK, Leases
<1>5. CallOK(c)'
  BY Entries DEF CallOK, Quarantined, Leases, Returned, NewLease, accepted
<1>6. ASSUME NEW d \in Calls \ {c} PROVE Same(d)
  BY <1>1, <1>2, <1>3 DEF Same
<1> QED
  BY <1>4, <1>5, <1>6, OneCall

(* The call returns; the quarantine stays until the child is seen to close. *)
LEMMA FinishStep ==
  ASSUME IndInv, GenerationAssumption, NEW c \in Calls, finishTermination(c)
  PROVE  IndInv'
<1> USE DEF Return, releaseSidecarInvocationIfSafe, outside, finishTermination
<1>1. /\ lease' \in [Calls -> Leases] /\ lease'[c] = [lease[c] EXCEPT !.unknown = TRUE]
      /\ \A d \in Calls \ {c} : lease'[d] = lease[d]
  BY Entries, LeaseFields, LeaseEntry
<1>2. /\ lease'[c].generation = lease[c].generation /\ lease'[c].quarantine = lease[c].quarantine
      /\ lease'[c].closed = lease[c].closed /\ lease'[c].unknown = TRUE
  BY <1>1, Entries DEF Leases
<1>3. /\ kills' \in [Calls -> 0..1] /\ \A d \in Calls \ {c} : kills'[d] = kills[d]
  BY Entries
<1>4. /\ pc' \in [Calls -> Places] /\ pc'[c] = "unknown" /\ \A d \in Calls \ {c} : pc'[d] = pc[d]
  BY Entries DEF Places, Returned
<1>5. UNCHANGED <<lastGen, trigger, child, closeSeen, cause, evidence, ack>> /\ pc[c] = "running" /\ trigger[c]
  OBVIOUS
<1>6. /\ active = c /\ lease[c].quarantine /\ child[c] # "none" /\ (lease[c].closed <=> closeSeen[c])
      /\ lease[c].generation # 0
  BY <1>5, Entries DEF CallOK
<1>7. active' = IF ~lease[c].closed THEN c ELSE NoCall
  <2>1. active' = IF active = c /\ ~(lease'[c].quarantine /\ ~lease'[c].closed) THEN NoCall ELSE active
    BY <1>1
  <2> QED
    BY <1>2, <1>6, <2>1
<1> HIDE DEF Return, finishTermination
<1>8. TypeOK'
  <2>1. active' \in Calls \cup {NoCall}
    BY <1>7
  <2> QED
    BY <1>1, <1>3, <1>4, <1>5, <2>1 DEF IndInv, TypeOK, Leases, Places
<1>9. CallOK(c)'
  <2>1. /\ lease'[c].quarantine /\ lease'[c].unknown /\ lease'[c].generation # 0
        /\ lease'[c].closed <=> closeSeen'[c]
    BY <1>2, <1>5, <1>6
  <2>2. active' = c => ~closeSeen'[c] /\ ~lease'[c].closed
    BY <1>5, <1>6, <1>7, <2>1, Entries DEF GenerationAssumption
  <2>3. /\ child'[c] # "none" /\ (child'[c] = "live" => active' = c)
        /\ closeSeen'[c] => child'[c] = "gone"
    <3>1. closeSeen[c] => child[c] = "gone"
      BY <1>6, Entries DEF CallOK
    <3> QED
      BY <1>5, <1>6, <1>7, <3>1
  <2> QED
    BY <1>4, <2>1, <2>2, <2>3 DEF CallOK, Quarantined, Returned
<1>10. ASSUME NEW d \in Calls \ {c} PROVE Same(d)
  <2>1. active' # d /\ active # d
    BY <1>6, <1>7, Entries DEF GenerationAssumption
  <2> QED
    BY <1>1, <1>3, <1>4, <1>5, <2>1 DEF Same
<1> QED
  BY <1>8, <1>9, <1>10, OneCall

(* The close of exactly this child ends the quarantine.                    *)
LEMMA CloseStep ==
  ASSUME IndInv, GenerationAssumption, NEW c \in Calls, onChildClose(c)
  PROVE  IndInv'
<1> USE DEF outside
<1>1. /\ child[c] = "gone" /\ ~closeSeen[c] /\ lease[c].generation # 0
      /\ closeSeen' \in [Calls -> BOOLEAN] /\ closeSeen'[c] = TRUE
      /\ \A d \in Calls \ {c} : closeSeen'[d] = closeSeen[d]
      /\ UNCHANGED <<lastGen, trigger, kills, child, cause, evidence, ack>>
  BY Entries DEF onChildClose, CallOK
<1>2. pc[c] \notin {"idle", "verifying"} /\ (active = c => ~lease[c].closed)
  BY <1>1, Entries DEF CallOK, Quarantined, Returned, Places
<1>3. CASE active # c
  <2>1. UNCHANGED <<active, lease, pc>>
    BY <1>3 DEF onChildClose, matchingClose
  <2>2. TypeOK'
    BY <1>1, <2>1 DEF IndInv, TypeOK
  <2>3. CallOK(c)'
    BY <1>1, <1>3, <2>1, Entries DEF CallOK, Quarantined
  <2>4. ASSUME NEW d \in Calls \ {c} PROVE Same(d)
    BY <1>1, <2>1 DEF Same
  <2> QED
    BY <2>2, <2>3, <2>4, OneCall
<1>4. CASE active = c
  <2>1. /\ lease' = [lease EXCEPT ![c].closed = TRUE]
        /\ active' = IF releasesOnClose(c) THEN NoCall ELSE active
        /\ pc' = [pc EXCEPT ![c] = IF @ = "running" /\ ~trigger[c] THEN "reading" ELSE @]
    BY <1>1, <1>2, <1>4 DEF onChildClose, matchingClose
  <2>2. /\ lease' \in [Calls -> Leases] /\ (\A d \in Calls \ {c} : lease'[d] = lease[d])
        /\ lease'[c].generation = lease[c].generation /\ lease'[c].quarantine = lease[c].quarantine
        /\ lease'[c].closed = TRUE /\ lease'[c].unknown = lease[c].unknown
    <3>1. lease' = [lease EXCEPT ![c] = [lease[c] EXCEPT !.closed = TRUE]]
      BY <2>1
    <3>2. /\ lease' \in [Calls -> Leases] /\ lease'[c] = [lease[c] EXCEPT !.closed = TRUE]
          /\ \A d \in Calls \ {c} : lease'[d] = lease[d]
      BY <3>1, Entries, LeaseFields, LeaseEntry
    <3> QED
      BY <3>2, Entries DEF Leases
  <2>3. /\ pc' \in [Calls -> Places] /\ (\A d \in Calls \ {c} : pc'[d] = pc[d])
        /\ pc'[c] = IF pc[c] = "running" /\ ~trigger[c] THEN "reading" ELSE pc[c]
    BY <2>1, Entries DEF Places
  <2>4. active' \in {c, NoCall} /\ (active' = c <=> ~(lease[c].quarantine /\ lease[c].unknown))
    BY <1>4, <2>1, Entries DEF releasesOnClose
  <2>5. pc[c] \in Returned => active' # c
    BY <1>4, <2>4, Entries DEF CallOK, Quarantined
  <2>6. pc[c] = "running" => active' = c
    BY <2>4, Entries DEF CallOK
  <2>7. pc[c] # "reading"
    BY <1>1, Entries DEF CallOK
  <2>8. TypeOK'
    BY <1>1, <2>2, <2>3, <2>4, Entries DEF TypeOK, Leases, Places
  <2>9. CallOK(c)'
    <3>1. CASE pc[c] = "running"
      BY <1>1, <2>2, <2>3, <2>6, <3>1, Entries DEF CallOK, Quarantined, Returned
    <3>2. CASE pc[c] \in Returned
      BY <1>1, <2>2, <2>3, <2>5, <3>2, Entries DEF CallOK, Quarantined, Returned
    <3> QED
      BY <1>2, <2>7, <3>1, <3>2, Entries DEF Places
  <2>10. ASSUME NEW d \in Calls \ {c} PROVE Same(d)
    <3>1. active' # d /\ active # d
      BY <1>4, <2>4, Entries DEF GenerationAssumption
    <3> QED
      BY <1>1, <2>2, <2>3, <3>1 DEF Same
  <2> QED
    BY <2>8, <2>9, <2>10, OneCall
<1> QED
  BY <1>3, <1>4

(* The evidence is read when the child has closed by itself.               *)
LEMMA ReadingStep ==
  ASSUME IndInv, GenerationAssumption, NEW c \in Calls, invokeRustSidecarExclusive(c)
  PROVE  IndInv'
<1> USE DEF Return, releaseSidecarInvocationIfSafe, outside, invokeRustSidecarExclusive
<1>1. TypeOK'
  BY Entries DEF TypeOK, Leases, Places, Returned, NewLease, GenerationAssumption
<1>2. CallOK(c)'
  BY Entries DEF CallOK, Quarantined, Leases, Returned, NewLease, accepted
<1>3. ASSUME NEW d \in Calls \ {c} PROVE Same(d)
  BY Entries DEF Same, CallOK, NewLease, Leases
<1> QED
  BY <1>1, <1>2, <1>3, OneCall

-----------------------------------------------------------------------------
(* The invariant                                                           *)

(* The invariant holds before any call.                                  *)
LEMMA InitIndInv == ASSUME GenerationAssumption, Init PROVE IndInv
<1>1. TypeOK
  BY DEF Init, TypeOK, NewLease, GenerationAssumption
<1>2. \A c \in Calls : CallOK(c)
  BY DEF Init, CallOK, NewLease, Returned, GenerationAssumption
<1> QED
  BY <1>1, <1>2 DEF IndInv

(* Every step of the adapter keeps the invariant.                        *)
LEMMA NextIndInv == ASSUME GenerationAssumption, IndInv, [Next]_vars PROVE IndInv'
<1>1. CASE Next
  <2> PICK c \in Calls :
        \/ invokeRustSidecar(c) \/ verifyExactRegularFile(c) \/ allocateSidecarGeneration(c)
        \/ onceError(c) \/ ChildWorks(c) \/ ChildEnds(c)
        \/ requestTermination(c) \/ finishTermination(c) \/ onChildClose(c)
        \/ invokeRustSidecarExclusive(c)
    BY <1>1 DEF Next
  <2> QED
    BY InvokeStep, VerifyStep, AllocateStep, SpawnErrorStep, ChildWorksStep, ChildEndsStep, RequestStep,
       FinishStep, CloseStep, ReadingStep
<1>2. CASE UNCHANGED vars
  <2>1. UNCHANGED <<active, lastGen, lease, pc, trigger, kills, child, closeSeen, cause, evidence, ack>>
    BY <1>2 DEF vars
  <2>2. TypeOK'
    BY <2>1 DEF IndInv, TypeOK
  <2>3. \A c \in Calls : CallOK(c)'
    BY <2>1 DEF IndInv, CallOK, Quarantined
  <2> QED
    BY <2>2, <2>3 DEF IndInv
<1> QED
  BY <1>1, <1>2

-----------------------------------------------------------------------------
(* The theorems                                                            *)

(* The inductive invariant: every call of invokeRustSidecar with its lease *)
(* and its child, in every reachable state, whatever deadlines passed and  *)
(* in whichever order the close and the grace timer came about.            *)
THEOREM IndInvariant ==
  ASSUME GenerationAssumption
  PROVE  Spec => []IndInv
<1>1. Init => IndInv
  BY InitIndInv
<1>2. IndInv /\ [Next]_vars => IndInv'
  BY NextIndInv
<1> QED
  BY <1>1, <1>2, PTL DEF Spec

(* Every variable keeps its type: no generation beyond the last is given.  *)
THEOREM TypesHold ==
  ASSUME GenerationAssumption
  PROVE  Spec => []TypeOK
<1>1. IndInv => TypeOK
  BY DEF IndInv
<1> QED
  BY <1>1, IndInvariant, PTL

(* The lease of invokeRustSidecar excludes a second child while the first  *)
(* may be alive, also after its call returned with an unknown outcome.     *)
THEOREM OneChildAtATime ==
  ASSUME GenerationAssumption
  PROVE  Spec => []OneLiveChild
<1>1. IndInv => OneLiveChild
  <2> SUFFICES ASSUME IndInv PROVE OneLiveChild
    OBVIOUS
  <2> DEFINE live == {c \in Calls : child[c] = "live"}
  <2>1. \A c \in live : c = active
    BY DEF IndInv, CallOK
  <2>2. CASE live = {}
    BY <2>2, FS_EmptySet DEF OneLiveChild
  <2>3. CASE live # {}
    <3>1. live = {active}
      BY <2>1, <2>3
    <3>2. Cardinality({active}) = 1
      BY FS_Singleton
    <3> QED
      BY <3>1, <3>2 DEF OneLiveChild
  <2> QED
    BY <2>2, <2>3
<1> QED
  BY <1>1, IndInvariant, PTL

(* releaseSidecarInvocationIfSafe and observeMatchingChildClose between    *)
(* them give every lease back: none is held by a call that returned and    *)
(* whose child was seen to close, or was never there.                      *)
THEOREM LeasesComeBack ==
  ASSUME GenerationAssumption
  PROVE  Spec => []QuarantineEnds
<1>1. IndInv => QuarantineEnds
  BY DEF IndInv, CallOK, Quarantined, QuarantineEnds
<1> QED
  BY <1>1, IndInvariant, PTL

(* invokeRustSidecarExclusive returns a result only for a child that       *)
(* exited by itself and whose whole evidence its acknowledgement names.    *)
THEOREM ResultsAreEvidence ==
  ASSUME GenerationAssumption
  PROVE  Spec => []ResultIsEvidence
<1>1. IndInv => ResultIsEvidence
  BY DEF IndInv, CallOK, ResultIsEvidence
<1> QED
  BY <1>1, IndInvariant, PTL

-----------------------------------------------------------------------------
(* The pipes of a launcher.                                                *)

Kinds == {"idle", "pending", "bytes", "broken", "aborted"}
Operations == {"prepared", "pending", "terminal", "error", "no data", "cancelling", "retired"}
Running == {"start", "stdin", "stdout", "stderr", "exit"}
Retiring == {"retire stdin", "retire stdout", "retire stderr"}
Steps == Running \cup {"terminate", "cancel"} \cup Retiring \cup {"drop", "done"}

(* The types, with those of the surroundings.                              *)
Types ==
  /\ Io!TypeOK /\ place \in Steps /\ retired \in BOOLEAN /\ late \in BOOLEAN /\ over \in BOOLEAN
  /\ fed \in BOOLEAN
  /\ os \in [Io!Streams -> [kind : Kinds, n : Nat]]
  /\ wrote \in [Io!Reads -> Nat] /\ pipe \in [Io!Reads -> Nat] /\ captured \in [Io!Reads -> Nat]

(* An operation and what the system has of it.                             *)
OperationOK(s) ==
  /\ os[s].kind = "pending" => op[s] \in {"pending", "cancelling"}
  /\ op[s] \in {"prepared", "no data"} => os[s].kind = "idle"
  /\ mem[s] = "freed" \/ handle[s] = "closed" => os[s].kind # "pending"
  /\ s \in Io!Reads /\ place # "done" => mem[s] = "live" /\ handle[s] = "open"
  /\ place = "start" => mem[s] = "live" /\ handle[s] = "open"

(* How far the operations are when the reducer is at a step.               *)
PlaceOK ==
  /\ place = "stdin" => op["stdin"] = "pending"
  /\ place \in {"stdin", "stdout"} => op["stdout"] = "pending"
  /\ place \in {"stdin", "stdout", "stderr"} => op["stderr"] = "pending"
  /\ place = "retire stdout" => op["stdin"] = "retired"
  /\ place = "retire stderr" => op["stdin"] = "retired" /\ op["stdout"] = "retired"
  /\ retired => place \in {"drop", "done"} /\ \A s \in Io!Streams : op[s] = "retired"
  /\ place \in Running => result = "none" /\ process # "killed"

(* Where the bytes of a stream are while the reducer reads it.              *)
Unread(s) == IF os[s].kind = "bytes" THEN os[s].n ELSE 0
StreamOK(s) ==
  /\ op[s] \in {"pending", "cancelling"} => /\ captured[s] + Unread(s) + pipe[s] <= wrote[s]
                                            /\ captured[s] + Unread(s) <= Cap + 1
  /\ place \in {"start", "stdin", "stdout", "stderr"} /\ op[s] \in {"prepared", "pending"} =>
           /\ wrote[s] = captured[s] + Unread(s) + pipe[s] /\ captured[s] <= Cap
  /\ os[s].kind = "broken" => process # "running" /\ pipe[s] = 0
Whole(s) == /\ process # "running" /\ wrote[s] = captured[s] /\ pipe[s] = 0 /\ captured[s] <= Cap
            /\ os[s].kind = "broken"
ReadOK ==
  /\ \A s \in Io!Reads : StreamOK(s)
  /\ place \in {"stderr", "exit"} \/ result = "success" => Whole("stdout")
  /\ place = "exit" \/ result = "success" => Whole("stderr") /\ wrote["stderr"] = 0
  /\ result = "success" => /\ process = "ended" /\ place \in Retiring \cup {"drop", "done"}
                           /\ place \in {"drop", "done"} => retired
  /\ place = "start" => \A s \in Io!Streams : op[s] = "prepared" /\ os[s].kind = "idle"

IoInv == Types /\ (\A s \in Io!Streams : OperationOK(s)) /\ PlaceOK /\ ReadOK

-----------------------------------------------------------------------------
(* The parts of the types, for steps that need them one by one.            *)
SystemTypes == op \in [Io!Streams -> Operations] /\ os \in [Io!Streams -> [kind : Kinds, n : Nat]]
MemoryTypes == mem \in [Io!Streams -> {"live", "freed", "leaked"}]
    /\ handle \in [Io!Streams -> {"open", "closed"}]
PlainTypes == /\ process \in {"running", "ended", "killed"} /\ faults \in 0..MaxFaults /\ place \in Steps
              /\ result \in {"none", "success", "failed", "unknown", "deadline", "quarantined"}
FlagTypes == retired \in BOOLEAN /\ late \in BOOLEAN /\ over \in BOOLEAN /\ fed \in BOOLEAN
CountTypes == wrote \in [Io!Reads -> Nat] /\ pipe \in [Io!Reads -> Nat] /\ captured \in [Io!Reads -> Nat]
CountBounds == \A s \in Io!Reads : captured[s] + pipe[s] <= wrote[s] /\ captured[s] <= Cap + 1

(* The types are those parts.                                              *)
LEMMA TypeParts ==
  Types <=> SystemTypes /\ MemoryTypes /\ PlainTypes /\ FlagTypes /\ CountTypes /\ CountBounds
  BY DEF Types, Io!TypeOK, SystemTypes, MemoryTypes, PlainTypes, FlagTypes, CountTypes, CountBounds, Operations

(* What was written is captured or in the pipe, and within the cap.        *)
LEMMA Arithmetic ==
  ASSUME NEW a \in Nat, NEW b \in Nat, NEW w \in Nat, NEW cap \in Nat, w = a + 0 + b, a <= cap
  PROVE  a + 0 + b <= w /\ a + 0 <= cap + 1
  OBVIOUS

(* What a step does, by what it changes.                                   *)

(* The child writes a byte: it goes into the pipe.                         *)
LEMMA WriteCase ==
  ASSUME Io!IoAssumption, IoInv, NEW s \in Io!Reads,
         process = "running",
         wrote' \in [Io!Reads -> Nat],
         pipe' \in [Io!Reads -> Nat],
         \A t \in Io!Reads : (wrote'[t] = wrote[t] /\ pipe'[t] = pipe[t])
                             \/ (wrote'[t] = wrote[t] + 1 /\ pipe'[t] = pipe[t] + 1),
         UNCHANGED <<place, op, os, mem, handle, retired, process, fed, captured, late, over, result, faults>>
  PROVE  IoInv'
<1>0. Types /\ (\A t \in Io!Streams : OperationOK(t)) /\ PlaceOK /\ ReadOK
  BY DEF IoInv
<1>1. Types'
  <2>1. SystemTypes'
    BY <1>0, TypeParts DEF SystemTypes
  <2>2. MemoryTypes'
    BY <1>0, TypeParts DEF MemoryTypes
  <2>3. PlainTypes'
    BY <1>0, TypeParts DEF PlainTypes
  <2>4. FlagTypes'
    BY <1>0, TypeParts DEF FlagTypes
  <2>5. CountTypes'
    BY <1>0, TypeParts DEF CountTypes
  <2>6. CountBounds'
    <3> SUFFICES ASSUME NEW t \in Io!Reads
                 PROVE  captured'[t] + pipe'[t] <= wrote'[t] /\ captured'[t] <= Cap + 1
      BY DEF CountBounds
    <3>1. captured[t] + pipe[t] <= wrote[t] /\ captured[t] <= Cap + 1 /\ Cap \in Nat
      BY <1>0, TypeParts DEF CountBounds, Io!IoAssumption
    <3>2. captured[t] \in Nat /\ pipe[t] \in Nat /\ wrote[t] \in Nat
      BY <1>0, TypeParts DEF CountTypes
    <3>3. \/ wrote'[t] = wrote[t] /\ pipe'[t] = pipe[t]
          \/ wrote'[t] = wrote[t] + 1 /\ pipe'[t] = pipe[t] + 1
      OBVIOUS
    <3>4. captured'[t] = captured[t]
      OBVIOUS
    <3> QED
      BY <3>1, <3>2, <3>3, <3>4
  <2> QED
    BY <2>1, <2>2, <2>3, <2>4, <2>5, <2>6 DEF Types, Io!TypeOK, SystemTypes, MemoryTypes, PlainTypes, FlagTypes,
       CountTypes, CountBounds, Operations
<1>2. \A t \in Io!Streams : OperationOK(t)'
  BY <1>0 DEF OperationOK
<1>3. PlaceOK'
  BY <1>0 DEF PlaceOK
<1>4. ASSUME NEW t \in Io!Reads PROVE StreamOK(t)'
  <2>1. t \in Io!Streams /\ StreamOK(t) /\ OperationOK(t)
    BY <1>0 DEF ReadOK, Io!Streams
  <2>2. /\ captured[t] \in Nat /\ pipe[t] \in Nat /\ wrote[t] \in Nat /\ Cap \in Nat
        /\ os[t] \in [kind : Kinds, n : Nat]
    BY <1>0, TypeParts, <2>1 DEF CountTypes, SystemTypes, Io!IoAssumption
  <2>3. Unread(t) \in Nat /\ Unread(t)' = Unread(t)
    BY <2>2 DEF Unread
  <2>4. /\ captured'[t] = captured[t] /\ op'[t] = op[t] /\ place' = place
        /\ \/ wrote'[t] = wrote[t] /\ pipe'[t] = pipe[t]
           \/ wrote'[t] = wrote[t] + 1 /\ pipe'[t] = pipe[t] + 1
    OBVIOUS
  <2> QED
    BY <2>1, <2>2, <2>3, <2>4 DEF StreamOK
<1>5. ReadOK'
  BY <1>0, <1>4 DEF ReadOK, Whole
<1> QED
  BY <1>1, <1>2, <1>3, <1>5 DEF IoInv

(* The child ends.                                                         *)
LEMMA EndCase ==
  ASSUME Io!IoAssumption, IoInv,
         process = "running",
         process' = "ended",
         UNCHANGED <<place, op, os, mem, handle, retired, fed, wrote, pipe, captured, late, over, result,
                     faults>>
  PROVE  IoInv'
<1>0. Types /\ (\A t \in Io!Streams : OperationOK(t)) /\ PlaceOK /\ ReadOK
  BY DEF IoInv
<1>1. Types'
  <2>1. SystemTypes'
    BY <1>0, TypeParts DEF SystemTypes
  <2>2. MemoryTypes'
    BY <1>0, TypeParts DEF MemoryTypes
  <2>3. PlainTypes'
    BY <1>0, TypeParts DEF PlainTypes
  <2>4. FlagTypes'
    BY <1>0, TypeParts DEF FlagTypes
  <2>5. CountTypes'
    BY <1>0, TypeParts DEF CountTypes
  <2>6. CountBounds'
    BY <1>0, TypeParts DEF CountBounds
  <2> QED
    BY <2>1, <2>2, <2>3, <2>4, <2>5, <2>6 DEF Types, Io!TypeOK, SystemTypes, MemoryTypes, PlainTypes, FlagTypes,
       CountTypes, CountBounds, Operations
<1>2. \A t \in Io!Streams : OperationOK(t)'
  BY <1>0 DEF OperationOK
<1>3. PlaceOK'
  BY <1>0 DEF PlaceOK
<1>4. \A t \in Io!Reads : StreamOK(t)'
  BY <1>0 DEF StreamOK, Unread, ReadOK
<1>5. ReadOK'
  BY <1>0, <1>4 DEF ReadOK, Whole
<1> QED
  BY <1>1, <1>2, <1>3, <1>5 DEF IoInv

(* The deadline, or the grace after it, passes.                            *)
LEMMA TickCase ==
  ASSUME Io!IoAssumption, IoInv,
         late' \in BOOLEAN,
         over' \in BOOLEAN,
         UNCHANGED <<place, op, os, mem, handle, retired, process, fed, wrote, pipe, captured, result, faults>>
  PROVE  IoInv'
<1>0. Types /\ (\A t \in Io!Streams : OperationOK(t)) /\ PlaceOK /\ ReadOK
  BY DEF IoInv
<1>1. Types'
  <2>1. SystemTypes'
    BY <1>0, TypeParts DEF SystemTypes
  <2>2. MemoryTypes'
    BY <1>0, TypeParts DEF MemoryTypes
  <2>3. PlainTypes'
    BY <1>0, TypeParts DEF PlainTypes
  <2>4. FlagTypes'
    BY <1>0, TypeParts DEF FlagTypes
  <2>5. CountTypes'
    BY <1>0, TypeParts DEF CountTypes
  <2>6. CountBounds'
    BY <1>0, TypeParts DEF CountBounds
  <2> QED
    BY <2>1, <2>2, <2>3, <2>4, <2>5, <2>6 DEF Types, Io!TypeOK, SystemTypes, MemoryTypes, PlainTypes, FlagTypes,
       CountTypes, CountBounds, Operations
<1>2. \A t \in Io!Streams : OperationOK(t)'
  BY <1>0 DEF OperationOK
<1>3. PlaceOK'
  BY <1>0 DEF PlaceOK
<1>4. \A t \in Io!Reads : StreamOK(t)'
  BY <1>0 DEF StreamOK, Unread, ReadOK
<1>5. ReadOK'
  BY <1>0, <1>4 DEF ReadOK, Whole
<1> QED
  BY <1>1, <1>2, <1>3, <1>5 DEF IoInv

(* The system completes an operation with the end of its pipe, which a     *)
(* read meets only when the pipe is empty and the child is gone, or as     *)
(* aborted.                                                                *)
LEMMA EndingCase ==
  ASSUME Io!IoAssumption, IoInv, NEW s \in Io!Streams, NEW k \in {"broken", "aborted"},
         os[s].kind = "pending",
         os' \in [Io!Streams -> [kind : Kinds, n : Nat]],
         os'[s].kind = k,
         os'[s].n = 0,
         \A t \in Io!Streams \ {s} : os'[t] = os[t],
         k = "aborted" => op[s] = "cancelling",
         k = "broken" => process # "running" /\ (s \in Io!Reads => pipe[s] = 0),
         UNCHANGED <<place, op, mem, handle, retired, process, fed, wrote, pipe, captured, late, over, result,
                     faults>>
  PROVE  IoInv'
<1>0. Types /\ (\A t \in Io!Streams : OperationOK(t)) /\ PlaceOK /\ ReadOK
  BY DEF IoInv
<1>1. Types'
  <2>1. SystemTypes'
    BY <1>0, TypeParts DEF SystemTypes
  <2>2. MemoryTypes'
    BY <1>0, TypeParts DEF MemoryTypes
  <2>3. PlainTypes'
    BY <1>0, TypeParts DEF PlainTypes
  <2>4. FlagTypes'
    BY <1>0, TypeParts DEF FlagTypes
  <2>5. CountTypes'
    BY <1>0, TypeParts DEF CountTypes
  <2>6. CountBounds'
    BY <1>0, TypeParts DEF CountBounds
  <2> QED
    BY <2>1, <2>2, <2>3, <2>4, <2>5, <2>6 DEF Types, Io!TypeOK, SystemTypes, MemoryTypes, PlainTypes, FlagTypes,
       CountTypes, CountBounds, Operations
<1>2. \A t \in Io!Streams : OperationOK(t)'
  <2> SUFFICES ASSUME NEW t \in Io!Streams PROVE OperationOK(t)'
    OBVIOUS
  <2>1. OperationOK(t)
    BY <1>0
  <2>2. CASE t = s
    BY <1>0, <2>1, <2>2, TypeParts DEF OperationOK, PlaceOK, Io!Streams, Io!Reads, MemoryTypes, SystemTypes
  <2>3. CASE t # s
    BY <1>0, <2>1, <2>3, TypeParts DEF OperationOK, Io!Streams, Io!Reads
  <2> QED
    BY <2>2, <2>3
<1>3. PlaceOK'
  BY <1>0 DEF PlaceOK
<1>4. ASSUME NEW t \in Io!Reads PROVE StreamOK(t)'
  <2>1. t \in Io!Streams /\ StreamOK(t) /\ OperationOK(t)
    BY <1>0 DEF ReadOK, Io!Streams
  <2>2. captured[t] \in Nat /\ pipe[t] \in Nat /\ wrote[t] \in Nat /\ os[t].n \in Nat /\ Cap \in Nat
    BY <1>0, TypeParts, <2>1 DEF CountTypes, SystemTypes, Io!IoAssumption
  <2>3. CASE t = s
    BY <1>0, <2>1, <2>2, <2>3 DEF StreamOK, Unread, OperationOK, Io!Reads, PlaceOK
  <2>4. CASE t # s
    BY <1>0, <2>1, <2>2, <2>4 DEF StreamOK, Unread, OperationOK, Io!Reads
  <2> QED
    BY <2>3, <2>4
<1>5. ReadOK'
  BY <1>0, <1>4 DEF ReadOK, Whole, Io!Streams, Io!Reads
<1> QED
  BY <1>1, <1>2, <1>3, <1>5 DEF IoInv

(* The system completes the write of the input.                            *)
LEMMA WrittenCase ==
  ASSUME Io!IoAssumption, IoInv,
         os["stdin"].kind = "pending",
         os' \in [Io!Streams -> [kind : Kinds, n : Nat]],
         os'["stdin"].kind = "bytes",
         \A t \in Io!Reads : os'[t] = os[t],
         UNCHANGED <<place, op, mem, handle, retired, process, fed, wrote, pipe, captured, late, over, result,
                     faults>>
  PROVE  IoInv'
<1>0. Types /\ (\A t \in Io!Streams : OperationOK(t)) /\ PlaceOK /\ ReadOK
  BY DEF IoInv
<1>1. Types'
  <2>1. SystemTypes'
    BY <1>0, TypeParts DEF SystemTypes
  <2>2. MemoryTypes'
    BY <1>0, TypeParts DEF MemoryTypes
  <2>3. PlainTypes'
    BY <1>0, TypeParts DEF PlainTypes
  <2>4. FlagTypes'
    BY <1>0, TypeParts DEF FlagTypes
  <2>5. CountTypes'
    BY <1>0, TypeParts DEF CountTypes
  <2>6. CountBounds'
    BY <1>0, TypeParts DEF CountBounds
  <2> QED
    BY <2>1, <2>2, <2>3, <2>4, <2>5, <2>6 DEF Types, Io!TypeOK, SystemTypes, MemoryTypes, PlainTypes, FlagTypes,
       CountTypes, CountBounds, Operations
<1>2. \A t \in Io!Streams : OperationOK(t)'
  BY <1>0, TypeParts DEF OperationOK, MemoryTypes, Io!Streams, Io!Reads
<1>3. PlaceOK'
  BY <1>0 DEF PlaceOK
<1>4. ASSUME NEW t \in Io!Reads PROVE StreamOK(t)'
  <2>1. t \in Io!Streams /\ StreamOK(t) /\ OperationOK(t)
    BY <1>0 DEF ReadOK, Io!Streams
  <2>2. captured[t] \in Nat /\ pipe[t] \in Nat /\ wrote[t] \in Nat /\ os[t].n \in Nat /\ Cap \in Nat
    BY <1>0, TypeParts, <2>1 DEF CountTypes, SystemTypes, Io!IoAssumption
  <2> QED
    BY <1>0, <2>1, <2>2 DEF StreamOK, Unread, OperationOK, Io!Reads, Io!Streams
<1>5. ReadOK'
  BY <1>0, <1>4 DEF ReadOK, Whole, Io!Streams, Io!Reads
<1> QED
  BY <1>1, <1>2, <1>3, <1>5 DEF IoInv

(* The system completes a read with what it took out of the pipe, at most  *)
(* one byte more than is still accepted.                                   *)
LEMMA BytesCase ==
  ASSUME Io!IoAssumption, IoInv, NEW s \in Io!Reads, NEW n \in Nat,
         os[s].kind = "pending",
         os' \in [Io!Streams -> [kind : Kinds, n : Nat]],
         n <= pipe[s],
         n <= Cap + 1 - captured[s],
         os'[s].kind = "bytes",
         os'[s].n = n,
         \A t \in Io!Streams \ {s} : os'[t] = os[t],
         pipe' \in [Io!Reads -> Nat],
         pipe'[s] + n = pipe[s],
         \A t \in Io!Reads \ {s} : pipe'[t] = pipe[t],
         UNCHANGED <<place, op, mem, handle, retired, process, fed, wrote, captured, late, over, result,
                     faults>>
  PROVE  IoInv'
<1>0. Types /\ (\A t \in Io!Streams : OperationOK(t)) /\ PlaceOK /\ ReadOK
  BY DEF IoInv
<1>1. Types'
  <2>1. SystemTypes'
    BY <1>0, TypeParts DEF SystemTypes
  <2>2. MemoryTypes'
    BY <1>0, TypeParts DEF MemoryTypes
  <2>3. PlainTypes'
    BY <1>0, TypeParts DEF PlainTypes
  <2>4. FlagTypes'
    BY <1>0, TypeParts DEF FlagTypes
  <2>5. CountTypes'
    BY <1>0, TypeParts DEF CountTypes
  <2>6. CountBounds'
    <3> SUFFICES ASSUME NEW t \in Io!Reads
                 PROVE  captured'[t] + pipe'[t] <= wrote'[t] /\ captured'[t] <= Cap + 1
      BY DEF CountBounds
    <3>1. captured[t] + pipe[t] <= wrote[t] /\ captured[t] <= Cap + 1 /\ Cap \in Nat
      BY <1>0, TypeParts DEF CountBounds, Io!IoAssumption
    <3>2. captured[t] \in Nat /\ pipe[t] \in Nat /\ wrote[t] \in Nat
      BY <1>0, TypeParts DEF CountTypes
    <3>3. captured'[t] = captured[t] /\ wrote'[t] = wrote[t] /\ pipe'[t] \in Nat /\ pipe'[t] <= pipe[t]
      BY <3>2
    <3> QED
      BY <3>1, <3>2, <3>3
  <2> QED
    BY <2>1, <2>2, <2>3, <2>4, <2>5, <2>6 DEF Types, Io!TypeOK, SystemTypes, MemoryTypes, PlainTypes, FlagTypes,
       CountTypes, CountBounds, Operations
<1>2. \A t \in Io!Streams : OperationOK(t)'
  <2> SUFFICES ASSUME NEW t \in Io!Streams PROVE OperationOK(t)'
    OBVIOUS
  <2>1. OperationOK(t)
    BY <1>0
  <2>2. CASE t = s
    BY <1>0, <2>1, <2>2, TypeParts DEF OperationOK, PlaceOK, Io!Streams, Io!Reads, MemoryTypes, SystemTypes
  <2>3. CASE t # s
    BY <1>0, <2>1, <2>3, TypeParts DEF OperationOK, Io!Streams, Io!Reads
  <2> QED
    BY <2>2, <2>3
<1>3. PlaceOK'
  BY <1>0 DEF PlaceOK
<1>4. ASSUME NEW t \in Io!Reads PROVE StreamOK(t)'
  <2>1. t \in Io!Streams /\ StreamOK(t) /\ OperationOK(t)
    BY <1>0 DEF ReadOK, Io!Streams
  <2>2. /\ captured[t] \in Nat /\ pipe[t] \in Nat /\ wrote[t] \in Nat /\ Cap \in Nat
        /\ os[t] \in [kind : Kinds, n : Nat]
    BY <1>0, TypeParts, <2>1 DEF CountTypes, SystemTypes, Io!IoAssumption
  <2>3. captured'[t] = captured[t] /\ wrote'[t] = wrote[t] /\ op'[t] = op[t] /\ place' = place
        /\ pipe'[t] \in Nat
    BY <2>2
  <2>4. Unread(t) \in Nat /\ (t # s => Unread(t)' = Unread(t) /\ pipe'[t] = pipe[t])
    BY <2>1, <2>2 DEF Unread
  <2>5. t = s => Unread(t) = 0 /\ Unread(t)' = n /\ pipe'[t] + n = pipe[t] /\ n <= Cap + 1 - captured[t]
    BY DEF Unread
  <2>6. CASE t = s
    BY <2>1, <2>2, <2>3, <2>5, <2>6 DEF StreamOK
  <2>7. CASE t # s
    BY <2>1, <2>2, <2>3, <2>4, <2>7 DEF StreamOK
  <2> QED
    BY <2>6, <2>7
<1>5. ReadOK'
  BY <1>0, <1>4 DEF ReadOK, Whole, Io!Streams, Io!Reads
<1> QED
  BY <1>1, <1>2, <1>3, <1>5 DEF IoInv

(* The three operations are submitted.                                     *)
LEMMA AllSubmitted ==
  ASSUME Io!IoAssumption, IoInv,
         place = "start",
         place' = "stdin",
         op' \in [Io!Streams -> Operations],
         os' \in [Io!Streams -> [kind : Kinds, n : Nat]],
         \A t \in Io!Streams : op'[t] = "pending" /\ os'[t].kind = "pending",
         UNCHANGED <<mem, handle, retired, process, fed, wrote, pipe, captured, late, over, result, faults>>
  PROVE  IoInv'
<1>0. Types /\ (\A t \in Io!Streams : OperationOK(t)) /\ PlaceOK /\ ReadOK
  BY DEF IoInv
<1>1. Types'
  <2>1. SystemTypes'
    BY <1>0, TypeParts DEF SystemTypes
  <2>2. MemoryTypes'
    BY <1>0, TypeParts DEF MemoryTypes
  <2>3. PlainTypes'
    BY <1>0, TypeParts DEF PlainTypes, Steps, Running
  <2>4. FlagTypes'
    BY <1>0, TypeParts DEF FlagTypes
  <2>5. CountTypes'
    BY <1>0, TypeParts DEF CountTypes
  <2>6. CountBounds'
    BY <1>0, TypeParts DEF CountBounds
  <2> QED
    BY <2>1, <2>2, <2>3, <2>4, <2>5, <2>6 DEF Types, Io!TypeOK, SystemTypes, MemoryTypes, PlainTypes, FlagTypes,
       CountTypes, CountBounds, Operations
<1>2. \A t \in Io!Streams : OperationOK(t)'
  BY <1>0 DEF OperationOK
<1>3. PlaceOK'
  BY <1>0 DEF PlaceOK, Running, Io!Streams, Io!Reads
<1>4. \A t \in Io!Reads : StreamOK(t)'
  BY <1>0, TypeParts DEF StreamOK, Unread, ReadOK, CountTypes, Io!Streams, Io!Reads, Io!IoAssumption
<1>5. ReadOK'
  BY <1>0, <1>4 DEF ReadOK, Whole, Retiring
<1> QED
  BY <1>1, <1>2, <1>3, <1>5 DEF IoInv

(* A submission fails: the operations before it are the system's.          *)
LEMMA NotAllSubmitted ==
  ASSUME Io!IoAssumption, IoInv,
         place = "start",
         place' = "terminate",
         result' = "failed",
         faults' \in 0..MaxFaults,
         op' \in [Io!Streams -> Operations],
         os' \in [Io!Streams -> [kind : Kinds, n : Nat]],
         \A t \in Io!Streams : \/ op'[t] = "pending" /\ os'[t].kind = "pending"
                               \/ op'[t] \in {"prepared", "no data", "error"} /\ os'[t].kind = "idle",
         UNCHANGED <<mem, handle, retired, process, fed, wrote, pipe, captured, late, over>>
  PROVE  IoInv'
<1>0. Types /\ (\A t \in Io!Streams : OperationOK(t)) /\ PlaceOK /\ ReadOK
  BY DEF IoInv
<1>1. Types'
  <2>1. SystemTypes'
    BY <1>0, TypeParts DEF SystemTypes
  <2>2. MemoryTypes'
    BY <1>0, TypeParts DEF MemoryTypes
  <2>3. PlainTypes'
    BY <1>0, TypeParts DEF PlainTypes, Steps
  <2>4. FlagTypes'
    BY <1>0, TypeParts DEF FlagTypes
  <2>5. CountTypes'
    BY <1>0, TypeParts DEF CountTypes
  <2>6. CountBounds'
    BY <1>0, TypeParts DEF CountBounds
  <2> QED
    BY <2>1, <2>2, <2>3, <2>4, <2>5, <2>6 DEF Types, Io!TypeOK, SystemTypes, MemoryTypes, PlainTypes, FlagTypes,
       CountTypes, CountBounds, Operations
<1>2. \A t \in Io!Streams : OperationOK(t)'
  BY <1>0 DEF OperationOK
<1>3. PlaceOK'
  BY <1>0 DEF PlaceOK, Running
<1>4. ASSUME NEW t \in Io!Reads PROVE StreamOK(t)'
  <2>1. t \in Io!Streams /\ StreamOK(t) /\ OperationOK(t)
    BY <1>0 DEF ReadOK, Io!Streams
  <2>2. /\ captured[t] \in Nat /\ pipe[t] \in Nat /\ wrote[t] \in Nat /\ Cap \in Nat
        /\ os[t] \in [kind : Kinds, n : Nat]
    BY <1>0, TypeParts, <2>1 DEF CountTypes, SystemTypes, Io!IoAssumption
  <2>3. Unread(t) = 0 /\ Unread(t)' = 0 /\ op[t] = "prepared" /\ os'[t].kind # "broken"
    BY <1>0, <2>1 DEF Unread, ReadOK
  <2>4. captured'[t] = captured[t] /\ wrote'[t] = wrote[t] /\ pipe'[t] = pipe[t]
    OBVIOUS
  <2>5. place = "start" /\ place' = "terminate"
    OBVIOUS
  <2>6. wrote[t] = captured[t] + 0 + pipe[t] /\ captured[t] <= Cap
    BY <2>1, <2>3, <2>5 DEF StreamOK
  <2>7. captured[t] + 0 + pipe[t] <= wrote[t] /\ captured[t] + 0 <= Cap + 1
    BY <2>2, <2>6, Arithmetic
  <2>8. captured'[t] + Unread(t)' + pipe'[t] <= wrote'[t] /\ captured'[t] + Unread(t)' <= Cap + 1
    BY <2>3, <2>4, <2>7
  <2>9. /\ place' \notin {"start", "stdin", "stdout", "stderr"}
        /\ os'[t].kind # "broken"
    BY <2>3, <2>5
  <2> QED
    BY <2>8, <2>9 DEF StreamOK
<1>5. ReadOK'
  BY <1>0, <1>4 DEF ReadOK, Whole
<1> QED
  BY <1>1, <1>2, <1>3, <1>5 DEF IoInv

(* The completed write is retired, freed and its handle closed.            *)
LEMMA StdinDone ==
  ASSUME Io!IoAssumption, IoInv,
         place = "stdin",
         place' = "stdout",
         os["stdin"].kind # "pending",
         fed' = TRUE,
         op' \in [Io!Streams -> Operations],
         mem' \in [Io!Streams -> {"live", "freed", "leaked"}],
         handle' \in [Io!Streams -> {"open", "closed"}],
         op'["stdin"] = "retired",
         \A t \in Io!Reads : op'[t] = op[t] /\ mem'[t] = mem[t] /\ handle'[t] = handle[t],
         UNCHANGED <<os, retired, process, wrote, pipe, captured, late, over, result, faults>>
  PROVE  IoInv'
<1>0. Types /\ (\A t \in Io!Streams : OperationOK(t)) /\ PlaceOK /\ ReadOK
  BY DEF IoInv
<1>1. Types'
  <2>1. SystemTypes'
    BY <1>0, TypeParts DEF SystemTypes
  <2>2. MemoryTypes'
    BY <1>0, TypeParts DEF MemoryTypes
  <2>3. PlainTypes'
    BY <1>0, TypeParts DEF PlainTypes, Steps, Running
  <2>4. FlagTypes'
    BY <1>0, TypeParts DEF FlagTypes
  <2>5. CountTypes'
    BY <1>0, TypeParts DEF CountTypes
  <2>6. CountBounds'
    BY <1>0, TypeParts DEF CountBounds
  <2> QED
    BY <2>1, <2>2, <2>3, <2>4, <2>5, <2>6 DEF Types, Io!TypeOK, SystemTypes, MemoryTypes, PlainTypes, FlagTypes,
       CountTypes, CountBounds, Operations
<1>2. \A t \in Io!Streams : OperationOK(t)'
  <2> SUFFICES ASSUME NEW t \in Io!Streams PROVE OperationOK(t)'
    OBVIOUS
  <2>1. OperationOK(t)
    BY <1>0
  <2>2. CASE t = "stdin"
    BY <1>0, <2>1, <2>2, TypeParts DEF OperationOK, PlaceOK, Io!Streams, Io!Reads, MemoryTypes, SystemTypes
  <2>3. CASE t # "stdin"
    BY <1>0, <2>1, <2>3, TypeParts DEF OperationOK, Io!Streams, Io!Reads
  <2> QED
    BY <2>2, <2>3
<1>3. PlaceOK'
  BY <1>0 DEF PlaceOK, Running, Io!Streams, Io!Reads
<1>4. ASSUME NEW t \in Io!Reads PROVE StreamOK(t)'
  <2>1. t \in Io!Streams /\ StreamOK(t) /\ OperationOK(t)
    BY <1>0 DEF ReadOK, Io!Streams
  <2>2. captured[t] \in Nat /\ pipe[t] \in Nat /\ wrote[t] \in Nat /\ os[t].n \in Nat /\ Cap \in Nat
    BY <1>0, TypeParts, <2>1 DEF CountTypes, SystemTypes, Io!IoAssumption
  <2> QED
    BY <1>0, <2>1, <2>2 DEF StreamOK, Unread, OperationOK, Io!Reads
<1>5. ReadOK'
  BY <1>0, <1>4 DEF ReadOK, Whole, Retiring
<1> QED
  BY <1>1, <1>2, <1>3, <1>5 DEF IoInv

(* The reducer fails while the input goes out or the child is waited for.  *)
LEMMA Failing ==
  ASSUME Io!IoAssumption, IoInv,
         place \in {"stdin", "exit"},
         place' = "terminate",
         result' \in {"failed", "deadline", "unknown"},
         faults' \in 0..MaxFaults,
         op' \in [Io!Streams -> Operations],
         op' = op \/ (os["stdin"].kind # "pending" /\ op'["stdin"] = "error"
             /\ \A t \in Io!Reads : op'[t] = op[t]),
         UNCHANGED <<os, mem, handle, retired, process, fed, wrote, pipe, captured, late, over>>
  PROVE  IoInv'
<1>0. Types /\ (\A t \in Io!Streams : OperationOK(t)) /\ PlaceOK /\ ReadOK
  BY DEF IoInv
<1>1. Types'
  <2>1. SystemTypes'
    BY <1>0, TypeParts DEF SystemTypes
  <2>2. MemoryTypes'
    BY <1>0, TypeParts DEF MemoryTypes
  <2>3. PlainTypes'
    BY <1>0, TypeParts DEF PlainTypes, Steps
  <2>4. FlagTypes'
    BY <1>0, TypeParts DEF FlagTypes
  <2>5. CountTypes'
    BY <1>0, TypeParts DEF CountTypes
  <2>6. CountBounds'
    BY <1>0, TypeParts DEF CountBounds
  <2> QED
    BY <2>1, <2>2, <2>3, <2>4, <2>5, <2>6 DEF Types, Io!TypeOK, SystemTypes, MemoryTypes, PlainTypes, FlagTypes,
       CountTypes, CountBounds, Operations
<1>2. \A t \in Io!Streams : OperationOK(t)'
  BY <1>0, TypeParts DEF OperationOK, MemoryTypes, Io!Streams, Io!Reads
<1>3. PlaceOK'
  BY <1>0 DEF PlaceOK, Running
<1>4. \A t \in Io!Reads : StreamOK(t)'
  BY <1>0 DEF StreamOK, Unread, ReadOK
<1>5. ReadOK'
  BY <1>0, <1>4 DEF ReadOK, Whole
<1> QED
  BY <1>1, <1>2, <1>3, <1>5 DEF IoInv

(* A stream has been read to its end, so all of it is captured.            *)
LEMMA OutputEnd ==
  ASSUME Io!IoAssumption, IoInv, NEW s \in Io!Reads,
         place = s,
         place' = IF s = "stdout" THEN "stderr" ELSE "exit",
         os[s].kind = "broken",
         s = "stderr" => captured[s] = 0,
         op' \in [Io!Streams -> Operations],
         op'[s] = "terminal",
         \A t \in Io!Streams \ {s} : op'[t] = op[t],
         UNCHANGED <<os, mem, handle, retired, process, fed, wrote, pipe, captured, late, over, result, faults>>
  PROVE  IoInv'
<1>0. Types /\ (\A t \in Io!Streams : OperationOK(t)) /\ PlaceOK /\ ReadOK
  BY DEF IoInv
<1>1. Types'
  <2>1. SystemTypes'
    BY <1>0, TypeParts DEF SystemTypes
  <2>2. MemoryTypes'
    BY <1>0, TypeParts DEF MemoryTypes
  <2>3. PlainTypes'
    BY <1>0, TypeParts DEF PlainTypes, Steps, Running
  <2>4. FlagTypes'
    BY <1>0, TypeParts DEF FlagTypes
  <2>5. CountTypes'
    BY <1>0, TypeParts DEF CountTypes
  <2>6. CountBounds'
    BY <1>0, TypeParts DEF CountBounds
  <2> QED
    BY <2>1, <2>2, <2>3, <2>4, <2>5, <2>6 DEF Types, Io!TypeOK, SystemTypes, MemoryTypes, PlainTypes, FlagTypes,
       CountTypes, CountBounds, Operations
<1>2. \A t \in Io!Streams : OperationOK(t)'
  <2> SUFFICES ASSUME NEW t \in Io!Streams PROVE OperationOK(t)'
    OBVIOUS
  <2>1. OperationOK(t)
    BY <1>0
  <2>2. CASE t = s
    BY <1>0, <2>1, <2>2, TypeParts DEF OperationOK, PlaceOK, Io!Streams, Io!Reads, MemoryTypes, SystemTypes
  <2>3. CASE t # s
    BY <1>0, <2>1, <2>3, TypeParts DEF OperationOK, Io!Streams, Io!Reads
  <2> QED
    BY <2>2, <2>3
<1>3. PlaceOK'
  BY <1>0 DEF PlaceOK, Running, Io!Streams, Io!Reads
<1>4. ASSUME NEW t \in Io!Reads PROVE StreamOK(t)'
  <2>1. t \in Io!Streams /\ StreamOK(t) /\ OperationOK(t)
    BY <1>0 DEF ReadOK, Io!Streams
  <2>2. captured[t] \in Nat /\ pipe[t] \in Nat /\ wrote[t] \in Nat /\ os[t].n \in Nat /\ Cap \in Nat
    BY <1>0, TypeParts, <2>1 DEF CountTypes, SystemTypes, Io!IoAssumption
  <2>3. CASE t = s
    BY <1>0, <2>1, <2>2, <2>3 DEF StreamOK, Unread, OperationOK, Io!Reads
  <2>4. CASE t # s
    BY <1>0, <2>1, <2>2, <2>4 DEF StreamOK, Unread, OperationOK, Io!Reads
  <2> QED
    BY <2>3, <2>4
<1>5. ReadOK'
  <2>1. op[s] = "pending" /\ s \in Io!Streams /\ result # "success" /\ result' # "success"
    BY <1>0 DEF PlaceOK, ReadOK, Io!Reads, Io!Streams, Running, Retiring
  <2>2. /\ {captured[s], pipe[s], wrote[s], Cap} \subseteq Nat /\ captured[s] <= Cap
        /\ wrote[s] = captured[s] + Unread(s) + pipe[s] /\ Unread(s) = 0
    BY <1>0, TypeParts, <2>1 DEF CountTypes, Io!IoAssumption, ReadOK, StreamOK, Unread, Io!Reads
  <2>3. process # "running" /\ pipe[s] = 0
    BY <1>0 DEF ReadOK, StreamOK
  <2>4. Whole(s)'
    BY <2>2, <2>3 DEF Whole
  <2>5. place = "stderr" => Whole("stdout")'
    BY <1>0 DEF ReadOK, Whole
  <2>6. CASE s = "stdout"
    BY <1>4, <2>1, <2>4, <2>6 DEF ReadOK
  <2>7. CASE s = "stderr"
    <3>1. wrote'["stderr"] = 0
      BY <2>2, <2>3, <2>7
    <3> QED
      BY <1>4, <2>1, <2>4, <2>5, <2>7, <3>1 DEF ReadOK
  <2> QED
    BY <2>6, <2>7 DEF Io!Reads
<1> QED
  BY <1>1, <1>2, <1>3, <1>5 DEF IoInv

(* The reducer fails at a stream, with or without its last bytes.          *)
LEMMA OutputFails ==
  ASSUME Io!IoAssumption, IoInv, NEW s \in Io!Reads,
         place = s,
         place' = "terminate",
         result' = "failed",
         faults' \in 0..MaxFaults,
         op' \in [Io!Streams -> Operations],
         captured' \in [Io!Reads -> Nat],
         \A t \in Io!Streams \ {s} : op'[t] = op[t],
         \A t \in Io!Reads \ {s} : captured'[t] = captured[t],
         captured'[s] = captured[s] \/ (captured'[s] = captured[s] + os[s].n /\ os[s].kind = "bytes"
             /\ op'[s] = "terminal"),
         op'[s] = op[s] \/ (os[s].kind # "pending" /\ op'[s] \in {"terminal", "error"}),
         UNCHANGED <<os, mem, handle, retired, process, fed, wrote, pipe, late, over>>
  PROVE  IoInv'
<1>0. Types /\ (\A t \in Io!Streams : OperationOK(t)) /\ PlaceOK /\ ReadOK
  BY DEF IoInv
<1>1. Types'
  <2>1. SystemTypes'
    BY <1>0, TypeParts DEF SystemTypes
  <2>2. MemoryTypes'
    BY <1>0, TypeParts DEF MemoryTypes
  <2>3. PlainTypes'
    BY <1>0, TypeParts DEF PlainTypes, Steps
  <2>4. FlagTypes'
    BY <1>0, TypeParts DEF FlagTypes
  <2>5. CountTypes'
    BY <1>0, TypeParts DEF CountTypes
  <2>6. CountBounds'
    <3> SUFFICES ASSUME NEW t \in Io!Reads
                 PROVE  captured'[t] + pipe'[t] <= wrote'[t] /\ captured'[t] <= Cap + 1
      BY DEF CountBounds
    <3>1. captured[t] + pipe[t] <= wrote[t] /\ captured[t] <= Cap + 1 /\ Cap \in Nat
      BY <1>0, TypeParts DEF CountBounds, Io!IoAssumption
    <3>2. captured[t] \in Nat /\ pipe[t] \in Nat /\ wrote[t] \in Nat
      BY <1>0, TypeParts DEF CountTypes
    <3>3. wrote'[t] = wrote[t] /\ pipe'[t] = pipe[t] /\ (t # s => captured'[t] = captured[t])
      OBVIOUS
    <3>4. t = s => place = t /\ op[t] = "pending"
      BY <1>0 DEF PlaceOK, Io!Reads
    <3>5. CASE t = s /\ os[t].kind = "bytes" /\ captured'[t] = captured[t] + os[t].n
      <4>1. os[t].n \in Nat /\ Unread(t) = os[t].n
        BY <1>0, TypeParts, <3>5 DEF SystemTypes, Unread, Io!Streams
      <4>2. captured[t] + Unread(t) + pipe[t] <= wrote[t] /\ captured[t] + Unread(t) <= Cap + 1
        BY <1>0, <3>4, <3>5 DEF ReadOK, StreamOK
      <4> QED
        BY <3>1, <3>2, <3>3, <3>5, <4>1, <4>2
    <3>6. CASE captured'[t] = captured[t]
      BY <3>1, <3>3, <3>6
    <3> QED
      BY <3>3, <3>5, <3>6
  <2> QED
    BY <2>1, <2>2, <2>3, <2>4, <2>5, <2>6 DEF Types, Io!TypeOK, SystemTypes, MemoryTypes, PlainTypes, FlagTypes,
       CountTypes, CountBounds, Operations
<1>2. \A t \in Io!Streams : OperationOK(t)'
  <2> SUFFICES ASSUME NEW t \in Io!Streams PROVE OperationOK(t)'
    OBVIOUS
  <2>1. OperationOK(t)
    BY <1>0
  <2>2. CASE t = s
    BY <1>0, <2>1, <2>2, TypeParts DEF OperationOK, PlaceOK, Io!Streams, Io!Reads, MemoryTypes, SystemTypes
  <2>3. CASE t # s
    BY <1>0, <2>1, <2>3, TypeParts DEF OperationOK, Io!Streams, Io!Reads
  <2> QED
    BY <2>2, <2>3
<1>3. PlaceOK'
  BY <1>0 DEF PlaceOK, Running, Io!Streams, Io!Reads
<1>4. ASSUME NEW t \in Io!Reads PROVE StreamOK(t)'
  <2>1. t \in Io!Streams /\ StreamOK(t) /\ OperationOK(t)
    BY <1>0 DEF ReadOK, Io!Streams
  <2>2. captured[t] \in Nat /\ pipe[t] \in Nat /\ wrote[t] \in Nat /\ os[t].n \in Nat /\ Cap \in Nat
        /\ captured'[t] \in Nat
    BY <1>0, TypeParts, <2>1 DEF CountTypes, SystemTypes, Io!IoAssumption
  <2>3. CASE t = s
    BY <1>0, <2>1, <2>2, <2>3 DEF StreamOK, Unread, OperationOK, Io!Reads
  <2>4. CASE t # s
    BY <1>0, <2>1, <2>2, <2>4 DEF StreamOK, Unread, OperationOK, Io!Reads
  <2> QED
    BY <2>3, <2>4
<1>5. ReadOK'
  BY <1>0, <1>4 DEF ReadOK, Whole
<1> QED
  BY <1>1, <1>2, <1>3, <1>5 DEF IoInv

(* Bytes that are accepted are captured and the next read is submitted.    *)
LEMMA ReadsOn ==
  ASSUME Io!IoAssumption, IoInv, NEW s \in Io!Reads,
         place = s,
         os[s].kind = "bytes",
         op' \in [Io!Streams -> Operations],
         os' \in [Io!Streams -> [kind : Kinds, n : Nat]],
         captured' \in [Io!Reads -> Nat],
         captured'[s] = captured[s] + os[s].n,
         captured'[s] <= Cap,
         op'[s] = "pending",
         os'[s].kind = "pending",
         os'[s].n = 0,
         \A t \in Io!Streams \ {s} : op'[t] = op[t] /\ os'[t] = os[t],
         \A t \in Io!Reads \ {s} : captured'[t] = captured[t],
         UNCHANGED <<place, mem, handle, retired, process, fed, wrote, pipe, late, over, result, faults>>
  PROVE  IoInv'
<1>0. Types /\ (\A t \in Io!Streams : OperationOK(t)) /\ PlaceOK /\ ReadOK
  BY DEF IoInv
<1>1. Types'
  <2>1. SystemTypes'
    BY <1>0, TypeParts DEF SystemTypes
  <2>2. MemoryTypes'
    BY <1>0, TypeParts DEF MemoryTypes
  <2>3. PlainTypes'
    BY <1>0, TypeParts DEF PlainTypes
  <2>4. FlagTypes'
    BY <1>0, TypeParts DEF FlagTypes
  <2>5. CountTypes'
    BY <1>0, TypeParts DEF CountTypes
  <2>6. CountBounds'
    <3> SUFFICES ASSUME NEW t \in Io!Reads
                 PROVE  captured'[t] + pipe'[t] <= wrote'[t] /\ captured'[t] <= Cap + 1
      BY DEF CountBounds
    <3>1. captured[t] + pipe[t] <= wrote[t] /\ captured[t] <= Cap + 1 /\ Cap \in Nat
      BY <1>0, TypeParts DEF CountBounds, Io!IoAssumption
    <3>2. captured[t] \in Nat /\ pipe[t] \in Nat /\ wrote[t] \in Nat
      BY <1>0, TypeParts DEF CountTypes
    <3>3. wrote'[t] = wrote[t] /\ pipe'[t] = pipe[t] /\ (t # s => captured'[t] = captured[t])
      OBVIOUS
    <3>4. t = s => place = t /\ op[t] = "pending"
      BY <1>0 DEF PlaceOK, Io!Reads
    <3>5. CASE t = s
      <4>1. os[t].n \in Nat /\ Unread(t) = os[t].n
        BY <1>0, TypeParts, <3>5 DEF SystemTypes, Unread, Io!Streams
      <4>2. captured[t] + Unread(t) + pipe[t] <= wrote[t]
        BY <1>0, <3>4, <3>5 DEF ReadOK, StreamOK
      <4> QED
        BY <3>1, <3>2, <3>3, <3>5, <4>1, <4>2
    <3>6. CASE t # s
      BY <3>1, <3>3, <3>6
    <3> QED
      BY <3>5, <3>6
  <2> QED
    BY <2>1, <2>2, <2>3, <2>4, <2>5, <2>6 DEF Types, Io!TypeOK, SystemTypes, MemoryTypes, PlainTypes, FlagTypes,
       CountTypes, CountBounds, Operations
<1>2. \A t \in Io!Streams : OperationOK(t)'
  <2> SUFFICES ASSUME NEW t \in Io!Streams PROVE OperationOK(t)'
    OBVIOUS
  <2>1. OperationOK(t)
    BY <1>0
  <2>2. CASE t = s
    BY <1>0, <2>1, <2>2, TypeParts DEF OperationOK, PlaceOK, Io!Streams, Io!Reads, MemoryTypes, SystemTypes
  <2>3. CASE t # s
    BY <1>0, <2>1, <2>3, TypeParts DEF OperationOK, Io!Streams, Io!Reads
  <2> QED
    BY <2>2, <2>3
<1>3. PlaceOK'
  BY <1>0 DEF PlaceOK, Io!Streams, Io!Reads
<1>4. ASSUME NEW t \in Io!Reads PROVE StreamOK(t)'
  <2>1. t \in Io!Streams /\ StreamOK(t) /\ OperationOK(t)
    BY <1>0 DEF ReadOK, Io!Streams
  <2>2. /\ captured[t] \in Nat /\ pipe[t] \in Nat /\ wrote[t] \in Nat /\ Cap \in Nat
        /\ os[t] \in [kind : Kinds, n : Nat]
    BY <1>0, TypeParts, <2>1 DEF CountTypes, SystemTypes, Io!IoAssumption
  <2>3. wrote'[t] = wrote[t] /\ pipe'[t] = pipe[t] /\ place' = place
    OBVIOUS
  <2>4. Unread(t) \in Nat /\ (t # s => Unread(t)' = Unread(t) /\ captured'[t] = captured[t] /\ op'[t] = op[t])
    BY <2>1, <2>2 DEF Unread
  <2>5. t = s => Unread(t)' = 0 /\ captured'[t] = captured[t] + Unread(t) /\ captured'[t] <= Cap
    BY DEF Unread
  <2>6. t = s => place = t /\ op[t] = "pending"
    BY <1>0 DEF PlaceOK, Io!Reads
  <2>7. CASE t = s
    BY <2>1, <2>2, <2>3, <2>4, <2>5, <2>6, <2>7 DEF StreamOK, Io!Reads
  <2>8. CASE t # s
    BY <2>1, <2>2, <2>3, <2>4, <2>8 DEF StreamOK
  <2> QED
    BY <2>7, <2>8
<1>5. ReadOK'
  BY <1>0, <1>4 DEF ReadOK, Whole, Io!Streams, Io!Reads
<1> QED
  BY <1>1, <1>2, <1>3, <1>5 DEF IoInv

(* The exit of the child is seen: both streams are whole.                  *)
LEMMA ExitSeen ==
  ASSUME Io!IoAssumption, IoInv,
         place = "exit",
         place' = "retire stdin",
         result' = "success",
         process # "running",
         UNCHANGED <<op, os, mem, handle, retired, process, fed, wrote, pipe, captured, late, over, faults>>
  PROVE  IoInv'
<1>0. Types /\ (\A t \in Io!Streams : OperationOK(t)) /\ PlaceOK /\ ReadOK
  BY DEF IoInv
<1>1. Types'
  <2>1. SystemTypes'
    BY <1>0, TypeParts DEF SystemTypes
  <2>2. MemoryTypes'
    BY <1>0, TypeParts DEF MemoryTypes
  <2>3. PlainTypes'
    BY <1>0, TypeParts DEF PlainTypes, Steps, Retiring
  <2>4. FlagTypes'
    BY <1>0, TypeParts DEF FlagTypes
  <2>5. CountTypes'
    BY <1>0, TypeParts DEF CountTypes
  <2>6. CountBounds'
    BY <1>0, TypeParts DEF CountBounds
  <2> QED
    BY <2>1, <2>2, <2>3, <2>4, <2>5, <2>6 DEF Types, Io!TypeOK, SystemTypes, MemoryTypes, PlainTypes, FlagTypes,
       CountTypes, CountBounds, Operations
<1>2. \A t \in Io!Streams : OperationOK(t)'
  BY <1>0 DEF OperationOK
<1>3. PlaceOK'
  BY <1>0 DEF PlaceOK, Running
<1>4. \A t \in Io!Reads : StreamOK(t)'
  BY <1>0 DEF StreamOK, Unread, ReadOK
<1>5. ReadOK'
  BY <1>0, TypeParts, <1>4 DEF ReadOK, Whole, Unread, SystemTypes, CountTypes, PlainTypes, PlaceOK, Running,
     Retiring, StreamOK, OperationOK, Io!IoAssumption, Io!Streams, Io!Reads
<1> QED
  BY <1>1, <1>2, <1>3, <1>5 DEF IoInv

(* The job is terminated, or cannot be.                                    *)
LEMMA Terminated ==
  ASSUME Io!IoAssumption, IoInv,
         place = "terminate",
         place' = "cancel",
         process' = process \/ process' = "killed",
         result' = result \/ result' = "quarantined",
         faults' \in 0..MaxFaults,
         UNCHANGED <<op, os, mem, handle, retired, fed, wrote, pipe, captured, late, over>>
  PROVE  IoInv'
<1>0. Types /\ (\A t \in Io!Streams : OperationOK(t)) /\ PlaceOK /\ ReadOK
  BY DEF IoInv
<1>1. Types'
  <2>1. SystemTypes'
    BY <1>0, TypeParts DEF SystemTypes
  <2>2. MemoryTypes'
    BY <1>0, TypeParts DEF MemoryTypes
  <2>3. PlainTypes'
    BY <1>0, TypeParts DEF PlainTypes, Steps
  <2>4. FlagTypes'
    BY <1>0, TypeParts DEF FlagTypes
  <2>5. CountTypes'
    BY <1>0, TypeParts DEF CountTypes
  <2>6. CountBounds'
    BY <1>0, TypeParts DEF CountBounds
  <2> QED
    BY <2>1, <2>2, <2>3, <2>4, <2>5, <2>6 DEF Types, Io!TypeOK, SystemTypes, MemoryTypes, PlainTypes, FlagTypes,
       CountTypes, CountBounds, Operations
<1>2. \A t \in Io!Streams : OperationOK(t)'
  BY <1>0 DEF OperationOK
<1>3. PlaceOK'
  BY <1>0 DEF PlaceOK, Running
<1>4. \A t \in Io!Reads : StreamOK(t)'
  BY <1>0 DEF StreamOK, Unread, ReadOK
<1>5. ReadOK'
  BY <1>0, <1>4 DEF ReadOK, Whole, Retiring
<1> QED
  BY <1>1, <1>2, <1>3, <1>5 DEF IoInv

(* Some of the operations that are pending are cancelled.                  *)
LEMMA Cancelled ==
  ASSUME Io!IoAssumption, IoInv,
         place = "cancel",
         place' = "retire stdin",
         result' = result \/ result' = "quarantined",
         faults' \in 0..MaxFaults,
         op' \in [Io!Streams -> Operations],
         \A t \in Io!Streams : op'[t] = op[t] \/ (op[t] = "pending" /\ op'[t] = "cancelling"),
         UNCHANGED <<os, mem, handle, retired, process, fed, wrote, pipe, captured, late, over>>
  PROVE  IoInv'
<1>0. Types /\ (\A t \in Io!Streams : OperationOK(t)) /\ PlaceOK /\ ReadOK
  BY DEF IoInv
<1>1. Types'
  <2>1. SystemTypes'
    BY <1>0, TypeParts DEF SystemTypes
  <2>2. MemoryTypes'
    BY <1>0, TypeParts DEF MemoryTypes
  <2>3. PlainTypes'
    BY <1>0, TypeParts DEF PlainTypes, Steps, Retiring
  <2>4. FlagTypes'
    BY <1>0, TypeParts DEF FlagTypes
  <2>5. CountTypes'
    BY <1>0, TypeParts DEF CountTypes
  <2>6. CountBounds'
    BY <1>0, TypeParts DEF CountBounds
  <2> QED
    BY <2>1, <2>2, <2>3, <2>4, <2>5, <2>6 DEF Types, Io!TypeOK, SystemTypes, MemoryTypes, PlainTypes, FlagTypes,
       CountTypes, CountBounds, Operations
<1>2. \A t \in Io!Streams : OperationOK(t)'
  BY <1>0 DEF OperationOK
<1>3. PlaceOK'
  BY <1>0 DEF PlaceOK, Running
<1>4. \A t \in Io!Reads : StreamOK(t)'
  BY <1>0, TypeParts DEF StreamOK, Unread, ReadOK, CountTypes, Io!Streams, Io!Reads
<1>5. ReadOK'
  BY <1>0, <1>4 DEF ReadOK, Whole, Retiring
<1> QED
  BY <1>1, <1>2, <1>3, <1>5 DEF IoInv

(* An operation the system has given back is retired.                      *)
LEMMA Retired ==
  ASSUME Io!IoAssumption, IoInv, NEW s \in Io!Streams,
         os[s].kind # "pending",
         \/ s = "stdin" /\ place = "retire stdin" /\ place' = "retire stdout" /\ retired' = FALSE
         \/ s = "stdout" /\ place = "retire stdout" /\ place' = "retire stderr" /\ retired' = FALSE
         \/ s = "stderr" /\ place = "retire stderr" /\ place' = "drop" /\ retired' = TRUE,
         op' \in [Io!Streams -> Operations],
         op'[s] = "retired",
         \A t \in Io!Streams \ {s} : op'[t] = op[t],
         UNCHANGED <<os, mem, handle, process, fed, wrote, pipe, captured, late, over, result, faults>>
  PROVE  IoInv'
<1>0. Types /\ (\A t \in Io!Streams : OperationOK(t)) /\ PlaceOK /\ ReadOK
  BY DEF IoInv
<1>1. Types'
  <2>1. SystemTypes'
    BY <1>0, TypeParts DEF SystemTypes
  <2>2. MemoryTypes'
    BY <1>0, TypeParts DEF MemoryTypes
  <2>3. PlainTypes'
    BY <1>0, TypeParts DEF PlainTypes, Steps, Retiring
  <2>4. FlagTypes'
    BY <1>0, TypeParts DEF FlagTypes
  <2>5. CountTypes'
    BY <1>0, TypeParts DEF CountTypes
  <2>6. CountBounds'
    BY <1>0, TypeParts DEF CountBounds
  <2> QED
    BY <2>1, <2>2, <2>3, <2>4, <2>5, <2>6 DEF Types, Io!TypeOK, SystemTypes, MemoryTypes, PlainTypes, FlagTypes,
       CountTypes, CountBounds, Operations
<1>2. \A t \in Io!Streams : OperationOK(t)'
  <2> SUFFICES ASSUME NEW t \in Io!Streams PROVE OperationOK(t)'
    OBVIOUS
  <2>1. OperationOK(t)
    BY <1>0
  <2>2. CASE t = s
    BY <1>0, <2>1, <2>2, TypeParts DEF OperationOK, PlaceOK, Io!Streams, Io!Reads, MemoryTypes, SystemTypes
  <2>3. CASE t # s
    BY <1>0, <2>1, <2>3, TypeParts DEF OperationOK, Io!Streams, Io!Reads
  <2> QED
    BY <2>2, <2>3
<1>3. PlaceOK'
  <2>1. CASE s = "stdin"
    BY <1>0, <2>1 DEF PlaceOK, Running, Io!Streams
  <2>2. CASE s = "stdout"
    BY <1>0, <2>2 DEF PlaceOK, Running, Io!Streams
  <2>3. CASE s = "stderr"
    BY <1>0, <2>3 DEF PlaceOK, Running, Io!Streams, Io!Reads
  <2> QED
    BY <2>1, <2>2, <2>3 DEF Io!Streams, Io!Reads
<1>4. ASSUME NEW t \in Io!Reads PROVE StreamOK(t)'
  <2>1. t \in Io!Streams /\ StreamOK(t) /\ OperationOK(t)
    BY <1>0 DEF ReadOK, Io!Streams
  <2>2. /\ captured[t] \in Nat /\ pipe[t] \in Nat /\ wrote[t] \in Nat /\ Cap \in Nat
        /\ os[t] \in [kind : Kinds, n : Nat]
    BY <1>0, TypeParts, <2>1 DEF CountTypes, SystemTypes, Io!IoAssumption
  <2>3. /\ captured'[t] = captured[t] /\ wrote'[t] = wrote[t] /\ pipe'[t] = pipe[t] /\ Unread(t)' = Unread(t)
        /\ os'[t] = os[t] /\ process' = process
    BY DEF Unread
  <2>4. op'[t] = op[t] \/ op'[t] = "retired"
    BY <2>1
  <2>5. place' \in {"retire stdout", "retire stderr", "drop"}
    OBVIOUS
  <2> QED
    BY <2>1, <2>3, <2>4, <2>5 DEF StreamOK
<1>5. ReadOK'
  BY <1>0, <1>4 DEF ReadOK, Whole, Retiring
<1> QED
  BY <1>1, <1>2, <1>3, <1>5 DEF IoInv

(* An operation is not given back in time: the bundle is not retired.      *)
LEMMA NotRetired ==
  ASSUME Io!IoAssumption, IoInv, NEW s \in Io!Streams,
         place \in Retiring,
         place' = "drop",
         result' = "quarantined",
         result = "success" => \A t \in Io!Reads : os[t].kind = "broken",
         UNCHANGED <<op, os, mem, handle, retired, process, fed, wrote, pipe, captured, late, over, faults>>
  PROVE  IoInv'
<1>0. Types /\ (\A t \in Io!Streams : OperationOK(t)) /\ PlaceOK /\ ReadOK
  BY DEF IoInv
<1>1. Types'
  <2>1. SystemTypes'
    BY <1>0, TypeParts DEF SystemTypes
  <2>2. MemoryTypes'
    BY <1>0, TypeParts DEF MemoryTypes
  <2>3. PlainTypes'
    BY <1>0, TypeParts DEF PlainTypes, Steps
  <2>4. FlagTypes'
    BY <1>0, TypeParts DEF FlagTypes
  <2>5. CountTypes'
    BY <1>0, TypeParts DEF CountTypes
  <2>6. CountBounds'
    BY <1>0, TypeParts DEF CountBounds
  <2> QED
    BY <2>1, <2>2, <2>3, <2>4, <2>5, <2>6 DEF Types, Io!TypeOK, SystemTypes, MemoryTypes, PlainTypes, FlagTypes,
       CountTypes, CountBounds, Operations
<1>2. \A t \in Io!Streams : OperationOK(t)'
  BY <1>0, TypeParts DEF OperationOK, SystemTypes, MemoryTypes, PlaceOK, Running, Retiring, ReadOK,
     Io!IoAssumption, Io!Streams, Io!Reads
<1>3. PlaceOK'
  BY <1>0 DEF PlaceOK, Running
<1>4. \A t \in Io!Reads : StreamOK(t)'
  BY <1>0 DEF StreamOK, Unread, ReadOK
<1>5. ReadOK'
  BY <1>0, <1>4 DEF ReadOK, Whole
<1> QED
  BY <1>1, <1>2, <1>3, <1>5 DEF IoInv

(* The bundle is dropped: freed when it was retired, else leaked.          *)
LEMMA DropCase ==
  ASSUME Io!IoAssumption, IoInv,
         place = "drop",
         place' = "done",
         mem' \in [Io!Streams -> {"live", "freed", "leaked"}],
         handle' \in [Io!Streams -> {"open", "closed"}],
         \A t \in Io!Streams : ~retired => (mem'[t] = "freed" => mem[t] = "freed") /\ handle'[t] = handle[t],
         UNCHANGED <<op, os, retired, process, fed, wrote, pipe, captured, late, over, result, faults>>
  PROVE  IoInv'
<1>0. Types /\ (\A t \in Io!Streams : OperationOK(t)) /\ PlaceOK /\ ReadOK
  BY DEF IoInv
<1>1. Types'
  <2>1. SystemTypes'
    BY <1>0, TypeParts DEF SystemTypes
  <2>2. MemoryTypes'
    BY <1>0, TypeParts DEF MemoryTypes
  <2>3. PlainTypes'
    BY <1>0, TypeParts DEF PlainTypes, Steps
  <2>4. FlagTypes'
    BY <1>0, TypeParts DEF FlagTypes
  <2>5. CountTypes'
    BY <1>0, TypeParts DEF CountTypes
  <2>6. CountBounds'
    BY <1>0, TypeParts DEF CountBounds
  <2> QED
    BY <2>1, <2>2, <2>3, <2>4, <2>5, <2>6 DEF Types, Io!TypeOK, SystemTypes, MemoryTypes, PlainTypes, FlagTypes,
       CountTypes, CountBounds, Operations
<1>2. \A t \in Io!Streams : OperationOK(t)'
  BY <1>0 DEF OperationOK, PlaceOK
<1>3. PlaceOK'
  BY <1>0 DEF PlaceOK, Running
<1>4. ASSUME NEW t \in Io!Reads PROVE StreamOK(t)'
  <2>1. t \in Io!Streams /\ StreamOK(t) /\ OperationOK(t)
    BY <1>0 DEF ReadOK, Io!Streams
  <2>2. captured[t] \in Nat /\ pipe[t] \in Nat /\ wrote[t] \in Nat /\ os[t].n \in Nat /\ Cap \in Nat
    BY <1>0, TypeParts, <2>1 DEF CountTypes, SystemTypes, Io!IoAssumption
  <2> QED
    BY <1>0, <2>1, <2>2 DEF StreamOK, Unread, OperationOK, Io!Reads
<1>5. ReadOK'
  BY <1>0, <1>4 DEF ReadOK, Whole
<1> QED
  BY <1>1, <1>2, <1>3, <1>5 DEF IoInv

-----------------------------------------------------------------------------
(* The invariant holds before the first submission.                        *)
LEMMA IoInitInv == ASSUME Io!IoAssumption, Io!Init PROVE IoInv
<1>1. SystemTypes /\ MemoryTypes /\ FlagTypes
  BY DEF Io!Init, SystemTypes, MemoryTypes, FlagTypes, Operations, Kinds, Io!Ending
<1>2. PlainTypes /\ CountTypes /\ CountBounds
  BY DEF Io!Init, PlainTypes, CountTypes, CountBounds, Steps, Running, Io!IoAssumption
<1>3. \A s \in Io!Streams : OperationOK(s)
  BY DEF Io!Init, OperationOK, Io!Ending, Io!Streams
<1>4. PlaceOK
  BY DEF Io!Init, PlaceOK, Running
<1>5. \A s \in Io!Reads : captured[s] = 0 /\ pipe[s] = 0 /\ wrote[s] = 0 /\ Unread(s) = 0 /\ os[s].kind = "idle"
  BY DEF Io!Init, Unread, Io!Streams, Io!Ending
<1>6. \A s \in Io!Reads : StreamOK(s)
  BY <1>5 DEF StreamOK, Io!IoAssumption
<1>7. ReadOK
  BY <1>6 DEF Io!Init, ReadOK, Io!Streams, Io!Ending
<1> QED
  BY <1>1, <1>2, <1>3, <1>4, <1>7, TypeParts DEF IoInv

(* Every action is one of these changes: first those of the child and the  *)
(* system, then those of the reducer.                                      *)
LEMMA WriteStep ==
  ASSUME Io!IoAssumption, IoInv, NEW s \in Io!Reads, Io!Write(s) PROVE IoInv'
<1>1. CountTypes
  BY TypeParts DEF IoInv
<1>2. process = "running" /\ wrote' \in [Io!Reads -> Nat] /\ pipe' \in [Io!Reads -> Nat]
  BY <1>1 DEF Io!Write, CountTypes
<1>3. \A t \in Io!Reads : (wrote'[t] = wrote[t] /\ pipe'[t] = pipe[t])
                          \/ (wrote'[t] = wrote[t] + 1 /\ pipe'[t] = pipe[t] + 1)
  BY <1>1 DEF Io!Write, CountTypes
<1> QED
  BY <1>2, <1>3, WriteCase DEF Io!Write

(* End keeps the invariant.                                                *)
LEMMA EndStep == ASSUME Io!IoAssumption, IoInv, Io!End PROVE IoInv'
  BY EndCase DEF Io!End

(* Tick keeps the invariant.                                               *)
LEMMA TickStep == ASSUME Io!IoAssumption, IoInv, Io!Tick PROVE IoInv'
<1>1. late' \in BOOLEAN /\ over' \in BOOLEAN
  BY TypeParts DEF IoInv, FlagTypes, Io!Tick
<1> QED
  BY <1>1, TickCase DEF Io!Tick

(* Complete keeps the invariant.                                           *)
LEMMA CompleteStep ==
  ASSUME Io!IoAssumption, IoInv, NEW s \in Io!Streams, Io!Complete(s) PROVE IoInv'
<1>1. SystemTypes /\ CountTypes /\ CountBounds
  BY TypeParts DEF IoInv
<1>2. os[s].kind = "pending" /\ s \in DOMAIN os
  BY <1>1 DEF Io!Complete, SystemTypes
<1>3. UNCHANGED <<place, op, mem, handle, retired, process, fed, wrote, captured, late, over, result, faults>>
  BY DEF Io!Complete
<1>4. ASSUME NEW k \in {"broken", "aborted"}, os' = [os EXCEPT ![s] = Io!Ending(k)], UNCHANGED pipe,
             k = "aborted" => op[s] = "cancelling",
             k = "broken" => process # "running" /\ (s \in Io!Reads => pipe[s] = 0)
      PROVE  IoInv'
  <2>1. os' \in [Io!Streams -> [kind : Kinds, n : Nat]] /\ os'[s].kind = k /\ os'[s].n = 0
    BY <1>1, <1>4 DEF SystemTypes, Kinds, Io!Ending
  <2>2. \A t \in Io!Streams \ {s} : os'[t] = os[t]
    BY <1>1, <1>4 DEF SystemTypes
  <2> QED
    BY <1>2, <1>3, <1>4, <2>1, <2>2, EndingCase
<1>5. CASE s = "stdin" /\ process = "running" /\ os' = [os EXCEPT ![s] = Io!Bytes(1)] /\ UNCHANGED pipe
  <2>1. os' \in [Io!Streams -> [kind : Kinds, n : Nat]] /\ os'["stdin"].kind = "bytes"
    BY <1>1, <1>5 DEF SystemTypes, Kinds, Io!Bytes
  <2>2. \A t \in Io!Reads : os'[t] = os[t]
    BY <1>1, <1>5 DEF SystemTypes, Io!Streams, Io!Reads
  <2> QED
    BY <1>2, <1>3, <1>5, <2>1, <2>2, WrittenCase
<1>6. CASE s = "stdin" /\ process # "running" /\ os' = [os EXCEPT ![s] = Io!Ending("broken")] /\ UNCHANGED pipe
  BY <1>4, <1>6 DEF Io!Reads
<1>7. CASE /\ s \in Io!Reads /\ pipe[s] > 0
           /\ LET n == IF pipe[s] < Io!room(s) THEN pipe[s] ELSE Io!room(s)
              IN  os' = [os EXCEPT ![s] = Io!Bytes(n)] /\ pipe' = [pipe EXCEPT ![s] = @ - n]
  <2> DEFINE n == IF pipe[s] < Io!room(s) THEN pipe[s] ELSE Io!room(s)
  <2>1. pipe[s] \in Nat /\ Io!room(s) \in Nat
    BY <1>1, <1>7 DEF CountTypes, CountBounds, Io!room, Io!IoAssumption
  <2>2. n \in Nat /\ n <= pipe[s] /\ n <= Io!room(s)
    BY <2>1
  <2>3. os' = [os EXCEPT ![s] = Io!Bytes(n)] /\ pipe' = [pipe EXCEPT ![s] = @ - n]
    BY <1>7
  <2> HIDE DEF n
  <2>4. os' \in [Io!Streams -> [kind : Kinds, n : Nat]] /\ os'[s].kind = "bytes" /\ os'[s].n = n
    BY <1>1, <2>2, <2>3 DEF SystemTypes, Kinds, Io!Bytes
  <2>5. \A t \in Io!Streams \ {s} : os'[t] = os[t]
    BY <1>1, <2>3 DEF SystemTypes
  <2>6. pipe' \in [Io!Reads -> Nat] /\ pipe'[s] + n = pipe[s]
    BY <1>1, <1>7, <2>1, <2>2, <2>3 DEF CountTypes
  <2>7. \A t \in Io!Reads \ {s} : pipe'[t] = pipe[t]
    BY <1>1, <2>3 DEF CountTypes
  <2>8. n <= Cap + 1 - captured[s]
    BY <2>2 DEF Io!room
  <2> QED
    BY <1>2, <1>3, <1>7, <2>2, <2>4, <2>5, <2>6, <2>7, <2>8, BytesCase
<1>8. CASE s \in Io!Reads /\ pipe[s] = 0 /\ process # "running" /\ os' = [os EXCEPT ![s] = Io!Ending("broken")]
           /\ UNCHANGED pipe
  BY <1>4, <1>8
<1>9. CASE op[s] = "cancelling" /\ os' = [os EXCEPT ![s] = Io!Ending("aborted")] /\ UNCHANGED pipe
  BY <1>4, <1>9
<1> QED
  BY <1>5, <1>6, <1>7, <1>8, <1>9 DEF Io!Complete

(* A call of the system that fails is one of MaxFaults.                    *)
LEMMA Faults == ASSUME Io!IoAssumption, IoInv, Io!Fault PROVE faults' \in 0..MaxFaults
  BY TypeParts DEF IoInv, PlainTypes, Io!Fault, Io!IoAssumption

(* start_concurrent_io keeps the invariant.                                *)
LEMMA StartStep == ASSUME Io!IoAssumption, IoInv, Io!start_concurrent_io PROVE IoInv'
<1>1. UNCHANGED <<mem, handle, retired, process, fed, wrote, pipe, captured, late, over>> /\ place = "start"
  BY DEF Io!start_concurrent_io, Io!world
<1>2. CASE /\ op' = [s \in Io!Streams |-> Io!submitted(s).op] /\ os' = [s \in Io!Streams |-> Io!submitted(s).os]
           /\ Io!goto("stdin") /\ UNCHANGED <<result, faults>>
  <2>1. /\ op' \in [Io!Streams -> Operations] /\ os' \in [Io!Streams -> [kind : Kinds, n : Nat]]
        /\ \A t \in Io!Streams : op'[t] = "pending" /\ os'[t].kind = "pending"
    BY <1>2 DEF Io!submitted, Io!Ending, Operations, Kinds
  <2> QED
    BY <1>1, <1>2, <2>1, AllSubmitted DEF Io!goto
<1>3. ASSUME Io!Fault, Io!stopWith("failed"), NEW s \in Io!Streams, NEW turn,
             op' = [t \in Io!Streams |-> (IF turn[t] < turn[s] THEN Io!submitted(t) ELSE IF t = s THEN Io!notSubmitted(t)
                                          ELSE [op |-> "prepared", os |-> Io!Ending("idle")]).op],
             os' = [t \in Io!Streams |-> (IF turn[t] < turn[s] THEN Io!submitted(t) ELSE IF t = s THEN Io!notSubmitted(t)
                                          ELSE [op |-> "prepared", os |-> Io!Ending("idle")]).os]
      PROVE  IoInv'
  <2>1. op' \in [Io!Streams -> Operations] /\ os' \in [Io!Streams -> [kind : Kinds, n : Nat]]
    BY <1>3 DEF Io!submitted, Io!notSubmitted, Io!Ending, Operations, Kinds
  <2>2. \A t \in Io!Streams : \/ op'[t] = "pending" /\ os'[t].kind = "pending"
                              \/ op'[t] \in {"prepared", "no data", "error"} /\ os'[t].kind = "idle"
    BY <1>3 DEF Io!submitted, Io!notSubmitted, Io!Ending
  <2>3. place' = "terminate" /\ result' = "failed" /\ faults' \in 0..MaxFaults
    BY <1>3, Faults DEF Io!stopWith
  <2> QED
    BY <1>1, <2>1, <2>2, <2>3, NotAllSubmitted
<1> QED
  BY <1>2, <1>3 DEF Io!start_concurrent_io

(* transfer_stdin keeps the invariant.                                     *)
LEMMA StdinStep == ASSUME Io!IoAssumption, IoInv, Io!transfer_stdin PROVE IoInv'
<1>0. SystemTypes /\ MemoryTypes /\ PlainTypes
  BY TypeParts DEF IoInv
<1>1. UNCHANGED <<os, retired, process, wrote, pipe, captured, late, over>> /\ place = "stdin"
  BY DEF Io!transfer_stdin, Io!world
<1>2. op["stdin"] = "pending" /\ Io!finish("stdin").op \in {"terminal", "error"}
      /\ (~Io!finish("stdin").ok => Io!finish("stdin").op = "error")
  BY <1>1 DEF IoInv, PlaceOK, Io!finish, Io!waiting
<1>3. CASE /\ ~late /\ Io!finished("stdin") /\ Io!finish("stdin").ok
           /\ Io!closeWriter /\ fed' = TRUE /\ Io!goto("stdout") /\ UNCHANGED <<result, faults>>
  <2>1. os["stdin"].kind # "pending" /\ place' = "stdout" /\ fed' = TRUE
    BY <1>3 DEF Io!finished, Io!goto
  <2>2. /\ op' \in [Io!Streams -> Operations] /\ mem' \in [Io!Streams -> {"live", "freed", "leaked"}]
        /\ handle' \in [Io!Streams -> {"open", "closed"}]
    BY <1>0, <1>3 DEF Io!closeWriter, SystemTypes, MemoryTypes, Operations
  <2>3. op'["stdin"] = "retired" /\ \A t \in Io!Reads : op'[t] = op[t] /\ mem'[t] = mem[t]
        /\ handle'[t] = handle[t]
    BY <1>0, <1>3 DEF Io!closeWriter, SystemTypes, MemoryTypes, Io!Streams, Io!Reads
  <2> QED
    BY <1>1, <1>3, <2>1, <2>2, <2>3, StdinDone
<1>4. ASSUME Io!stopWith("failed"), UNCHANGED <<mem, handle, fed>>, faults' \in 0..MaxFaults,
             op' = op \/ (os["stdin"].kind # "pending" /\ op' = [op EXCEPT !["stdin"] = "error"])
      PROVE  IoInv'
  <2>1. op' \in [Io!Streams -> Operations]
    BY <1>0, <1>4 DEF SystemTypes, Operations
  <2>2. op' = op \/ (os["stdin"].kind # "pending" /\ op'["stdin"] = "error"
        /\ \A t \in Io!Reads : op'[t] = op[t])
    BY <1>0, <1>4 DEF SystemTypes, Io!Streams, Io!Reads
  <2> QED
    BY <1>1, <1>4, <2>1, <2>2, Failing DEF Io!stopWith
<1>5. CASE /\ late \/ (Io!finished("stdin") /\ ~Io!finish("stdin").ok)
           /\ op' = IF late THEN op ELSE [op EXCEPT !["stdin"] = Io!finish("stdin").op]
           /\ Io!stopWith("failed") /\ UNCHANGED <<mem, handle, fed, faults>>
  BY <1>0, <1>2, <1>4, <1>5 DEF Io!finished, PlainTypes
<1>6. CASE Io!Fault /\ Io!stopWith("failed") /\ UNCHANGED <<op, mem, handle, fed>>
  BY <1>4, <1>6, Faults
<1> QED
  BY <1>3, <1>5, <1>6 DEF Io!transfer_stdin

(* transfer_output keeps the invariant.                                    *)
LEMMA OutputStep ==
  ASSUME Io!IoAssumption, IoInv, NEW s \in Io!Reads, Io!transfer_output(s) PROVE IoInv'
<1> DEFINE after == IF s = "stdout" THEN "stderr" ELSE "exit"
           n == os[s].n
<1>0. SystemTypes /\ PlainTypes /\ CountTypes /\ s \in Io!Streams
  BY TypeParts DEF IoInv, Io!Streams
<1>1. UNCHANGED <<mem, handle, retired, process, fed, wrote, pipe, late, over>> /\ place = s
  BY DEF Io!transfer_output, Io!world
<1>2. op[s] = "pending" /\ n \in Nat
  BY <1>0, <1>1 DEF IoInv, PlaceOK, Io!Reads, SystemTypes
<1>3. /\ Io!finish(s).why = "eof" => os[s].kind = "broken"
      /\ Io!finish(s).why = "bytes" => os[s].kind = "bytes"
  BY <1>0, <1>2 DEF Io!finish, Io!waiting, SystemTypes, Kinds
<1>4. CASE /\ ~late /\ Io!finished(s) /\ Io!finish(s).why = "eof" /\ (s = "stderr" => captured[s] = 0)
           /\ op' = [op EXCEPT ![s] = "terminal"] /\ Io!goto(after)
           /\ UNCHANGED <<os, captured, result, faults>>
  <2>1. op' \in [Io!Streams -> Operations] /\ op'[s] = "terminal" /\ \A t \in Io!Streams \ {s} : op'[t] = op[t]
    BY <1>0, <1>4 DEF SystemTypes, Operations
  <2> QED
    BY <1>1, <1>3, <1>4, <2>1, OutputEnd DEF Io!goto
<1>5. ASSUME Io!stopWith("failed"), UNCHANGED os, faults' \in 0..MaxFaults,
             op' \in {op, [op EXCEPT ![s] = "error"], [op EXCEPT ![s] = "terminal"]},
             op' # op => os[s].kind # "pending",
             \/ captured' = captured
             \/ /\ captured' = [captured EXCEPT ![s] = @ + n] /\ os[s].kind = "bytes"
                /\ op' = [op EXCEPT ![s] = "terminal"]
      PROVE  IoInv'
  <2>1. op' \in [Io!Streams -> Operations] /\ \A t \in Io!Streams \ {s} : op'[t] = op[t]
    BY <1>0, <1>5 DEF SystemTypes, Operations
  <2>2. op'[s] = op[s] \/ (os[s].kind # "pending" /\ op'[s] \in {"terminal", "error"})
    BY <1>0, <1>5 DEF SystemTypes
  <2>3. captured' \in [Io!Reads -> Nat] /\ \A t \in Io!Reads \ {s} : captured'[t] = captured[t]
    BY <1>0, <1>2, <1>5 DEF CountTypes
  <2>4. captured'[s] = captured[s] \/ (captured'[s] = captured[s] + os[s].n /\ os[s].kind = "bytes"
        /\ op'[s] = "terminal")
    BY <1>0, <1>5 DEF CountTypes, SystemTypes
  <2> QED
    BY <1>1, <1>5, <2>1, <2>2, <2>3, <2>4, OutputFails DEF Io!stopWith
<1>6. CASE /\ ~late /\ Io!finished(s) /\ Io!finish(s).why = "eof" /\ s = "stderr" /\ captured[s] > 0
           /\ op' = [op EXCEPT ![s] = "terminal"] /\ Io!stopWith("failed") /\ UNCHANGED <<os, captured, faults>>
  BY <1>0, <1>3, <1>5, <1>6 DEF PlainTypes
<1>7. CASE /\ ~late /\ Io!finished(s) /\ Io!finish(s).why = "bytes"
           /\ captured' = [captured EXCEPT ![s] = @ + n]
           /\ Io!tooLarge(s, n) /\ op' = [op EXCEPT ![s] = "terminal"] /\ Io!stopWith("failed")
           /\ UNCHANGED os /\ UNCHANGED faults
  BY <1>0, <1>3, <1>5, <1>7 DEF PlainTypes
<1>8. CASE /\ ~late /\ Io!finished(s) /\ Io!finish(s).why = "bytes"
           /\ captured' = [captured EXCEPT ![s] = @ + n]
           /\ ~Io!tooLarge(s, n) /\ Io!prepare_next_read(s) /\ UNCHANGED <<place, result>> /\ UNCHANGED faults
  <2>1. op' \in [Io!Streams -> Operations] /\ op'[s] = "pending" /\ \A t \in Io!Streams \ {s} : op'[t] = op[t]
    BY <1>0, <1>8 DEF Io!prepare_next_read, SystemTypes, Operations
  <2>2. /\ os' \in [Io!Streams -> [kind : Kinds, n : Nat]] /\ os'[s].kind = "pending" /\ os'[s].n = 0
        /\ \A t \in Io!Streams \ {s} : os'[t] = os[t]
    BY <1>0, <1>8 DEF Io!prepare_next_read, SystemTypes, Kinds, Io!Ending
  <2>3. /\ captured' \in [Io!Reads -> Nat] /\ captured'[s] = captured[s] + os[s].n
        /\ \A t \in Io!Reads \ {s} : captured'[t] = captured[t]
    BY <1>0, <1>2, <1>8 DEF CountTypes
  <2>4. captured'[s] <= Cap
    BY <1>0, <1>2, <1>8, <2>3 DEF Io!tooLarge, CountTypes, Io!IoAssumption
  <2> QED
    BY <1>1, <1>3, <1>8, <2>1, <2>2, <2>3, <2>4, ReadsOn
<1>9. CASE late /\ Io!stopWith("failed") /\ UNCHANGED <<op, os, captured, faults>>
  BY <1>0, <1>5, <1>9 DEF PlainTypes
<1>10. CASE /\ Io!Fault /\ Io!stopWith("failed") /\ UNCHANGED <<os, captured>>
            /\ op' \in {op} \cup {[op EXCEPT ![s] = "error"] : t \in {u \in {s} : os[s].kind # "pending"}}
  BY <1>5, <1>10, Faults
<1> QED
  BY <1>4, <1>6, <1>7, <1>8, <1>9, <1>10 DEF Io!transfer_output

(* PollProcess keeps the invariant.                                        *)
LEMMA PollStep == ASSUME Io!IoAssumption, IoInv, Io!PollProcess PROVE IoInv'
<1>0. SystemTypes /\ PlainTypes
  BY TypeParts DEF IoInv
<1>1. UNCHANGED <<op, os, mem, handle, retired, process, fed, wrote, pipe, captured, late, over>>
      /\ place = "exit"
  BY DEF Io!PollProcess, Io!world
<1>2. CASE ~late /\ process # "running" /\ Io!goto("retire stdin") /\ result' = "success" /\ UNCHANGED faults
  BY <1>1, <1>2, ExitSeen DEF Io!goto
<1>3. CASE late /\ Io!stopWith("deadline") /\ UNCHANGED faults
  BY <1>0, <1>1, <1>3, Failing DEF Io!stopWith, SystemTypes, PlainTypes
<1>4. CASE Io!Fault /\ Io!stopWith("unknown")
  BY <1>0, <1>1, <1>4, Failing, Faults DEF Io!stopWith, SystemTypes
<1> QED
  BY <1>2, <1>3, <1>4 DEF Io!PollProcess

(* TerminateJob keeps the invariant.                                       *)
LEMMA TerminateStep == ASSUME Io!IoAssumption, IoInv, Io!TerminateJob PROVE IoInv'
<1>1. /\ place = "terminate" /\ place' = "cancel" /\ (process' = process \/ process' = "killed")
      /\ (result' = result \/ result' = "quarantined") /\ faults' \in 0..MaxFaults
  BY TypeParts, Faults DEF IoInv, PlainTypes, Io!TerminateJob, Io!goto
<1> QED
  BY <1>1, Terminated DEF Io!TerminateJob

(* cancel_outstanding_io keeps the invariant.                              *)
LEMMA CancelStep == ASSUME Io!IoAssumption, IoInv, Io!cancel_outstanding_io PROVE IoInv'
<1>0. SystemTypes
  BY TypeParts DEF IoInv
<1>1. /\ UNCHANGED <<os, mem, handle, retired, process, fed, wrote, pipe, captured, late, over>>
      /\ place = "cancel" /\ place' = "retire stdin"
  BY DEF Io!cancel_outstanding_io, Io!world, Io!goto
<1>2. /\ (result' = result \/ result' = "quarantined") /\ faults' \in 0..MaxFaults
  BY TypeParts, Faults DEF IoInv, PlainTypes, Io!cancel_outstanding_io
<1>3. PICK S : op' = [s \in Io!Streams |-> IF s \in S /\ op[s] = "pending" THEN "cancelling" ELSE op[s]]
  BY DEF Io!cancel_outstanding_io
<1>4. /\ op' \in [Io!Streams -> Operations]
      /\ \A t \in Io!Streams : op'[t] = op[t] \/ (op[t] = "pending" /\ op'[t] = "cancelling")
  BY <1>0, <1>3 DEF SystemTypes, Operations
<1> QED
  BY <1>1, <1>2, <1>4, Cancelled

(* The steps after the retirement of the operations, in their turn.        *)
LEMMA Turns ==
  /\ <<"retire stdout", "retire stderr", "drop">>[1] = "retire stdout"
  /\ <<"retire stdout", "retire stderr", "drop">>[2] = "retire stderr"
  /\ <<"retire stdout", "retire stderr", "drop">>[3] = "drop"
  OBVIOUS

(* retire_io keeps the invariant.                                          *)
LEMMA RetireStep ==
  ASSUME Io!IoAssumption, IoInv, NEW k \in 1..3, Io!retire_io(k) PROVE IoInv'
<1> DEFINE s == Io!Order[k]
<1>0. SystemTypes /\ ReadOK /\ \A t \in Io!Streams : OperationOK(t)
  BY TypeParts DEF IoInv
<1>1. /\ UNCHANGED <<os, mem, handle, process, fed, wrote, pipe, captured, late, over, faults>>
      /\ place = <<"retire stdin", "retire stdout", "retire stderr">>[k]
  BY DEF Io!retire_io, Io!world
<1>2. \/ k = 1 /\ s = "stdin" /\ place = "retire stdin"
      \/ k = 2 /\ s = "stdout" /\ place = "retire stdout"
      \/ k = 3 /\ s = "stderr" /\ place = "retire stderr"
  <2>1. CASE k = 1
    BY <1>1, <2>1 DEF Io!Order
  <2>2. CASE k = 2
    BY <1>1, <2>2 DEF Io!Order
  <2>3. CASE k = 3
    BY <1>1, <2>3 DEF Io!Order
  <2>4. k = 1 \/ k = 2 \/ k = 3
    OBVIOUS
  <2> QED
    BY <2>1, <2>2, <2>3, <2>4
<1>3. s \in Io!Streams /\ place \in Retiring
  BY <1>2 DEF Io!Streams, Io!Reads, Retiring
<1>4. CASE /\ Io!retires(s) /\ op' = [op EXCEPT ![s] = "retired"]
           /\ retired' = (k = 3)
           /\ Io!goto(<<"retire stdout", "retire stderr", "drop">>[k]) /\ UNCHANGED result
  <2>1. os[s].kind # "pending"
    BY <1>0, <1>3, <1>4 DEF Io!retires, Io!finished, OperationOK
  <2>2. \/ s = "stdin" /\ place = "retire stdin" /\ place' = "retire stdout" /\ retired' = FALSE
        \/ s = "stdout" /\ place = "retire stdout" /\ place' = "retire stderr" /\ retired' = FALSE
        \/ s = "stderr" /\ place = "retire stderr" /\ place' = "drop" /\ retired' = TRUE
    <3>1. place' = <<"retire stdout", "retire stderr", "drop">>[k]
      BY <1>4 DEF Io!goto
    <3>2. /\ k = 1 => place' = "retire stdout"
          /\ k = 2 => place' = "retire stderr"
          /\ k = 3 => place' = "drop"
      BY <3>1, Turns
    <3>3. retired' = (k = 3)
      BY <1>4
    <3>4. retired' = FALSE \/ k = 3
      BY <3>3
    <3>5. retired' = TRUE \/ k # 3
      BY <3>3
    <3> QED
      BY <1>2, <3>2, <3>4, <3>5
  <2>3. op' \in [Io!Streams -> Operations] /\ op'[s] = "retired" /\ \A t \in Io!Streams \ {s} : op'[t] = op[t]
    BY <1>0, <1>3, <1>4 DEF SystemTypes, Operations
  <2> QED
    BY <1>1, <1>3, <1>4, <2>1, <2>2, <2>3, Retired
<1>5. CASE Io!unretired
  BY <1>0, <1>1, <1>3, <1>5, NotRetired DEF Io!unretired, ReadOK, Whole, Io!Reads
<1> QED
  BY <1>4, <1>5 DEF Io!retire_io

(* Drop keeps the invariant.                                               *)
LEMMA DropStep == ASSUME Io!IoAssumption, IoInv, Io!Drop PROVE IoInv'
<1>0. MemoryTypes
  BY TypeParts DEF IoInv
<1>1. /\ UNCHANGED <<op, os, retired, process, fed, wrote, pipe, captured, late, over, result, faults>>
      /\ place = "drop" /\ place' = "done"
  BY DEF Io!Drop, Io!world, Io!goto
<1>2. mem' \in [Io!Streams -> {"live", "freed", "leaked"}] /\ handle' \in [Io!Streams -> {"open", "closed"}]
  BY <1>0 DEF Io!Drop, Io!dropIo, MemoryTypes
<1>3. \A t \in Io!Streams : ~retired => (mem'[t] = "freed" => mem[t] = "freed") /\ handle'[t] = handle[t]
  BY <1>0 DEF Io!Drop, Io!dropIo, MemoryTypes
<1> QED
  BY <1>1, <1>2, <1>3, DropCase

(* Every step of the reducer, the child and the system keeps the           *)
(* invariant.                                                              *)
LEMMA IoNextInv == ASSUME Io!IoAssumption, IoInv, [Io!Next]_(Io!vars) PROVE IoInv'
<1>1. CASE UNCHANGED Io!vars
  <2>1. Types'
    BY <1>1, TypeParts DEF Io!vars, IoInv, Types, Io!TypeOK, SystemTypes, MemoryTypes, PlainTypes, FlagTypes,
       CountTypes,
       CountBounds, Operations
  <2>4. PlaceOK'
    BY <1>1 DEF Io!vars, IoInv, PlaceOK
  <2>2. \A s \in Io!Streams : OperationOK(s)'
    BY <1>1 DEF Io!vars, IoInv, OperationOK
  <2>3. ReadOK'
    BY <1>1 DEF Io!vars, IoInv, ReadOK, StreamOK, Whole, Unread
  <2> QED
    BY <2>1, <2>2, <2>3, <2>4 DEF IoInv
<1>2. CASE Io!Reducer
  BY <1>2, StartStep, StdinStep, OutputStep, PollStep, TerminateStep, CancelStep, RetireStep,
     DropStep DEF Io!Reducer
<1>3. CASE Io!System
  BY <1>3, WriteStep, CompleteStep, EndStep, TickStep DEF Io!System
<1> QED
  BY <1>1, <1>2, <1>3 DEF Io!Next

(* The inductive invariant of a launcher's pipes, in every reachable       *)
(* state.                                                                  *)
LEMMA IoInvariance == ASSUME Io!IoAssumption PROVE Io!Spec => []IoInv
<1>1. Io!Init => IoInv
  BY IoInitInv
<1>2. IoInv /\ [Io!Next]_(Io!vars) => IoInv'
  BY IoNextInv
<1> QED
  BY <1>1, <1>2, PTL DEF Io!Spec

(* Whenever the system completes an operation of start_concurrent_io, also *)
(* after a cancellation that raced it or after retire_io has given up      *)
(* waiting, the buffer is not freed and the handle is not closed: the drop *)
(* of a bundle that was not retired leaks it (the part of the pipes in     *)
(* NothingIsLeft of MCHost).                                               *)
THEOREM PendingIsAlive == ASSUME Io!IoAssumption PROVE Io!Spec => []Io!NoUseAfterFree
<1>1. IoInv => Io!NoUseAfterFree
  <2> SUFFICES ASSUME IoInv, NEW s \in Io!Streams, os[s].kind = "pending"
               PROVE  mem[s] # "freed" /\ handle[s] = "open"
    BY DEF Io!NoUseAfterFree
  <2>1. handle[s] \in {"open", "closed"} /\ OperationOK(s)
    BY DEF IoInv, Types, Io!TypeOK
  <2> QED
    BY <2>1 DEF OperationOK
<1> QED
  BY <1>1, IoInvariance, PTL

(* A success of the launcher stands for the whole output of its child, in  *)
(* whichever pieces transfer_output read it: nothing lost between two      *)
(* reads, nothing beyond the cap, nothing on stderr, no kill (the part of  *)
(* the pipes in EvidenceIsTrue of MCHost).                                 *)
THEOREM SuccessIsWhole == ASSUME Io!IoAssumption PROVE Io!Spec => []Io!WholeOutput
<1>1. IoInv => Io!WholeOutput
  <2> SUFFICES ASSUME IoInv, place = "done", result = "success"
               PROVE  /\ captured = wrote /\ captured["stdout"] <= Cap /\ wrote["stderr"] = 0
                      /\ process = "ended" /\ retired
    BY DEF Io!WholeOutput
  <2>1. ReadOK /\ Whole("stdout") /\ Whole("stderr") /\ wrote["stderr"] = 0 /\ process = "ended" /\ retired
    BY DEF IoInv, ReadOK
  <2>2. captured \in [Io!Reads -> Nat] /\ wrote \in [Io!Reads -> Nat]
    BY DEF IoInv, Types
  <2>3. \A s \in Io!Reads : captured[s] = wrote[s]
    BY <2>1 DEF Whole, Io!Reads
  <2> QED
    BY <2>1, <2>2, <2>3 DEF Whole
<1> QED
  BY <1>1, IoInvariance, PTL

-----------------------------------------------------------------------------
(* The hardening controllers.                                              *)

CarrierCommand == [role : {"git", "wsl"}, path : 0..Hardening!Total, ms : {1}]
Asking == [a : Attempts, o : 1..Hardening!Total, result : {"pending"} \cup Hardening!Results]

(* The attempts that hold the carrier: they wrote the first request.       *)
Holders == {a \in Attempts : ord[a] > 1 \/ step[a] \in {"written", "waiting"} \/ rust[a] > 0}
Busy(a) == step[a] \in {"validating", "next", "written", "waiting"}
(* The file before which the attempt stands, the marker or a request.      *)
Blocking(a) == IF ord[a] = Guards + 1 /\ ~marked[a] THEN Hardening!Marker ELSE ord[a]

(* One attempt holds the carrier and what was asked is what it asked.      *)
HoldersOK ==
  /\ \A a, b \in Attempts : a \in Holders /\ b \in Holders => a = b
  /\ \A a \in Attempts : a \in Holders => Len(ran) = rust[a] /\ 1 \in files
(* What was asked of the sidecar: in order, all clear but the last, and    *)
(* under the marker after the guards.                                      *)
RanOK ==
  /\ \A i \in DOMAIN ran : ran[i].o = i /\ rust[ran[i].a] > 0
  /\ \A i \in DOMAIN ran : i < Len(ran) => ran[i].result = "clear"
  /\ Len(ran) > Guards => Hardening!Marker \in files
  /\ ran # <<>> => Hardening!parseCarrier
(* The counts of one attempt, its marker and what it reports.               *)
AttemptOK(a) ==
  /\ Busy(a) => Hardening!parseCarrier /\ outcome[a] = "none"
  /\ outcome[a] # "none" => step[a] = "done"
  /\ step[a] \in {"idle", "validating"} => ord[a] = 1 /\ rust[a] = 0 /\ acc[a] = 0 /\ ~marked[a]
  /\ step[a] \in {"next", "written"} => rust[a] = ord[a] - 1 /\ acc[a] = rust[a]
  /\ step[a] = "waiting" => rust[a] = ord[a] /\ acc[a] = ord[a] - 1
  /\ step[a] \in {"next", "written"} /\ ran # <<>> /\ a \in Holders => ran[Len(ran)].result = "clear"
  /\ marked[a] => Hardening!Marker \in files
  /\ step[a] \in {"written", "waiting"} /\ ord[a] > Guards => marked[a]
  /\ step[a] = "next" /\ ord[a] > Guards + 1 => marked[a]
  /\ outcome[a] = "terminal-refused" =>
        /\ acc[a] = rust[a]
        /\ ran # <<>> /\ a \in Holders => ran[Len(ran)].result = "clear"
        /\ rust[a] > 0 \/ marked[a] => Hardening!parseCarrier /\ Blocking(a) \in files
  /\ outcome[a] = "known-clear" => /\ rust[a] = Hardening!Total /\ acc[a] = Hardening!Total
                                   /\ ran # <<>> => ran[Len(ran)].result = "clear"
HardeningInv == Hardening!TypeOK /\ HoldersOK /\ RanOK /\ \A a \in Attempts : AttemptOK(a)

-----------------------------------------------------------------------------
(* The commands of the well-formed carrier, whatever the numbers of guards *)
(* and of commands that change the guest.                                  *)
LEMMA GoodCommands ==
  ASSUME Hardening!HardeningAssumption
  PROVE  /\ Hardening!Total \in Nat \ {0, 1} /\ Guards \in 1..(Hardening!Total - 1)
         /\ Hardening!Good.commands \in Seq(CarrierCommand) /\ Len(Hardening!Good.commands) = Hardening!Total
         /\ DOMAIN Hardening!Good.commands = 1..Hardening!Total
         /\ \A o \in 1..Hardening!Total : Hardening!Good.commands[o] = [role |-> IF o <= Guards THEN "git" ELSE "wsl", path |-> o, ms |-> 1]
<1> DEFINE cs == [o \in 1..Hardening!Total |-> [role |-> IF o <= Guards THEN "git" ELSE "wsl", path |-> o,
    ms |-> 1]]
<1>1. Hardening!Total \in Nat \ {0, 1} /\ Guards \in 1..(Hardening!Total - 1)
  BY DEF Hardening!HardeningAssumption, Hardening!Total
<1>2. cs \in [1..Hardening!Total -> CarrierCommand]
  BY <1>1 DEF CarrierCommand
<1>3. cs \in Seq(CarrierCommand)
  BY <1>1, <1>2, SeqDef
<1>4. DOMAIN cs = 1..Hardening!Total
  OBVIOUS
<1>5. DOMAIN cs = 1..Len(cs) /\ Len(cs) \in Nat
  BY <1>3, LenProperties
<1>6. Len(cs) = Hardening!Total
  BY <1>1, <1>4, <1>5
<1> QED
  BY <1>1, <1>3, <1>4, <1>6 DEF Hardening!Good

(* A carrier that is accepted has the commands of the well-formed one.     *)
LEMMA Parsed ==
  ASSUME Hardening!HardeningAssumption, carrier \in Hardening!Carriers, Hardening!parseCarrier
  PROVE  carrier.commands = Hardening!Good.commands
<1> DEFINE gs == Hardening!Good.commands
<1>1. CASE carrier \in {Hardening!Good, [Hardening!Good EXCEPT !.literals = FALSE],
           [Hardening!Good EXCEPT !.startup = FALSE],
                        [Hardening!Good EXCEPT !.aggregate = Hardening!Total - 1]}
  BY <1>1 DEF Hardening!Good
<1>2. CASE carrier = [Hardening!Good EXCEPT !.commands[Guards].role = "wsl"]
  <2>1. carrier.commands = [gs EXCEPT ![Guards].role = "wsl"]
    BY <1>2 DEF Hardening!Good
  <2>2. Len(carrier.commands) = Hardening!Total /\ carrier.commands[Guards].role = "wsl"
    BY <2>1, GoodCommands, LenProperties
  <2>3. Guards \in 1..Len(carrier.commands) /\ Guards <= Guards
    BY <2>2, GoodCommands
  <2>4. Hardening!commandOrder(carrier.commands)
    BY DEF Hardening!parseCarrier, Hardening!parseCommands
  <2> QED
    BY <2>2, <2>3, <2>4 DEF Hardening!commandOrder
<1>3. CASE carrier = [Hardening!Good EXCEPT !.commands[Hardening!Total].role = "git"]
  <2>1. carrier.commands = [gs EXCEPT ![Hardening!Total].role = "git"]
    BY <1>3 DEF Hardening!Good
  <2>2. Len(carrier.commands) = Hardening!Total /\ carrier.commands[Hardening!Total].role = "git"
    BY <2>1, GoodCommands, LenProperties
  <2>3. Hardening!Total \in 1..Len(carrier.commands) /\ ~(Hardening!Total <= Guards)
    BY <2>2, GoodCommands
  <2>4. Hardening!commandOrder(carrier.commands)
    BY DEF Hardening!parseCarrier, Hardening!parseCommands
  <2> QED
    BY <2>2, <2>3, <2>4 DEF Hardening!commandOrder
<1>4. CASE carrier = [Hardening!Good EXCEPT !.commands[Hardening!Total].path = Hardening!Marker]
  <2>1. carrier.commands = [gs EXCEPT ![Hardening!Total].path = Hardening!Marker]
    BY <1>4 DEF Hardening!Good
  <2>2. Len(carrier.commands) = Hardening!Total /\ carrier.commands[Hardening!Total].path = Hardening!Marker
    BY <2>1, GoodCommands, LenProperties
  <2>3. Hardening!Total \in 1..Len(carrier.commands)
    BY <2>2, GoodCommands
  <2> QED
    BY <2>2, <2>3 DEF Hardening!parseCarrier, Hardening!parseCommands, Hardening!distinctPaths
<1>5. CASE carrier = [Hardening!Good EXCEPT !.commands[Hardening!Total].path = 1]
  <2>7. carrier.commands = [gs EXCEPT ![Hardening!Total].path = 1]
    BY <1>5 DEF Hardening!Good
  <2>1. 1 \in 1..Hardening!Total /\ Hardening!Total \in 1..Hardening!Total /\ 1 # Hardening!Total
    BY GoodCommands
  <2>2. gs[1] = [role |-> IF 1 <= Guards THEN "git" ELSE "wsl", path |-> 1, ms |-> 1]
        /\ DOMAIN gs = 1..Hardening!Total
    BY <2>1, GoodCommands
  <2>3. 1 \in 1..Hardening!Total /\ Hardening!Total \in 1..Hardening!Total /\ 1 # Hardening!Total
        /\ DOMAIN gs = 1..Hardening!Total /\ gs[1].path = 1
    BY <2>1, <2>2
  <2> HIDE DEF gs
  <2>4. carrier.commands = [gs EXCEPT ![Hardening!Total].path = 1]
    BY <1>5 DEF Hardening!Good, gs
  <2>5. carrier.commands[1] = gs[1] /\ carrier.commands[Hardening!Total] = [gs[Hardening!Total] EXCEPT !.path = 1]
    BY <2>3, <2>4
  <2>6. carrier.commands[Hardening!Total].path = 1
    BY <2>5, <2>3, GoodCommands DEF gs
  <2>8. /\ Len(carrier.commands) = Hardening!Total /\ carrier.commands[Hardening!Total].path = 1
        /\ carrier.commands[1].path = 1
    BY <2>7, <2>3, <2>5, <2>6, GoodCommands, LenProperties DEF gs
  <2>9. {1, Hardening!Total} \subseteq 1..Len(carrier.commands) /\ Hardening!Total # 1
    BY <2>8, GoodCommands
  <2> QED
    BY <2>8, <2>9 DEF Hardening!parseCarrier, Hardening!parseCommands, Hardening!distinctPaths
<1>6. CASE carrier = [Hardening!Good EXCEPT !.commands = SubSeq(@, 1, Guards)]
  <2>1. carrier.commands = SubSeq(gs, 1, Guards)
    BY <1>6 DEF Hardening!Good
  <2>2. Len(carrier.commands) = Guards
    BY <2>1, GoodCommands, SubSeqProperties
  <2> QED
    BY <2>2, GoodCommands DEF Hardening!parseCarrier, Hardening!parseCommands
<1> QED
  BY <1>1, <1>2, <1>3, <1>4, <1>5, <1>6 DEF Hardening!Carriers

(* A carrier that parseCarrier accepts asks for each of its commands by    *)
(* its own file, the guards of git first and those of the guest after      *)
(* them.                                                                   *)
LEMMA Shape ==
  ASSUME Hardening!HardeningAssumption, carrier \in Hardening!Carriers, Hardening!parseCarrier
  PROVE  /\ Len(carrier.commands) = Hardening!Total
         /\ \A o \in 1..Hardening!Total : /\ carrier.commands[o].path = o
                                          /\ carrier.commands[o].role = IF o <= Guards THEN "git" ELSE "wsl"
<1>1. carrier.commands = Hardening!Good.commands
  BY Parsed
<1>2. ASSUME NEW o \in 1..Hardening!Total
      PROVE  /\ Hardening!Good.commands[o].path = o
             /\ Hardening!Good.commands[o].role = IF o <= Guards THEN "git" ELSE "wsl"
  <2>1. Hardening!Good.commands[o] = [role |-> IF o <= Guards THEN "git" ELSE "wsl", path |-> o, ms |-> 1]
    BY GoodCommands
  <2> QED
    BY <2>1
<1> QED
  BY <1>1, <1>2, GoodCommands

(* Whether a carrier is accepted depends on nothing but the carrier.       *)
LEMMA SameCarrier == ASSUME UNCHANGED carrier PROVE Hardening!parseCarrier' <=> Hardening!parseCarrier
  BY DEF Hardening!parseCarrier, Hardening!literalsV1, Hardening!literalsV2

-----------------------------------------------------------------------------
SameAttempt(d) == /\ step'[d] = step[d] /\ ord'[d] = ord[d] /\ acc'[d] = acc[d] /\ rust'[d] = rust[d]
                  /\ marked'[d] = marked[d] /\ started'[d] = started[d] /\ outcome'[d] = outcome[d]

(* A step of one attempt keeps what is known of the others.                *)
LEMMA Others ==
  ASSUME Hardening!HardeningAssumption, HardeningInv, NEW a \in Attempts,
         \A d \in Attempts \ {a} : SameAttempt(d),
         UNCHANGED carrier, files \subseteq files', HoldersOK', ran' = ran \/ a \in Holders',
         AttemptOK(a)'
  PROVE  \A d \in Attempts : AttemptOK(d)'
<1> SUFFICES ASSUME NEW d \in Attempts \ {a} PROVE AttemptOK(d)'
  OBVIOUS
<1>1. AttemptOK(d) /\ SameAttempt(d) /\ Hardening!Total \in Nat \ {0, 1}
  BY GoodCommands DEF HardeningInv
<1>2. d \in Holders' <=> d \in Holders
  BY <1>1 DEF SameAttempt, Holders
<1>3. rust[d] = Hardening!Total => d \in Holders
  BY <1>1 DEF Holders
<1>4. d \in Holders => ran' = ran
  BY <1>2 DEF HoldersOK
<1> QED
  BY <1>1, <1>2, <1>3, <1>4, SameCarrier DEF SameAttempt, AttemptOK, Busy, Blocking

(* What was asked, and the entries of one attempt.                         *)
LEMMA RanEntries ==
  ASSUME Hardening!HardeningAssumption, HardeningInv
  PROVE  /\ Hardening!Total \in Nat \ {0, 1} /\ Guards \in 1..(Hardening!Total - 1)
         /\ files \subseteq 0..Hardening!Total /\ Hardening!Marker = 0
         /\ ran \in Seq(Asking) /\ Len(ran) \in Nat /\ DOMAIN ran = 1..Len(ran)
         /\ \A i \in DOMAIN ran : ran[i] \in Asking /\ ran[i].a \in Attempts
<1>1. ran \in Seq(Asking)
  BY DEF HardeningInv, Hardening!TypeOK, Asking
<1>2. \A i \in 1..Len(ran) : ran[i] \in Asking
  BY <1>1
<1>3. \A q \in Asking : q.a \in Attempts
  BY DEF Asking
<1> QED
  BY <1>1, <1>2, <1>3, GoodCommands, LenProperties DEF HardeningInv, Hardening!TypeOK, Hardening!Marker

LEMMA AttemptEntries ==
  ASSUME Hardening!HardeningAssumption, HardeningInv, NEW a \in Attempts
  PROVE  /\ Hardening!Total \in Nat \ {0, 1} /\ Guards \in 1..(Hardening!Total - 1)
         /\ ord[a] \in 1..Hardening!Total /\ acc[a] \in 0..Hardening!Total
         /\ rust[a] \in 0..Hardening!Total /\ marked[a] \in BOOLEAN /\ ran \in Seq(Asking) /\ Len(ran) \in Nat
         /\ DOMAIN ran = 1..Len(ran) /\ files \subseteq 0..Hardening!Total /\ AttemptOK(a)
         /\ Hardening!Marker = 0
         /\ \A i \in DOMAIN ran : ran[i] \in Asking /\ ran[i].a \in Attempts
  BY RanEntries DEF HardeningInv, Hardening!TypeOK

(* What keeps the holder.                                                  *)
LEMMA KeepHolders ==
  ASSUME HoldersOK, UNCHANGED <<files, ran, rust>>, \A d \in Attempts : d \in Holders' <=> d \in Holders
  PROVE  HoldersOK'
  BY DEF HoldersOK

(* An attempt begins, or is refused its carrier.                           *)
LEMMA BeginStep ==
  ASSUME Hardening!HardeningAssumption, HardeningInv, NEW a \in Attempts, Hardening!begin(a) PROVE HardeningInv'
<1>1. /\ step[a] = "idle" /\ \A d \in Attempts \ {a} : SameAttempt(d)
      /\ UNCHANGED <<carrier, files, ran, ord, acc, rust, marked>>
      /\ step'[a] \in {"validating", "done"} /\ (step'[a] = "validating" => Hardening!parseCarrier
         /\ outcome' = outcome)
      /\ step'[a] = "done" => outcome'[a] = "terminal-refused"
  BY DEF Hardening!begin, Hardening!Ends, SameAttempt, HardeningInv, Hardening!TypeOK
<1>2. Hardening!TypeOK'
  BY DEF Hardening!begin, Hardening!Ends, HardeningInv, Hardening!TypeOK, Hardening!Outcomes
<1>3. \A d \in Attempts : d \in Holders' <=> d \in Holders
  BY <1>1, AttemptEntries DEF Holders, SameAttempt, AttemptOK
<1>4. HoldersOK'
  <2>1. HoldersOK /\ UNCHANGED <<files, ran, rust>>
    BY <1>1 DEF HardeningInv
  <2> QED
    BY <1>3, <2>1, KeepHolders
<1>5. RanOK'
  BY <1>1, SameCarrier DEF RanOK, HardeningInv
<1>6. AttemptOK(a)'
  BY <1>1, AttemptEntries, SameCarrier DEF AttemptOK, Busy, Holders
<1> QED
  BY <1>1, <1>2, <1>4, <1>5, <1>6, Others DEF HardeningInv

(* The files the carrier binds are read back, or the attempt is refused.   *)
LEMMA ValidateStep ==
  ASSUME Hardening!HardeningAssumption, HardeningInv, NEW a \in Attempts, Hardening!validateAllBoundFiles(a)
  PROVE  HardeningInv'
<1>1. /\ step[a] = "validating" /\ \A d \in Attempts \ {a} : SameAttempt(d)
      /\ UNCHANGED <<carrier, files, ran, ord, acc, rust, marked>>
      /\ step'[a] \in {"next", "done"} /\ (step'[a] = "next" => outcome' = outcome)
      /\ step'[a] = "done" => outcome'[a] = "terminal-refused"
  BY DEF Hardening!validateAllBoundFiles, Hardening!Ends, SameAttempt, HardeningInv, Hardening!TypeOK
<1>2. Hardening!TypeOK'
  BY DEF Hardening!validateAllBoundFiles, Hardening!Ends, HardeningInv, Hardening!TypeOK, Hardening!Outcomes
<1>3. \A d \in Attempts : d \in Holders' <=> d \in Holders
  BY <1>1, AttemptEntries DEF Holders, SameAttempt, AttemptOK
<1>4. HoldersOK'
  <2>1. HoldersOK /\ UNCHANGED <<files, ran, rust>>
    BY <1>1 DEF HardeningInv
  <2> QED
    BY <1>3, <2>1, KeepHolders
<1>5. RanOK'
  BY <1>1, SameCarrier DEF RanOK, HardeningInv
<1>6. AttemptOK(a)'
  BY <1>1, AttemptEntries, SameCarrier DEF AttemptOK, Busy, Holders
<1> QED
  BY <1>1, <1>2, <1>4, <1>5, <1>6, Others DEF HardeningInv

(* An attempt that ends writes nothing more.                               *)
LEMMA EndHolders ==
  ASSUME Hardening!HardeningAssumption, HardeningInv, NEW a \in Attempts,
         step'[a] \notin {"next", "written", "waiting"},
         \A d \in Attempts \ {a} : SameAttempt(d), UNCHANGED <<files, ran, ord, rust>>
  PROVE  HoldersOK'
<1>1. \A d \in Attempts : d # a => (d \in Holders' <=> d \in Holders) /\ SameAttempt(d)
  BY DEF Holders, SameAttempt
<1>2. a \in Holders' => a \in Holders
  BY DEF Holders
<1> QED
  BY <1>1, <1>2 DEF HoldersOK, HardeningInv

(* The process of an attempt ends where it is.                             *)
LEMMA CrashStep ==
  ASSUME Hardening!HardeningAssumption, HardeningInv, NEW a \in Attempts, Hardening!Crash(a) PROVE HardeningInv'
<1>1. /\ step[a] \in {"validating", "next", "written", "waiting"} /\ step'[a] = "crashed"
      /\ \A d \in Attempts \ {a} : SameAttempt(d)
      /\ UNCHANGED <<carrier, files, ran, clock, ord, acc, rust, marked, outcome>>
  BY DEF Hardening!Crash, SameAttempt, HardeningInv, Hardening!TypeOK
<1>2. Hardening!TypeOK'
  BY DEF Hardening!Crash, HardeningInv, Hardening!TypeOK
<1>3. HoldersOK'
  BY <1>1, EndHolders
<1>4. RanOK'
  BY <1>1, SameCarrier DEF RanOK, HardeningInv
<1>5. AttemptOK(a)'
  BY <1>1, AttemptEntries, SameCarrier DEF AttemptOK, Busy
<1> QED
  BY <1>1, <1>2, <1>3, <1>4, <1>5, Others DEF HardeningInv

(* The attempt marker is created, found to be there, or left in doubt.     *)
LEMMA CreateMarkerStep ==
  ASSUME Hardening!HardeningAssumption, HardeningInv, NEW a \in Attempts, Hardening!createMarker(a)
  PROVE  HardeningInv'
<1>1. step[a] = "next" /\ ord[a] = Guards + 1 /\ rust[a] = Guards /\ acc[a] = Guards /\ a \in Holders
  <2>1. step[a] = "next" /\ ord[a] = Guards + 1
    BY DEF Hardening!createMarker, Hardening!markerDue, Hardening!markerAt
  <2>2. Guards \in Nat \ {0} /\ rust[a] = ord[a] - 1 /\ acc[a] = rust[a]
    BY <2>1, AttemptEntries DEF AttemptOK
  <2> QED
    BY <2>1, <2>2 DEF Holders
<1>2. /\ \A d \in Attempts \ {a} : SameAttempt(d)
      /\ UNCHANGED <<carrier, ran, clock, ord, acc, rust>>
  BY DEF Hardening!createMarker, Hardening!created, Hardening!collides, Hardening!writeUnknown, Hardening!Ends,
     SameAttempt, HardeningInv, Hardening!TypeOK
<1>3. files' \in {files, files \cup {0}}
  BY DEF Hardening!createMarker, Hardening!created, Hardening!collides, Hardening!writeUnknown, Hardening!Marker
<1>4. \/ step'[a] = "next" /\ outcome'[a] = outcome[a] /\ 0 \in files' /\ marked'[a] = TRUE
      \/ /\ step'[a] = "done" /\ outcome'[a] \in {"terminal-unknown", "terminal-refused"}
         /\ marked'[a] = marked[a] /\ ~marked[a] /\ (outcome'[a] = "terminal-refused" => 0 \in files')
  BY <1>1 DEF Hardening!createMarker, Hardening!created, Hardening!collides, Hardening!writeUnknown,
     Hardening!Ends, Hardening!markerDue, HardeningInv, Hardening!TypeOK, Hardening!Marker
<1>5. /\ step[a] = "next" /\ ord[a] = Guards + 1 /\ rust[a] = Guards /\ acc[a] = Guards /\ a \in Holders
      /\ \A d \in Attempts \ {a} : SameAttempt(d)
      /\ UNCHANGED <<carrier, ran, clock, ord, acc, rust>>
      /\ files' \in {files, files \cup {0}}
      /\ \/ step'[a] = "next" /\ outcome'[a] = outcome[a] /\ 0 \in files' /\ marked'[a] = TRUE
         \/ /\ step'[a] = "done" /\ outcome'[a] \in {"terminal-unknown", "terminal-refused"}
            /\ marked'[a] = marked[a] /\ ~marked[a] /\ (outcome'[a] = "terminal-refused" => 0 \in files')
  BY <1>1, <1>2, <1>3, <1>4
<1>6. Hardening!TypeOK'
  <2>1. files' \subseteq 0..Hardening!Total
    BY <1>5, AttemptEntries
  <2> QED
    BY <2>1 DEF Hardening!createMarker, Hardening!created, Hardening!collides, Hardening!writeUnknown,
       Hardening!Ends, HardeningInv, Hardening!TypeOK, Hardening!Outcomes
<1>7. Holders' = Holders
  BY <1>5, AttemptEntries DEF Holders, SameAttempt
<1>8. HoldersOK'
  BY <1>5, <1>7 DEF HoldersOK, HardeningInv
<1>9. RanOK'
  BY <1>5, SameCarrier DEF RanOK, HardeningInv
<1>10. AttemptOK(a)'
  BY <1>5, <1>7, AttemptEntries, SameCarrier DEF AttemptOK, Busy, Blocking
<1> QED
  BY <1>5, <1>6, <1>8, <1>9, <1>10, Others DEF HardeningInv

(* A step of the holder that ends it, or leaves what is asked alone.       *)
LEMMA StopStep ==
  ASSUME Hardening!HardeningAssumption, HardeningInv, NEW a \in Attempts, a \in Holders, rust[a] > 0
         \/ step[a] = "written",
         step'[a] = "done", outcome'[a] = "terminal-unknown", \A d \in Attempts \ {a} : SameAttempt(d),
         UNCHANGED <<carrier, files, ran, clock, ord, acc, rust, marked>>, Hardening!TypeOK'
  PROVE  HardeningInv'
<1>1. HoldersOK'
  BY EndHolders
<1>2. RanOK'
  BY SameCarrier DEF RanOK, HardeningInv
<1>3. AttemptOK(a)'
  BY AttemptEntries, SameCarrier DEF AttemptOK, Busy
<1> QED
  BY <1>1, <1>2, <1>3, Others DEF HardeningInv

(* The command is asked of the sidecar: what was asked grows by the        *)
(* command that is next in the carrier, and the attempt was its holder.    *)
LEMMA AskStep ==
  ASSUME Hardening!HardeningAssumption, HardeningInv, NEW a \in Attempts, Hardening!invokeAcceptedRustSidecar(a)
  PROVE  HardeningInv'
<1> DEFINE r == [a |-> a, o |-> ord[a], result |-> "pending"]
<1>1. step[a] = "written" /\ rust[a] = ord[a] - 1 /\ acc[a] = rust[a]
  BY AttemptEntries DEF Hardening!invokeAcceptedRustSidecar, AttemptOK
<1>2. a \in Holders /\ Len(ran) = rust[a]
  BY <1>1 DEF Holders, HoldersOK, HardeningInv
<1>3. /\ \A d \in Attempts \ {a} : SameAttempt(d)
      /\ UNCHANGED <<carrier, files, clock, ord, acc, marked>>
  BY DEF Hardening!invokeAcceptedRustSidecar, Hardening!Ends, SameAttempt, HardeningInv, Hardening!TypeOK
<1>4. ASSUME step'[a] = "waiting", outcome' = outcome, ran' = Append(ran, r),
             rust' = [rust EXCEPT ![a] = @ + 1],
             step' = [step EXCEPT ![a] = "waiting"]
      PROVE  HardeningInv'
  <2>1. r \in Asking
    BY AttemptEntries DEF Asking
  <2>2. /\ ran' \in Seq(Asking) /\ Len(ran') = Len(ran) + 1 /\ ran'[Len(ran) + 1] = r
        /\ \A i \in 1..Len(ran) : ran'[i] = ran[i]
        /\ DOMAIN ran' = 1..(Len(ran) + 1)
    BY <1>4, <2>1, AttemptEntries, AppendProperties
  <2>3. rust'[a] = ord[a] /\ \A d \in Attempts : rust[d] > 0 => rust'[d] > 0
    BY <1>1, <1>4, AttemptEntries DEF HardeningInv, Hardening!TypeOK
  <2>4. Hardening!TypeOK'
    <3>1. rust' \in [Attempts -> 0..Hardening!Total]
      BY <1>4, <2>3, AttemptEntries DEF HardeningInv, Hardening!TypeOK
    <3>2. step' \in [Attempts -> {"idle", "validating", "next", "written", "waiting", "done", "crashed"}]
      BY <1>4 DEF HardeningInv, Hardening!TypeOK
    <3>3. UNCHANGED <<carrier, files, clock, ord, acc, marked, started, outcome>>
      BY <1>4 DEF Hardening!invokeAcceptedRustSidecar
    <3> QED
      <4>1. ran' \in Seq(Asking)
        BY <2>2
      <4> HIDE DEF r
      <4> QED
        BY <3>1, <3>2, <3>3, <4>1 DEF HardeningInv, Hardening!TypeOK, Asking
  <2>5. Holders' = Holders
    BY <1>1, <1>2, <1>3, <1>4, <2>3, AttemptEntries DEF Holders, SameAttempt
  <2>6. HoldersOK'
    <3>1. \A d \in Holders : d = a
      BY <1>2 DEF HoldersOK, HardeningInv, Holders
    <3> QED
      BY <1>1, <1>2, <1>3, <2>2, <2>3, <2>5, <3>1, AttemptEntries DEF HoldersOK, HardeningInv
  <2>7. RanOK'
    <3>1. \A i \in DOMAIN ran' : ran'[i].o = i /\ rust'[ran'[i].a] > 0
      <4>1. \A i \in 1..Len(ran) : ran[i].o = i /\ rust'[ran[i].a] > 0
        <5>1. \A i \in 1..Len(ran) : ran[i].a \in Attempts
          BY AttemptEntries
        <5> QED
          BY <2>3, <5>1, AttemptEntries DEF RanOK, HardeningInv
      <4>2. ran'[Len(ran) + 1].o = Len(ran) + 1 /\ rust'[ran'[Len(ran) + 1].a] > 0
        BY <1>1, <1>2, <2>2, <2>3, AttemptEntries
      <4>3. \A i \in DOMAIN ran' : i \in 1..Len(ran) \/ i = Len(ran) + 1
        BY <2>2, AttemptEntries
      <4> QED
        BY <2>2, <4>1, <4>2, <4>3
    <3>2. \A i \in DOMAIN ran : ran[i].result = "clear"
      <4>1. ran # <<>> => ran[Len(ran)].result = "clear"
        BY <1>1, <1>2, AttemptEntries DEF AttemptOK
      <4> QED
        <5>1. ASSUME NEW i \in DOMAIN ran PROVE ran # <<>> /\ (i < Len(ran) \/ i = Len(ran))
          BY AttemptEntries
        <5> QED
          BY <4>1, <5>1 DEF RanOK, HardeningInv
    <3>3. Len(ran') > Guards => Hardening!Marker \in files'
      BY <1>1, <1>2, <1>3, <2>2, AttemptEntries DEF AttemptOK
    <3>4. Hardening!parseCarrier'
      BY <1>1, <1>3, SameCarrier, AttemptEntries DEF AttemptOK, Busy
    <3> QED
      <4>1. \A i \in DOMAIN ran' : i < Len(ran') => i \in DOMAIN ran /\ ran'[i] = ran[i]
        <5>1. Len(ran) \in Nat /\ DOMAIN ran = 1..Len(ran)
          BY AttemptEntries
        <5>2. \A i \in 1..(Len(ran) + 1) : i < Len(ran) + 1 => i \in 1..Len(ran)
          BY <5>1
        <5> HIDE DEF r
        <5> QED
          BY <2>2, <5>1, <5>2
      <4>2. \A i \in DOMAIN ran' : i < Len(ran') => ran'[i].result = "clear"
        BY <3>2, <4>1
      <4> QED
        BY <3>1, <3>3, <3>4, <4>2 DEF RanOK
  <2>8. AttemptOK(a)'
    BY <1>1, <1>2, <1>3, <1>4, <2>3, SameCarrier, AttemptEntries DEF AttemptOK, Busy
  <2> QED
    BY <1>2, <1>3, <2>4, <2>5, <2>6, <2>7, <2>8, Others DEF HardeningInv
<1>5. ASSUME Hardening!Ends(a, "terminal-unknown"), UNCHANGED <<ran, rust>>
      PROVE  HardeningInv'
  <2>1. UNCHANGED <<carrier, files, clock, ord, acc, marked, started>>
    BY DEF Hardening!invokeAcceptedRustSidecar
  <2>2. Hardening!TypeOK'
    BY <1>5, <2>1 DEF Hardening!Ends, HardeningInv, Hardening!TypeOK, Hardening!Outcomes
  <2>3. step'[a] = "done" /\ outcome'[a] = "terminal-unknown"
    BY <1>5 DEF Hardening!Ends, HardeningInv, Hardening!TypeOK
  <2> QED
    BY <1>1, <1>2, <1>3, <1>5, <2>2, <2>3, StopStep
<1>6. \/ /\ step'[a] = "waiting" /\ outcome' = outcome /\ ran' = Append(ran, r)
         /\ rust' = [rust EXCEPT ![a] = @ + 1] /\ step' = [step EXCEPT ![a] = "waiting"]
      \/ Hardening!Ends(a, "terminal-unknown") /\ UNCHANGED <<ran, rust>>
  BY DEF Hardening!invokeAcceptedRustSidecar, HardeningInv, Hardening!TypeOK
<1> QED
  BY <1>4, <1>5, <1>6

(* The request of the next command becomes a new durable file. An attempt  *)
(* that does not hold the carrier gets no further than the first one,      *)
(* which is there when another attempt holds it.                           *)
LEMMA CreateRequestStep ==
  ASSUME Hardening!HardeningAssumption, HardeningInv, NEW a \in Attempts, Hardening!createRequest(a)
  PROVE  HardeningInv'
<1>1. /\ step[a] = "next" /\ rust[a] = ord[a] - 1 /\ acc[a] = rust[a] /\ Hardening!parseCarrier
      /\ outcome[a] = "none"
      /\ ord[a] = 1 <=> a \notin Holders
      /\ ord[a] > Guards => marked[a]
      /\ Blocking(a) = ord[a]
      /\ ran # <<>> /\ a \in Holders => ran[Len(ran)].result = "clear"
  BY AttemptEntries DEF Hardening!createRequest, Hardening!markerDue, Hardening!markerAt, AttemptOK, Holders,
     Busy, Blocking
<1>2. /\ \A d \in Attempts \ {a} : SameAttempt(d)
      /\ UNCHANGED <<carrier, ran, clock, ord, acc, rust, marked, started>>
  BY DEF Hardening!createRequest, Hardening!createNew, Hardening!clockRefused, Hardening!created,
     Hardening!collides, Hardening!writeUnknown, Hardening!Ends, SameAttempt, HardeningInv, Hardening!TypeOK
<1>3. carrier.commands[ord[a]].path = ord[a]
  BY <1>1, AttemptEntries, Shape DEF HardeningInv, Hardening!TypeOK
<1>5. ASSUME step' = [step EXCEPT ![a] = "written"], UNCHANGED outcome, ord[a] \notin files,
             files' = files \cup {ord[a]}
      PROVE  HardeningInv'
  <2>1. Hardening!TypeOK'
    <3>1. files' \subseteq 0..Hardening!Total
      BY <1>5, AttemptEntries
    <3> QED
      BY <1>2, <1>5, <3>1 DEF HardeningInv, Hardening!TypeOK
  <2>2. Holders' = Holders \cup {a}
    BY <1>2, <1>5 DEF Holders, SameAttempt, HardeningInv, Hardening!TypeOK
  <2>3. \A d \in Holders' : d = a
    BY <1>1, <1>5, <2>2 DEF HoldersOK, HardeningInv, Holders
  <2>4. ord[a] = 1 => ran = <<>>
    <3>1. ord[a] = 1 => Holders = {}
      BY <1>5 DEF HoldersOK, HardeningInv, Holders
    <3>2. \A i \in DOMAIN ran : ran[i].a \in Holders
      <4>1. \A i \in DOMAIN ran : ran[i].a \in Attempts
        BY AttemptEntries
      <4> QED
        BY <4>1 DEF RanOK, HardeningInv, Holders
    <3> QED
      BY <3>1, <3>2, AttemptEntries, EmptySeq
  <2>5. Len(ran) = rust[a] /\ 1 \in files'
    BY <1>1, <1>5, <2>4, AttemptEntries DEF HoldersOK, HardeningInv
  <2>6. HoldersOK'
    BY <1>2, <2>2, <2>3, <2>5 DEF HoldersOK
  <2>7. RanOK'
    BY <1>2, <1>5, SameCarrier DEF RanOK, HardeningInv
  <2>8. AttemptOK(a)'
    <3>1. step'[a] = "written"
      BY <1>5 DEF HardeningInv, Hardening!TypeOK
    <3>2. ran # <<>> => ran[Len(ran)].result = "clear"
      BY <1>1, <2>4, AttemptEntries DEF AttemptOK
    <3> QED
      BY <1>1, <1>2, <1>5, <3>1, <3>2, SameCarrier, AttemptEntries DEF AttemptOK, Busy
  <2> QED
    BY <1>2, <1>5, <2>1, <2>2, <2>6, <2>7, <2>8, Others DEF HardeningInv
<1>6. ASSUME NEW v \in {"terminal-unknown", "terminal-refused"}, Hardening!Ends(a, v),
             files' = files \/ (ord[a] \notin files /\ files' = files \cup {ord[a]}),
             v = "terminal-refused" /\ (rust[a] > 0 \/ marked[a]) => ord[a] \in files
      PROVE  HardeningInv'
  <2>1. Hardening!TypeOK'
    <3>1. files' \subseteq 0..Hardening!Total
      BY <1>6, AttemptEntries
    <3> QED
      BY <1>2, <1>6, <3>1 DEF Hardening!Ends, HardeningInv, Hardening!TypeOK, Hardening!Outcomes
  <2>2. step'[a] = "done" /\ outcome'[a] = v
    BY <1>6 DEF Hardening!Ends, HardeningInv, Hardening!TypeOK
  <2>3. Holders' = Holders
    BY <1>1, <1>2, <2>2 DEF Holders, SameAttempt
  <2>4. HoldersOK'
    BY <1>2, <1>6, <2>3 DEF HoldersOK, HardeningInv
  <2>5. RanOK'
    BY <1>2, <1>6, SameCarrier DEF RanOK, HardeningInv
  <2>6. AttemptOK(a)'
    <3>1. Blocking(a)' = ord[a]
      BY <1>1, <1>2 DEF Blocking
    <3> QED
      BY <1>1, <1>2, <1>6, <2>2, <2>3, <3>1, SameCarrier, AttemptEntries DEF AttemptOK, Busy
  <2> QED
    BY <1>2, <1>6, <2>1, <2>4, <2>5, <2>6, Others DEF HardeningInv
<1> QED
  <2>1. \/ Hardening!clockRefused(a) /\ files' = files
        \/ Hardening!createNew(a, ord[a])
    BY <1>3 DEF Hardening!createRequest
  <2>2. CASE Hardening!clockRefused(a) /\ files' = files
    BY <1>6, <2>2 DEF Hardening!clockRefused, Hardening!afterEffect
  <2>3. CASE Hardening!createNew(a, ord[a])
    BY <1>5, <1>6, <2>3 DEF Hardening!createNew, Hardening!created, Hardening!collides,
       Hardening!writeUnknown
  <2> QED
    BY <2>1, <2>2, <2>3

(* The result of the command that was asked last: the attempt goes on to   *)
(* the next command, is clear after the last one, or ends.                 *)
LEMMA ReceiveStep ==
  ASSUME Hardening!HardeningAssumption, HardeningInv, NEW a \in Attempts, Hardening!receiveResult(a)
  PROVE  HardeningInv'
<1>1. /\ step[a] = "waiting" /\ rust[a] = ord[a] /\ acc[a] = ord[a] - 1 /\ Hardening!parseCarrier
      /\ outcome[a] = "none"
      /\ ord[a] > Guards => marked[a]
  BY AttemptEntries DEF Hardening!receiveResult, AttemptOK, Busy
<1>2. a \in Holders /\ Len(ran) = ord[a] /\ \A d \in Holders : d = a
  BY <1>1 DEF Holders, HoldersOK, HardeningInv
<1>3. /\ \A d \in Attempts \ {a} : SameAttempt(d)
      /\ UNCHANGED <<carrier, files, clock, rust, marked, started>>
  BY DEF Hardening!receiveResult, Hardening!Ends, SameAttempt, HardeningInv, Hardening!TypeOK
<1>4. Len(carrier.commands) = Hardening!Total
  BY <1>1, Shape DEF HardeningInv, Hardening!TypeOK
<1>5. PICK r \in Hardening!Results :
        /\ ran' = [i \in 1..Len(ran) |-> IF ran[i].a = a /\ ran[i].o = ord[a]
                                         THEN [ran[i] EXCEPT !.result = r] ELSE ran[i]]
        /\ IF Hardening!answered(r) # "none"
           THEN Hardening!Ends(a, Hardening!answered(r)) /\ UNCHANGED <<acc, ord>>
           ELSE \/ /\ Hardening!inTime(a)
                   /\ acc' = [acc EXCEPT ![a] = @ + 1]
                   /\ IF Hardening!lastCommand(a)
                      THEN Hardening!Ends(a, "known-clear") /\ UNCHANGED ord
                      ELSE /\ ord' = [ord EXCEPT ![a] = @ + 1]
                           /\ step' = [step EXCEPT ![a] = "next"] /\ UNCHANGED outcome
                \/ V2 /\ Hardening!Ends(a, "terminal-unknown") /\ UNCHANGED <<acc, ord>>
  BY DEF Hardening!receiveResult
<1>6. Hardening!answered(r) \in {"none", "terminal-unknown", "terminal-known-failure"}
      /\ (Hardening!answered(r) = "none" => r = "clear")
  BY <1>5 DEF Hardening!answered, Hardening!validateSidecarResult, Hardening!validateCommandOutput,
     Hardening!Results
<1>7. /\ ran' \in Seq(Asking) /\ Len(ran') = Len(ran) /\ DOMAIN ran' = DOMAIN ran
      /\ \A i \in DOMAIN ran : ran'[i] = IF i = Len(ran) THEN [ran[i] EXCEPT !.result = r] ELSE ran[i]
  <2>1. \A i \in 1..Len(ran) : ran[i].a = a /\ ran[i].o = i
    BY <1>2, AttemptEntries DEF RanOK, HardeningInv, Holders
  <2>2. \A i \in 1..Len(ran) : [ran[i] EXCEPT !.result = r] \in Asking
    BY <1>5, AttemptEntries DEF Asking
  <2>3. ran' = [i \in 1..Len(ran) |-> IF i = Len(ran) THEN [ran[i] EXCEPT !.result = r] ELSE ran[i]]
    BY <1>2, <1>5, <2>1
  <2>4. ran' \in [1..Len(ran) -> Asking]
    BY <2>2, <2>3, AttemptEntries
  <2>5. ran' \in Seq(Asking)
    BY <2>4, AttemptEntries, SeqDef
  <2>6. DOMAIN ran' = 1..Len(ran) /\ DOMAIN ran' = 1..Len(ran') /\ Len(ran') \in Nat
    BY <2>4, <2>5, LenProperties
  <2> QED
    BY <2>3, <2>5, <2>6, AttemptEntries
<1>8. /\ \A i \in DOMAIN ran : ran'[i].a = ran[i].a /\ ran'[i].o = ran[i].o
      /\ \A i \in DOMAIN ran : i < Len(ran) => ran'[i] = ran[i]
      /\ ran' # <<>> /\ ran'[Len(ran')].result = r
  <2>1. \A q \in Asking : /\ [q EXCEPT !.result = r].a = q.a /\ [q EXCEPT !.result = r].o = q.o
                          /\ [q EXCEPT !.result = r].result = r
    BY DEF Asking
  <2>2. Len(ran) \in DOMAIN ran
    BY <1>2, AttemptEntries
  <2>3. \A i \in DOMAIN ran : i < Len(ran) => i # Len(ran)
    BY <1>2, AttemptEntries
  <2>4. ran' # <<>>
    BY <1>7, <2>2, EmptySeq
  <2>5. ran'[Len(ran')] = [ran[Len(ran)] EXCEPT !.result = r] /\ ran[Len(ran)] \in Asking
    BY <1>7, <2>2, AttemptEntries
  <2>6. \A i \in DOMAIN ran : ran'[i].a = ran[i].a /\ ran'[i].o = ran[i].o
    BY <1>7, <2>1, AttemptEntries
  <2> QED
    BY <1>7, <2>1, <2>3, <2>4, <2>5, <2>6
<1>9. RanOK'
  BY <1>3, <1>7, <1>8, SameCarrier, AttemptEntries DEF RanOK, HardeningInv
<1>10. ASSUME NEW v \in {"terminal-unknown", "terminal-known-failure"}, Hardening!Ends(a, v),
              UNCHANGED <<acc, ord>>
       PROVE  HardeningInv'
  <2>1. Hardening!TypeOK'
    BY <1>3, <1>7, <1>10 DEF Hardening!Ends, HardeningInv, Hardening!TypeOK, Hardening!Outcomes, Asking
  <2>2. step'[a] = "done" /\ outcome'[a] = v
    BY <1>10 DEF Hardening!Ends, HardeningInv, Hardening!TypeOK
  <2>3. Holders' = Holders
    BY <1>1, <1>2, <1>3, <1>10, <2>2, AttemptEntries DEF Holders, SameAttempt
  <2>4. HoldersOK'
    BY <1>1, <1>2, <1>3, <1>7, <2>2, <2>3 DEF HoldersOK, HardeningInv
  <2>5. AttemptOK(a)'
    BY <1>1, <1>3, <2>2, SameCarrier, AttemptEntries DEF AttemptOK, Busy
  <2> QED
    BY <1>2, <1>3, <1>9, <2>1, <2>3, <2>4, <2>5, Others DEF HardeningInv
<1>11. ASSUME r = "clear", acc' = [acc EXCEPT ![a] = @ + 1], Hardening!lastCommand(a),
              Hardening!Ends(a, "known-clear"), UNCHANGED ord
       PROVE  HardeningInv'
  <2>0. ord[a] = Hardening!Total /\ acc'[a] = Hardening!Total
    BY <1>1, <1>4, <1>11, AttemptEntries DEF Hardening!lastCommand, HardeningInv, Hardening!TypeOK
  <2>1. Hardening!TypeOK'
    <3>1. acc' \in [Attempts -> 0..Hardening!Total]
      BY <1>11, <2>0, AttemptEntries DEF HardeningInv, Hardening!TypeOK
    <3> QED
      BY <1>3, <1>7, <1>11, <3>1 DEF Hardening!Ends, HardeningInv, Hardening!TypeOK, Hardening!Outcomes, Asking
  <2>2. step'[a] = "done" /\ outcome'[a] = "known-clear"
    BY <1>11 DEF Hardening!Ends, HardeningInv, Hardening!TypeOK
  <2>3. Holders' = Holders
    BY <1>1, <1>2, <1>3, <1>11, <2>2, AttemptEntries DEF Holders, SameAttempt
  <2>4. HoldersOK'
    BY <1>1, <1>2, <1>3, <1>7, <2>2, <2>3 DEF HoldersOK, HardeningInv
  <2>5. AttemptOK(a)'
    BY <1>1, <1>3, <1>8, <1>11, <2>0, <2>2, SameCarrier, AttemptEntries DEF AttemptOK, Busy
  <2> QED
    BY <1>2, <1>3, <1>9, <2>1, <2>3, <2>4, <2>5, Others DEF HardeningInv
<1>12. ASSUME r = "clear", acc' = [acc EXCEPT ![a] = @ + 1], ~Hardening!lastCommand(a),
              ord' = [ord EXCEPT ![a] = @ + 1],
              step' = [step EXCEPT ![a] = "next"], UNCHANGED outcome
       PROVE  HardeningInv'
  <2>0. ord[a] < Hardening!Total /\ acc'[a] = ord[a] /\ ord'[a] = ord[a] + 1 /\ step'[a] = "next"
    BY <1>1, <1>4, <1>12, AttemptEntries DEF Hardening!lastCommand, HardeningInv, Hardening!TypeOK
  <2>1. Hardening!TypeOK'
    <3>1. acc' \in [Attempts -> 0..Hardening!Total]
      BY <1>12, <2>0, AttemptEntries DEF HardeningInv, Hardening!TypeOK
    <3>2. ord' \in [Attempts -> 1..Hardening!Total]
      BY <1>12, <2>0, AttemptEntries DEF HardeningInv, Hardening!TypeOK
    <3> QED
      BY <1>3, <1>7, <1>12, <3>1, <3>2 DEF HardeningInv, Hardening!TypeOK, Asking
  <2>3. Holders' = Holders
    BY <1>1, <1>2, <1>3, <1>12, <2>0, AttemptEntries DEF Holders, SameAttempt
  <2>4. HoldersOK'
    BY <1>1, <1>2, <1>3, <1>7, <2>3 DEF HoldersOK, HardeningInv
  <2>5. AttemptOK(a)'
    BY <1>1, <1>3, <1>8, <1>12, <2>0, SameCarrier, AttemptEntries DEF AttemptOK, Busy
  <2> QED
    BY <1>2, <1>3, <1>9, <2>1, <2>3, <2>4, <2>5, Others DEF HardeningInv
<1> QED
  BY <1>5, <1>6, <1>10, <1>11, <1>12

-----------------------------------------------------------------------------
(* The invariant holds before any attempt, whichever files are stale.      *)
LEMMA HardeningInitInv == ASSUME Hardening!HardeningAssumption, Hardening!Init PROVE HardeningInv
<1>1. Hardening!Total \in Nat \ {0, 1} /\ Guards \in 1..(Hardening!Total - 1) /\ 1 \in 1..Hardening!Total
  BY GoodCommands
<1>2. Hardening!TypeOK
  <2>1. files \subseteq 0..Hardening!Total
    BY DEF Hardening!Init, Hardening!HardeningAssumption, Hardening!Total
  <2>2. 0 \in 0..MaxClock /\ 0 \in 0..Hardening!Total
    BY <1>1 DEF Hardening!HardeningAssumption
  <2> QED
    BY <1>1, <2>1, <2>2, EmptySeq DEF Hardening!Init, Hardening!TypeOK
<1>3. Holders = {}
  BY DEF Hardening!Init, Holders
<1>4. ran = <<>> /\ Len(ran) = 0 /\ DOMAIN ran = {}
  BY EmptySeq, LenProperties DEF Hardening!Init
<1>5. HoldersOK
  BY <1>3 DEF HoldersOK
<1>6. RanOK
  BY <1>1, <1>4 DEF RanOK
<1>7. \A a \in Attempts : AttemptOK(a)
  BY <1>1 DEF AttemptOK, Hardening!Init, Busy
<1> QED
  BY <1>2, <1>5, <1>6, <1>7 DEF HardeningInv

(* Time passes.                                                            *)
LEMMA ClockStep ==
  ASSUME Hardening!HardeningAssumption, HardeningInv, Hardening!Tick \/ UNCHANGED Hardening!vars
  PROVE  HardeningInv'
<1>1. /\ UNCHANGED <<carrier, files, ran, step, ord, acc, rust, marked, started, outcome>>
      /\ clock' \in 0..MaxClock
  BY DEF Hardening!Tick, Hardening!vars, HardeningInv, Hardening!TypeOK, Hardening!HardeningAssumption
<1>2. Hardening!TypeOK'
  BY <1>1 DEF HardeningInv, Hardening!TypeOK
<1>3. Holders' = Holders
  BY <1>1 DEF Holders
<1>4. HoldersOK' /\ RanOK'
  BY <1>1, <1>3, SameCarrier DEF HoldersOK, RanOK, HardeningInv
<1>5. \A a \in Attempts : AttemptOK(a)'
  BY <1>1, <1>3, SameCarrier DEF AttemptOK, HardeningInv, Busy, Blocking
<1> QED
  BY <1>2, <1>4, <1>5 DEF HardeningInv

(* Every step of every attempt keeps the invariant.                        *)
LEMMA HardeningNextInv ==
  ASSUME Hardening!HardeningAssumption, HardeningInv, [Hardening!Next]_(Hardening!vars)
  PROVE  HardeningInv'
<1>1. ASSUME NEW a \in Attempts,
             \/ Hardening!begin(a) \/ Hardening!validateAllBoundFiles(a) \/ Hardening!createMarker(a)
             \/ Hardening!createRequest(a)
             \/ Hardening!invokeAcceptedRustSidecar(a) \/ Hardening!receiveResult(a) \/ Hardening!Crash(a)
      PROVE  HardeningInv'
  BY <1>1, BeginStep, ValidateStep, CreateMarkerStep, CreateRequestStep, AskStep, ReceiveStep, CrashStep
<1> QED
  BY <1>1, ClockStep DEF Hardening!Next

(* The inductive invariant of the controllers, in every reachable state.   *)
LEMMA HardeningInvariance == ASSUME Hardening!HardeningAssumption PROVE Hardening!Spec => []HardeningInv
<1>1. Hardening!Init => HardeningInv
  BY HardeningInitInv
<1>2. HardeningInv /\ [Hardening!Next]_(Hardening!vars) => HardeningInv'
  BY HardeningNextInv
<1> QED
  BY <1>1, <1>2, PTL DEF Hardening!Spec

(* Whatever has been asked was asked by one attempt.                       *)
LEMMA OneAsker == ASSUME Hardening!HardeningAssumption, HardeningInv, NEW i \in DOMAIN ran
                  PROVE  /\ ran[i].a \in Holders /\ \A d \in Holders : d = ran[i].a
                         /\ carrier.commands[ran[i].o].role = IF i <= Guards THEN "git" ELSE "wsl"
                         /\ Len(ran) = rust[ran[i].a] /\ Len(ran) <= Hardening!Total
<1>1. ran[i].a \in Attempts /\ ran[i].a \in Holders /\ ran[i].o = i
  BY RanEntries DEF RanOK, HardeningInv, Holders
<1>2. \A d \in Holders : d = ran[i].a
  BY <1>1 DEF HoldersOK, HardeningInv, Holders
<1>3. Len(ran) = rust[ran[i].a] /\ rust[ran[i].a] \in 0..Hardening!Total
  BY <1>1, AttemptEntries DEF HoldersOK, HardeningInv
<1>4. i \in 1..Hardening!Total /\ ran # <<>>
  BY <1>3, RanEntries, EmptySeq
<1>5. Hardening!parseCarrier
  BY <1>4 DEF RanOK, HardeningInv
<1>6. carrier.commands[i].role = IF i <= Guards THEN "git" ELSE "wsl"
  BY <1>4, <1>5, Shape DEF HardeningInv, Hardening!TypeOK
<1> QED
  BY <1>1, <1>2, <1>3, <1>6, RanEntries

(* Every variable keeps its type: no attempt asks for a command beyond the *)
(* last.                                                                   *)
THEOREM HardeningTypesHold == ASSUME Hardening!HardeningAssumption PROVE Hardening!Spec => []Hardening!TypeOK
<1>1. HardeningInv => Hardening!TypeOK
  BY DEF HardeningInv
<1> QED
  BY <1>1, HardeningInvariance, PTL

(* Of all the processes that run executeHardening on one carrier, one asks *)
(* for its commands, each once and in the order of the carrier, and goes   *)
(* on only after a clear result (the controllers' part of OneAttempt in    *)
(* MCHost).                                                                *)
THEOREM CarriersRunOnce ==
  ASSUME Hardening!HardeningAssumption
  PROVE  Hardening!Spec => []Hardening!OneAttemptInOrder
<1>1. ASSUME HardeningInv PROVE Hardening!OneAttemptInOrder
  <2>1. ASSUME NEW i \in DOMAIN ran PROVE ran[i].a = ran[1].a
    <3>1. 1 \in DOMAIN ran
      BY <1>1, RanEntries
    <3>2. ran[i].a \in Holders /\ \A d \in Holders : d = ran[1].a
      BY <1>1, <3>1, OneAsker
    <3> QED
      BY <3>2
  <2> QED
    BY <1>1, <2>1, RanEntries DEF Hardening!OneAttemptInOrder, RanOK, HardeningInv
<1> QED
  BY <1>1, HardeningInvariance, PTL

(* No command that changes the guest runs before all the guards of git     *)
(* came back clear and the attempt marker is durable; and an attempt that  *)
(* reports terminal-refused has every command it asked for clear, and once *)
(* it asked for one or made the marker it was stopped by a file that was   *)
(* there, whichever files were left from before (the controllers' part of  *)
(* ActsWithinBounds in MCHost).                                            *)
THEOREM MutationsAreGuarded ==
  ASSUME Hardening!HardeningAssumption
  PROVE  Hardening!Spec => [](Hardening!MutatesUnderMarker /\ Hardening!RefusedIsKnown)
<1>1. ASSUME HardeningInv PROVE Hardening!MutatesUnderMarker
  <2>1. SUFFICES ASSUME NEW i \in DOMAIN ran, Hardening!RoleOf(i) = "wsl"
                 PROVE  /\ Hardening!Marker \in files
                        /\ \A o \in 1..Guards : ran[o].result = "clear" /\ Hardening!RoleOf(o) = "git"
    BY <1>1, RanEntries DEF Hardening!MutatesUnderMarker
  <2>2. i > Guards /\ i <= Len(ran)
    BY <1>1, <2>1, OneAsker, RanEntries DEF Hardening!RoleOf
  <2>3. \A o \in 1..Guards : o \in DOMAIN ran /\ o < Len(ran)
    BY <1>1, <2>2, RanEntries
  <2>4. \A o \in 1..Guards : Hardening!RoleOf(o) = "git"
    BY <1>1, <2>3, OneAsker DEF Hardening!RoleOf
  <2> QED
    BY <1>1, <2>2, <2>3, <2>4, RanEntries DEF RanOK, HardeningInv
<1>2. ASSUME HardeningInv PROVE Hardening!RefusedIsKnown
  <2>1. SUFFICES ASSUME NEW a \in Attempts, outcome[a] = "terminal-refused"
                 PROVE  /\ \A i \in DOMAIN ran : ran[i].a = a => ran[i].result = "clear"
                        /\ acc[a] = rust[a]
                        /\ Hardening!afterEffect(a) => Hardening!stoppedAt(a) \in files
    BY <1>2, RanEntries DEF Hardening!RefusedIsKnown
  <2>2. ASSUME NEW i \in DOMAIN ran, ran[i].a = a PROVE ran[i].result = "clear"
    <3>1. a \in Holders /\ ran # <<>> /\ (i < Len(ran) \/ i = Len(ran))
      BY <1>2, <2>2, OneAsker, RanEntries
    <3>2. ran[Len(ran)].result = "clear"
      BY <1>2, <2>1, <3>1, AttemptEntries DEF AttemptOK
    <3> QED
      BY <1>2, <3>1, <3>2 DEF RanOK, HardeningInv
  <2>3. ASSUME Hardening!afterEffect(a) PROVE Hardening!stoppedAt(a) \in files
    <3>1. Hardening!parseCarrier /\ Blocking(a) \in files /\ ord[a] \in 1..Hardening!Total
      BY <1>2, <2>1, <2>3, AttemptEntries DEF AttemptOK, Hardening!afterEffect
    <3>2. carrier.commands[ord[a]].path = ord[a]
      BY <1>2, <3>1, Shape DEF HardeningInv, Hardening!TypeOK
    <3> QED
      BY <3>1, <3>2 DEF Hardening!stoppedAt, Hardening!markerDue, Hardening!markerAt, Blocking
  <2> QED
    BY <1>2, <2>1, <2>2, <2>3, AttemptEntries DEF AttemptOK
<1> QED
  BY <1>1, <1>2, HardeningInvariance, PTL

(* The moment an attempt of version 2 becomes clear, it is in time.         *)
LEMMA InTime ==
  ASSUME Hardening!HardeningAssumption, V2
  PROVE  Hardening!Spec => [][Hardening!ClearInTime]_(Hardening!vars)
<1>1. ASSUME HardeningInv, Hardening!Next, NEW a \in Attempts, outcome[a] # outcome'[a],
             outcome'[a] = "known-clear"
      PROVE  clock - started[a] <= carrier.aggregate
  <2>1. outcome \in [Attempts -> {"none"} \cup Hardening!Outcomes]
    BY <1>1 DEF HardeningInv, Hardening!TypeOK
  <2>2. PICK d \in Attempts : \/ Hardening!begin(d) \/ Hardening!validateAllBoundFiles(d)
                              \/ Hardening!createMarker(d) \/ Hardening!createRequest(d)
                              \/ Hardening!invokeAcceptedRustSidecar(d) \/ Hardening!receiveResult(d)
                              \/ Hardening!Crash(d)
    BY <1>1 DEF Hardening!Next, Hardening!Tick
  <2>3. ASSUME NEW v, Hardening!Ends(d, v) PROVE d = a /\ v = "known-clear"
    BY <1>1, <2>1, <2>3 DEF Hardening!Ends
  <2>4. ~Hardening!begin(d) /\ ~Hardening!validateAllBoundFiles(d) /\ ~Hardening!Crash(d)
    BY <1>1, <2>3 DEF Hardening!begin, Hardening!validateAllBoundFiles, Hardening!Crash
  <2>5. ~Hardening!createMarker(d) /\ ~Hardening!createRequest(d) /\ ~Hardening!invokeAcceptedRustSidecar(d)
    BY <1>1, <2>3 DEF Hardening!createMarker, Hardening!createRequest, Hardening!createNew,
       Hardening!clockRefused, Hardening!invokeAcceptedRustSidecar
  <2>6. Hardening!receiveResult(d)
    BY <2>2, <2>4, <2>5
  <2>7. PICK r \in Hardening!Results :
          IF Hardening!answered(r) # "none" THEN Hardening!Ends(d, Hardening!answered(r))
          ELSE \/ Hardening!inTime(d) /\ (Hardening!Ends(d, "known-clear") \/ UNCHANGED outcome)
               \/ Hardening!Ends(d, "terminal-unknown")
    BY <2>6 DEF Hardening!receiveResult
  <2>8. Hardening!answered(r) # "known-clear"
    BY DEF Hardening!answered
  <2>9. Hardening!inTime(d) /\ d = a
    BY <1>1, <2>3, <2>7, <2>8
  <2> QED
    BY <2>9 DEF Hardening!inTime, Hardening!elapsed
<1>2. HardeningInv /\ [Hardening!Next]_(Hardening!vars) => [Hardening!ClearInTime]_(Hardening!vars)
  BY <1>1 DEF Hardening!ClearInTime
<1> QED
  BY <1>2, HardeningInvariance, PTL DEF Hardening!Spec

(* An attempt reports known-clear only when it has run the whole carrier   *)
(* itself, every command clear, and its evidence counts exactly those (the *)
(* controllers' part of EvidenceIsTrue in MCHost).                         *)
THEOREM ClearRunsAreWhole ==
  ASSUME Hardening!HardeningAssumption
  PROVE  Hardening!Spec => []Hardening!ClearIsWhole /\ (V2 => [][Hardening!ClearInTime]_(Hardening!vars))
<1>1. ASSUME HardeningInv PROVE Hardening!ClearIsWhole
  <2>1. SUFFICES ASSUME NEW a \in Attempts, outcome[a] = "known-clear"
                 PROVE  /\ Len(ran) = Len(carrier.commands)
                        /\ \A i \in 1..Len(ran) : ran[i].a = a /\ ran[i].result = "clear"
                        /\ acc[a] = Len(ran) /\ rust[a] = Len(ran)
    BY DEF Hardening!ClearIsWhole
  <2>2. rust[a] = Hardening!Total /\ acc[a] = Hardening!Total /\ (ran # <<>> => ran[Len(ran)].result = "clear")
    BY <1>1, <2>1, AttemptEntries DEF AttemptOK
  <2>3. a \in Holders /\ Len(ran) = Hardening!Total /\ Hardening!Total \in Nat \ {0, 1}
    BY <1>1, <2>2, AttemptEntries DEF Holders, HoldersOK, HardeningInv
  <2>4. ran # <<>> /\ 1 \in DOMAIN ran /\ Len(ran) \in DOMAIN ran
    BY <1>1, <2>3, RanEntries, EmptySeq
  <2>5. Len(carrier.commands) = Hardening!Total
    BY <1>1, <2>4, Shape DEF RanOK, HardeningInv, Hardening!TypeOK
  <2>6. \A i \in DOMAIN ran : ran[i].a = a
    BY <1>1, <2>3, OneAsker
  <2>7. \A i \in DOMAIN ran : ran[i].result = "clear"
    <3>1. \A i \in DOMAIN ran : i < Len(ran) \/ i = Len(ran)
      BY <1>1, RanEntries
    <3> QED
      BY <1>1, <2>2, <2>4, <3>1 DEF RanOK, HardeningInv
  <2> QED
    BY <1>1, <2>2, <2>3, <2>5, <2>6, <2>7, RanEntries
<1>2. Hardening!Spec => []Hardening!ClearIsWhole
  BY <1>1, HardeningInvariance, PTL
<1> QED
  BY <1>2, InTime
=============================================================================
