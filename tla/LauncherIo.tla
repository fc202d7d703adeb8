----------------------------- MODULE LauncherIo -----------------------------
(***************************************************************************)
(* The three overlapped operations a launcher has on the pipes of its      *)
(* child.  The system owns the buffer of an operation from its submission  *)
(* to its completion, which may come at any time, be raced by a            *)
(* cancellation, or come after the launcher has given up waiting.          *)
(***************************************************************************)
EXTENDS Naturals, FiniteSets, Sequences

CONSTANTS Cap,          \* bytes of output the launcher accepts
          MaxWrites,    \* bytes the child will ever write
          MaxFaults     \* calls of the system that fail

IoAssumption == {Cap, MaxWrites, MaxFaults} \subseteq Nat

Reads == {"stdout", "stderr"}
Streams == Reads \cup {"stdin"}
Order == <<"stdin", "stdout", "stderr">>

VARIABLES
    pc,        \* the reducer's step
    op,        \* NativeOperationState of each operation
    os,        \* external: what the system has of it
    mem,       \* its buffer
    handle,    \* the launcher's end of each pipe
    retired,   \* the bundle was retired
    child,     \* external: running, ended or killed
    fed,       \* external: the child has the end of its input
    wrote,     \* external: bytes the child has written
    pipe,      \* external: of these, bytes not yet read
    captured,  \* bytes the launcher has
    late,      \* external: the deadline has passed
    over,      \* external: so has the grace after it
    result,    \* the reducer's result
    faults

vars == <<pc, op, os, mem, handle, retired, child, fed, wrote, pipe, captured, late, over, result, faults>>
world == <<child, wrote, pipe, late, over>>

Bytes(n) == [kind |-> "bytes", n |-> n]
Ending(k) == [kind |-> k, n |-> 0]

Init ==
    /\ pc = "start" /\ op = [s \in Streams |-> "prepared"] /\ os = [s \in Streams |-> Ending("idle")]
    /\ mem = [s \in Streams |-> "live"] /\ handle = [s \in Streams |-> "open"] /\ retired = FALSE
    /\ child = "running" /\ fed = FALSE /\ wrote = [s \in Reads |-> 0] /\ pipe = [s \in Reads |-> 0]
    /\ captured = [s \in Reads |-> 0] /\ late = FALSE /\ over = FALSE /\ result = "none" /\ faults = 0

Fault == faults < MaxFaults /\ faults' = faults + 1
fine == UNCHANGED faults

-----------------------------------------------------------------------------
(* The child and the system.                                               *)

Write(s) ==
    /\ child = "running" /\ wrote["stdout"] + wrote["stderr"] < MaxWrites
    /\ wrote' = [wrote EXCEPT ![s] = @ + 1] /\ pipe' = [pipe EXCEPT ![s] = @ + 1]
    /\ UNCHANGED <<pc, op, os, mem, handle, retired, child, fed, captured, late, over, result, faults>>

\* A child ends once it has seen the end of its input.
End ==
    /\ child = "running" /\ fed /\ child' = "ended"
    /\ UNCHANGED <<pc, op, os, mem, handle, retired, fed, wrote, pipe, captured, late, over, result, faults>>

Tick ==
    /\ \/ ~late /\ late' = TRUE /\ UNCHANGED over
       \/ late /\ ~over /\ over' = TRUE /\ UNCHANGED late
    /\ UNCHANGED <<pc, op, os, mem, handle, retired, child, fed, wrote, pipe, captured, result, faults>>

\* A read asks for at most one byte more than is accepted.
room(s) == Cap + 1 - captured[s]

\* The system completes an operation: with bytes, at the end of the pipe, or
\* aborted after a cancellation.
Complete(s) ==
    /\ os[s].kind = "pending"
    /\ \/ s = "stdin" /\ child = "running" /\ os' = [os EXCEPT ![s] = Bytes(1)] /\ UNCHANGED pipe
       \/ /\ s = "stdin" /\ child # "running" /\ os' = [os EXCEPT ![s] = Ending("broken")]
          /\ UNCHANGED pipe
       \/ /\ s \in Reads /\ pipe[s] > 0
          /\ LET n == IF pipe[s] < room(s) THEN pipe[s] ELSE room(s)
             IN  os' = [os EXCEPT ![s] = Bytes(n)] /\ pipe' = [pipe EXCEPT ![s] = @ - n]
       \/ /\ s \in Reads /\ pipe[s] = 0 /\ child # "running" /\ os' = [os EXCEPT ![s] = Ending("broken")]
          /\ UNCHANGED pipe
       \/ op[s] = "cancelling" /\ os' = [os EXCEPT ![s] = Ending("aborted")] /\ UNCHANGED pipe
    /\ UNCHANGED <<pc, op, mem, handle, retired, child, fed, wrote, captured, late, over, result, faults>>

-----------------------------------------------------------------------------
(* One operation.                                                          *)

waiting(s) == op[s] \in {"pending", "cancelling"}

submitted(s) == [op |-> "pending", os |-> Ending("pending")]
notSubmitted(s) == [op |-> IF s = "stdin" THEN "no data" ELSE "error", os |-> Ending("idle")]

\* What finish makes of the state of an operation that is waited for: the
\* state after it, and its answer.
finish(s) ==
    IF ~waiting(s) THEN [op |-> op[s], ok |-> op[s] = "terminal", why |-> os[s].kind]
    ELSE IF os[s].kind = "bytes" THEN [op |-> "terminal", ok |-> TRUE, why |-> "bytes"]
    ELSE IF os[s].kind = "broken" /\ s \in Reads THEN [op |-> "terminal", ok |-> TRUE, why |-> "eof"]
    ELSE [op |-> "error", ok |-> FALSE, why |-> os[s].kind]
finished(s) == os[s].kind # "pending"

-----------------------------------------------------------------------------
(* The reducer.                                                            *)

goto(step) == pc' = step
stopWith(t) == pc' = "terminate" /\ result' = t

\* The three operations are submitted in turn; one that fails leaves those
\* before it with the system.
start_concurrent_io ==
    /\ pc = "start"
    /\ \/ /\ op' = [s \in Streams |-> submitted(s).op] /\ os' = [s \in Streams |-> submitted(s).os]
          /\ goto("stdin") /\ UNCHANGED <<result, faults>>
       \/ /\ Fault /\ stopWith("failed")
          /\ \E s \in Streams :
               LET turn == [stdout |-> 1, stderr |-> 2, stdin |-> 3]
                   state(t) == IF turn[t] < turn[s] THEN submitted(t)
                               ELSE IF t = s THEN notSubmitted(t) ELSE [op |-> "prepared", os |-> Ending("idle")]
               IN  op' = [t \in Streams |-> state(t).op] /\ os' = [t \in Streams |-> state(t).os]
    /\ UNCHANGED <<world, mem, handle, retired, fed, captured>>

closeWriter == /\ op' = [op EXCEPT !["stdin"] = "retired"] /\ mem' = [mem EXCEPT !["stdin"] = "freed"]
               /\ handle' = [handle EXCEPT !["stdin"] = "closed"]

\* The completed write is retired and freed before its handle is closed.
transfer_stdin ==
    /\ pc = "stdin"
    /\ \/ /\ ~late /\ finished("stdin") /\ finish("stdin").ok
          /\ closeWriter /\ fed' = TRUE /\ goto("stdout") /\ UNCHANGED <<result, faults>>
       \/ /\ late \/ (finished("stdin") /\ ~finish("stdin").ok)
          /\ op' = IF late THEN op ELSE [op EXCEPT !["stdin"] = finish("stdin").op]
          /\ stopWith("failed") /\ UNCHANGED <<mem, handle, fed, faults>>
       \/ Fault /\ stopWith("failed") /\ UNCHANGED <<op, mem, handle, fed>>
    /\ UNCHANGED <<world, os, retired, captured>>

prepare_next_read(s) == /\ op' = [op EXCEPT ![s] = "pending"] /\ os' = [os EXCEPT ![s] = Ending("pending")]
tooLarge(s, n) == captured[s] + n > Cap

\* Output is read to its end, and one byte beyond the cap is too much.
transfer_output(s) ==
    /\ pc = s
    /\ LET after == IF s = "stdout" THEN "stderr" ELSE "exit"
           n == os[s].n
           read == captured' = [captured EXCEPT ![s] = @ + n]
       IN  \/ /\ ~late /\ finished(s) /\ finish(s).why = "eof" /\ (s = "stderr" => captured[s] = 0)
              /\ op' = [op EXCEPT ![s] = "terminal"] /\ goto(after) /\ UNCHANGED <<os, captured, result, faults>>
           \/ /\ ~late /\ finished(s) /\ finish(s).why = "eof" /\ s = "stderr" /\ captured[s] > 0
              /\ op' = [op EXCEPT ![s] = "terminal"] /\ stopWith("failed") /\ UNCHANGED <<os, captured, faults>>
           \/ /\ ~late /\ finished(s) /\ finish(s).why = "bytes" /\ read
              /\ IF tooLarge(s, n) THEN /\ op' = [op EXCEPT ![s] = "terminal"] /\ stopWith("failed")
                                        /\ UNCHANGED os
                 ELSE prepare_next_read(s) /\ UNCHANGED <<pc, result>>
              /\ UNCHANGED faults
           \/ late /\ stopWith("failed") /\ UNCHANGED <<op, os, captured, faults>>
           \/ /\ Fault /\ stopWith("failed") /\ UNCHANGED <<os, captured>>
              /\ op' \in {op} \cup {[op EXCEPT ![s] = "error"] : t \in {u \in {s} : os[s].kind # "pending"}}
    /\ UNCHANGED <<world, mem, handle, retired, fed>>

PollProcess ==
    /\ pc = "exit"
    /\ \/ ~late /\ child # "running" /\ goto("retire stdin") /\ result' = "success" /\ UNCHANGED faults
       \/ late /\ stopWith("deadline") /\ UNCHANGED faults
       \/ Fault /\ stopWith("unknown")
    /\ UNCHANGED <<world, op, os, mem, handle, retired, fed, captured>>

-----------------------------------------------------------------------------
(* Cleaning up.                                                            *)

TerminateJob ==
    /\ pc = "terminate" /\ goto("cancel")
    /\ \/ child' = (IF child = "running" THEN "killed" ELSE child) /\ UNCHANGED <<result, faults>>
       \/ Fault /\ UNCHANGED child /\ result' = "quarantined"
    /\ UNCHANGED <<op, os, mem, handle, retired, fed, wrote, pipe, captured, late, over>>

\* A cancellation that fails ends the round: later operations are not cancelled.
cancel_outstanding_io ==
    /\ pc = "cancel" /\ goto("retire stdin")
    /\ LET cancelled(S) == [s \in Streams |-> IF s \in S /\ op[s] = "pending" THEN "cancelling" ELSE op[s]]
       IN  \/ op' = cancelled(Streams) /\ UNCHANGED <<result, faults>>
           \/ /\ Fault /\ result' = "quarantined"
              /\ \E k \in 1..3 : /\ op[Order[k]] = "pending"
                                 /\ op' = cancelled({Order[j] : j \in 1..(k - 1)})
    /\ UNCHANGED <<world, os, mem, handle, retired, fed, captured>>

\* An operation is retired when it was never submitted or has completed, was
\* aborted or met the end of its pipe.
retires(s) ==
    \/ op[s] \in {"prepared", "retired", "no data"}
    \/ finished(s) /\ (finish(s).ok \/ finish(s).why \in {"aborted", "broken"})

\* One deadline bounds the waits of all three.
graceOver == over

unretired == result' = "quarantined" /\ pc' = "drop" /\ UNCHANGED <<op, retired>>

retire_io(k) ==
    LET s == Order[k]
    IN  /\ pc = <<"retire stdin", "retire stdout", "retire stderr">>[k]
        /\ \/ /\ retires(s) /\ op' = [op EXCEPT ![s] = "retired"]
              /\ retired' = (k = 3)
              /\ goto(<<"retire stdout", "retire stderr", "drop">>[k]) /\ UNCHANGED result
           \/ waiting(s) /\ ~finished(s) /\ graceOver /\ unretired
           \/ finished(s) /\ ~retires(s) /\ unretired
        /\ UNCHANGED <<world, os, mem, handle, fed, captured, faults>>

\* What the system may still own is leaked, never freed.
dropIo == IF retired THEN [s \in Streams |-> "freed"]
          ELSE [s \in Streams |-> IF mem[s] = "live" THEN "leaked" ELSE mem[s]]
Drop ==
    /\ pc = "drop" /\ goto("done") /\ mem' = dropIo
    /\ handle' = IF retired THEN [s \in Streams |-> "closed"] ELSE handle
    /\ UNCHANGED <<world, op, os, retired, fed, captured, result, faults>>

-----------------------------------------------------------------------------
Reducer == \/ start_concurrent_io \/ transfer_stdin \/ PollProcess \/ TerminateJob
           \/ cancel_outstanding_io \/ Drop
           \/ \E s \in Reads : transfer_output(s)
           \/ \E k \in 1..3 : retire_io(k)
System == \/ \E s \in Reads : Write(s)
          \/ \E s \in Streams : Complete(s)
          \/ End \/ Tick
Next == Reducer \/ System
Spec == Init /\ [][Next]_vars

-----------------------------------------------------------------------------
(* Properties.                                                             *)

\* The state is well formed, and nothing is captured that was not written.
TypeOK ==
    /\ op \in [Streams -> {"prepared", "pending", "terminal", "error", "no data", "cancelling", "retired"}]
    /\ mem \in [Streams -> {"live", "freed", "leaked"}] /\ handle \in [Streams -> {"open", "closed"}]
    /\ child \in {"running", "ended", "killed"} /\ faults \in 0..MaxFaults
    /\ result \in {"none", "success", "failed", "unknown", "deadline", "quarantined"}
    /\ \A s \in Reads : captured[s] + pipe[s] <= wrote[s] /\ captured[s] <= Cap + 1

\* The system never completes an operation into memory that was freed, nor
\* through a handle that was closed: whatever is still pending is alive.
NoUseAfterFree == \A s \in Streams : os[s].kind = "pending" => mem[s] # "freed" /\ handle[s] = "open"

\* A success stands for the whole output of the child: nothing was lost
\* between two reads, nothing exceeded the cap, nothing came on stderr, and
\* the child was not killed.
WholeOutput ==
    pc = "done" /\ result = "success" =>
        /\ captured = wrote /\ captured["stdout"] <= Cap /\ wrote["stderr"] = 0
        /\ child = "ended" /\ retired

\* The launcher comes to an end though the child does not, no operation
\* completes and no cancellation works.
IoEnded == pc = "done"
=============================================================================
