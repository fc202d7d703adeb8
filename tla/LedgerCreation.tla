--------------------------- MODULE LedgerCreation ---------------------------
(***************************************************************************)
(* How a launcher creates its record of a request: under a privilege that  *)
(* it enables for the creation alone and gives back before it writes, in a *)
(* file that must be new, proved to be its own and read back.  The quota   *)
(* privilege is held around all of it.  Any call may fail, or answer       *)
(* wrongly, and another launcher may create the record first.              *)
(***************************************************************************)
EXTENDS Naturals

Privileges == {"quota", "security"}

VARIABLES
    pc,        \* the next step
    before,    \* external: whether each privilege was enabled at first
    enabled,   \* external: whether it is enabled now
    file,      \* external: the record on disk
    mine,      \* this launcher created it
    created,   \* what CREATE_NEW answered
    result     \* what the creation came to

vars == <<pc, before, enabled, file, mine, created, result>>

NoFile == [content |-> "absent", secure |-> FALSE]
Init ==
    /\ before \in [Privileges -> BOOLEAN] /\ enabled = before /\ pc = "quota"
    /\ file = NoFile /\ mine = FALSE /\ created = "none" /\ result = "none"

-----------------------------------------------------------------------------
(* A privilege of the process token and its scope.                         *)

\* AdjustTokenPrivileges: its answer is no proof of what it did.
adjust(now, wanted) == {[is |-> v, ok |-> ok] : v \in {now, wanted}, ok \in BOOLEAN}

\* The attributes are read back from the token, and the reading may fail.
readback(r, wanted) == r.ok /\ r.is = wanted

\* A scope that changed nothing has nothing to give back.
restore_verified(now, was) ==
    LET tried == IF was THEN {[is |-> now, ok |-> TRUE]} ELSE adjust(now, was)
    IN  {[is |-> r.is, ok |-> r.ok /\ readback(r, was) /\ sane] : r \in tried, sane \in BOOLEAN}

\* Dropping a scope that was not restored tries once more, unverified.
dropScope(now, was) == IF was THEN {now} ELSE {r.is : r \in adjust(now, was)}

\* Cleanup is armed before the first adjustment.
acquire(was) ==
    LET tried == IF was THEN {[is |-> TRUE, ok |-> TRUE]} ELSE adjust(was, TRUE)
        held == {r \in tried : readback(r, TRUE)}
    IN  {[is |-> r.is, answer |-> "held"] : r \in held}
          \cup UNION {UNION {IF u.ok THEN {[is |-> u.is, answer |-> "refused"]}
                             ELSE {[is |-> v, answer |-> "unknown"] : v \in dropScope(u.is, was)}
                               : u \in restore_verified(r.is, was)} : r \in tried}

now(p, v) == enabled' = [enabled EXCEPT ![p] = v]
goto(step) == pc' = step
ends(r) == pc' = "ended" /\ result' = r

-----------------------------------------------------------------------------
(* The creation.                                                           *)

bind_context ==
    /\ pc = "quota"
    /\ \E a \in acquire(before["quota"]) :
         /\ now("quota", a.is)
         /\ IF a.answer = "held" THEN goto("security") /\ UNCHANGED result ELSE ends(a.answer)
    /\ UNCHANGED <<before, file, mine, created>>

acquireSecurity ==
    /\ pc = "security"
    /\ \E a \in acquire(before["security"]) :
         /\ now("security", a.is)
         /\ IF a.answer = "held" THEN goto("create") /\ UNCHANGED result ELSE ends(a.answer)
    /\ UNCHANGED <<before, file, mine, created>>

\* Another launcher of the same request.
Other ==
    /\ file = NoFile /\ pc # "ended"
    /\ file' = [content |-> "theirs", secure |-> TRUE]
    /\ UNCHANGED <<pc, before, enabled, mine, created, result>>

\* CREATE_NEW with the descriptor: a null handle says nothing of the file.
create_initial_handle ==
    /\ pc = "create" /\ goto("restore")
    /\ \/ file # NoFile /\ created' = "collision" /\ UNCHANGED <<file, mine>>
       \/ /\ file = NoFile /\ mine' = TRUE /\ created' \in {"handle", "after"}
          /\ \E s \in BOOLEAN : file' = [content |-> "empty", secure |-> s]
       \/ file = NoFile /\ created' = "failed" /\ UNCHANGED <<file, mine>>
    /\ UNCHANGED <<before, enabled, result>>

\* The outcome of CREATE_NEW as the reducer sees it.
LedgerCreateError(c) == CASE c = "collision" -> "collision"
                          [] c = "failed" -> "unknown"
                          [] c = "after" -> "unknown"
                          [] c = "handle" -> "none"

\* The privilege goes back before anything else is done with the file.
restoreSecurity ==
    /\ pc = "restore"
    /\ \E r \in restore_verified(enabled["security"], before["security"]) :
         IF r.ok
         THEN /\ now("security", r.is)
              /\ IF created = "handle" THEN goto("secure") /\ UNCHANGED result
                 ELSE ends(LedgerCreateError(created))
         ELSE \E v \in dropScope(r.is, before["security"]) : now("security", v) /\ ends("unknown")
    /\ UNCHANGED <<before, file, mine, created>>

\* Owner, access list and label are the initial ones, the file is empty.
query_ledger_security ==
    /\ pc = "secure"
    /\ \/ file.secure /\ goto("write") /\ UNCHANGED result
       \/ ends("unknown")
    /\ UNCHANGED <<before, enabled, file, mine, created>>

writeRecord ==
    /\ pc = "write"
    /\ \/ \E c \in {"whole", "partial"} : file' = [file EXCEPT !.content = c] /\ goto("verify") /\ UNCHANGED result
       \/ \E c \in {"empty", "partial", "whole"} : file' = [file EXCEPT !.content = c] /\ ends("unknown")
    /\ UNCHANGED <<before, enabled, mine, created>>

\* The descriptor may be changed by an administrator while the file is held.
Drift ==
    /\ pc = "verify" /\ file.secure /\ file' = [file EXCEPT !.secure = FALSE]
    /\ UNCHANGED <<pc, before, enabled, mine, created, result>>

unread == file.secure
\* The bytes on the same handle and nothing after them, the same descriptor.
sameRecord == file.content = "whole" /\ file.secure

verifyRecord ==
    /\ pc = "verify"
    /\ \/ sameRecord /\ goto("launch") /\ UNCHANGED result
       \/ ends("unknown")
    /\ UNCHANGED <<before, enabled, file, mine, created>>

\* The launch itself, and the release of what it held.
ReleaseHeldImageHandles ==
    /\ pc = "launch"
    /\ \E r \in restore_verified(enabled["quota"], before["quota"]) :
         /\ now("quota", r.is) /\ ends(IF r.ok THEN "success" ELSE "quarantined")
    /\ UNCHANGED <<before, file, mine, created>>

Next == \/ bind_context \/ acquireSecurity \/ Other \/ create_initial_handle \/ restoreSecurity
        \/ query_ledger_security \/ writeRecord \/ Drift \/ verifyRecord \/ ReleaseHeldImageHandles
Spec == Init /\ [][Next]_vars

-----------------------------------------------------------------------------
(* Properties.                                                             *)

\* The state is well formed, and a record that was written whole into a secure
\* file is there once the launch goes on.
TypeOK ==
    /\ before \in [Privileges -> BOOLEAN] /\ enabled \in [Privileges -> BOOLEAN] /\ mine \in BOOLEAN
    /\ result \in {"none", "refused", "collision", "unknown", "success", "quarantined"}
    /\ pc = "launch" \/ result = "success" => file.content = "whole" /\ mine

\* Whatever follows the creation of the file runs without the privilege the
\* creation needed, unless it was enabled all along.
PrivilegeGoesBack ==
    /\ pc \in {"secure", "write", "verify", "launch"} => enabled["security"] = before["security"]
    /\ result = "success" => enabled = before

\* A refusal or a collision has created nothing and left the privilege of the
\* creation as it was, so that the request may be refused for good; whatever
\* this launcher created is reported as consumed.
RefusalIsClean ==
    result \in {"refused", "collision"} => ~mine /\ enabled["security"] = before["security"]
=============================================================================
