------------------------ MODULE MediaDeliveryProofs ------------------------
(***************************************************************************)
(* Theorems about the outboxes of the group gateway, for all messages,     *)
(* kinds, numbers of operations, turns and crashes: the attempts implement *)
(* the one-shot ledger, what inspect reports is what Telegram saw, and the *)
(* sole client carries one send at a time.                                 *)
(***************************************************************************)
EXTENDS MediaDelivery, TLAPS

(* The directory of an attempt is as far as its call is: it is reserved    *)
(* before anything is in it, and nothing is settled twice.                 *)
DiskOK(a) ==
  /\ ~disk[a].dir => disk[a] = Absent
  /\ pc[a] \in {"planning", "marking", "waiting", "reading", "settling"} =>
       disk[a].dir /\ disk[a].terminal = "none"
  /\ pc[a] \in {"planning", "marking"} => disk[a].sending = "none"
  /\ pc[a] \in {"waiting", "reading"} => disk[a].sending = "whole"

(* A promise lives under a whole sending mark.  Before it has sent, its    *)
(* call still waits for it or its signal was aborted: it never sends.      *)
RawOK(a) ==
  /\ Live(a) => disk[a].sending = "whole"
  /\ raw[a].stage \in DOMAIN Following /\ raw[a].state \in {"live", "failed"} => wire[a] = "none"
  /\ Live(a) /\ raw[a].stage \in DOMAIN Following => pc[a] = "waiting" \/ aborted # "no"
  /\ raw[a].state = "done" \/ raw[a].stage = "read" => wire[a] = "done"

(* What is written down, or about to be, is what Telegram was asked.       *)
WireOK(a) ==
  /\ wire[a] # "none" => disk[a].sending # "none"
  /\ disk[a].terminal = "verified" => wire[a] = "done"
  /\ disk[a].terminal = "failed_terminal" => wire[a] = "none"
  /\ pc[a] = "settling" /\ intent[a] = "verified" => wire[a] = "done"
  /\ pc[a] = "settling" /\ intent[a] = "failed_terminal" => wire[a] = "none" /\ ~Live(a)

AttemptsOK == \A a \in Attempts : DiskOK(a) /\ RawOK(a) /\ WireOK(a)

(* One attempt at a time is engaged, with its call or only with a promise  *)
(* that outlives it; a file's promise never does.  The turn cannot go on   *)
(* while it is, and its own abort ends with its tools.                     *)
Engaged(a) == pc[a] # "idle" \/ Live(a)

OneEngaged ==
  /\ \A a, b \in Attempts : Engaged(a) /\ Engaged(b) => a = b
  /\ \A a \in Attempts : Engaged(a) =>
       IF a.kind = "file"
       THEN pc[a] # "idle" /\ turn.phase = "tools" /\ turn.message = a.message
            /\ turn.slots = a.slot + 1
       ELSE turn.phase = "replied"
  /\ aborted = "turn" => turn.phase = "tools"

IndInv == TypeOK /\ AttemptsOK /\ OneEngaged

-----------------------------------------------------------------------------
(* Steps of one attempt                                                    *)

(* A step changes what there is of attempt a alone.                        *)
OnlyOf(a) ==
  \A b \in Attempts \ {a} :
    /\ disk'[b] = disk[b] /\ pc'[b] = pc[b] /\ intent'[b] = intent[b]
    /\ raw'[b] = raw[b] /\ wire'[b] = wire[b]

(* The others are as they were as long as no abort is taken back.          *)
LEMMA OthersKept ==
  ASSUME IndInv, NEW a \in Attempts, OnlyOf(a), UNCHANGED aborted,
         DiskOK(a)', RawOK(a)', WireOK(a)'
  PROVE  AttemptsOK'
<1> SUFFICES ASSUME NEW b \in Attempts \ {a} PROVE DiskOK(b)' /\ RawOK(b)' /\ WireOK(b)'
  BY DEF AttemptsOK
<1>1. DiskOK(b) /\ RawOK(b) /\ WireOK(b)
  BY DEF IndInv, AttemptsOK
<1> QED
  BY <1>1 DEF OnlyOf, DiskOK, RawOK, WireOK, Live

(* An attempt that was engaged, and no other, stays so or is done.         *)
LEMMA EngagedKept ==
  ASSUME IndInv, NEW a \in Attempts, OnlyOf(a), UNCHANGED <<aborted, turn>>,
         Engaged(a), Engaged(a)' /\ a.kind = "file" => pc'[a] # "idle"
  PROVE  OneEngaged'
<1>1. \A b \in Attempts : Engaged(b)' => Engaged(b)
  BY DEF OnlyOf, Engaged, Live
<1>2. \A b \in Attempts \ {a} : ~Engaged(b)
  BY DEF IndInv, OneEngaged
<1> QED
  BY <1>1, <1>2 DEF IndInv, OneEngaged

Directories == [dir : BOOLEAN, plan : Files, sending : Files, terminal : {"none", "torn"} \cup Terminals]
Promises == [stage : Stages, state : {"none", "live", "failed", "done"}]

(* The types of one attempt's entries.                                   *)
LEMMA Typed ==
  ASSUME TypeOK, NEW a \in Attempts
  PROVE  /\ disk[a] \in Directories /\ pc[a] \in Stops /\ intent[a] \in Terminals
         /\ raw[a] \in Promises /\ wire[a] \in {"none", "invoked", "done"}
         /\ a.kind \in {"text", "image", "file"}
BY DEF TypeOK, Directories, Promises, Attempts

(* The step of a call: it moves to another await, perhaps with another     *)
(* directory, intent, promise or request of its attempt.                   *)
Moves(a, d, p, i, x, w) ==
  /\ disk' = [disk EXCEPT ![a] = d] /\ pc' = [pc EXCEPT ![a] = p]
  /\ intent' = [intent EXCEPT ![a] = i] /\ raw' = [raw EXCEPT ![a] = x]
  /\ wire' = [wire EXCEPT ![a] = w]

(* A move of one attempt writes its entries and leaves all others alone. *)
LEMMA MovesAlone ==
  ASSUME IndInv, NEW a \in Attempts, NEW d \in Directories, NEW p \in Stops, NEW i \in Terminals,
         NEW x \in Promises, NEW w \in {"none", "invoked", "done"}, Moves(a, d, p, i, x, w)
  PROVE  /\ OnlyOf(a)
         /\ disk'[a] = d /\ pc'[a] = p /\ intent'[a] = i /\ raw'[a] = x /\ wire'[a] = w
         /\ disk' \in [Attempts -> Directories] /\ pc' \in [Attempts -> Stops]
         /\ intent' \in [Attempts -> Terminals] /\ raw' \in [Attempts -> Promises]
         /\ wire' \in [Attempts -> {"none", "invoked", "done"}]
<1>1. /\ disk \in [Attempts -> Directories] /\ pc \in [Attempts -> Stops]
      /\ intent \in [Attempts -> Terminals] /\ raw \in [Attempts -> Promises]
      /\ wire \in [Attempts -> {"none", "invoked", "done"}]
  BY DEF IndInv, TypeOK, Directories, Promises
<1> QED
  BY <1>1 DEF Moves, OnlyOf

(* A step inside a call that is engaged leaves the turn alone.             *)
Inside == /\ UNCHANGED <<turn, aborted, killed, active, crashes, turns>>
          /\ blocked' \in BOOLEAN

(* A move of the engaged attempt keeps the invariant when its own entries do. *)
LEMMA InsideStep ==
  ASSUME IndInv, NEW a \in Attempts, NEW d \in Directories, NEW p \in Stops, NEW i \in Terminals,
         NEW x \in Promises, NEW w \in {"none", "invoked", "done"}, Moves(a, d, p, i, x, w),
         Inside, Engaged(a),
         a.kind = "file" /\ p = "idle" => x.state # "live",
         DiskOK(a)', RawOK(a)', WireOK(a)'
  PROVE  IndInv'
<1>1. OnlyOf(a) /\ pc'[a] = p /\ raw'[a] = x
  BY MovesAlone
<1>2. AttemptsOK'
  BY <1>1, OthersKept DEF Inside
<1>3. OneEngaged'
  BY <1>1, EngagedKept DEF Inside, Engaged, Live
<1>4. TypeOK'
  BY MovesAlone DEF IndInv, TypeOK, Inside, Directories, Promises
<1> QED
  BY <1>2, <1>3, <1>4 DEF IndInv

(* The directory is made, unless the outboxes are stopped or it exists.  *)
LEMMA ReserveStep ==
  ASSUME IndInv, NEW a \in Attempts, reserve(a)
  PROVE  IndInv'
<1> DEFINE d == disk[a]
<1>1. pc[a] = "opening" /\ Engaged(a) /\ Inside
  BY DEF reserve, Engaged, Inside, IndInv, TypeOK, poison
<1>2. /\ DiskOK(a) /\ RawOK(a) /\ WireOK(a)
      /\ d \in Directories /\ intent[a] \in Terminals /\ raw[a] \in Promises
      /\ wire[a] \in {"none", "invoked", "done"}
  BY Typed DEF IndInv, AttemptsOK
<1>3. CASE disk' = disk /\ pc' = [pc EXCEPT ![a] = "closing"]
  <2>1. Moves(a, d, "closing", intent[a], raw[a], wire[a])
    BY <1>3 DEF reserve, Moves, IndInv, TypeOK
  <2>2. DiskOK(a)' /\ RawOK(a)' /\ WireOK(a)'
    BY <1>1, <1>2, <2>1, MovesAlone DEF DiskOK, RawOK, WireOK, Stops, Live, Inside
  <2> QED
    BY <1>1, <1>2, <2>1, <2>2, InsideStep DEF Stops
<1>4. CASE ~d.dir /\ file(a, "dir", TRUE) /\ step(a, "planning")
  <2> DEFINE e == [d EXCEPT !.dir = TRUE]
  <2>1. Moves(a, e, "planning", intent[a], raw[a], wire[a])
    BY <1>4 DEF reserve, Moves, IndInv, TypeOK, file, step
  <2>2. e \in Directories /\ e.dir /\ e.terminal = d.terminal /\ e.sending = d.sending
    BY <1>2 DEF Directories
  <2>3. d.sending = "none" /\ d.terminal = "none"
    BY <1>2, <1>4 DEF DiskOK, Absent
  <2> HIDE DEF e
  <2>4. DiskOK(a)' /\ RawOK(a)' /\ WireOK(a)'
    BY <1>1, <1>2, <2>1, <2>2, <2>3, MovesAlone DEF DiskOK, RawOK, WireOK, Stops, Writing, Live, Inside
  <2> QED
    BY <1>1, <1>2, <2>1, <2>2, <2>4, InsideStep DEF Stops, Writing
<1> QED
  BY <1>3, <1>4 DEF reserve, step

(* One file of a directory is written, perhaps not to its end.             *)
LEMMA FileWritten ==
  ASSUME NEW d \in Directories, NEW f \in {"plan", "sending", "terminal"}, NEW v,
         v \in {"none", "torn"} \/ (IF f = "terminal" THEN v \in Terminals ELSE v = "whole")
  PROVE  LET e == [d EXCEPT ![f] = v]
         IN  /\ e \in Directories /\ e.dir = d.dir
             /\ e.sending = IF f = "sending" THEN v ELSE d.sending
             /\ e.terminal = IF f = "terminal" THEN v ELSE d.terminal
<1>1. CASE f = "plan"
  BY <1>1 DEF Directories, Files
<1>2. CASE f = "sending"
  BY <1>2 DEF Directories, Files
<1>3. CASE f = "terminal"
  BY <1>3 DEF Directories, Files, Terminals
<1> QED
  BY <1>1, <1>2, <1>3

(* The plan is written, whole or torn.                                   *)
LEMMA WritePlanStep ==
  ASSUME IndInv, NEW a \in Attempts, writePlan(a)
  PROVE  IndInv'
<1> DEFINE d == disk[a]
<1>1. pc[a] = "planning" /\ Engaged(a) /\ Inside
  BY DEF writePlan, Engaged, Inside, IndInv, TypeOK, poison
<1>2. /\ DiskOK(a) /\ RawOK(a) /\ WireOK(a)
      /\ d \in Directories /\ intent[a] \in Terminals /\ raw[a] \in Promises
      /\ wire[a] \in {"none", "invoked", "done"} /\ pc[a] \in Stops
      /\ a.kind \in {"text", "image", "file"}
  BY Typed DEF IndInv, AttemptsOK
<1>3. PICK v \in Files, p \in {"settling", "marking", "closing"}, i \in {intent[a], "failed_terminal"} :
        /\ file(a, "plan", v) /\ step(a, p) /\ intent' = [intent EXCEPT ![a] = i]
        /\ UNCHANGED <<raw, wire>>
        /\ p = "settling" => i = "failed_terminal"
  <2>1. intent = [intent EXCEPT ![a] = intent[a]]
    BY DEF IndInv, TypeOK
  <2>2. "none" \in Files /\ "torn" \in Files /\ "whole" \in Files
    BY DEF Files
  <2> QED
    BY <2>1, <2>2 DEF writePlan, leaves, goOn, settle
<1> DEFINE e == [d EXCEPT !["plan"] = v]
<1>4. Moves(a, e, p, i, raw[a], wire[a])
  BY <1>3 DEF Moves, IndInv, TypeOK, file, step
<1>5. e \in Directories /\ e.dir = d.dir /\ e.sending = d.sending /\ e.terminal = d.terminal
  BY <1>2, FileWritten DEF Files
<1> HIDE DEF e
<1>6. p \in Stops /\ i \in Terminals
  BY <1>2, <1>3 DEF Stops, Writing, Terminals
<1>7. DiskOK(a)' /\ RawOK(a)' /\ WireOK(a)'
  BY <1>1, <1>2, <1>3, <1>4, <1>5, <1>6, MovesAlone DEF DiskOK, RawOK, WireOK, Live, Inside
<1> QED
  BY <1>1, <1>2, <1>3, <1>4, <1>5, <1>6, <1>7, InsideStep

(* The promise begins under the whole mark, and only then.                 *)
LEMMA WriteSendingStep ==
  ASSUME IndInv, NEW a \in Attempts, writeSending(a)
  PROVE  IndInv'
<1> DEFINE d == disk[a]
           fresh == [stage |-> "start", state |-> "live"]
<1>1. pc[a] = "marking" /\ Engaged(a) /\ Inside
  BY DEF writeSending, Engaged, Inside, IndInv, TypeOK, poison
<1>2. /\ DiskOK(a) /\ RawOK(a) /\ WireOK(a)
      /\ d \in Directories /\ intent[a] \in Terminals /\ raw[a] \in Promises
      /\ wire[a] \in {"none", "invoked", "done"} /\ pc[a] \in Stops
      /\ a.kind \in {"text", "image", "file"}
  BY Typed DEF IndInv, AttemptsOK
<1>3. PICK v \in Files, p \in {"settling", "waiting", "closing"}, i \in {intent[a], "failed_terminal"},
           x \in {raw[a], fresh} :
        /\ file(a, "sending", v) /\ step(a, p) /\ intent' = [intent EXCEPT ![a] = i]
        /\ raw' = [raw EXCEPT ![a] = x] /\ UNCHANGED wire
        /\ p = "settling" => i = "failed_terminal" /\ x = raw[a] /\ v = "whole"
        /\ p = "waiting" => v = "whole" /\ x = fresh
        /\ p = "closing" => x = raw[a]
  <2>1. intent = [intent EXCEPT ![a] = intent[a]] /\ raw = [raw EXCEPT ![a] = raw[a]]
    BY DEF IndInv, TypeOK
  <2>2. "none" \in Files /\ "torn" \in Files /\ "whole" \in Files
    BY DEF Files
  <2>3. CASE file(a, "sending", "whole") /\ settle(a, "failed_terminal") /\ UNCHANGED raw
    BY <2>1, <2>2, <2>3 DEF settle, writeSending
  <2>4. CASE /\ file(a, "sending", "whole") /\ goOn(a, "waiting")
             /\ raw' = [raw EXCEPT ![a] = fresh]
    BY <2>1, <2>2, <2>4 DEF goOn, writeSending
  <2>5. CASE leaves(a, "sending", "whole") /\ goOn(a, "closing") /\ UNCHANGED raw
    <3>1. PICK v \in Files : file(a, "sending", v)
      BY <2>2, <2>5 DEF leaves
    <3> QED
      BY <2>1, <2>5, <3>1 DEF goOn, writeSending
  <2> QED
    BY <2>3, <2>4, <2>5 DEF writeSending
<1> DEFINE e == [d EXCEPT !["sending"] = v]
<1>4. Moves(a, e, p, i, x, wire[a])
  BY <1>3 DEF Moves, IndInv, TypeOK, file, step
<1>5. e \in Directories /\ e.dir = d.dir /\ e.sending = v /\ e.terminal = d.terminal
  BY <1>2, FileWritten DEF Files
<1> HIDE DEF e
<1>6. p \in Stops /\ i \in Terminals /\ x \in Promises
  BY <1>2, <1>3 DEF Stops, Writing, Terminals, Promises, Stages
<1>7. d.sending = "none" /\ wire[a] = "none" /\ ~Live(a) /\ raw[a].state # "done" /\ d.dir
  BY <1>1, <1>2 DEF DiskOK, RawOK, WireOK
<1>8. DiskOK(a)' /\ RawOK(a)' /\ WireOK(a)'
  <2>1. /\ disk'[a] = e /\ pc'[a] = p /\ intent'[a] = i /\ raw'[a] = x /\ wire'[a] = wire[a]
    BY <1>2, <1>4, <1>5, <1>6, MovesAlone
  <2>2. DiskOK(a)'
    BY <1>1, <1>2, <1>3, <1>5, <1>7, <2>1 DEF DiskOK
  <2>3. RawOK(a)'
    <3>1. CASE x = raw[a]
      BY <1>2, <1>7, <2>1, <3>1 DEF RawOK, Live
    <3>2. CASE x = fresh
      BY <1>2, <1>3, <1>5, <1>7, <2>1, <3>2 DEF RawOK, Live
    <3> QED
      BY <1>3, <3>1, <3>2
  <2>4. WireOK(a)'
    BY <1>1, <1>2, <1>3, <1>5, <1>7, <2>1 DEF WireOK, DiskOK, Live
  <2> QED
    BY <2>2, <2>3, <2>4
<1>9. p # "idle"
  BY <1>3
<1> HIDE DEF fresh
<1> QED
  BY <1>1, <1>2, <1>4, <1>5, <1>6, <1>8, <1>9, InsideStep

(* The terminal record is written, whole or torn.                        *)
LEMMA WriteTerminalStep ==
  ASSUME IndInv, NEW a \in Attempts, writeTerminal(a)
  PROVE  IndInv'
<1> DEFINE d == disk[a]
<1>1. pc[a] = "settling" /\ Engaged(a) /\ Inside
  BY DEF writeTerminal, Engaged, Inside, IndInv, TypeOK, poison
<1>2. /\ DiskOK(a) /\ RawOK(a) /\ WireOK(a)
      /\ d \in Directories /\ intent[a] \in Terminals /\ raw[a] \in Promises
      /\ wire[a] \in {"none", "invoked", "done"} /\ pc[a] \in Stops
      /\ a.kind \in {"text", "image", "file"}
  BY Typed DEF IndInv, AttemptsOK
<1>3. PICK v \in {"none", "torn", intent[a]} :
        /\ file(a, "terminal", v) /\ step(a, "closing") /\ UNCHANGED <<intent, raw, wire>>
  BY DEF writeTerminal, leaves, goOn
<1> DEFINE e == [d EXCEPT !["terminal"] = v]
<1>4. Moves(a, e, "closing", intent[a], raw[a], wire[a])
  BY <1>3 DEF Moves, IndInv, TypeOK, file, step
<1>5. e \in Directories /\ e.dir = d.dir /\ e.sending = d.sending /\ e.terminal = v
  BY <1>2, FileWritten
<1> HIDE DEF e
<1>6. "closing" \in Stops
  BY DEF Stops
<1>7. DiskOK(a)' /\ RawOK(a)' /\ WireOK(a)'
  BY <1>1, <1>2, <1>4, <1>5, <1>6, MovesAlone DEF DiskOK, RawOK, WireOK, Live, Inside
<1> QED
  BY <1>1, <1>2, <1>4, <1>5, <1>6, <1>7, InsideStep

-----------------------------------------------------------------------------
(* Steps of the promise and of the call that waits for it                  *)

(* A live promise is one of an engaged attempt under a whole mark.         *)
LEMMA PromiseFacts ==
  ASSUME IndInv, NEW a \in Attempts
  PROVE  /\ DiskOK(a) /\ RawOK(a) /\ WireOK(a)
         /\ disk[a] \in Directories /\ pc[a] \in Stops /\ intent[a] \in Terminals
         /\ raw[a] \in Promises /\ wire[a] \in {"none", "invoked", "done"}
         /\ a.kind \in {"text", "image", "file"}
         /\ disk = [disk EXCEPT ![a] = disk[a]] /\ pc = [pc EXCEPT ![a] = pc[a]]
         /\ intent = [intent EXCEPT ![a] = intent[a]] /\ raw = [raw EXCEPT ![a] = raw[a]]
         /\ wire = [wire EXCEPT ![a] = wire[a]]
<1>1. /\ DiskOK(a) /\ RawOK(a) /\ WireOK(a)
      /\ disk[a] \in Directories /\ pc[a] \in Stops /\ intent[a] \in Terminals
      /\ raw[a] \in Promises /\ wire[a] \in {"none", "invoked", "done"}
      /\ a.kind \in {"text", "image", "file"}
  BY Typed DEF IndInv, AttemptsOK
<1>2. /\ disk = [disk EXCEPT ![a] = disk[a]] /\ pc = [pc EXCEPT ![a] = pc[a]]
      /\ intent = [intent EXCEPT ![a] = intent[a]] /\ raw = [raw EXCEPT ![a] = raw[a]]
      /\ wire = [wire EXCEPT ![a] = wire[a]]
  BY DEF IndInv, TypeOK
<1> QED
  BY <1>1, <1>2

(* Whoever sends is waited for: the abort that would have sent its waiter  *)
(* away refuses the stage.                                                 *)
LEMMA SendersAreAwaited ==
  ASSUME IndInv, NEW a \in Attempts, sendOnce(a)
  PROVE  pc[a] = "waiting" /\ aborted = "no" /\ wire[a] = "none" /\ disk[a].sending = "whole"
<1>1. Live(a) /\ raw[a].stage \in DOMAIN Following /\ aborted = "no"
  BY Zenon DEF sendOnce, check, stopped
<1> QED
  BY <1>1, PromiseFacts DEF RawOK, Live

(* The promise begins under its sending mark.                            *)
LEMMA SendOnceStep ==
  ASSUME IndInv, NEW a \in Attempts, sendOnce(a)
  PROVE  IndInv'
<1> DEFINE to == nextStage(a)
           x == [raw[a] EXCEPT !.stage = to]
           w == IF to = "send" THEN "invoked" ELSE wire[a]
<1>1. Live(a) /\ Engaged(a) /\ Inside /\ raw[a].stage \in DOMAIN Following
  BY DEF sendOnce, Engaged, Inside, IndInv, TypeOK
<1>2. to \in Before \cup {"send"}
  BY <1>1 DEF nextStage, Following, Before
<1>3. x \in Promises /\ x.state = "live" /\ x.stage = to
  BY <1>1, <1>2, PromiseFacts DEF Promises, Stages, Live
<1>4. Moves(a, disk[a], pc[a], intent[a], x, w)
  BY PromiseFacts DEF sendOnce, Moves
<1>5. w \in {"none", "invoked", "done"}
  BY PromiseFacts
<1>6. to \in DOMAIN Following => to # "send"
  BY DEF Following
<1> HIDE DEF to, x
<1>7. /\ disk'[a] = disk[a] /\ pc'[a] = pc[a] /\ intent'[a] = intent[a] /\ raw'[a] = x /\ wire'[a] = w
  BY <1>3, <1>4, <1>5, PromiseFacts, MovesAlone
<1>8. DiskOK(a)' /\ RawOK(a)' /\ WireOK(a)'
  <2>1. DiskOK(a)'
    BY <1>7, PromiseFacts DEF DiskOK
  <2>2. RawOK(a)'
    BY <1>1, <1>2, <1>3, <1>6, <1>7, PromiseFacts, SendersAreAwaited DEF RawOK, Live, Before
  <2>3. WireOK(a)'
    BY <1>3, <1>7, PromiseFacts, SendersAreAwaited DEF WireOK, DiskOK, Live
  <2> QED
    BY <2>1, <2>2, <2>3
<1>9. pc[a] # "idle"
  BY SendersAreAwaited
<1> QED
  BY <1>1, <1>3, <1>4, <1>5, <1>8, <1>9, PromiseFacts, InsideStep

(* A promise ends: refuse, parseAck and readExact.                         *)
LEMMA PromiseEnds ==
  ASSUME IndInv, NEW a \in Attempts, Live(a), NEW s \in {"failed", "done"},
         raw' = [raw EXCEPT ![a].state = s],
         UNCHANGED <<disk, pc, intent, wire, turn, aborted, killed, active, blocked, crashes, turns>>,
         s = "done" => wire[a] = "done"
  PROVE  IndInv'
<1> DEFINE x == [raw[a] EXCEPT !.state = s]
<1>1. Engaged(a) /\ Inside
  BY DEF Engaged, Inside, IndInv, TypeOK
<1>2. x \in Promises /\ x.state = s /\ x.stage = raw[a].stage
  BY PromiseFacts DEF Promises
<1>3. Moves(a, disk[a], pc[a], intent[a], x, wire[a])
  BY PromiseFacts DEF Moves
<1> HIDE DEF x
<1>4. /\ disk'[a] = disk[a] /\ pc'[a] = pc[a] /\ intent'[a] = intent[a]
      /\ raw'[a] = x /\ wire'[a] = wire[a]
  BY <1>2, <1>3, PromiseFacts, MovesAlone
<1>5. DiskOK(a)' /\ RawOK(a)' /\ WireOK(a)'
  <2>1. DiskOK(a)' /\ WireOK(a)'
    BY <1>2, <1>4, PromiseFacts DEF DiskOK, WireOK, Live
  <2>2. RawOK(a)'
    BY <1>2, <1>4, PromiseFacts DEF RawOK, Live
  <2> QED
    BY <2>1, <2>2
<1> QED
  BY <1>1, <1>2, <1>3, <1>5, PromiseFacts, InsideStep

(* The transport's promise refuses, parses its answer or reads back.     *)
LEMMA PromiseStep ==
  ASSUME IndInv, NEW a \in Attempts, refuse(a) \/ parseAck(a) \/ readExact(a)
  PROVE  IndInv'
<1>1. CASE refuse(a)
  BY <1>1, PromiseEnds DEF refuse
<1>2. CASE parseAck(a)
  BY <1>2, PromiseEnds DEF parseAck
<1>3. CASE readExact(a)
  <2>1. wire[a] = "done"
    BY <1>3, PromiseFacts DEF readExact, RawOK
  <2> QED
    BY <1>3, <2>1, PromiseEnds DEF readExact
<1> QED
  BY <1>1, <1>2, <1>3

(* The call settles its attempt as intended, or reads what was sent.       *)
LEMMA AwaitSendStep ==
  ASSUME IndInv, NEW a \in Attempts, awaitSend(a)
  PROVE  IndInv'
<1> DEFINE again == [stage |-> "read", state |-> "live"]
<1>1. pc[a] = "waiting" /\ Engaged(a) /\ Inside
  BY DEF awaitSend, Engaged, Inside, IndInv, TypeOK
<1>2. again \in Promises /\ "reading" \in Stops /\ "settling" \in Stops
  BY DEF Promises, Stages, Stops, Writing
<1>3. CASE /\ raw[a] = [stage |-> "send", state |-> "done"] /\ goOn(a, "reading")
           /\ raw' = [raw EXCEPT ![a] = again]
  <2>1. Moves(a, disk[a], "reading", intent[a], again, wire[a])
    BY <1>3, PromiseFacts DEF awaitSend, Moves, goOn, step
  <2>2. wire[a] = "done" /\ disk[a].sending = "whole"
    BY <1>1, <1>3, PromiseFacts DEF RawOK, DiskOK
  <2>3. DiskOK(a)' /\ RawOK(a)' /\ WireOK(a)'
    BY <1>1, <1>2, <2>1, <2>2, PromiseFacts, MovesAlone DEF DiskOK, RawOK, WireOK, Live, Following
  <2> QED
    BY <1>1, <1>2, <2>1, <2>3, PromiseFacts, InsideStep
<1>4. CASE /\ UNCHANGED raw
           /\ \/ settle(a, "failed_terminal") /\ preDispatch(a)
              \/ settle(a, "unknown")
  <2>1. PICK v \in {"failed_terminal", "unknown"} :
          settle(a, v) /\ (v = "failed_terminal" => failedAt(a, Before))
    BY <1>4 DEF preDispatch, artifactPreDispatch, pilotPreDispatch
  <2>2. v \in Terminals
    BY DEF Terminals
  <2>3. Moves(a, disk[a], "settling", v, raw[a], wire[a])
    BY <1>4, <2>1, PromiseFacts DEF awaitSend, Moves, settle, step
  <2>4. v = "failed_terminal" => wire[a] = "none" /\ ~Live(a)
    BY <2>1, PromiseFacts DEF failedAt, Before, Following, RawOK, Live
  <2>5. Live(a) => aborted # "no"
    <3>1. raw[a].state = "done" \/ preDispatch(a) \/ aborted # "no" \/ failedAt(a, Stages)
      <4>1. raw[a] = [stage |-> "send", state |-> "done"] => raw[a].state = "done"
        OBVIOUS
      <4> QED
        BY <4>1, Zenon DEF awaitSend
    <3> QED
      BY <3>1 DEF failedAt, Live, preDispatch, artifactPreDispatch, pilotPreDispatch
  <2>6. /\ disk'[a] = disk[a] /\ pc'[a] = "settling" /\ intent'[a] = v
        /\ raw'[a] = raw[a] /\ wire'[a] = wire[a]
    BY <1>2, <2>2, <2>3, PromiseFacts, MovesAlone
  <2>7. DiskOK(a)'
    BY <1>1, <2>6, PromiseFacts DEF DiskOK
  <2>8. RawOK(a)'
    BY <1>1, <2>5, <2>6, PromiseFacts DEF RawOK, Live, Inside
  <2>9. WireOK(a)'
    BY <2>1, <2>4, <2>6, PromiseFacts DEF WireOK, Live
  <2> QED
    BY <1>1, <1>2, <2>2, <2>3, <2>7, <2>8, <2>9, PromiseFacts, InsideStep
<1> QED
  BY <1>3, <1>4 DEF awaitSend

(* The call has the answer of its promise, or gives it up.               *)
LEMMA AwaitReadStep ==
  ASSUME IndInv, NEW a \in Attempts, awaitRead(a)
  PROVE  IndInv'
<1>1. pc[a] = "reading" /\ Engaged(a) /\ Inside /\ (~Live(a) \/ aborted # "no")
  BY DEF awaitRead, Engaged, Inside, IndInv, TypeOK
<1>2. PICK v \in {"verified", "unknown"} :
        settle(a, v) /\ (v = "verified" => raw[a].state = "done")
  BY DEF awaitRead, readVerdict
<1>3. v \in Terminals /\ "settling" \in Stops
  BY DEF Terminals, Stops, Writing
<1>4. Moves(a, disk[a], "settling", v, raw[a], wire[a])
  BY <1>2, PromiseFacts DEF awaitRead, Moves, settle, step
<1>5. /\ disk'[a] = disk[a] /\ pc'[a] = "settling" /\ intent'[a] = v
      /\ raw'[a] = raw[a] /\ wire'[a] = wire[a]
  BY <1>3, <1>4, PromiseFacts, MovesAlone
<1>6. DiskOK(a)' /\ RawOK(a)' /\ WireOK(a)'
  <2>1. DiskOK(a)'
    BY <1>1, <1>5, PromiseFacts DEF DiskOK
  <2>2. RawOK(a)'
    BY <1>1, <1>5, PromiseFacts DEF RawOK, Live, Inside
  <2>3. WireOK(a)'
    BY <1>2, <1>5, PromiseFacts DEF WireOK, RawOK
  <2> QED
    BY <2>1, <2>2, <2>3
<1> QED
  BY <1>1, <1>3, <1>4, <1>6, PromiseFacts, InsideStep

(* The call ends; that of a file only after its promise.                 *)
LEMMA CloseStep ==
  ASSUME IndInv, NEW a \in Attempts, close(a)
  PROVE  IndInv'
<1>1. pc[a] = "closing" /\ Engaged(a) /\ Inside /\ "idle" \in Stops
  BY DEF close, Engaged, Inside, IndInv, TypeOK, Stops
<1>2. a.kind = "file" => raw[a].state # "live"
  BY DEF close, settlement, Live
<1>3. Moves(a, disk[a], "idle", intent[a], raw[a], wire[a])
  BY PromiseFacts DEF close, Moves, step
<1>4. DiskOK(a)' /\ RawOK(a)' /\ WireOK(a)'
  BY <1>1, <1>3, PromiseFacts, MovesAlone DEF DiskOK, RawOK, WireOK, Live, Inside
<1> QED
  BY <1>1, <1>2, <1>3, <1>4, PromiseFacts, InsideStep

(* The waiter may have been gone for long: what its terminal says holds.   *)
LEMMA HappenStep ==
  ASSUME IndInv, NEW a \in Attempts, Happen(a)
  PROVE  IndInv'
<1>1. /\ wire[a] = "invoked"
      /\ UNCHANGED <<disk, pc, intent, raw, turn, aborted, killed, active, blocked, crashes, turns>>
  BY DEF Happen
<1>2. Moves(a, disk[a], pc[a], intent[a], raw[a], "done")
  BY PromiseFacts DEF Happen, Moves
<1>3. /\ OnlyOf(a) /\ wire'[a] = "done" /\ wire' \in [Attempts -> {"none", "invoked", "done"}]
      /\ disk'[a] = disk[a] /\ pc'[a] = pc[a] /\ intent'[a] = intent[a] /\ raw'[a] = raw[a]
  BY <1>2, PromiseFacts, MovesAlone
<1>4. DiskOK(a)' /\ RawOK(a)' /\ WireOK(a)'
  BY <1>1, <1>3, PromiseFacts DEF DiskOK, RawOK, WireOK, Live
<1>5. AttemptsOK'
  BY <1>1, <1>3, <1>4, OthersKept
<1>6. OneEngaged'
  BY <1>1 DEF IndInv, OneEngaged, Engaged, Live
<1>7. TypeOK'
  BY <1>1, <1>3 DEF IndInv, TypeOK
<1> QED
  BY <1>5, <1>6, <1>7 DEF IndInv

-----------------------------------------------------------------------------
(* Steps of the turn                                                       *)

(* While no call runs, only the reply of a turn may still be under way.    *)
LEMMA NobodyEngaged ==
  ASSUME IndInv, Busy = {}, turn.phase # "replied"
  PROVE  \A a \in Attempts : pc[a] = "idle" /\ ~Live(a)
<1> TAKE a \in Attempts
<1>1. pc[a] = "idle"
  BY DEF Busy
<1>2. ~Engaged(a)
  BY <1>1 DEF IndInv, OneEngaged
<1> QED
  BY <1>1, <1>2 DEF Engaged

(* The attempts do not see a step of the turn, unless one of them waits    *)
(* for its abort, which such a step may not take back.                     *)
LEMMA TurnStep ==
  ASSUME IndInv, UNCHANGED <<disk, pc, intent, raw, wire>>,
         aborted' # "no" \/ aborted' = aborted \/ \A a \in Attempts : ~Live(a)
  PROVE  AttemptsOK'
<1> SUFFICES ASSUME NEW a \in Attempts PROVE DiskOK(a)' /\ RawOK(a)' /\ WireOK(a)'
  BY DEF AttemptsOK
<1> QED
  BY PromiseFacts DEF DiskOK, RawOK, WireOK, Live

(* A turn begins when nothing is engaged.                                *)
LEMMA BeginStep ==
  ASSUME IndInv, SlotsAssumption, NEW m \in Messages, begin(m)
  PROVE  IndInv'
<1>1. \A a \in Attempts : pc[a] = "idle" /\ ~Live(a)
  BY NobodyEngaged DEF begin, NoTurn
<1>2. AttemptsOK'
  BY <1>1, TurnStep DEF begin
<1>3. OneEngaged'
  BY <1>1 DEF begin, OneEngaged, Engaged, Live, stopped
<1>4. TypeOK'
  <2>1. turn' \in [message : Messages \cup {NoMessage}, phase : {"none", "tools", "reply", "replied"},
                   slots : 0..FileSlots]
    BY DEF begin, SlotsAssumption
  <2>2. turns' \in 0..MaxTurns
    BY DEF begin, SlotsAssumption, IndInv, TypeOK
  <2>3. active' \in BOOLEAN
    BY DEF begin
  <2> QED
    BY <2>1, <2>2, <2>3 DEF begin, IndInv, TypeOK
<1> QED
  BY <1>2, <1>3, <1>4 DEF IndInv

(* The turn ends its tools and aborts the one that still runs.           *)
LEMMA FinishStep ==
  ASSUME IndInv, finish
  PROVE  IndInv'
<1>1. CASE Busy # {} /\ aborted' = "turn" /\ UNCHANGED turn
  <2>1. AttemptsOK'
    BY <1>1, TurnStep DEF finish
  <2>2. OneEngaged'
    BY <1>1 DEF finish, IndInv, OneEngaged, Engaged, Live
  <2>3. TypeOK'
    BY <1>1 DEF finish, IndInv, TypeOK
  <2> QED
    BY <2>1, <2>2, <2>3 DEF IndInv
<1>2. CASE /\ Busy = {} /\ turn' = [turn EXCEPT !.phase = "reply"]
           /\ aborted' = IF aborted = "turn" THEN "no" ELSE aborted
  <2>1. \A a \in Attempts : pc[a] = "idle" /\ ~Live(a)
    BY <1>2, NobodyEngaged DEF finish
  <2>2. AttemptsOK'
    BY <2>1, TurnStep DEF finish
  <2>3. OneEngaged'
    BY <1>2, <2>1 DEF finish, OneEngaged, Engaged, Live
  <2>4. TypeOK'
    BY <1>2 DEF finish, IndInv, TypeOK
  <2> QED
    BY <2>2, <2>3, <2>4 DEF IndInv
<1> QED
  BY <1>1, <1>2 DEF finish

(* The turn is released when no promise lives.                           *)
LEMMA ReleaseStep ==
  ASSUME IndInv, SlotsAssumption, Release
  PROVE  IndInv'
<1>1. \A a \in Attempts : pc[a] = "idle" /\ ~Live(a)
  BY DEF Release, Busy
<1>2. AttemptsOK'
  BY <1>1, TurnStep DEF Release
<1>3. OneEngaged'
  BY <1>1 DEF Release, OneEngaged, Engaged, Live, IndInv
<1>4. TypeOK'
  <2>1. turn' \in [message : Messages \cup {NoMessage}, phase : {"none", "tools", "reply", "replied"},
                   slots : 0..FileSlots]
    BY DEF Release, NoTurn, SlotsAssumption
  <2>2. active' \in BOOLEAN
    BY DEF Release
  <2> QED
    BY <2>1, <2>2 DEF Release, IndInv, TypeOK
<1> QED
  BY <1>2, <1>3, <1>4 DEF IndInv

(* A call opens when no other attempt is engaged.                          *)
LEMMA OpeningStep ==
  ASSUME IndInv, NEW a \in Attempts, \A b \in Attempts : pc[b] = "idle" /\ ~Live(b),
         step(a, "opening"), UNCHANGED <<disk, intent, raw, wire, aborted>>
  PROVE  /\ AttemptsOK'
         /\ \A b \in Attempts : Engaged(b)' => b = a
         /\ pc' \in [Attempts -> Stops] /\ pc'[a] = "opening"
<1>1. "opening" \in Stops
  BY DEF Stops
<1>2. Moves(a, disk[a], "opening", intent[a], raw[a], wire[a])
  BY PromiseFacts DEF Moves, step
<1>3. /\ OnlyOf(a) /\ disk'[a] = disk[a] /\ pc'[a] = "opening" /\ intent'[a] = intent[a]
      /\ raw'[a] = raw[a] /\ wire'[a] = wire[a] /\ pc' \in [Attempts -> Stops]
  BY <1>1, <1>2, PromiseFacts, MovesAlone
<1>4. DiskOK(a)' /\ RawOK(a)' /\ WireOK(a)'
  BY <1>3, PromiseFacts DEF DiskOK, RawOK, WireOK, Live
<1>5. AttemptsOK'
  BY <1>3, <1>4, OthersKept
<1> QED
  BY <1>3, <1>5 DEF OnlyOf, Engaged, Live

(* A file is sent from a turn.                                           *)
LEMMA SendStep ==
  ASSUME IndInv, SlotsAssumption, NEW a \in Attempts, send(a)
  PROVE  IndInv'
<1>1. \A b \in Attempts : pc[b] = "idle" /\ ~Live(b)
  BY NobodyEngaged DEF send
<1>2. /\ AttemptsOK' /\ pc' \in [Attempts -> Stops] /\ pc'[a] = "opening"
      /\ \A b \in Attempts : Engaged(b)' => b = a
  BY <1>1, OpeningStep DEF send
<1>3. a.slot \in 0..(FileSlots - 1) /\ a.kind = "file"
  BY DEF send, Attempts
<1>4. turn \in [message : Messages \cup {NoMessage}, phase : {"none", "tools", "reply", "replied"},
                slots : 0..FileSlots]
  BY DEF IndInv, TypeOK
<1>5. /\ turn' \in [message : Messages \cup {NoMessage}, phase : {"none", "tools", "reply", "replied"},
                     slots : 0..FileSlots]
      /\ turn'.phase = "tools" /\ turn'.message = a.message /\ turn'.slots = a.slot + 1
  BY <1>3, <1>4 DEF send, SlotsAssumption
<1>6. OneEngaged'
  BY <1>2, <1>3, <1>5 DEF OneEngaged
<1>7. TypeOK'
  BY <1>2, <1>5 DEF send, IndInv, TypeOK
<1> QED
  BY <1>2, <1>6, <1>7 DEF IndInv

(* The reply of a turn is sent.                                          *)
LEMMA ReplyStep ==
  ASSUME IndInv, NEW a \in Attempts, reply(a)
  PROVE  IndInv'
<1>1. \A b \in Attempts : pc[b] = "idle" /\ ~Live(b)
  BY NobodyEngaged DEF reply
<1>2. /\ AttemptsOK' /\ pc' \in [Attempts -> Stops]
      /\ \A b \in Attempts : Engaged(b)' => b = a
  BY <1>1, OpeningStep DEF reply
<1>3. turn \in [message : Messages \cup {NoMessage}, phase : {"none", "tools", "reply", "replied"},
                slots : 0..FileSlots]
  BY DEF IndInv, TypeOK
<1>4. /\ turn' \in [message : Messages \cup {NoMessage}, phase : {"none", "tools", "reply", "replied"},
                     slots : 0..FileSlots]
      /\ turn'.phase = "replied" /\ a.kind # "file" /\ aborted' # "turn"
  BY <1>3 DEF reply, stopped
<1>5. OneEngaged'
  BY <1>2, <1>4 DEF OneEngaged
<1>6. TypeOK'
  BY <1>2, <1>4 DEF reply, IndInv, TypeOK
<1> QED
  BY <1>2, <1>5, <1>6 DEF IndInv

(* Abort, KillSwitch and Deselect leave the attempts to their calls.       *)
LEMMA SignalStep ==
  ASSUME IndInv, Abort \/ KillSwitch \/ Deselect
  PROVE  IndInv'
<1>1. /\ UNCHANGED <<disk, pc, intent, raw, wire, turn, blocked, crashes, turns>>
      /\ aborted' = aborted \/ aborted' \in {"host", "turn"}
      /\ aborted' = "turn" => aborted = "turn" \/ turn.phase = "tools"
      /\ killed' \in BOOLEAN /\ active' \in BOOLEAN
  BY DEF Abort, KillSwitch, Deselect, IndInv, TypeOK
<1>2. AttemptsOK'
  BY <1>1, TurnStep
<1>3. OneEngaged'
  BY <1>1 DEF IndInv, OneEngaged, Engaged, Live
<1>4. TypeOK'
  BY <1>1 DEF IndInv, TypeOK
<1> QED
  BY <1>2, <1>3, <1>4 DEF IndInv

(* A crash leaves the file being written as it likes, and no attempt       *)
(* engaged: what is then on disk says no more than Telegram saw.           *)
LEMMA CrashStep ==
  ASSUME IndInv, SlotsAssumption, Crash
  PROVE  IndInv'
<1>1. PICK left \in Files :
        disk' = [a \in Attempts |->
            IF pc[a] \notin DOMAIN Writing THEN disk[a]
            ELSE [disk[a] EXCEPT ![Writing[pc[a]]] =
                     IF left = "whole" /\ pc[a] = "settling" THEN intent[a] ELSE left]]
  BY DEF Crash
<1>2. /\ pc' = [a \in Attempts |-> "idle"] /\ intent' = [a \in Attempts |-> "unknown"]
      /\ raw' = [a \in Attempts |-> Quiet] /\ turn' = NoTurn
      /\ aborted' = "no" /\ active' = FALSE /\ blocked' = FALSE /\ killed' = FALSE
      /\ crashes' = crashes + 1 /\ crashes < MaxCrashes /\ UNCHANGED <<wire, turns>>
  BY DEF Crash
<1>3. ASSUME NEW a \in Attempts
      PROVE  disk'[a] \in Directories /\ DiskOK(a)' /\ RawOK(a)' /\ WireOK(a)'
  <2>1. pc'[a] = "idle" /\ raw'[a] = Quiet /\ wire'[a] = wire[a]
    BY <1>2
  <2>2. RawOK(a)'
    BY <2>1 DEF RawOK, Live, Quiet
  <2>3. CASE pc[a] \notin DOMAIN Writing
    <3>1. disk'[a] = disk[a]
      BY <1>1, <2>3
    <3> QED
      BY <2>1, <2>2, <3>1, PromiseFacts DEF DiskOK, WireOK
  <2>4. CASE pc[a] \in DOMAIN Writing
    <3> DEFINE f == Writing[pc[a]]
               v == IF left = "whole" /\ pc[a] = "settling" THEN intent[a] ELSE left
    <3>1. disk'[a] = [disk[a] EXCEPT ![f] = v]
      BY <1>1, <2>4
    <3>2. /\ f \in {"plan", "sending", "terminal"}
          /\ f = "plan" <=> pc[a] = "planning"
          /\ f = "sending" <=> pc[a] = "marking"
          /\ f = "terminal" <=> pc[a] = "settling"
      BY <2>4 DEF Writing
    <3>3. v \in {"none", "torn"} \/ (IF f = "terminal" THEN v \in Terminals /\ v = intent[a] ELSE v = "whole")
      BY <1>1, <3>2, PromiseFacts DEF Files, Terminals
    <3> HIDE DEF f, v
    <3>4. /\ disk'[a] \in Directories /\ disk'[a].dir = disk[a].dir
          /\ disk'[a].sending = IF f = "sending" THEN v ELSE disk[a].sending
          /\ disk'[a].terminal = IF f = "terminal" THEN v ELSE disk[a].terminal
      <4> DEFINE e == [disk[a] EXCEPT ![f] = v]
      <4>1. disk[a] \in Directories
        BY PromiseFacts
      <4>2. v \in {"none", "torn"} \/ (IF f = "terminal" THEN v \in Terminals ELSE v = "whole")
        BY <3>3
      <4>3. /\ e \in Directories /\ e.dir = disk[a].dir
            /\ e.sending = IF f = "sending" THEN v ELSE disk[a].sending
            /\ e.terminal = IF f = "terminal" THEN v ELSE disk[a].terminal
        BY <3>2, <4>1, <4>2, FileWritten
      <4>4. disk'[a] = e
        BY <3>1
      <4> HIDE DEF e
      <4> QED
        BY <4>3, <4>4
    <3>5. DiskOK(a) /\ WireOK(a) /\ pc[a] \in {"planning", "marking", "settling"}
      BY <2>4, PromiseFacts DEF Writing
    <3>6. disk'[a].dir
      BY <3>4, <3>5 DEF DiskOK
    <3>7. DiskOK(a)'
      BY <2>1, <3>6 DEF DiskOK
    <3>8. WireOK(a)'
      BY <2>1, <3>2, <3>3, <3>4, <3>5, Zenon DEF WireOK, DiskOK
    <3> QED
      BY <2>2, <3>4, <3>7, <3>8
  <2> QED
    BY <2>3, <2>4
<1>4. AttemptsOK'
  BY <1>3 DEF AttemptsOK
<1>5. OneEngaged'
  BY <1>2 DEF OneEngaged, Engaged, Live, Quiet
<1>6. TypeOK'
  <2>1. disk' \in [Attempts -> Directories]
    BY <1>1, <1>3
  <2>2. turn' \in [message : Messages \cup {NoMessage}, phase : {"none", "tools", "reply", "replied"},
                   slots : 0..FileSlots]
    BY <1>2 DEF NoTurn, SlotsAssumption
  <2>3. /\ pc' \in [Attempts -> Stops] /\ intent' \in [Attempts -> Terminals]
        /\ raw' \in [Attempts -> Promises]
    BY <1>2 DEF Stops, Terminals, Promises, Stages, Quiet
  <2>4. crashes' \in 0..MaxCrashes /\ turns' \in 0..MaxTurns
        /\ wire' \in [Attempts -> {"none", "invoked", "done"}]
    BY <1>2 DEF IndInv, TypeOK, SlotsAssumption
  <2>5. /\ \A f \in {killed, active, blocked}' : f \in BOOLEAN
        /\ aborted' \in {"no", "turn", "host"}
    BY <1>2
  <2> QED
    BY <2>1, <2>2, <2>3, <2>4, <2>5 DEF TypeOK, Directories, Promises
<1> QED
  BY <1>4, <1>5, <1>6 DEF IndInv

-----------------------------------------------------------------------------
(* The invariant and what it shows                                         *)

(* The invariant holds of empty directories.                             *)
LEMMA InitIndInv ==
  ASSUME SlotsAssumption, Init
  PROVE  IndInv
<1>1. TypeOK
  <2>1. disk \in [Attempts -> Directories] /\ raw \in [Attempts -> Promises]
    BY DEF Init, Absent, Directories, Files, Quiet, Promises, Stages
  <2>2. pc \in [Attempts -> Stops] /\ intent \in [Attempts -> Terminals]
        /\ wire \in [Attempts -> {"none", "invoked", "done"}]
    BY DEF Init, Stops, Terminals
  <2>3. turn \in [message : Messages \cup {NoMessage}, phase : {"none", "tools", "reply", "replied"},
                  slots : 0..FileSlots]
    BY DEF Init, NoTurn, SlotsAssumption
  <2>4. /\ crashes \in 0..MaxCrashes /\ turns \in 0..MaxTurns
        /\ aborted \in {"no", "turn", "host"}
    BY DEF Init, SlotsAssumption
  <2>5. \A f \in {killed, active, blocked} : f \in BOOLEAN
    BY DEF Init
  <2> QED
    BY <2>1, <2>2, <2>3, <2>4, <2>5 DEF TypeOK, Directories, Promises
<1>2. AttemptsOK
  BY DEF Init, AttemptsOK, DiskOK, RawOK, WireOK, Live, Absent, Quiet
<1>3. OneEngaged
  BY DEF Init, OneEngaged, Engaged, Live, Quiet
<1> QED
  BY <1>1, <1>2, <1>3 DEF IndInv

(* Every step of the outboxes keeps the invariant.                       *)
LEMMA NextIndInv ==
  ASSUME KindsAssumption, SlotsAssumption, IndInv, [Next]_vars
  PROVE  IndInv'
<1>1. CASE UNCHANGED vars
  BY <1>1 DEF vars, IndInv, TypeOK, AttemptsOK, DiskOK, RawOK, WireOK, OneEngaged, Engaged, Live
<1>2. CASE Next
  <2>1. ASSUME NEW m \in Messages, begin(m) PROVE IndInv'
    BY <2>1, BeginStep
  <2>2. ASSUME NEW a \in Attempts, Deliver(a) PROVE IndInv'
    <3>1. CASE send(a) \/ reply(a)
      BY <3>1, SendStep, ReplyStep
    <3>2. CASE reserve(a) \/ writePlan(a) \/ writeSending(a) \/ writeTerminal(a)
      BY <3>2, ReserveStep, WritePlanStep, WriteSendingStep, WriteTerminalStep
    <3>3. CASE sendOnce(a) \/ refuse(a) \/ parseAck(a) \/ readExact(a)
      BY <3>3, SendOnceStep, PromiseStep
    <3>4. CASE awaitSend(a) \/ awaitRead(a) \/ close(a) \/ Happen(a)
      BY <3>4, AwaitSendStep, AwaitReadStep, CloseStep, HappenStep
    <3> QED
      BY <2>2, <3>1, <3>2, <3>3, <3>4 DEF Deliver
  <2>3. CASE finish \/ Release \/ Abort \/ KillSwitch \/ Deselect \/ Crash
    BY <2>3, FinishStep, ReleaseStep, SignalStep, CrashStep
  <2> QED
    BY <1>2, <2>1, <2>2, <2>3 DEF Next
<1> QED
  BY <1>1, <1>2

(* The clauses above hold in every state the outboxes can reach.           *)
THEOREM IndInvariant ==
  ASSUME KindsAssumption, SlotsAssumption
  PROVE  Spec => []IndInv
<1>1. Init => IndInv
  BY InitIndInv
<1>2. IndInv /\ [Next]_vars => IndInv'
  BY NextIndInv
<1> QED
  BY <1>1, <1>2, PTL DEF Spec

(* Every variable keeps its type: no call is suspended at an await it does *)
(* not have, no count passes its bound.                                    *)
THEOREM TypesHold ==
  ASSUME KindsAssumption, SlotsAssumption
  PROVE  Spec => []TypeOK
<1>1. IndInv => TypeOK
  BY DEF IndInv
<1> QED
  BY <1>1, IndInvariant, PTL

(* An attempt that inspect finds absent, planned or failed was never       *)
(* dispatched, one found verified is in the group: after every crash, torn *)
(* file and abort, and while an abandoned promise still runs.              *)
THEOREM InspectionTellsTheTruth ==
  ASSUME KindsAssumption, SlotsAssumption
  PROVE  Spec => []InspectionIsTruthful
<1>1. IndInv => InspectionIsTruthful
  <2> SUFFICES ASSUME IndInv, NEW a \in Attempts
               PROVE  /\ inspect(a) \in {"absent", "planned", "failed_terminal"} => wire[a] = "none"
                      /\ inspect(a) = "verified" => wire[a] = "done"
    BY DEF InspectionIsTruthful
  <2>1. DiskOK(a) /\ WireOK(a) /\ disk[a] \in Directories
    BY PromiseFacts
  <2>2. ~disk[a].dir => wire[a] = "none"
    BY <2>1 DEF DiskOK, WireOK, Absent
  <2>3. inspect(a) = "planned" => disk[a].sending = "none" \/ disk[a].terminal = "planned"
    BY <2>1 DEF inspect, Directories, Files, Terminals
  <2>4. inspect(a) = "failed_terminal" => disk[a].terminal = "failed_terminal"
    BY <2>1 DEF inspect
  <2>5. inspect(a) = "verified" => disk[a].terminal = "verified"
    BY <2>1 DEF inspect
  <2>6. inspect(a) = "absent" => ~disk[a].dir
    BY <2>1 DEF inspect, Directories, Terminals
  <2> QED
    BY <2>1, <2>2, <2>3, <2>4, <2>5, <2>6 DEF WireOK, Directories, Terminals
<1> QED
  BY <1>1, IndInvariant, PTL

(* The sole Telegram client carries one of its promises at a time, also    *)
(* when the call that waited for the one before gave it up.                *)
THEOREM OneSendAtATime ==
  ASSUME KindsAssumption, SlotsAssumption
  PROVE  Spec => []SoleClient
<1>1. IndInv => SoleClient
  BY DEF IndInv, OneEngaged, Engaged, SoleClient
<1> QED
  BY <1>1, IndInvariant, PTL

-----------------------------------------------------------------------------
(* The refinement: what a directory says is a record of the ledger.        *)

Says(d) ==
  IF ~d.dir THEN "absent"
  ELSE IF d.terminal = "failed_terminal" THEN "refused"
  ELSE IF d.terminal \in {"verified", "unknown"} THEN d.terminal
  ELSE IF d.sending = "none" THEN "claimed" ELSE "sending"

(* The record of an attempt is what its directory says.                  *)
LEMMA RecordSays ==
  \A a \in Attempts : record[a] = Says(disk[a]) /\ record'[a] = Says(disk'[a])
BY DEF record, Says

(* A step that leaves every request and all but one directory alone is a   *)
(* step of the ledger if that directory's record goes the ledger's way.    *)
Goes(a, r, s) ==
  \/ s = r
  \/ r = "absent" /\ s = "claimed"
  \/ r = "claimed" /\ s = "sending"
  \/ /\ r \in {"claimed", "sending"} /\ s \in {"verified", "unknown", "refused"}
     /\ s = "verified" => r = "sending" /\ wire[a] = "done"
     /\ s = "refused" => wire[a] = "none"

(* A legal move of one record with the others unchanged is a step of the ledger. *)
LEMMA LedgerMove ==
  ASSUME NEW a \in Attempts, UNCHANGED wire,
         record \in [Attempts -> Ledger!Records], record' \in [Attempts -> Ledger!Records],
         \A b \in Attempts \ {a} : record'[b] = record[b],
         Goes(a, record[a], record'[a])
  PROVE  LedgerStep
<1> DEFINE r == record[a]
           s == record'[a]
<1>1. record' = [record EXCEPT ![a] = s]
  OBVIOUS
<1>2. CASE s = r
  <2>1. record' = record
    BY <1>2
  <2> QED
    BY <2>1 DEF LedgerStep, Ledger!vars
<1>3. CASE r = "absent" /\ s = "claimed"
  BY <1>1, <1>3 DEF LedgerStep, Ledger!Next, Ledger!Claim, Slots
<1>4. CASE r = "claimed" /\ s = "sending"
  BY <1>1, <1>4 DEF LedgerStep, Ledger!Next, Ledger!Mark, Slots
<1>5. CASE /\ r \in {"claimed", "sending"} /\ s \in {"verified", "unknown", "refused"}
           /\ s = "verified" => r = "sending" /\ wire[a] = "done"
           /\ s = "refused" => wire[a] = "none"
  <2>1. Ledger!Settle(a, s)
    BY <1>1, <1>5 DEF Ledger!Settle, Ledger!Open
  <2> QED
    BY <1>5, <2>1 DEF LedgerStep, Ledger!Next, Slots
<1> QED
  BY <1>2, <1>3, <1>4, <1>5 DEF Goes

(* The records are those of the ledger, before and after.                *)
LEMMA RecordsTyped ==
  ASSUME IndInv, IndInv'
  PROVE  record \in [Attempts -> Ledger!Records] /\ record' \in [Attempts -> Ledger!Records]
<1>1. \A a \in Attempts : record[a] \in Ledger!Records /\ record'[a] \in Ledger!Records
  BY RecordSays DEF Says, Ledger!Records
<1> QED
  BY <1>1 DEF record

(* A step that changes at most the directory of a.                         *)
LEMMA DirectoryMove ==
  ASSUME IndInv, IndInv', NEW a \in Attempts, UNCHANGED wire,
         \A b \in Attempts \ {a} : disk'[b] = disk[b],
         Goes(a, Says(disk[a]), Says(disk'[a]))
  PROVE  LedgerStep
<1>1. /\ \A b \in Attempts \ {a} : record'[b] = record[b]
      /\ record[a] = Says(disk[a]) /\ record'[a] = Says(disk'[a])
  BY RecordSays
<1> QED
  BY <1>1, RecordsTyped, LedgerMove

(* Where neither directories nor Telegram change the ledger stutters.    *)
LEMMA NoMove ==
  ASSUME UNCHANGED <<disk, wire>>
  PROVE  LedgerStep
BY DEF LedgerStep, Ledger!vars, record

(* One file is written: the record goes on, or stays.                      *)
LEMMA FileMove ==
  ASSUME IndInv, NEW a \in Attempts, NEW f \in {"plan", "sending", "terminal"}, NEW v,
         pc[a] = (IF f = "plan" THEN "planning" ELSE IF f = "sending" THEN "marking" ELSE "settling"),
         v \in {"none", "torn"} \/ (IF f = "terminal" THEN v = intent[a] ELSE v = "whole")
  PROVE  Goes(a, Says(disk[a]), Says([disk[a] EXCEPT ![f] = v]))
<1> DEFINE d == disk[a]
           e == [d EXCEPT ![f] = v]
<1>1. DiskOK(a) /\ WireOK(a) /\ d \in Directories /\ intent[a] \in Terminals
  BY PromiseFacts
<1>2. v \in {"none", "torn"} \/ (IF f = "terminal" THEN v \in Terminals ELSE v = "whole")
  BY <1>1
<1>3. /\ e \in Directories /\ e.dir = d.dir
      /\ e.sending = IF f = "sending" THEN v ELSE d.sending
      /\ e.terminal = IF f = "terminal" THEN v ELSE d.terminal
  BY <1>1, <1>2, FileWritten
<1>4. d.dir /\ d.terminal = "none" /\ (f \in {"plan", "sending"} => d.sending = "none")
  BY <1>1 DEF DiskOK
<1> SUFFICES Goes(a, Says(d), Says(e))
  OBVIOUS
<1> HIDE DEF e
<1>5. CASE f = "plan"
  BY <1>3, <1>4, <1>5 DEF Goes, Says
<1>6. CASE f = "sending"
  BY <1>2, <1>3, <1>4, <1>6 DEF Goes, Says
<1>7. CASE f = "terminal"
  <2>1. Says(d) = IF d.sending = "none" THEN "claimed" ELSE "sending"
    BY <1>4 DEF Says
  <2>2. v \in {"none", "torn"} => Says(e) = Says(d)
    BY <1>3, <1>4, <1>7 DEF Says
  <2>3. v \in Terminals => Says(e) = IF v = "failed_terminal" THEN "refused" ELSE v
    BY <1>3, <1>4, <1>7 DEF Says, Terminals
  <2>4. v = "verified" /\ v = intent[a] => wire[a] = "done" /\ d.sending # "none"
    BY <1>1, <1>7 DEF WireOK
  <2>5. v = "failed_terminal" /\ v = intent[a] => wire[a] = "none"
    BY <1>1, <1>7 DEF WireOK
  <2>6. v \in {"none", "torn"} \/ (v = intent[a] /\ v \in Terminals)
    BY <1>1, <1>7
  <2>7. CASE v \in {"none", "torn"}
    BY <2>2, <2>7 DEF Goes
  <2>8. CASE v = intent[a] /\ v = "verified"
    BY <2>1, <2>3, <2>4, <2>8 DEF Goes, Terminals
  <2>9. CASE v = intent[a] /\ v = "failed_terminal"
    BY <2>1, <2>3, <2>5, <2>9 DEF Goes, Terminals
  <2>10. CASE v = intent[a] /\ v = "unknown"
    BY <2>1, <2>3, <2>10 DEF Goes, Terminals
  <2> QED
    BY <2>6, <2>7, <2>8, <2>9, <2>10 DEF Terminals
<1> QED
  BY <1>5, <1>6, <1>7

(* Every action of a delivery is a move of its record or a stutter.      *)
LEMMA DeliverIsALedgerStep ==
  ASSUME IndInv, IndInv', NEW a \in Attempts, Deliver(a)
  PROVE  LedgerStep
<1>1. CASE \/ send(a) \/ reply(a) \/ refuse(a) \/ parseAck(a) \/ readExact(a)
           \/ awaitSend(a) \/ awaitRead(a) \/ close(a)
  <2>1. UNCHANGED <<disk, wire>>
    BY <1>1 DEF send, reply, refuse, parseAck, readExact, awaitSend, awaitRead, close
  <2> QED
    BY <2>1, NoMove
<1>2. CASE reserve(a)
  <2>1. CASE UNCHANGED disk
    BY <1>2, <2>1, NoMove DEF reserve
  <2>2. CASE ~disk[a].dir /\ file(a, "dir", TRUE)
    <3>1. disk[a] = Absent /\ disk \in [Attempts -> Directories]
      BY <2>2, PromiseFacts DEF DiskOK, IndInv, TypeOK, Directories
    <3>2. /\ \A b \in Attempts \ {a} : disk'[b] = disk[b]
          /\ disk'[a] = [Absent EXCEPT !["dir"] = TRUE]
      BY <2>2, <3>1 DEF file
    <3>3. Says(disk[a]) = "absent" /\ Says(disk'[a]) = "claimed"
      BY <3>1, <3>2 DEF Says, Absent
    <3> QED
      BY <1>2, <3>2, <3>3, DirectoryMove DEF reserve, Goes
  <2> QED
    BY <1>2, <2>1, <2>2 DEF reserve
<1>3. CASE writePlan(a) \/ writeSending(a) \/ writeTerminal(a)
  <2>1. PICK f \in {"plan", "sending", "terminal"}, v \in {"none", "torn", "whole", intent[a]} :
          /\ file(a, f, v) /\ UNCHANGED wire
          /\ pc[a] = (IF f = "plan" THEN "planning" ELSE IF f = "sending" THEN "marking" ELSE "settling")
          /\ v \in {"none", "torn"} \/ (IF f = "terminal" THEN v = intent[a] ELSE v = "whole")
    <3>1. CASE writePlan(a)
      BY <3>1 DEF writePlan, leaves
    <3>2. CASE writeSending(a)
      BY <3>2 DEF writeSending, leaves
    <3>3. CASE writeTerminal(a)
      BY <3>3 DEF writeTerminal, leaves
    <3> QED
      BY <1>3, <3>1, <3>2, <3>3
  <2>2. Goes(a, Says(disk[a]), Says([disk[a] EXCEPT ![f] = v]))
    BY <2>1, FileMove
  <2>3. /\ \A b \in Attempts \ {a} : disk'[b] = disk[b]
        /\ disk'[a] = [disk[a] EXCEPT ![f] = v]
    BY <2>1 DEF file, IndInv, TypeOK
  <2> QED
    BY <2>1, <2>2, <2>3, DirectoryMove
<1>4. CASE sendOnce(a)
  <2>1. CASE UNCHANGED wire
    BY <1>4, <2>1, NoMove DEF sendOnce
  <2>2. CASE wire' = [wire EXCEPT ![a] = "invoked"]
    <3>1. pc[a] = "waiting" /\ wire[a] = "none" /\ DiskOK(a)
      BY <1>4, SendersAreAwaited, PromiseFacts
    <3>2. record[a] = "sending"
      BY <3>1, RecordSays DEF DiskOK, Says
    <3>3. record' = record
      BY <1>4 DEF sendOnce, record
    <3> QED
      BY <2>2, <3>1, <3>2, <3>3 DEF LedgerStep, Ledger!Next, Ledger!Invoke, Slots
  <2> QED
    BY <1>4, <2>1, <2>2 DEF sendOnce
<1>5. CASE Happen(a)
  <2>1. record' = record
    BY <1>5 DEF Happen, record
  <2> QED
    BY <1>5, <2>1 DEF Happen, LedgerStep, Ledger!Next, Ledger!Happen, Slots
<1> QED
  BY <1>1, <1>2, <1>3, <1>4, <1>5 DEF Deliver

(* A crash tears the file of at most the one attempt that is engaged.      *)
LEMMA CrashIsALedgerStep ==
  ASSUME IndInv, IndInv', Crash
  PROVE  LedgerStep
<1>1. PICK left \in Files :
        disk' = [a \in Attempts |->
            IF pc[a] \notin DOMAIN Writing THEN disk[a]
            ELSE [disk[a] EXCEPT ![Writing[pc[a]]] =
                     IF left = "whole" /\ pc[a] = "settling" THEN intent[a] ELSE left]]
  BY DEF Crash
<1>2. UNCHANGED wire
  BY DEF Crash
<1>3. CASE \A a \in Attempts : pc[a] \notin DOMAIN Writing
  <2>1. \A a \in Attempts : disk'[a] = disk[a]
    BY <1>1, <1>3
  <2>2. disk' = disk
    BY <1>1, <2>1 DEF IndInv, TypeOK
  <2> QED
    BY <1>2, <2>2, NoMove
<1>4. ASSUME NEW a \in Attempts, pc[a] \in DOMAIN Writing
      PROVE  LedgerStep
  <2> DEFINE f == Writing[pc[a]]
             v == IF left = "whole" /\ pc[a] = "settling" THEN intent[a] ELSE left
  <2>1. \A b \in Attempts \ {a} : pc[b] \notin DOMAIN Writing
    BY <1>4 DEF IndInv, OneEngaged, Engaged, Writing
  <2>2. \A b \in Attempts \ {a} : disk'[b] = disk[b]
    BY <1>1, <2>1
  <2>3. disk'[a] = [disk[a] EXCEPT ![f] = v]
    BY <1>1, <1>4
  <2>4. /\ f \in {"plan", "sending", "terminal"}
        /\ pc[a] = (IF f = "plan" THEN "planning" ELSE IF f = "sending" THEN "marking" ELSE "settling")
        /\ (f = "terminal") <=> (pc[a] = "settling")
    BY <1>4 DEF Writing
  <2>5. v \in {"none", "torn"} \/ (IF f = "terminal" THEN v = intent[a] ELSE v = "whole")
    BY <2>4 DEF Files
  <2> HIDE DEF f, v
  <2>6. Goes(a, Says(disk[a]), Says([disk[a] EXCEPT ![f] = v]))
    BY <2>4, <2>5, FileMove
  <2> QED
    BY <1>2, <2>2, <2>3, <2>6, DirectoryMove
<1> QED
  BY <1>3, <1>4

(* Replies, images and files implement the one-shot ledger: an attempt is  *)
(* claimed once, Telegram is asked at most once and only under the durable *)
(* sending mark, and what is settled is true.  Every other step stutters.  *)
THEOREM ImplementsLedger ==
  ASSUME KindsAssumption, SlotsAssumption
  PROVE  Spec => LedgerStart /\ [][LedgerStep]_vars /\ Ledger!Spec
<1>1. Init => Ledger!Init
  BY DEF Init, Ledger!Init, Slots, record, Absent
<1>2. IndInv /\ IndInv' /\ [Next]_vars => LedgerStep
  <2> SUFFICES ASSUME IndInv, IndInv', [Next]_vars PROVE LedgerStep
    OBVIOUS
  <2>1. CASE UNCHANGED vars
    BY <2>1, NoMove DEF vars
  <2>2. CASE \E a \in Attempts : Deliver(a)
    BY <2>2, DeliverIsALedgerStep
  <2>3. CASE (\E m \in Messages : begin(m)) \/ finish \/ Release \/ Abort \/ KillSwitch \/ Deselect
    <3>1. UNCHANGED <<disk, wire>>
      BY <2>3 DEF begin, finish, Release, Abort, KillSwitch, Deselect
    <3> QED
      BY <3>1, NoMove
  <2>4. CASE Crash
    BY <2>4, CrashIsALedgerStep
  <2> QED
    BY <2>1, <2>2, <2>3, <2>4 DEF Next
<1>3. LedgerStep => [Ledger!Next]_(Ledger!vars)
  BY DEF LedgerStep
<1> QED
  BY <1>1, <1>2, <1>3, IndInvariant, PTL DEF Spec, Ledger!Spec, LedgerStart

-----------------------------------------------------------------------------
(* The order of the files of a turn                                        *)

(* Every file operation of m before the n-th is settled or was never       *)
(* claimed.                                                                *)
Cleared(m, n) ==
  \A a \in Attempts : a.kind = "file" /\ a.message = m /\ a.slot < n => ~disk[a].dir \/ Settled(a)

(* The file that is being sent found its predecessors cleared, whatever    *)
(* has been stopped since; once it is done, it is cleared as well or       *)
(* nothing is sent any more in this turn.                                  *)
SlotsOK ==
  /\ \A b \in Attempts : b.kind = "file" /\ pc[b] # "idle" => Cleared(b.message, b.slot)
  /\ \A b \in Attempts : b.kind = "file" /\ pc[b] = "closing" =>
       ~disk[b].dir \/ Settled(b) \/ blocked \/ stopped
  /\ turn.phase = "tools" /\ Busy = {} => Cleared(turn.message, turn.slots) \/ blocked \/ stopped

(* Earlier files of a message stay settled while their directories do not change. *)
LEMMA ClearedKept ==
  ASSUME NEW m, NEW n, Cleared(m, n),
         \A a \in Attempts : a.kind = "file" /\ a.message = m /\ a.slot < n =>
           disk'[a] = disk[a]
  PROVE  Cleared(m, n)'
BY DEF Cleared, Settled

(* The steps of a call that is under way: other calls are idle, and it     *)
(* does not close uncleared unless the turn is stopped or blocked.         *)
LEMMA CallKeepsSlots ==
  ASSUME IndInv, SlotsOK, NEW a \in Attempts, pc[a] # "idle", pc'[a] # "idle",
         \A b \in Attempts \ {a} : disk'[b] = disk[b] /\ pc'[b] = pc[b],
         UNCHANGED <<turn, aborted, killed>>,
         a.kind = "file" /\ pc'[a] = "closing" =>
           (~disk[a].dir \/ Settled(a) \/ blocked)' \/ stopped
  PROVE  SlotsOK'
<1>1. /\ \A b \in Attempts : pc'[b] # "idle" => b = a
      /\ a \in Busy'
  BY DEF IndInv, OneEngaged, Engaged, Busy
<1>2. a.kind = "file" => Cleared(a.message, a.slot)'
  <2> SUFFICES ASSUME a.kind = "file" PROVE Cleared(a.message, a.slot)'
    OBVIOUS
  <2>1. Cleared(a.message, a.slot)
    BY DEF SlotsOK
  <2>2. a.slot \in Nat
    BY DEF Attempts
  <2>3. \A b \in Attempts : b.slot < a.slot => disk'[b] = disk[b]
    BY <2>2
  <2> QED
    BY <2>1, <2>3, ClearedKept
<1>3. stopped' = stopped
  BY DEF stopped
<1> QED
  BY <1>1, <1>2, <1>3 DEF SlotsOK

(* No action of a delivery opens a settled slot again.                   *)
LEMMA DeliverKeepsSlots ==
  ASSUME IndInv, SlotsOK, SlotsAssumption, NEW a \in Attempts, Deliver(a)
  PROVE  SlotsOK'
<1>1. CASE sendOnce(a) \/ refuse(a) \/ parseAck(a) \/ readExact(a) \/ Happen(a)
  <2>1. UNCHANGED <<disk, pc, turn, aborted, killed, blocked>>
    BY <1>1 DEF sendOnce, refuse, parseAck, readExact, Happen
  <2> QED
    BY <2>1 DEF SlotsOK, Cleared, Settled, Busy, stopped
<1>2. CASE send(a) \/ reply(a)
  <2>1. /\ \A b \in Attempts : pc[b] = "idle"
        /\ pc' = [pc EXCEPT ![a] = "opening"] /\ UNCHANGED disk
    BY <1>2 DEF send, reply, Busy, step
  <2>2. /\ \A b \in Attempts : pc'[b] # "idle" => b = a
        /\ pc'[a] = "opening" /\ a \in Busy'
    BY <2>1 DEF IndInv, TypeOK, Busy
  <2>3. a.kind = "file" => Cleared(a.message, a.slot)'
    <3>1. a.kind = "file" => Cleared(a.message, a.slot)
      BY <1>2 DEF send, reply, SlotsOK
    <3> QED
      BY <2>1, <3>1 DEF Cleared, Settled
  <2> QED
    BY <2>2, <2>3 DEF SlotsOK
<1>3. CASE close(a)
  <2>1. /\ pc[a] = "closing" /\ pc' = [pc EXCEPT ![a] = "idle"]
        /\ UNCHANGED <<disk, turn, aborted, killed, blocked>>
    BY <1>3 DEF close, step
  <2>2. \A b \in Attempts : pc'[b] = "idle"
    BY <2>1 DEF IndInv, OneEngaged, Engaged, TypeOK
  <2>3. turn.phase = "tools" => Cleared(turn.message, turn.slots) \/ blocked \/ stopped
    <3> SUFFICES ASSUME turn.phase = "tools", ~blocked, ~stopped
                 PROVE  Cleared(turn.message, turn.slots)
      OBVIOUS
    <3>1. a.kind = "file" /\ turn.message = a.message /\ turn.slots = a.slot + 1
      BY <2>1 DEF IndInv, OneEngaged, Engaged
    <3>2. Cleared(a.message, a.slot) /\ (~disk[a].dir \/ Settled(a))
      BY <2>1, <3>1 DEF SlotsOK
    <3>3. ASSUME NEW b \in Attempts, b.kind = "file", b.message = a.message, b.slot < a.slot + 1
          PROVE  ~disk[b].dir \/ Settled(b)
      <4>1. a.slot \in Nat /\ b.slot \in Nat
        BY DEF Attempts, SlotsAssumption
      <4>2. b.slot < a.slot \/ b.slot = a.slot
        BY <3>3, <4>1
      <4>3. b.slot = a.slot => b = a
        BY <3>1, <3>3 DEF Attempts
      <4> QED
        BY <3>2, <3>3, <4>2, <4>3 DEF Cleared
    <3> QED
      BY <3>1, <3>3 DEF Cleared
  <2> QED
    BY <2>1, <2>2, <2>3 DEF SlotsOK, Cleared, Settled, stopped
<1>4. CASE \/ reserve(a) \/ writePlan(a) \/ writeSending(a) \/ writeTerminal(a)
           \/ awaitSend(a) \/ awaitRead(a)
  <2>1. /\ pc[a] # "idle" /\ UNCHANGED <<turn, aborted, killed>>
        /\ \A b \in Attempts \ {a} : disk'[b] = disk[b] /\ pc'[b] = pc[b]
        /\ pc'[a] # "idle"
    <3>1. CASE awaitSend(a) \/ awaitRead(a)
      BY <3>1 DEF awaitSend, awaitRead, goOn, settle, step, IndInv, TypeOK
    <3>2. CASE reserve(a)
      BY <3>2 DEF reserve, file, step, IndInv, TypeOK
    <3>3. CASE writePlan(a) \/ writeSending(a) \/ writeTerminal(a)
      <4>1. PICK f \in {"plan", "sending", "terminal"}, v \in {"none", "torn", "whole", intent[a]},
                 p \in {"settling", "marking", "waiting", "closing"} :
              file(a, f, v) /\ step(a, p)
        BY <3>3 DEF writePlan, writeSending, writeTerminal, leaves, goOn, settle
      <4>2. pc[a] # "idle" /\ UNCHANGED <<turn, aborted, killed>>
        BY <3>3 DEF writePlan, writeSending, writeTerminal
      <4> QED
        BY <4>1, <4>2 DEF file, step, IndInv, TypeOK
    <3> QED
      BY <1>4, <3>1, <3>2, <3>3
  <2>2. a.kind = "file" /\ pc'[a] = "closing" =>
          (~disk[a].dir \/ Settled(a) \/ blocked)' \/ stopped
    <3> SUFFICES ASSUME a.kind = "file", pc'[a] = "closing", ~blocked', ~stopped
                 PROVE  (Settled(a))'
      BY DEF Settled
    <3>1. \A p \in Stops : step(a, p) => p = "closing"
      BY DEF step, IndInv, TypeOK
    <3>2. ~poison(a)
      BY DEF poison
    <3>3. "planning" \in Stops /\ "marking" \in Stops /\ "waiting" \in Stops
          /\ "settling" \in Stops /\ "reading" \in Stops
      BY DEF Stops, Writing
    <3>4. ~reserve(a) /\ ~writePlan(a) /\ ~writeSending(a) /\ ~awaitSend(a) /\ ~awaitRead(a)
      BY <3>1, <3>2, <3>3, Zenon DEF reserve, writePlan, writeSending, awaitSend, awaitRead, goOn, settle
    <3>5. file(a, "terminal", intent[a]) /\ intent[a] # "unknown" /\ intent[a] \in Terminals
      BY <1>4, <3>2, <3>4, PromiseFacts DEF writeTerminal
    <3>6. disk'[a] = [disk[a] EXCEPT !["terminal"] = intent[a]] /\ disk[a] \in Directories
      BY <3>5, PromiseFacts DEF file, IndInv, TypeOK
    <3> QED
      BY <3>5, <3>6 DEF Settled, Directories, Terminals
  <2> QED
    BY <2>1, <2>2, CallKeepsSlots
<1> QED
  BY <1>1, <1>2, <1>3, <1>4 DEF Deliver

(* Every step keeps the order of the files.                              *)
LEMMA NextKeepsSlots ==
  ASSUME IndInv, SlotsOK, SlotsAssumption, [Next]_vars
  PROVE  SlotsOK'
<1>1. CASE UNCHANGED vars
  BY <1>1 DEF vars, SlotsOK, Cleared, Settled, Busy, stopped
<1>2. CASE \E a \in Attempts : Deliver(a)
  BY <1>2, DeliverKeepsSlots
<1>3. ASSUME NEW m \in Messages, begin(m) PROVE SlotsOK'
  <2>1. /\ \A a \in Attempts : pc'[a] = "idle"
        /\ turn'.slots = 0
    BY <1>3 DEF begin, Busy
  <2>2. \A a \in Attempts : ~(a.slot < 0)
    BY DEF Attempts, SlotsAssumption
  <2> QED
    BY <2>1, <2>2 DEF SlotsOK, Cleared
<1>4. CASE finish
  <2>1. UNCHANGED <<disk, pc, killed, blocked>>
    BY <1>4 DEF finish
  <2>2. CASE Busy # {} /\ aborted' = "turn"
    BY <2>1, <2>2 DEF SlotsOK, Cleared, Settled, Busy, stopped
  <2>3. CASE Busy = {} /\ turn' = [turn EXCEPT !.phase = "reply"]
    <3>1. (\A a \in Attempts : pc'[a] = "idle") /\ turn'.phase = "reply"
      BY <2>1, <2>3 DEF Busy, IndInv, TypeOK
    <3> QED
      BY <3>1 DEF SlotsOK
  <2> QED
    BY <1>4, <2>2, <2>3 DEF finish
<1>5. CASE Release \/ Crash
  <2>1. (\A a \in Attempts : pc'[a] = "idle") /\ turn'.phase # "tools"
    BY <1>5 DEF Release, Crash, Busy, NoTurn
  <2> QED
    BY <2>1 DEF SlotsOK
<1>6. CASE Abort \/ KillSwitch \/ Deselect
  <2>1. UNCHANGED <<disk, pc, turn, blocked>> /\ (stopped => stopped')
    BY <1>6 DEF Abort, KillSwitch, Deselect, stopped
  <2> QED
    BY <2>1 DEF SlotsOK, Cleared, Settled, Busy
<1> QED
  BY <1>1, <1>2, <1>3, <1>4, <1>5, <1>6 DEF Next

(* A file is dispatched only when every earlier file operation of its      *)
(* message is settled or was never claimed, although a restart counts the  *)
(* operations from 0 again and although the transport, on its way, does    *)
(* not look at the kill switch.                                            *)
THEOREM FilesGoInOrder ==
  ASSUME KindsAssumption, SlotsAssumption
  PROVE  Spec => [][NothingAfterUncertain]_vars
<1>1. Init => SlotsOK
  BY DEF Init, SlotsOK, Busy, NoTurn
<1>2. IndInv /\ SlotsOK /\ [Next]_vars => SlotsOK'
  BY NextKeepsSlots
<1>3. IndInv /\ SlotsOK /\ [Next]_vars => NothingAfterUncertain
  <2> SUFFICES ASSUME IndInv, SlotsOK, [Next]_vars, NEW a \in Attempts, NEW b \in Attempts,
                      a.kind = "file", b.kind = "file", a.message = b.message, a.slot < b.slot,
                      wire[b] = "none", wire'[b] = "invoked"
               PROVE  ~disk[a].dir \/ Settled(a)
    BY DEF NothingAfterUncertain
  <2>1. PICK c \in Attempts : sendOnce(c) \/ Happen(c)
    <3>1. ~UNCHANGED wire
      OBVIOUS
    <3>2. PICK c \in Attempts : Deliver(c)
      BY <3>1, Zenon DEF Next, vars, begin, finish, Release, Abort, KillSwitch, Deselect, Crash
    <3> QED
      BY <3>1, <3>2, Zenon DEF Deliver, send, reply, reserve, writePlan, writeSending, writeTerminal,
                               refuse, parseAck, readExact, awaitSend, awaitRead, close
  <2>2. sendOnce(c) /\ b = c
    <3>1. wire \in [Attempts -> {"none", "invoked", "done"}]
      BY DEF IndInv, TypeOK
    <3> QED
      BY <2>1, <3>1 DEF sendOnce, Happen
  <2>3. pc[b] = "waiting"
    BY <2>2, SendersAreAwaited
  <2> QED
    BY <2>3 DEF SlotsOK, Cleared
<1> QED
  BY <1>1, <1>2, <1>3, IndInvariant, PTL DEF Spec
=============================================================================
