--------------------------- MODULE CommunityRows ---------------------------
(***************************************************************************)
(* What the observer of the bound community keeps on disk: how far the     *)
(* source has been read, the rows retained, and how far they have been     *)
(* processed.  Pages are read from the newest message downwards while the  *)
(* source goes on changing; a cycle ends at the watermark of the one       *)
(* before it.  The store holds few rows and pauses a cycle when it is full *)
(* of rows nobody has processed.                                           *)
(***************************************************************************)
EXTENDS Naturals, FiniteSets, SequencesExt

CONSTANTS N,            \* messages the source will ever hold
          Service,      \* the ones without an item: service or empty messages
          PageLimit,    \* rows of a page
          MaxRecent,    \* rows the store retains: fewer than a page, when they are large
          MaxCrashes, MaxDeletes

Messages == 1..N

RowsAssumption == /\ {N, PageLimit, MaxRecent} \subseteq Nat \ {0}
                  /\ MaxCrashes \in Nat /\ MaxDeletes \in Nat
                  /\ Service \subseteq Messages

VARIABLES
    top,        \* external: the newest message of the source
    gone,       \* external: messages deleted from it
    disk,       \* the encrypted snapshot
    pc,         \* the observer: down, idle, with a page, assessing, or broken
    page,       \* the page it holds
    seen,       \* messages a commit has passed
    done,       \* messages whose row has been processed
    assessed,   \* assessed[q]: model assessments begun over row q
    crashes

vars == <<top, gone, disk, pc, page, seen, done, assessed, crashes>>

NoCycle == [kind |-> "none", prior |-> 0, high |-> 0, before |-> 0, left |-> 0]
NoPage == [before |-> 0, ids |-> <<>>, raw |-> 0]
Rows == 1..2 * N      \* bound: rows ever admitted
Classes == {"attempt-reserved", "skipped", "judged"}

\* A watermark or a cursor that is null is 0.
Init ==
    /\ top \in 0..N /\ gone = {}
    /\ disk = [next |-> 0, initialized |-> FALSE, settled |-> 0, cycle |-> NoCycle,
               through |-> 0, recent |-> {}, evicted |-> 0, gaps |-> 0, paused |-> FALSE,
               totals |-> [c \in Classes |-> 0],
               last |-> [from |-> 0, through |-> 0, disposition |-> "none"]]
    /\ pc = "idle" /\ page = NoPage /\ seen = {} /\ done = {}
    /\ assessed = [q \in Rows |-> 0] /\ crashes = 0

pending(s) == {r \in s.recent : r.seq > s.through}

-----------------------------------------------------------------------------
(* Writing the snapshot.                                                   *)

\* writeSnapshot renames a new file over the old one and reads it back.  An
\* error on the way leaves either file and breaks the store until it is opened
\* again.
persist(s, then) ==
    \/ disk' = s /\ pc' = then /\ UNCHANGED crashes
    \/ /\ crashes < MaxCrashes /\ crashes' = crashes + 1
       /\ disk' \in {disk, s} /\ pc' = "broken"

-----------------------------------------------------------------------------
(* Reading.                                                                *)

Visible == (1..top) \ gone

\* The newest rows before the cursor; a page stops early at its byte budget,
\* but holds one row at least.
readHistory ==
    /\ pc = "idle" /\ pending(disk) = {} /\ disk.last.disposition # "attempt-reserved"
    /\ LET before == disk.cycle.before
           rows == {m \in Visible : before = 0 \/ m < before}
           raw == {m \in rows : Cardinality({r \in rows : r > m}) < PageLimit}
           size == Cardinality(raw)
       IN  \E covered \in 0..size :
               /\ size > 0 => covered > 0
               /\ page' = [before |-> before, raw |-> size,
                           ids |-> SubSeq(SetToSortSeq(raw, >), 1, covered)]
    /\ pc' = "page"
    /\ UNCHANGED <<top, gone, disk, seen, done, assessed, crashes>>

highest(p) == IF p.ids = <<>> THEN 0 ELSE Head(p.ids)

openCycleLate(s, p) ==
    IF s.cycle # NoCycle THEN s.cycle
    ELSE IF ~s.initialized
         THEN [kind |-> "bootstrap", prior |-> 0, high |-> highest(p), before |-> 0, left |-> p.raw]
         ELSE IF highest(p) > s.settled + 1
              THEN [kind |-> "incremental", prior |-> s.settled, high |-> highest(p), before |-> 0, left |-> 0]
              ELSE NoCycle

\* A cycle opens when the source has something above the settled watermark.
openCycle(s, p) ==
    IF s.cycle # NoCycle THEN s.cycle
    ELSE IF ~s.initialized
         THEN [kind |-> "bootstrap", prior |-> 0, high |-> highest(p), before |-> 0, left |-> p.raw]
         ELSE IF highest(p) > s.settled
              THEN [kind |-> "incremental", prior |-> s.settled, high |-> highest(p), before |-> 0, left |-> 0]
              ELSE NoCycle

\* Only a row that was processed is evicted, the oldest message first.
evictable(s) == {r \in s.recent : r.seq <= s.through}
admit(s, m) ==
    LET oldest == CHOOSE r \in evictable(s) : \A o \in evictable(s) : r.id <= o.id
        full == Cardinality(s.recent) >= MaxRecent
    IN  [s EXCEPT !.next = @ + 1,
                  !.recent = (IF full THEN @ \ {oldest} ELSE @) \cup {[id |-> m, seq |-> s.next + 1]},
                  !.evicted = IF full THEN 1 ELSE @]

mustAdmit(s, m) == m \notin Service /\ \A r \in s.recent : r.id # m

\* Only a bootstrap counts its rows: it reads what the first page found.
cursorAt(c, m) == [c EXCEPT !.before = m, !.left = IF c.kind = "bootstrap" THEN @ - 1 ELSE @]

passOver(acc, m) == [acc EXCEPT !.s.cycle = cursorAt(acc.s.cycle, m), !.stop = "blocked", !.passed = @ \cup {m}]
\* The store is full: the cursor stays before the row.
pause(acc, m) == [acc EXCEPT !.stop = "blocked"]

\* One row of a page; the cycle may end before it.
consume(acc, m) ==
    LET c == acc.s.cycle
        cannot == Cardinality(acc.s.recent) >= MaxRecent /\ evictable(acc.s) = {}
        s == IF mustAdmit(acc.s, m) THEN admit(acc.s, m) ELSE acc.s
        end == IF c.kind = "bootstrap" THEN c.left = 0 ELSE m <= c.prior
    IN  IF acc.stop # "no" THEN acc
        ELSE IF end THEN [acc EXCEPT !.stop = "complete"]
        ELSE IF mustAdmit(acc.s, m) /\ cannot THEN pause(acc, m)
        ELSE [s |-> [s EXCEPT !.cycle = cursorAt(c, m)],
              stop |-> IF c.kind = "bootstrap" /\ c.left = 1 THEN "complete" ELSE "no",
              passed |-> acc.passed \cup {m}]

\* The source has nothing more below the cursor: what should be there is gone.
exhausted(c, p) == p.raw = 0 \/ (c.kind = "bootstrap" /\ c.left = 0)
short(c, p) == p.raw = 0 /\ (IF c.kind = "bootstrap" THEN c.left > 0 ELSE c.prior > 0)

commitPage ==
    /\ pc = "page" /\ page' = NoPage
    /\ LET c == openCycle(disk, page)
           started == [disk EXCEPT !.cycle = c, !.gaps = IF c # NoCycle /\ short(c, page) THEN 1 ELSE @]
           read == FoldLeft(consume, [s |-> started, stop |-> "no", passed |-> {}], page.ids)
           complete == exhausted(c, page) \/ read.stop = "complete"
           next == IF c = NoCycle THEN disk
                   ELSE IF complete
                        THEN [read.s EXCEPT !.initialized = TRUE, !.settled = c.high,
                                            !.cycle = NoCycle, !.paused = FALSE]
                        ELSE [read.s EXCEPT !.paused = (read.stop = "blocked")]
       IN  /\ next.next <= 2 * N
           /\ persist(next, "idle")
           /\ seen' = (IF c = NoCycle \/ disk' # next THEN seen ELSE seen \cup read.passed)
    /\ UNCHANGED <<top, gone, done, assessed>>

-----------------------------------------------------------------------------
(* Processing.                                                             *)

advance(s, through, class) ==
    [s EXCEPT !.through = through, !.paused = FALSE,
              !.totals[class] = @ + (through - s.through),
              !.last = [from |-> s.through + 1, through |-> through, disposition |-> class]]

resolveKeepingTotal(s) == [s EXCEPT !.totals["judged"] = @ + (s.last.through - s.last.from + 1),
                                    !.paused = FALSE, !.last.disposition = "judged"]
\* A reserved attempt becomes silent, an alert or unknown.
resolve(s) ==
    LET amount == s.last.through - s.last.from + 1
    IN  [s EXCEPT !.totals["attempt-reserved"] = @ - amount, !.totals["judged"] = @ + amount,
                  !.paused = FALSE, !.last.disposition = "judged"]

Batches == {q \in (disk.through + 1)..disk.next : q - disk.through <= PageLimit}
messagesOf(qs) == {r.id : r \in {x \in disk.recent : x.seq \in qs}}
Taken(q) == (disk.through + 1)..q

\* The policy is off, the outbox full or the interval not over: the whole
\* batch is passed over; a row that does not fit is passed over alone.
markSkipped ==
    /\ pc = "idle" /\ disk.last.disposition # "attempt-reserved"
    /\ \E q \in Batches :
           /\ persist(advance(disk, q, "skipped"), "idle")
           /\ done' = (IF disk' = disk THEN done ELSE done \cup messagesOf(Taken(q)))
    /\ UNCHANGED <<top, gone, page, seen, assessed>>

\* A crash after the reservation, or a final write that failed, consumes it.
coldReservation(s) == s.last.disposition = "attempt-reserved"
markReserved ==
    /\ pc = "idle" /\ ~coldReservation(disk)
    /\ \E q \in Batches :
           /\ persist(advance(disk, q, "attempt-reserved"), "assess")
           /\ done' = (IF disk' = disk THEN done ELSE done \cup messagesOf(Taken(q)))
    /\ UNCHANGED <<top, gone, page, seen, assessed>>

assess ==
    /\ pc = "assess" /\ pc' = "assessing"
    /\ assessed' = [q \in Rows |-> IF q \in disk.last.from..disk.last.through
                                   THEN assessed[q] + 1 ELSE assessed[q]]
    /\ UNCHANGED <<top, gone, disk, page, seen, done, crashes>>

\* The decision, its failure, or a revocation seen before the assessment.
finish ==
    /\ pc \in {"assess", "assessing"}
    /\ persist(resolve(disk), "idle")
    /\ UNCHANGED <<top, gone, page, seen, done, assessed>>

resolveCold ==
    /\ pc = "idle" /\ coldReservation(disk)
    /\ persist(resolve(disk), "idle")
    /\ UNCHANGED <<top, gone, page, seen, done, assessed>>

-----------------------------------------------------------------------------
(* The source and the process.                                             *)

Post == /\ top < N /\ top' = top + 1
        /\ UNCHANGED <<gone, disk, pc, page, seen, done, assessed, crashes>>

Delete == /\ Cardinality(gone) < MaxDeletes
          /\ \E m \in Visible : gone' = gone \cup {m}
          /\ UNCHANGED <<top, disk, pc, page, seen, done, assessed, crashes>>

Crash == /\ crashes < MaxCrashes /\ pc # "down"
         /\ crashes' = crashes + 1 /\ pc' = "down" /\ page' = NoPage
         /\ UNCHANGED <<top, gone, disk, seen, done, assessed>>

\* decode: what a snapshot must satisfy for the store to open at all.
decodes(s) ==
    LET waiting == {r.seq : r \in pending(s)}
    IN  /\ s.through <= s.next /\ Cardinality(s.recent) <= MaxRecent
        /\ Cardinality({r.id : r \in s.recent}) = Cardinality(s.recent)
        /\ Cardinality({r.seq : r \in s.recent}) = Cardinality(s.recent)
        /\ \A r \in s.recent : r.seq <= s.next
        /\ waiting = (s.through + 1)..s.next
        /\ s.totals["attempt-reserved"] + s.totals["skipped"] + s.totals["judged"] = s.through
        /\ s.initialized \/ s.settled = 0
        /\ s.cycle.kind = "bootstrap" => ~s.initialized
        /\ s.cycle.kind = "incremental" => s.initialized
        /\ s.paused => s.cycle # NoCycle
        /\ s.last.through <= s.through
        /\ s.last.disposition = "attempt-reserved" =>
               /\ s.last.through = s.through
               /\ s.totals["attempt-reserved"] >= s.last.through - s.last.from + 1

Open == /\ pc \in {"down", "broken"} /\ decodes(disk)
        /\ pc' = "idle" /\ page' = NoPage
        /\ UNCHANGED <<top, gone, disk, seen, done, assessed, crashes>>

Observer == \/ readHistory \/ commitPage \/ markSkipped \/ markReserved
            \/ assess \/ finish \/ resolveCold \/ Open
Next == Observer \/ Post \/ Delete \/ Crash

Spec == Init /\ [][Next]_vars

-----------------------------------------------------------------------------
(* Properties.                                                             *)

TypeOK ==
    /\ top \in 0..N /\ gone \subseteq Messages /\ seen \subseteq Messages /\ done \subseteq Messages
    /\ pc \in {"down", "idle", "page", "assess", "assessing", "broken"}
    /\ page.before \in 0..N /\ page.raw \in 0..PageLimit /\ Len(page.ids) <= page.raw
    /\ disk.next \in 0..2 * N /\ disk.recent \subseteq [id : Messages, seq : Rows]
    /\ disk.settled \in 0..N /\ disk.cycle.left \in 0..PageLimit
    /\ assessed \in [Rows -> Nat] /\ crashes \in 0..MaxCrashes

\* Every snapshot that commitPage and markProcessed write is one that decode
\* accepts: no sequence of pages, evictions and dispositions locks the store.
Reopens == decodes(disk)

\* The watermark is honest: between any message that was read and the settled
\* watermark, nothing was jumped over that is still in the source, although
\* pages, posts, deletions and pauses interleave.
NoGap == \A m \in seen : \A k \in Messages : m < k /\ k <= disk.settled => k \in seen \cup gone

\* The cursor never passes a row that is not kept: it has been processed, or
\* its row is still there to be.
PassedIsKept == \A m \in seen \ Service : m \in done \/ \E r \in pending(disk) : r.id = m

\* A row is assessed once, whatever crashes between its reservation and its
\* outcome.
AssessedOnce == \A q \in Rows : assessed[q] <= 1

\* A message above the watermark is eventually processed, or deleted, although
\* the store may be full of unprocessed rows when it is found.
Waiting(m) == disk.initialized /\ disk.settled < m /\ m <= top
CaughtUp(m) == m \in done \cup gone
=============================================================================
