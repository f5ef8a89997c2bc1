---------------------------- MODULE EventCatalog ----------------------------
(***************************************************************************)
(* The catalog of a partitioned event table. The server's flush task       *)
(* registers each file it writes; `store compact` and `store register` are *)
(* other processes over the same directory and database; scans prune files *)
(* by their partition date and by their timestamp statistics. None of the  *)
(* sequences of statements is a transaction.                               *)
(***************************************************************************)
EXTENDS Integers, FiniteSets, FiniteSetsExt

CONSTANTS
    Events,       \* how many events come, in the order of the buffer
    DayOf,        \* the day of each event, never before that of an earlier one
    BatchSize,    \* how many events a flush takes at most
    MaxFiles,     \* bound on files ever written
    MaxFaults,    \* bound on failed statements and dead processes
    MaxCommands   \* bound on compactions and sweeps begun

ASSUME CatalogAssumption ==
    /\ Events \in Nat /\ DayOf \in [1..Events -> Nat \ {0}]
    /\ \A e, g \in 1..Events : e <= g => DayOf[e] <= DayOf[g]
    /\ BatchSize \in Nat

Event == 1..Events
Days == {DayOf[e] : e \in Event}
Writer == {"flush", "sweep", "compact"}
NoDay == 0

VARIABLES
    disk,     \* contents of each file there is: how often it holds each event
    dirOf,    \* the date directory of each file ever written
    rows,     \* table_files, each with its partition and statistics
    total,    \* tables.total_rows
    at,       \* what each writer is at
    spent,    \* what the bounds count, and the row ids given out
    buffer,   \* out: how many events have left it; upto: how many once the flush at
              \* work is through; again (ghost): those a flush wrote and left in it
    health,   \* ghost: "clean", "unlisted" (a sweep is due) or "sullied"
    raced     \* ghost: two writers were at work at once

vars == <<disk, dirOf, rows, total, at, spent, buffer, health, raced>>
data == <<disk, dirOf, rows, total>>

Idle == [pc |-> "idle"]
Others(w) == \E v \in Writer \ {w} : at[v] # Idle
Size(content) == MapThenSumSet(LAMBDA e : content[e], Event)
DaysIn(content) == {DayOf[e] : e \in {x \in Event : content[x] > 0}}
NewFile == Cardinality(DOMAIN dirOf) + 1
Empty == [x \in {} |-> 0]
With(f, x, v) == [y \in DOMAIN f \cup {x} |-> IF y = x THEN v ELSE f[y]]

\* How often some listed files hold an event, and how many rows they list.
Copies(e, listed) == MapThenSumSet(LAMBDA r : disk[r.file][e], listed)
RowCount(listed) == MapThenSumSet(LAMBDA r : r.n, listed)

\* A writer goes on, taking along what it has just read.
MovesOn(w, to) == at' = [at EXCEPT ![w].pc = to]
MovesOnWith(w, field, value, to) == at' = [at EXCEPT ![w] = [With(at[w], field, value) EXCEPT !.pc = to]]
Stops(w) == at' = [at EXCEPT ![w] = Idle]

Init ==
    /\ disk = Empty /\ dirOf = Empty /\ rows = {} /\ total = 0
    /\ at = [w \in Writer |-> Idle]
    /\ spent = [faults |-> 0, commands |-> 0, ids |-> 0]
    /\ buffer = [out |-> 0, upto |-> 0, again |-> {}]
    /\ health = "clean" /\ raced = FALSE

(***************************************************************************)
(* Registration: what the flush does to its file and a sweep to each file  *)
(* it finds. The total is read with the table row, before anything else.   *)
(***************************************************************************)
\* The oldest events of the buffer go into the directory of the first one's day.
\* They stay in the buffer until the file is registered, and what a flush before
\* this one left there is read again.
FlushWrite(upto) ==
    /\ at["flush"] = Idle /\ NewFile <= MaxFiles
    /\ upto <= buffer.out + BatchSize /\ buffer.again \subseteq 1..upto
    /\ disk' = With(disk, NewFile, [e \in Event |-> IF e \in buffer.out + 1..upto THEN 1 ELSE 0])
    /\ dirOf' = With(dirOf, NewFile, DayOf[buffer.out + 1])
    /\ at' = [at EXCEPT !["flush"] = [pc |-> "table", file |-> NewFile, todo |-> {}]]
    /\ buffer' = [buffer EXCEPT !.upto = upto]
    /\ health' = IF at["sweep"] # Idle THEN "sullied" ELSE health
    /\ raced' = (raced \/ Others("flush"))
    /\ UNCHANGED <<rows, total, spent>>

\* A registration that failed is logged only: the batch leaves the buffer all the same.
Dropping == [pc |-> "drop"]

FlushDrop ==
    /\ at["flush"] = Dropping
    /\ at' = [at EXCEPT !["flush"] = Idle]
    /\ buffer' = [buffer EXCEPT !.out = buffer.upto]
    /\ UNCHANGED <<data, spent, health, raced>>

SweepStart ==
    /\ at["sweep"] = Idle /\ spent.commands < MaxCommands
    /\ at' = [at EXCEPT !["sweep"] = [pc |-> "next", todo |-> DOMAIN disk]]
    /\ spent' = [spent EXCEPT !.commands = @ + 1]
    /\ health' = IF Others("sweep") \/ \E r \in rows : r.absolute THEN "sullied" ELSE health
    /\ raced' = (raced \/ Others("sweep"))
    /\ UNCHANGED <<data, buffer>>

SweepNext(f) ==
    /\ at["sweep"].pc = "next" /\ f \in at["sweep"].todo
    /\ at' = [at EXCEPT !["sweep"] = [pc |-> "table", file |-> f, todo |-> @.todo \ {f}]]
    /\ UNCHANGED <<data, spent, buffer, health, raced>>

SweepEnd ==
    /\ at["sweep"].pc = "next" /\ at["sweep"].todo = {}
    /\ at' = [at EXCEPT !["sweep"] = Idle]
    /\ health' = IF health = "unlisted" THEN "clean" ELSE health
    /\ UNCHANGED <<data, spent, buffer, raced>>

\* After a file: the flush takes its batch out of the buffer, a sweep goes on to
\* the next. After an error the sweep stops.
Through(w) == IF w = "flush" THEN Dropping ELSE [pc |-> "next", todo |-> at[w].todo]
AfterError(w) == IF w = "flush" THEN Dropping ELSE Idle
GivesUp(w) == at' = [at EXCEPT ![w] = AfterError(w)]

RegTable(w) ==
    /\ at[w].pc = "table"
    /\ MovesOnWith(w, "before", total, "check")
    /\ UNCHANGED <<data, spent, buffer, health, raced>>

\* Faulty variant of Registered: nothing counts as registered.
RegisteredNever(f) == FALSE

\* A file is known by its path under the store's root, which is absolute here: a
\* relative root makes every path absolute, and then the two forms agree.
Registered(f) == \E r \in rows : r.file = f /\ ~r.absolute

\* A file that is gone by now is an error: a sweep stops at it.
RegCheck(w) ==
    /\ at[w].pc = "check"
    /\ at' = [at EXCEPT ![w] = IF at[w].file \notin DOMAIN disk THEN AfterError(w)
                               ELSE IF Registered(at[w].file) THEN Through(w)
                               ELSE [@ EXCEPT !.pc = "add"]]
    /\ UNCHANGED <<data, spent, buffer, health, raced>>

NewRow(f, absolute, n) ==
    [id |-> spent.ids + 1, file |-> f, absolute |-> absolute, n |-> n,
     day |-> NoDay, span |-> {}]
Grown == [spent EXCEPT !.ids = @ + 1]

RegAdd(w) ==
    /\ at[w].pc = "add"
    /\ IF at[w].file \in DOMAIN disk
       THEN /\ rows' = rows \cup {NewRow(at[w].file, FALSE, Size(disk[at[w].file]))}
            /\ MovesOnWith(w, "id", spent.ids + 1, "partition")
            /\ spent' = Grown
       ELSE GivesUp(w) /\ UNCHANGED <<rows, spent>>
    /\ UNCHANGED <<disk, dirOf, total, buffer, health, raced>>

\* A row's partition or statistics: refused once the row has been deleted.
Describe(w, from, to, field, value) ==
    /\ at[w].pc = from
    /\ IF \E r \in rows : r.id = at[w].id
       THEN /\ rows' = {IF r.id = at[w].id THEN [r EXCEPT ![field] = value] ELSE r : r \in rows}
            /\ MovesOn(w, to)
       ELSE GivesUp(w) /\ UNCHANGED rows
    /\ UNCHANGED <<disk, dirOf, total, spent, buffer, health, raced>>

RegPartition(w) == Describe(w, "partition", "stats", "day", dirOf[at[w].file])
RegStats(w) ==
    /\ at[w].file \in DOMAIN disk
    /\ Describe(w, "stats", "total", "span", DaysIn(disk[at[w].file]))

\* A sweep reads the statistics from the file, the flush has brought them.
RegStatsUnread(w) ==
    /\ at[w].pc = "stats" /\ at[w].file \notin DOMAIN disk
    /\ GivesUp(w)
    /\ UNCHANGED <<data, spent, buffer, health, raced>>

RegTotal(w) ==
    /\ at[w].pc = "total"
    /\ LET added == {r \in rows : r.id = at[w].id}
       IN total' = at[w].before + RowCount(added)
    /\ at' = [at EXCEPT ![w] = Through(w)]
    /\ UNCHANGED <<disk, dirOf, rows, spent, buffer, health, raced>>

(***************************************************************************)
(* Compaction of one day: read, merge, delete the old rows, add the new,   *)
(* recompute the total, unlink the old files.                              *)
(***************************************************************************)
CompactStart(day) ==
    LET old == {r \in rows : r.day = day}
    IN /\ at["compact"] = Idle /\ spent.commands < MaxCommands
       /\ Cardinality(old) > 1
       /\ at' = [at EXCEPT !["compact"] = [pc |-> "merge", day |-> day, old |-> old]]
       /\ spent' = [spent EXCEPT !.commands = @ + 1]
       /\ health' = IF at["sweep"] # Idle THEN "sullied" ELSE health
       /\ raced' = (raced \/ Others("compact"))
       /\ UNCHANGED <<data, buffer>>

Merged(old) == [e \in Event |-> Copies(e, old)]

CompactMerge ==
    /\ at["compact"].pc = "merge"
    /\ NewFile <= MaxFiles
    /\ IF \A r \in at["compact"].old : r.file \in DOMAIN disk
       THEN /\ disk' = With(disk, NewFile, Merged(at["compact"].old))
            /\ dirOf' = With(dirOf, NewFile, at["compact"].day)
            /\ MovesOnWith("compact", "file", NewFile, "delete")
       ELSE Stops("compact") /\ UNCHANGED <<disk, dirOf>>
    /\ UNCHANGED <<rows, total, spent, buffer, health, raced>>

CompactDelete ==
    /\ at["compact"].pc = "delete"
    /\ rows' = {r \in rows : \A o \in at["compact"].old : o.id # r.id}
    /\ MovesOn("compact", "add")
    /\ UNCHANGED <<disk, dirOf, total, spent, buffer, health, raced>>

\* The merged file is listed by its absolute path.
CompactAdd ==
    /\ at["compact"].pc = "add"
    /\ rows' = rows \cup {NewRow(at["compact"].file, TRUE, Size(disk[at["compact"].file]))}
    /\ MovesOnWith("compact", "id", spent.ids + 1, "partition")
    /\ spent' = Grown
    /\ UNCHANGED <<disk, dirOf, total, buffer, health, raced>>

CompactPartition ==
    Describe("compact", "partition", "stats", "day", at["compact"].day)
CompactStats ==
    Describe("compact", "stats", "sum", "span", DaysIn(disk[at["compact"].file]))

CompactSum ==
    /\ at["compact"].pc = "sum"
    /\ MovesOnWith("compact", "sum", RowCount(rows), "total")
    /\ UNCHANGED <<data, spent, buffer, health, raced>>

CompactTotal ==
    /\ at["compact"].pc = "total"
    /\ total' = at["compact"].sum
    /\ MovesOn("compact", "unlink")
    /\ UNCHANGED <<disk, dirOf, rows, spent, buffer, health, raced>>

\* Faulty variant of Doomed: the whole day's directory.
DoomedDay == {f \in DOMAIN disk : dirOf[f] = at["compact"].day} \ {at["compact"].file}

Doomed == {r.file : r \in at["compact"].old} \cap DOMAIN disk

CompactUnlink ==
    /\ at["compact"].pc = "unlink"
    /\ IF Doomed = {}
       THEN Stops("compact") /\ UNCHANGED disk
       ELSE /\ \E f \in Doomed : disk' = [g \in DOMAIN disk \ {f} |-> disk[g]]
            /\ UNCHANGED at
    /\ UNCHANGED <<dirOf, rows, total, spent, buffer, health, raced>>

\* What a stop at this step does to the catalog. Before its row is added, a file is
\* merely unlisted; later a row may be half described.
After(w) ==
    CASE at[w].pc = "drop" -> health
      [] health # "sullied" /\ w # "compact" /\ at[w].pc \in {"table", "check", "add", "next"} -> "unlisted"
      [] OTHER -> "sullied"

\* A flush that ends without its last statement leaves its batch in the buffer: the
\* next flush writes it again.
Undropped == [buffer EXCEPT !.upto = buffer.out, !.again = @ \cup (buffer.out + 1..buffer.upto)]

\* A statement fails, between any two steps.
Fail(w) ==
    /\ at[w] # Idle /\ spent.faults < MaxFaults
    /\ at' = [at EXCEPT ![w] = IF at[w] = Dropping THEN Idle ELSE AfterError(w)]
    /\ buffer' = IF at[w] = Dropping THEN Undropped ELSE buffer
    /\ spent' = [spent EXCEPT !.faults = @ + 1]
    /\ health' = After(w)
    /\ UNCHANGED <<data, raced>>

\* The server dies during a flush. (Of the commands' processes Fail says as much.)
Die ==
    /\ at["flush"] # Idle /\ spent.faults < MaxFaults
    /\ Stops("flush")
    /\ buffer' = Undropped
    /\ spent' = [spent EXCEPT !.faults = @ + 1]
    /\ health' = After("flush")
    /\ UNCHANGED <<data, raced>>

Registers(w) ==
    \/ RegTable(w) \/ RegCheck(w) \/ RegAdd(w) \/ RegPartition(w)
    \/ (at[w].pc = "stats" /\ RegStats(w)) \/ RegStatsUnread(w) \/ RegTotal(w)

Compacts ==
    \/ \E day \in Days : CompactStart(day)
    \/ CompactMerge \/ CompactDelete \/ CompactAdd \/ CompactPartition
    \/ (at["compact"].pc = "stats" /\ CompactStats) \/ CompactSum \/ CompactTotal \/ CompactUnlink

Next ==
    \/ \E upto \in buffer.out + 1..Events : FlushWrite(upto)
    \/ FlushDrop
    \/ SweepStart \/ SweepEnd
    \/ \E f \in DOMAIN disk \cup DOMAIN dirOf : SweepNext(f)
    \/ \E w \in {"flush", "sweep"} : at[w] # Idle /\ Registers(w)
    \/ Compacts
    \/ \E w \in Writer : Fail(w)
    \/ Die

Spec == Init /\ [][Next]_vars

(***************************************************************************)
(* Scans.                                                                  *)
(***************************************************************************)
\* The files a scan of the days lo..hi opens: those with a partition row in
\* the range and statistics that overlap it.
PrunedTo(lo, hi) ==
    {r \in rows : /\ r.day \in lo..hi
                  /\ \E d \in r.span : d >= lo
                  /\ \E d \in r.span : d <= hi}

Seen(lo, hi, e) == Copies(e, PrunedTo(lo, hi))

-----------------------------------------------------------------------------
Settled == \A w \in Writer : at[w] = Idle
FiledUnder(e) == {dirOf[f] : f \in {g \in DOMAIN disk : disk[g][e] > 0}}

\* However compactions, sweeps, flushes, failures and dead processes
\* interleave, an event that has left the buffer stays in some file on disk.
EventsOnDisk == \A e \in 1..buffer.out : \E f \in DOMAIN disk : disk[f][e] > 0

\* Once everything is quiet, a scan finds each event that left the buffer and whose
\* directories lie in its period: once, or at least once if a flush had written the
\* event before and ended, dead or failing, before it took its batch out of the
\* buffer (the next flush writes the batch again). Every file the scan opens is there.
\* Not claimed after a failure halfway through a row or a compaction, after a
\* sweep beside other writers or over compacted files, or, until the next
\* sweep, for a file whose registration never began. The row count agrees too
\* when no two writers were at work at once.
SettledScanExact ==
    Settled /\ health = "clean" =>
        /\ \A r \in rows : r.file \in DOMAIN disk
        /\ \A lo, hi \in Days : \A e \in 1..buffer.out :
              DayOf[e] \in lo..hi /\ FiledUnder(e) \subseteq lo..hi =>
                 Seen(lo, hi, e) >= 1 /\ (e \notin buffer.again => Seen(lo, hi, e) = 1)
        /\ ~raced => total = RowCount(rows)

\* Stated of the code and refuted (store lib.rs:577-580): "Idempotent", that is,
\* sweeping again, alone and without a failure, lists nothing twice.
SweepIdempotent ==
    Settled /\ spent.faults = 0 /\ ~raced =>
        \A r, s \in rows : r.file = s.file => r = s

\* Stated of the code and refuted: pruning leaves out irrelevant files only. A
\* file is under the day of its first event; where it crosses midnight a quiet
\* catalog's scan of a period does not find every event of the period.
PrunesIrrelevantFiles ==
    Settled /\ health = "clean" =>
        \A lo, hi \in Days : \A e \in 1..buffer.out : DayOf[e] \in lo..hi => Seen(lo, hi, e) > 0
=============================================================================
