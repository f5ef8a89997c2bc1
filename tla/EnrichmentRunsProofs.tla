------------------------- MODULE EnrichmentRunsProofs -------------------------
(***************************************************************************)
(* What holds of enrichment runs for any rows, contents, specs, jobs,      *)
(* requests and faults, one inductive invariant for each:                  *)
(* - no row a sync merged is lost to a run (RunsInv), but for those whose  *)
(*   sync had yet to swap or to count up when the run compared versions:   *)
(*   versions only grow, a snapshot under the table's version holds all    *)
(*   that counted syncs merged, and a rewrite past its check keeps them;   *)
(* - a draft's cells are not stored (SavedInv): every spec a job may store *)
(*   under was saved, and saved specs stay saved;                          *)
(* - no run and no lock is left behind (AbandonInv): only jobs that are    *)
(*   runs have a row, and a run that is over has its outcome;              *)
(* - a run shows what it computed (StandInv): the cells it relies on stand *)
(*   in the cache, unless it is disturbed.                                 *)
(***************************************************************************)
EXTENDS EnrichmentRuns, TLAPS

Working == {"prepare", "cells", "lock", "read", "lookup", "check", "swap",
            "declare", "completed", "failed", "over"}

\* What a job is has a step, and a task has a place for what it has read.
Shaped(t) == "pc" \in DOMAIN t /\ (t.pc \in Working => "todo" \in DOMAIN t)

JobsShaped == DOMAIN job = Job /\ \A j \in Job : Shaped(job[j])

Reading(t) == t.pc \in {"lookup", "check", "swap"}

\* The rows a task that is about to rewrite the table would put back.
Held(t) == IF t.pc = "lookup" THEN t.todo[2] ELSE DOMAIN t.todo[2]

\* A task that has yet to compare versions, and what it would find; and one that
\* has compared them.
SnapshotsStand ==
    \A j \in Job :
        /\ job[j].pc \in {"lookup", "check"} =>
              /\ job[j].todo[1] \in Nat /\ job[j].todo[1] <= table.version
              /\ job[j].todo[1] = table.version /\ "sync" \notin table.behind
                    => merged \subseteq Held(job[j])
        /\ job[j].pc = "swap" => merged \subseteq Held(job[j])

TableShaped ==
    DOMAIN table = {"version", "behind", "rows", "shown"} /\ table.version \in Nat

RunsInv == TableShaped /\ JobsShaped /\ SnapshotsStand /\ MergedKept

-----------------------------------------------------------------------------
\* What a swap and what a counting up do to the table.
LEMMA Swaps ==
    ASSUME TableShaped, NEW shown
    PROVE  LET new == Swapped(shown)
           IN  /\ DOMAIN new = DOMAIN table /\ new.version = table.version
               /\ new.behind = table.behind /\ new.rows = DOMAIN shown
               /\ new.shown = [r \in Row |-> IF r \in DOMAIN shown THEN shown[r] ELSE Null]
BY DEF TableShaped, Swapped

LEMMA SwapsFor ==
    ASSUME TableShaped, NEW who, NEW shown, table' = SwappedFor(who, shown)
    PROVE  /\ DOMAIN table' = DOMAIN table /\ table'.version = table.version
           /\ table'.behind = table.behind \cup {who} /\ table'.rows = DOMAIN shown
<1> DEFINE old == Swapped(shown)
<1>1. /\ DOMAIN old = DOMAIN table /\ old.version = table.version
      /\ old.behind = table.behind /\ old.rows = DOMAIN shown
  BY Swaps
<1>2. table' = [old EXCEPT !.behind = @ \cup {who}]
  BY DEF SwappedFor
<1> HIDE DEF old
<1> QED BY <1>1, <1>2 DEF TableShaped

LEMMA CountsUp ==
    ASSUME TableShaped, NEW who, CountUp(who)
    PROVE  /\ DOMAIN table' = DOMAIN table /\ table'.version = table.version + 1
           /\ table'.behind = table.behind \ {who} /\ table'.rows = table.rows
           /\ table'.shown = table.shown
BY DEF TableShaped, CountUp

\* A step that leaves the table's version alone, and takes no job to a snapshot.
LEMMA TableKept ==
    ASSUME RunsInv, DOMAIN table' = DOMAIN table, table'.version = table.version,
           "sync" \in table.behind => "sync" \in table'.behind,
           merged' \subseteq merged, merged' \subseteq table'.rows, DOMAIN job' = Job,
           \A k \in Job : job'[k] = job[k] \/ (Shaped(job'[k]) /\ ~Reading(job'[k]))
    PROVE  RunsInv'
<1>1. TableShaped' /\ JobsShaped' /\ MergedKept'
  BY DEF RunsInv, TableShaped, JobsShaped, MergedKept
<1>2. ASSUME NEW k \in Job, job'[k] = job[k]
      PROVE  /\ job'[k].pc \in {"lookup", "check"} =>
                  /\ job'[k].todo[1] \in Nat /\ job'[k].todo[1] <= table'.version
                  /\ job'[k].todo[1] = table'.version /\ "sync" \notin table'.behind
                        => merged' \subseteq Held(job'[k])
             /\ job'[k].pc = "swap" => merged' \subseteq Held(job'[k])
  BY <1>2 DEF RunsInv, SnapshotsStand
<1>3. SnapshotsStand'
  BY <1>2 DEF SnapshotsStand, Reading
<1> QED BY <1>1, <1>3 DEF RunsInv

\* The common case: the table is left alone.
LEMMA TableSame ==
    ASSUME RunsInv, table' = table, merged' = merged, DOMAIN job' = Job,
           \A k \in Job : job'[k] = job[k] \/ (Shaped(job'[k]) /\ ~Reading(job'[k]))
    PROVE  RunsInv'
BY TableKept DEF RunsInv, MergedKept

\* A step that moves the table to the next version outdates every snapshot that
\* is still to be compared.
LEMMA TableMoved ==
    ASSUME RunsInv, DOMAIN table' = DOMAIN table, table'.version = table.version + 1,
           merged' \subseteq merged, merged' \subseteq table'.rows, DOMAIN job' = Job,
           \A k \in Job : job'[k] = job[k] \/ (Shaped(job'[k]) /\ ~Reading(job'[k]))
    PROVE  RunsInv'
<1>1. TableShaped' /\ JobsShaped' /\ MergedKept'
  BY DEF RunsInv, TableShaped, JobsShaped, MergedKept
<1>2. ASSUME NEW k \in Job, job'[k] = job[k]
      PROVE  /\ job'[k].pc \in {"lookup", "check"} =>
                  /\ job'[k].todo[1] \in Nat /\ job'[k].todo[1] <= table'.version
                  /\ job'[k].todo[1] = table'.version /\ "sync" \notin table'.behind
                        => merged' \subseteq Held(job'[k])
             /\ job'[k].pc = "swap" => merged' \subseteq Held(job'[k])
  <2>1. job'[k].pc \in {"lookup", "check"} =>
           /\ job[k].todo[1] \in Nat /\ job[k].todo[1] <= table.version /\ table.version \in Nat
           /\ job'[k].todo[1] = job[k].todo[1]
    BY <1>2 DEF RunsInv, SnapshotsStand, TableShaped
  <2>2. job'[k].pc \in {"lookup", "check"} =>
           job'[k].todo[1] \in Nat /\ job'[k].todo[1] <= table'.version
           /\ job'[k].todo[1] # table'.version
    BY <2>1
  <2>3. job'[k].pc = "swap" => merged' \subseteq Held(job'[k])
    BY <1>2 DEF RunsInv, SnapshotsStand
  <2> QED BY <2>2, <2>3
<1>3. SnapshotsStand'
  BY <1>2 DEF SnapshotsStand, Reading
<1> QED BY <1>1, <1>3 DEF RunsInv

\* A job that goes on to another step that needs no snapshot.
LEMMA Moved ==
    ASSUME RunsInv, NEW j \in Job, NEW pc, Goto(j, pc),
           pc \notin {"lookup", "check", "swap"}, pc \in Working => job[j].pc \in Working
    PROVE  /\ DOMAIN job' = Job
           /\ \A k \in Job : job'[k] = job[k] \/ (Shaped(job'[k]) /\ ~Reading(job'[k]))
<1>1. DOMAIN job = Job /\ Shaped(job[j])
  BY DEF RunsInv, JobsShaped
<1>2. job' = [job EXCEPT ![j] = [job[j] EXCEPT !.pc = pc]]
  BY DEF Goto
<1>3. DOMAIN job' = Job /\ \A k \in Job : k # j => job'[k] = job[k]
  BY <1>1, <1>2
<1>4. job'[j] = [job[j] EXCEPT !.pc = pc]
  BY <1>1, <1>2
<1>5. DOMAIN job'[j] = DOMAIN job[j] /\ job'[j].pc = pc
  BY <1>1, <1>4 DEF Shaped
<1>6. Shaped(job'[j]) /\ ~Reading(job'[j])
  BY <1>1, <1>5 DEF Shaped, Reading
<1> QED BY <1>3, <1>6

\* A job that is replaced by another record.
LEMMA Restarted ==
    ASSUME RunsInv, NEW j \in Job, NEW t, Shaped(t), ~Reading(t), job' = [job EXCEPT ![j] = t]
    PROVE  /\ DOMAIN job' = Job
           /\ \A k \in Job : job'[k] = job[k] \/ (Shaped(job'[k]) /\ ~Reading(job'[k]))
BY DEF RunsInv, JobsShaped

LEMMA Tasks ==
    /\ Shaped(NoJob) /\ ~Reading(NoJob)
    /\ \A spec, mode, pc : pc \in {"prepare", "lock"} =>
          Shaped(Task(spec, mode, pc)) /\ ~Reading(Task(spec, mode, pc))
    /\ \A spec, scope : LET t == [pc |-> "clear", spec |-> spec, scope |-> scope]
                        IN  Shaped(t) /\ ~Reading(t)
BY DEF Shaped, Reading, NoJob, Task, Working

-----------------------------------------------------------------------------
LEMMA InitRuns == Init => RunsInv
<1> SUFFICES ASSUME Init PROVE RunsInv
  OBVIOUS
<1>1. table.version = 1 /\ table.rows = merged
  BY DEF Init
<1>2. JobsShaped /\ \A j \in Job : ~Reading(job[j])
  BY Tasks DEF Init, JobsShaped
<1>3. TableShaped
  BY DEF Init, TableShaped
<1>4. SnapshotsStand
  BY <1>2 DEF SnapshotsStand, Reading
<1> QED BY <1>1, <1>2, <1>3, <1>4 DEF RunsInv, MergedKept

\* A sync that swaps adds rows nobody past the comparison knows of, and hides
\* from those before it until it has counted up.
LEMMA SyncKeeps == ASSUME RunsInv, NEW new \in SUBSET Row, Sync(new) PROVE RunsInv'
<1> DEFINE shown == [r \in table.rows \cup new |-> IF r \in new THEN Null ELSE table.shown[r]]
<1>1. table' = SwappedFor("sync", shown) /\ job' = job /\ TableShaped
  BY DEF Sync, RunsInv
<1>2. DOMAIN shown = table.rows \cup new
  OBVIOUS
<1> HIDE DEF shown
<1>3. /\ DOMAIN table' = DOMAIN table /\ table'.version = table.version
      /\ "sync" \in table'.behind /\ table'.rows = table.rows \cup new
  BY <1>1, <1>2, SwapsFor
<1>4. TableShaped' /\ JobsShaped' /\ MergedKept'
  BY <1>1, <1>3 DEF RunsInv, TableShaped, JobsShaped, MergedKept, Sync
<1>5. ASSUME NEW k \in Job
      PROVE  /\ job[k].pc \in {"lookup", "check"} =>
                   job[k].todo[1] \in Nat /\ job[k].todo[1] <= table'.version
             /\ job[k].pc = "swap" => merged' \subseteq Held(job[k])
  <2>1. job[k].pc = "swap" => merged' = merged
    BY DEF Sync, InWindow
  <2> QED BY <1>3, <2>1 DEF RunsInv, SnapshotsStand
<1>6. SnapshotsStand'
  BY <1>1, <1>3, <1>5 DEF SnapshotsStand
<1> QED BY <1>4, <1>6 DEF RunsInv

LEMMA CountUpKeeps == ASSUME RunsInv, NEW who, CountUp(who) PROVE RunsInv'
<1>1. /\ DOMAIN table' = DOMAIN table /\ table'.version = table.version + 1
      /\ table'.rows = table.rows
  BY CountsUp DEF RunsInv
<1>2. merged' = merged /\ job' = job
  BY DEF CountUp, bookkeeping
<1> QED BY <1>1, <1>2, TableMoved DEF RunsInv, JobsShaped, MergedKept

LEMMA RequestsKeep == RunsInv /\ Requests => RunsInv'
<1> SUFFICES ASSUME RunsInv, Requests PROVE RunsInv'
  OBVIOUS
<1>0. DOMAIN job = Job /\ merged \subseteq table.rows
  BY DEF RunsInv, JobsShaped, MergedKept
<1>1. ASSUME NEW new \in SUBSET Row, Sync(new) PROVE RunsInv'
  BY <1>1, SyncKeeps
<1>2. ASSUME NEW s \in RunSpec, UpdateFunction(s) PROVE RunsInv'
  BY <1>0, <1>2, TableSame DEF UpdateFunction
<1>3. ASSUME NEW j \in Job, NEW scope, StartCheck(j, scope) PROVE RunsInv'
  <2> DEFINE t == [pc |-> "clear", spec |-> Current, scope |-> scope]
  <2>1. Shaped(t) /\ ~Reading(t)
    BY Tasks
  <2>2. job' = [job EXCEPT ![j] = t] /\ table' = table /\ merged' = merged
    BY <1>3 DEF StartCheck, history
  <2> HIDE DEF t
  <2> QED BY <2>1, <2>2, Restarted, TableSame
<1>4. ASSUME NEW j \in Job, NEW draft, SampleRun(j, draft) PROVE RunsInv'
  <2>1. job' = [job EXCEPT ![j] = Task(draft, "bypass", "prepare")] /\ table' = table /\ merged' = merged
    BY <1>4 DEF SampleRun, history
  <2> QED BY <2>1, Tasks, Restarted, TableSame
<1>5. ASSUME NEW j \in Job, MaterializeOnly(j) PROVE RunsInv'
  <2>1. job' = [job EXCEPT ![j] = Task(Current, "rewrite", "lock")] /\ table' = table /\ merged' = merged
    BY <1>5 DEF MaterializeOnly, history
  <2> QED BY <2>1, Tasks, Restarted, TableSame
<1>6. ASSUME NEW j \in Job, CancelRead(j) PROVE RunsInv'
  BY <1>0, <1>6, TableSame DEF CancelRead, history
<1>7. ASSUME NEW op, NEW drop, AdminCheck(op, drop) PROVE RunsInv'
  BY <1>0, <1>7, TableSame DEF AdminCheck, history
<1> QED BY <1>1, <1>2, <1>3, <1>4, <1>5, <1>6, <1>7 DEF Requests

\* Reading a snapshot, under the lock.
LEMMA ReadKeeps == ASSUME RunsInv, NEW j \in Job, ReadTable(j) PROVE RunsInv'
<1>0. DOMAIN job = Job /\ Shaped(job[j]) /\ job[j].pc \in Working
      /\ table.version \in Nat
  BY DEF RunsInv, TableShaped, JobsShaped, ReadTable, Working
<1>1. table' = table /\ merged' = merged
  BY DEF ReadTable, bookkeeping
<1>2. CASE table.rows = {}
  <2>1. Goto(j, "completed")
    BY <1>2 DEF ReadTable, Goto
  <2> QED BY <1>0, <1>1, <2>1, Moved, TableSame
<1>3. CASE table.rows # {}
  <2> DEFINE t == [job[j] EXCEPT !.pc = "lookup", !.tries = @ + 1,
                                 !.todo = <<table.version, table.rows>>]
  <2>1. job' = [job EXCEPT ![j] = t]
    BY <1>3 DEF ReadTable
  <2>2. job'[j] = t /\ DOMAIN job' = Job /\ \A k \in Job : k # j => job'[k] = job[k]
    BY <1>0, <2>1
  <2>3. DOMAIN t = DOMAIN job[j] /\ t.pc = "lookup" /\ t.todo = <<table.version, table.rows>>
    BY <1>0 DEF Shaped
  <2>4. Shaped(t) /\ t.todo[1] = table.version /\ Held(t) = table.rows
    BY <1>0, <2>3 DEF Shaped, Held
  <2>5. t.pc = "lookup" /\ merged \subseteq Held(t)
    BY <2>3, <2>4 DEF RunsInv, MergedKept
  <2> HIDE DEF t
  <2>6. TableShaped' /\ JobsShaped' /\ MergedKept'
    BY <1>0, <1>1, <2>2, <2>4 DEF RunsInv, TableShaped, JobsShaped, MergedKept
  <2>7. table.version <= table.version
    BY <1>0
  <2>8. SnapshotsStand'
    BY <1>0, <1>1, <2>2, <2>4, <2>5, <2>7 DEF RunsInv, SnapshotsStand
  <2> QED BY <2>6, <2>8 DEF RunsInv
<1> QED BY <1>2, <1>3

\* The cells for the rows of the snapshot, and for no others.
LEMMA LookUpKeeps == ASSUME RunsInv, NEW j \in Job, LookUp(j) PROVE RunsInv'
<1>0. DOMAIN job = Job /\ Shaped(job[j]) /\ job[j].pc = "lookup" /\ job[j].pc \in Working
  BY DEF RunsInv, JobsShaped, LookUp, Working
<1>1. table' = table /\ merged' = merged
  BY DEF LookUp, bookkeeping
<1> DEFINE shown == [r \in job[j].todo[2] |-> Shows(job[j].spec, Content[r])]
           t == [job[j] EXCEPT !.pc = "check", !.todo = <<job[j].todo[1], shown>>]
<1>2. job' = [job EXCEPT ![j] = t]
  BY DEF LookUp
<1>3. job'[j] = t /\ DOMAIN job' = Job /\ \A k \in Job : k # j => job'[k] = job[k]
  BY <1>0, <1>2
<1>4. DOMAIN t = DOMAIN job[j] /\ t.pc = "check" /\ t.todo = <<job[j].todo[1], shown>>
  BY <1>0 DEF Shaped, Working
<1>5. Shaped(t) /\ t.todo[1] = job[j].todo[1] /\ Held(t) = job[j].todo[2]
  BY <1>0, <1>4 DEF Shaped, Held, Working
<1>6. Held(job[j]) = job[j].todo[2]
  BY <1>0 DEF Held
<1>7. t.pc # "swap"
  BY <1>4
<1> HIDE DEF t, shown
<1>8. TableShaped' /\ JobsShaped' /\ MergedKept'
  BY <1>0, <1>1, <1>3, <1>5 DEF RunsInv, TableShaped, JobsShaped, MergedKept
<1>9. SnapshotsStand'
  BY <1>0, <1>1, <1>3, <1>5, <1>6, <1>7 DEF RunsInv, SnapshotsStand
<1> QED BY <1>8, <1>9 DEF RunsInv

\* The comparison: under the version it read, and no sync yet to count up, the
\* snapshot holds all that was merged; what an uncounted sync merged it gives up.
LEMMA CheckKeeps == ASSUME RunsInv, NEW j \in Job, CheckVersion(j) PROVE RunsInv'
<1>0. /\ job[j].pc = "check" /\ job[j].pc \in Working /\ table' = table
      /\ DOMAIN job = Job /\ Shaped(job[j]) /\ merged \subseteq table.rows
  BY DEF RunsInv, JobsShaped, MergedKept, CheckVersion, Working
<1>1. CASE VersionStands(j)
  <2>1. Goto(j, "swap")
    BY <1>1 DEF CheckVersion
  <2> DEFINE t == [job[j] EXCEPT !.pc = "swap"]
  <2>2. job'[j] = t /\ DOMAIN job' = Job /\ \A k \in Job : k # j => job'[k] = job[k]
    BY <1>0, <2>1 DEF Goto
  <2>3. DOMAIN t = DOMAIN job[j] /\ t.pc = "swap" /\ t.todo = job[j].todo
    BY <1>0 DEF Shaped
  <2>4. Shaped(t) /\ Held(t) = DOMAIN job[j].todo[2] /\ Held(job[j]) = DOMAIN job[j].todo[2]
    BY <1>0, <2>3 DEF Shaped, Held, Working
  <2> HIDE DEF t
  <2>5. merged' \subseteq merged /\ merged' \subseteq Held(t)
    <3>1. CASE "sync" \in table.behind
      BY <1>1, <2>4, <3>1 DEF CheckVersion
    <3>2. CASE "sync" \notin table.behind
      <4>1. merged' = merged /\ table.version = job[j].todo[1]
        BY <1>1, <3>2 DEF CheckVersion, VersionStands
      <4> QED BY <1>0, <2>4, <3>2, <4>1 DEF RunsInv, SnapshotsStand
    <3> QED BY <3>1, <3>2
  <2>6. TableShaped' /\ JobsShaped' /\ MergedKept'
    BY <1>0, <2>2, <2>4, <2>5 DEF RunsInv, TableShaped, JobsShaped, MergedKept
  <2>7. SnapshotsStand'
    BY <1>0, <2>2, <2>3, <2>5 DEF RunsInv, SnapshotsStand
  <2> QED BY <2>6, <2>7 DEF RunsInv
<1>2. CASE ~VersionStands(j)
  <2>1. merged' = merged
    BY <1>2 DEF CheckVersion
  <2>2. Goto(j, IF job[j].tries < 2 THEN "read" ELSE "failed")
    BY <1>2 DEF CheckVersion
  <2>3. Goto(j, "read") \/ Goto(j, "failed")
    BY <2>2
  <2> QED BY <1>0, <2>1, <2>3, Moved, TableSame
<1> QED BY <1>1, <1>2

\* The rewrite: it puts back the rows of its snapshot.
LEMMA ReplaceKeeps ==
    ASSUME RunsInv, NEW j \in Job, NEW broken \in BOOLEAN, Replace(j, broken) PROVE RunsInv'
<1>0. /\ job[j].pc = "swap" /\ job[j].pc \in Working /\ merged' = merged /\ DOMAIN job = Job
      /\ TableShaped
  BY DEF RunsInv, JobsShaped, Replace, Working
<1>1. CASE broken
  <2>1. table' = table /\ Goto(j, "failed")
    BY <1>1 DEF Replace
  <2> QED BY <1>0, <2>1, Moved, TableSame
<1>2. CASE ~broken
  <2> DEFINE new == Swapped(job[j].todo[2])
  <2>1. table' = [new EXCEPT !.version = @ + 1] /\ Goto(j, "declare")
    BY <1>2 DEF Replace
  <2>2. /\ DOMAIN new = DOMAIN table /\ new.version = table.version
        /\ new.rows = DOMAIN job[j].todo[2]
    BY <1>0, Swaps
  <2> HIDE DEF new
  <2>3. /\ DOMAIN table' = DOMAIN table /\ table'.version = table.version + 1
        /\ table'.rows = DOMAIN job[j].todo[2]
    BY <1>0, <2>1, <2>2 DEF TableShaped
  <2>4. merged \subseteq DOMAIN job[j].todo[2]
    BY <1>0 DEF RunsInv, SnapshotsStand, Held
  <2> QED BY <1>0, <2>1, <2>3, <2>4, Moved, TableMoved
<1> QED BY <1>1, <1>2

-----------------------------------------------------------------------------
LEMMA JobStepKeeps == ASSUME RunsInv, NEW j \in Job, JobStep(j) PROVE RunsInv'
<1>0. DOMAIN job = Job /\ Shaped(job[j])
  BY DEF RunsInv, JobsShaped
<1>1. CASE StartClear(j)
  <2>1. Goto(j, "insert") /\ table' = table /\ merged' = merged
    BY <1>1 DEF StartClear
  <2> QED BY <2>1, Moved, TableSame DEF Working
<1>2. CASE StartInsert(j)
  <2>1. table' = table /\ merged' = merged
    BY <1>2 DEF StartInsert, bookkeeping
  <2>2. \/ job' = [job EXCEPT ![j] = Task(job[j].spec, "use", "prepare")]
        \/ job' = [job EXCEPT ![j] = NoJob]
    BY <1>2 DEF StartInsert
  <2> QED BY <2>1, <2>2, Tasks, Restarted, TableSame
<1>3. CASE KeepHandle(j)
  BY <1>0, <1>3, TableSame DEF KeepHandle, bookkeeping
<1>4. CASE Prepare(j)
  <2>1. table' = table /\ merged' = merged /\ job[j].pc = "prepare"
    BY <1>4 DEF Prepare, bookkeeping
  <2> DEFINE todo == Misses(job[j].spec, table.rows, job[j].mode)
             cells == [c \in Inputs(table.rows) \ todo |-> cache[<<job[j].spec, c>>]]
             t == [job[j] EXCEPT !.pc = "cells", !.rows = table.rows, !.todo = todo, !.cells = cells]
  <2>2. job' = [job EXCEPT ![j] = t]
    BY <1>4 DEF Prepare
  <2>3. DOMAIN t = DOMAIN job[j] /\ t.pc = "cells"
    BY <1>0 DEF Shaped
  <2>4. Shaped(t) /\ ~Reading(t)
    BY <1>0, <2>1, <2>3 DEF Shaped, Reading, Working
  <2> HIDE DEF t
  <2> QED BY <2>1, <2>2, <2>4, Restarted, TableSame
<1>5. CASE CellsDone(j)
  <2>1. table' = table /\ merged' = merged /\ job[j].pc \in Working
    BY <1>5 DEF CellsDone, bookkeeping, Working
  <2>2. Goto(j, IF job[j].mode = "bypass" THEN "over" ELSE "lock")
    BY <1>5 DEF CellsDone
  <2>3. CASE job[j].mode = "bypass"
    BY <2>1, <2>2, <2>3, Moved, TableSame
  <2>4. CASE job[j].mode # "bypass"
    BY <2>1, <2>2, <2>4, Moved, TableSame
  <2> QED BY <2>3, <2>4
<1>6. ASSUME NEW c \in Inputs(Row), NEW first, NEW second, NEW lost,
             ComputeCell(j, c, first, second, lost)
      PROVE  RunsInv'
  <2> DEFINE cells == [x \in DOMAIN job[j].cells \cup {c} |->
                         IF x = c THEN Outcome(first, second) ELSE job[j].cells[x]]
             t == [job[j] EXCEPT !.todo = @ \ {c}, !.cells = cells]
  <2>1. table' = table /\ merged' = merged /\ job[j].pc = "cells"
    BY <1>6 DEF ComputeCell
  <2>2. job' = [job EXCEPT ![j] = t]
    BY <1>6 DEF ComputeCell
  <2>3. DOMAIN t = DOMAIN job[j] /\ t.pc = job[j].pc
    BY <1>0 DEF Shaped
  <2>4. Shaped(t) /\ ~Reading(t)
    BY <1>0, <2>1, <2>3 DEF Shaped, Reading, Working
  <2> HIDE DEF t
  <2> QED BY <2>1, <2>2, <2>4, Restarted, TableSame
<1>7. CASE ReadTable(j)
  BY <1>7, ReadKeeps
<1>8. CASE LookUp(j)
  BY <1>8, LookUpKeeps
<1>9. ASSUME NEW broken \in BOOLEAN, Replace(j, broken) PROVE RunsInv'
  BY <1>9, ReplaceKeeps
<1>13. CASE CheckVersion(j)
  BY <1>13, CheckKeeps
<1>10. ASSUME NEW broken \in BOOLEAN, Declare(j, broken) PROVE RunsInv'
  <2>1. table' = table /\ merged' = merged /\ job[j].pc \in Working
    BY <1>10 DEF Declare, Working
  <2>2. Goto(j, "failed") \/ Goto(j, "completed")
    BY <1>10 DEF Declare
  <2> QED BY <2>1, <2>2, Moved, TableSame
<1>11. ASSUME NEW broken \in BOOLEAN, Finish(j, broken) PROVE RunsInv'
  <2>1. table' = table /\ merged' = merged /\ job[j].pc \in Working /\ Goto(j, "over")
    BY <1>11 DEF Finish, Ended, Working
  <2> QED BY <2>1, Moved, TableSame
<1>12. CASE DropHandle(j)
  <2>1. job' = [job EXCEPT ![j] = NoJob] /\ table' = table /\ merged' = merged
    BY <1>12 DEF DropHandle, bookkeeping
  <2> QED BY <2>1, Tasks, Restarted, TableSame
<1> QED BY <1>1, <1>2, <1>3, <1>4, <1>5, <1>6, <1>7, <1>8, <1>9, <1>10, <1>11, <1>12, <1>13 DEF JobStep

LEMMA CancelKeeps == RunsInv /\ CancelStep => RunsInv'
<1> SUFFICES ASSUME RunsInv, CancelStep PROVE RunsInv'
  OBVIOUS
<1>0. DOMAIN job = Job
  BY DEF RunsInv, JobsShaped
<1>1. CASE CancelAbort
  <2>1. table' = table /\ merged' = merged
    BY <1>1 DEF CancelAbort, bookkeeping
  <2>2. job' = job \/ job' = [job EXCEPT ![cancel.of] = NoJob]
    BY <1>1 DEF CancelAbort
  <2>3. DOMAIN job' = Job /\ \A k \in Job : job'[k] = job[k] \/ job'[k] = NoJob
    BY <1>0, <2>2
  <2> QED BY <2>1, <2>3, Tasks, TableSame
<1>2. ASSUME NEW broken \in BOOLEAN, CancelMark(broken) PROVE RunsInv'
  BY <1>0, <1>2, TableSame DEF CancelMark
<1> QED BY <1>1, <1>2 DEF CancelStep

\* Dropping the columns takes rows along, and the ghost with them.
LEMMA AdminKeeps == RunsInv /\ (DropRead \/ DropReplace \/ Forget) => RunsInv'
<1> SUFFICES ASSUME RunsInv, DropRead \/ DropReplace \/ Forget PROVE RunsInv'
  OBVIOUS
<1>0. DOMAIN job = Job
  BY DEF RunsInv, JobsShaped
<1>1. CASE DropRead
  BY <1>0, <1>1, TableSame DEF DropRead, bookkeeping
<1>2. CASE DropReplace
  <2>1. /\ job' = job /\ merged' = merged \cap table'.rows /\ merged \subseteq table.rows
        /\ TableShaped
    BY <1>2 DEF DropReplace, RunsInv, MergedKept
  <2>2. DOMAIN table' = DOMAIN table /\ table'.version = table.version
        /\ ("sync" \in table.behind => "sync" \in table'.behind)
    <3>1. CASE table' = table
      BY <3>1
    <3>2. CASE table' # table
      <4> DEFINE shown == [r \in admin.rows |-> Null]
      <4>1. table' = SwappedFor("admin", shown)
        BY <1>2, <3>2 DEF DropReplace
      <4> HIDE DEF shown
      <4> QED BY <2>1, <4>1, SwapsFor
    <3> QED BY <3>1, <3>2
  <2>3. merged' \subseteq merged /\ merged' \subseteq table'.rows
    BY <2>1
  <2> QED BY <1>0, <2>1, <2>2, <2>3, TableKept
<1>3. CASE Forget
  BY <1>0, <1>3, TableSame DEF Forget
<1> QED BY <1>1, <1>2, <1>3

LEMMA RestartKeeps == RunsInv /\ Restart => RunsInv'
<1> SUFFICES ASSUME RunsInv, Restart PROVE RunsInv'
  OBVIOUS
<1>1. merged' = merged /\ job' = [j \in Job |-> NoJob]
  BY DEF Restart
<1>2. DOMAIN job' = Job /\ \A k \in Job : job'[k] = NoJob
  BY <1>1
<1>3. /\ DOMAIN table' = DOMAIN table /\ table'.version = table.version
      /\ table'.rows = table.rows
  BY DEF Restart, RunsInv, TableShaped
<1>4. TableShaped' /\ JobsShaped' /\ MergedKept'
  BY <1>1, <1>2, <1>3, Tasks DEF RunsInv, TableShaped, JobsShaped, MergedKept
<1>5. SnapshotsStand'
  BY <1>2, Tasks DEF SnapshotsStand, Reading
<1> QED BY <1>4, <1>5 DEF RunsInv

\* However runs, samples, syncs, edits, cancellations, resets and restarts
\* interleave, the rows of every sync that had counted the version up when a
\* rewrite compared it stay in the table until a reset or a deletion takes them
\* (the version check of replace_table_data, ingest.rs).
THEOREM MergedStay == Spec => []MergedKept
<1>1. RunsInv /\ [Next]_vars => RunsInv'
  <2> SUFFICES ASSUME RunsInv, [Next]_vars PROVE RunsInv'
    OBVIOUS
  <2>1. CASE Requests
    BY <2>1, RequestsKeep
  <2>2. ASSUME NEW j \in Job, JobStep(j) PROVE RunsInv'
    BY <2>2, JobStepKeeps
  <2>3. CASE CancelStep
    BY <2>3, CancelKeeps
  <2>4. CASE DropRead \/ DropReplace \/ Forget
    BY <2>4, AdminKeeps
  <2>5. CASE Restart
    BY <2>5, RestartKeeps
  <2>6. CASE UNCHANGED vars
    <3>1. job' = job /\ table' = table /\ merged' = merged
      BY <2>6 DEF vars
    <3> QED BY <3>1, TableSame DEF RunsInv, JobsShaped
  <2>7. ASSUME NEW who \in {"sync", "admin"}, CountUp(who) PROVE RunsInv'
    BY <2>7, CountUpKeeps
  <2> QED BY <2>1, <2>2, <2>3, <2>4, <2>5, <2>6, <2>7 DEF Next
<1>2. RunsInv => MergedKept
  BY DEF RunsInv
<1> QED BY <1>1, <1>2, InitRuns, PTL DEF Spec

-----------------------------------------------------------------------------
\* The shape of the state, and the invariants of the other three results.
Modes == {"use", "bypass", "rewrite"}
TaskFields == {"pc", "spec", "mode", "tries", "rows", "todo", "cells"}

IsStart(t) ==
    /\ DOMAIN t = {"pc", "spec", "scope"}
    /\ t.pc \in {"clear", "insert"} /\ t.spec \in RunSpec /\ t.scope \in Scopes

\* What a task has read fits its step: it is about to look up the cells of the
\* rows it read, or to put back those rows with what they show.
IsTask(t) ==
    /\ DOMAIN t = TaskFields
    /\ t.pc \in Working /\ t.spec \in RunSpec /\ t.mode \in Modes /\ t.rows \subseteq Row
    /\ t.pc = "lookup" => t.todo[2] \subseteq Row
    /\ t.pc \in {"check", "swap"} => DOMAIN t.todo[2] \subseteq Row

IsJob(t) == t = NoJob \/ IsStart(t) \/ IsTask(t)

Statuses == {"running", "completed", "failed", "cancelled"}

IsRun(row) ==
    row = NoRun \/ (DOMAIN row = {"status", "kept", "done", "failed"} /\ row.status \in Statuses)

Status == {"none", "ok", "error"}

TypeOK ==
    /\ fn \in [alive : BOOLEAN, saved : Seq(RunSpec)] /\ fn.saved # <<>>
    /\ cache \in [RunSpec \X Inputs(Row) -> Status]
    /\ DOMAIN table = {"version", "behind", "rows", "shown"}
    /\ table.version \in Nat /\ table.behind \subseteq {"sync", "admin"} /\ table.rows \subseteq Row
    /\ DOMAIN run = Job /\ \A j \in Job : IsRun(run[j])
    /\ DOMAIN job = Job /\ \A j \in Job : IsJob(job[j])
    /\ lock \in Job \cup {Nobody}
    /\ cancel \in {[pc |-> "idle"]} \cup [pc : {"abort", "mark"}, of : Job]
    /\ "pc" \in DOMAIN admin /\ (admin.pc = "drop" => admin.rows \subseteq Row)

\* Every spec a job may store cells under, or show, was saved.
Saved(s) == \E i \in DOMAIN fn.saved : fn.saved[i] = s

SpecsSaved ==
    \A j \in Job : IsStart(job[j]) \/ (IsTask(job[j]) /\ job[j].mode # "bypass") => Saved(job[j].spec)

SavedInv == TypeOK /\ SpecsSaved /\ CacheOnlySaved

\* A job without a run row is not a run, and a run that is over has its outcome.
RowsFit ==
    /\ \A j \in Job : IsStart(job[j]) \/ (IsTask(job[j]) /\ job[j].mode # "use") => run[j] = NoRun
    /\ \A j \in Job : job[j].pc = "over" => run[j].status # "running" \/ j \in orphaned

AbandonInv == TypeOK /\ RowsFit /\ NoRunAbandoned

\* The cells an undisturbed run relies on are the stored ones, for all the rows
\* it prepared, and what it is about to put back shows them.
Undisturbed(j) == j \in Relying /\ job[j].mode = "use" /\ j \notin disturbed

Showing(j) == job[j].pc \in {"check", "swap"} /\ job[j].mode = "use" /\ j \notin disturbed

Stands(j) ==
    /\ Undisturbed(j) =>
          /\ Inputs(job[j].rows) \subseteq
                DOMAIN job[j].cells \cup (IF job[j].pc = "cells" THEN job[j].todo ELSE {})
          /\ \A c \in DOMAIN job[j].cells :
                /\ c \in Inputs(Row) /\ job[j].cells[c] # "none"
                /\ cache[<<job[j].spec, c>>] = job[j].cells[c]
    /\ Showing(j) =>
          \A r \in job[j].rows \cap DOMAIN job[j].todo[2] :
             job[j].todo[2][r] = <<job[j].spec, job[j].cells[Content[r]]>>

StandInv == TypeOK /\ \A j \in Job : Stands(j)

Counting == \E who \in {"sync", "admin"} : CountUp(who)
-----------------------------------------------------------------------------
\* What the steps of a job do to it.
LEMMA Kinds ==
    /\ NoJob.pc = "idle" /\ ~IsStart(NoJob) /\ ~IsTask(NoJob)
    /\ \A t : ~(IsStart(t) /\ IsTask(t))
    /\ \A t : IsJob(t) /\ t.pc \in Working => IsTask(t)
    /\ \A t : IsJob(t) /\ t.pc \in {"clear", "insert"} => IsStart(t)
<1>1. NoJob.pc = "idle" /\ ~IsStart(NoJob) /\ ~IsTask(NoJob)
  BY DEF NoJob, IsStart, IsTask, Working
<1>2. \A t : ~(IsStart(t) /\ IsTask(t))
  BY DEF IsStart, IsTask, Working
<1>3. \A t : IsJob(t) /\ t.pc \in Working => IsTask(t)
  BY <1>1 DEF IsJob, IsStart, Working
<1>4. \A t : IsJob(t) /\ t.pc \in {"clear", "insert"} => IsStart(t)
  BY <1>1 DEF IsJob, IsTask, Working
<1> QED BY <1>1, <1>2, <1>3, <1>4

\* A task that goes on to another step.
LEMMA TaskGoes ==
    ASSUME DOMAIN job = Job, NEW j \in Job, IsTask(job[j]),
           NEW pc \in Working \ {"lookup", "check", "swap"}, Goto(j, pc)
    PROVE  /\ job' = [job EXCEPT ![j] = job'[j]] /\ IsTask(job'[j]) /\ job'[j].pc = pc
           /\ job'[j].spec = job[j].spec /\ job'[j].mode = job[j].mode
           /\ job'[j].rows = job[j].rows /\ job'[j].todo = job[j].todo
           /\ job'[j].cells = job[j].cells
<1>1. job' = [job EXCEPT ![j] = [job[j] EXCEPT !.pc = pc]]
  BY DEF Goto
<1>2. job'[j] = [job[j] EXCEPT !.pc = pc] /\ job' = [job EXCEPT ![j] = job'[j]]
  BY <1>1
<1>3. DOMAIN job[j] = TaskFields
  BY DEF IsTask
<1>4. /\ DOMAIN job'[j] = TaskFields /\ job'[j].pc = pc
      /\ job'[j].spec = job[j].spec /\ job'[j].mode = job[j].mode
      /\ job'[j].rows = job[j].rows /\ job'[j].todo = job[j].todo
      /\ job'[j].cells = job[j].cells
  BY <1>2, <1>3 DEF TaskFields
<1>5. IsTask(job'[j])
  BY <1>4 DEF IsTask
<1> QED BY <1>2, <1>4, <1>5

LEMMA NewTask ==
    ASSUME NEW s \in RunSpec, NEW mode \in Modes, NEW pc \in {"prepare", "lock"}
    PROVE  /\ IsTask(Task(s, mode, pc)) /\ Task(s, mode, pc).pc = pc
           /\ Task(s, mode, pc).spec = s /\ Task(s, mode, pc).mode = mode
           /\ Task(s, mode, pc).rows = {} /\ Task(s, mode, pc).cells = <<>>
BY DEF Task, IsTask, TaskFields, Working

LEMMA CurrentSaved == TypeOK => Current \in RunSpec /\ Saved(Current)
<1> SUFFICES ASSUME TypeOK PROVE Current \in RunSpec /\ Saved(Current)
  OBVIOUS
<1>1. fn.saved \in Seq(RunSpec) /\ fn.saved # <<>>
  BY DEF TypeOK
<1>2. Len(fn.saved) \in 1..Len(fn.saved) /\ DOMAIN fn.saved = 1..Len(fn.saved)
  BY <1>1
<1> QED BY <1>1, <1>2 DEF Current, Saved

LEMMA StartClearDoes ==
    ASSUME TypeOK, NEW j \in Job, StartClear(j)
    PROVE  /\ IsStart(job[j]) /\ job' = [job EXCEPT ![j] = job'[j]] /\ IsStart(job'[j])
           /\ job'[j].spec = job[j].spec /\ job'[j].pc = "insert"
<1>1. IsStart(job[j]) /\ DOMAIN job = Job
  BY Kinds DEF TypeOK, StartClear
<1>2. job' = [job EXCEPT ![j] = [job[j] EXCEPT !.pc = "insert"]]
  BY DEF StartClear, Goto
<1>3. job'[j] = [job[j] EXCEPT !.pc = "insert"] /\ job' = [job EXCEPT ![j] = job'[j]]
  BY <1>1, <1>2
<1>4. /\ DOMAIN job'[j] = DOMAIN job[j] /\ job'[j].pc = "insert"
      /\ job'[j].spec = job[j].spec /\ job'[j].scope = job[j].scope
  BY <1>1, <1>3 DEF IsStart
<1> QED BY <1>1, <1>3, <1>4 DEF IsStart

LEMMA StartInsertDoes ==
    ASSUME TypeOK, NEW j \in Job, StartInsert(j)
    PROVE  /\ IsStart(job[j]) /\ job' = [job EXCEPT ![j] = job'[j]]
           /\ \/ /\ IsTask(job'[j]) /\ job'[j].pc = "prepare" /\ job'[j].mode = "use"
                 /\ job'[j].spec = job[j].spec /\ run' = [run EXCEPT ![j] = NewRun]
              \/ job'[j] = NoJob /\ run' = run
<1>1. IsStart(job[j]) /\ DOMAIN job = Job /\ job[j].spec \in RunSpec
  BY Kinds DEF TypeOK, StartInsert, IsStart
<1>2. CASE fn.alive
  <2>1. job' = [job EXCEPT ![j] = Task(job[j].spec, "use", "prepare")] /\ run' = [run EXCEPT ![j] = NewRun]
    BY <1>2 DEF StartInsert
  <2>2. job'[j] = Task(job[j].spec, "use", "prepare")
    BY <1>1, <2>1
  <2> QED BY <1>1, <2>1, <2>2, NewTask DEF Modes
<1>3. CASE ~fn.alive
  <2>1. job' = [job EXCEPT ![j] = NoJob] /\ run' = run
    BY <1>3 DEF StartInsert
  <2>2. job'[j] = NoJob
    BY <1>1, <2>1
  <2> QED BY <1>1, <2>1, <2>2
<1> QED BY <1>2, <1>3

LEMMA PrepareDoes ==
    ASSUME TypeOK, NEW j \in Job, Prepare(j)
    PROVE  /\ IsTask(job[j]) /\ job' = [job EXCEPT ![j] = job'[j]] /\ IsTask(job'[j])
           /\ job'[j].pc = "cells" /\ job'[j].spec = job[j].spec /\ job'[j].mode = job[j].mode
           /\ job'[j].rows = table.rows
           /\ job'[j].todo = Misses(job[j].spec, table.rows, job[j].mode)
           /\ job'[j].cells = [c \in Inputs(table.rows) \ job'[j].todo |-> cache[<<job[j].spec, c>>]]
<1>1. IsTask(job[j]) /\ DOMAIN job = Job /\ table.rows \subseteq Row
  BY Kinds DEF TypeOK, Prepare, Working
<1> DEFINE todo == Misses(job[j].spec, table.rows, job[j].mode)
           cells == [c \in Inputs(table.rows) \ todo |-> cache[<<job[j].spec, c>>]]
           t == [job[j] EXCEPT !.pc = "cells", !.rows = table.rows, !.todo = todo, !.cells = cells]
<1>2. job' = [job EXCEPT ![j] = t]
  BY DEF Prepare
<1> HIDE DEF cells, todo
<1>3. /\ DOMAIN t = TaskFields /\ t.pc = "cells" /\ t.rows = table.rows /\ t.todo = todo
      /\ t.cells = cells /\ t.spec = job[j].spec /\ t.mode = job[j].mode
  BY <1>1 DEF IsTask, TaskFields
<1> HIDE DEF t
<1>4. job'[j] = t /\ job' = [job EXCEPT ![j] = job'[j]]
  BY <1>1, <1>2
<1>5. IsTask(t)
  BY <1>1, <1>3 DEF IsTask, Working
<1>6. cells = [c \in Inputs(table.rows) \ todo |-> cache[<<job[j].spec, c>>]]
  BY DEF cells
<1> QED BY <1>1, <1>3, <1>4, <1>5, <1>6 DEF todo

LEMMA ComputeDoes ==
    ASSUME TypeOK, NEW j \in Job, NEW c \in Inputs(Row), NEW first, NEW second, NEW lost,
           ComputeCell(j, c, first, second, lost)
    PROVE  /\ IsTask(job[j]) /\ job' = [job EXCEPT ![j] = job'[j]] /\ IsTask(job'[j])
           /\ job'[j].pc = "cells" /\ job'[j].spec = job[j].spec /\ job'[j].mode = job[j].mode
           /\ job'[j].rows = job[j].rows
           /\ job'[j].todo = job[j].todo \ {c}
           /\ job'[j].cells = [x \in DOMAIN job[j].cells \cup {c} |->
                                IF x = c THEN Outcome(first, second) ELSE job[j].cells[x]]
<1>1. IsTask(job[j]) /\ DOMAIN job = Job /\ job[j].pc = "cells"
  BY Kinds DEF TypeOK, ComputeCell, Working
<1> DEFINE cells == [x \in DOMAIN job[j].cells \cup {c} |->
                        IF x = c THEN Outcome(first, second) ELSE job[j].cells[x]]
           t == [job[j] EXCEPT !.todo = @ \ {c}, !.cells = cells]
<1>2. job' = [job EXCEPT ![j] = t]
  BY DEF ComputeCell
<1> HIDE DEF cells
<1>3. /\ DOMAIN t = TaskFields /\ t.pc = job[j].pc /\ t.rows = job[j].rows
      /\ t.todo = job[j].todo \ {c}
      /\ t.cells = cells /\ t.spec = job[j].spec /\ t.mode = job[j].mode
  BY <1>1 DEF IsTask, TaskFields
<1> HIDE DEF t
<1>4. job'[j] = t /\ job' = [job EXCEPT ![j] = job'[j]]
  BY <1>1, <1>2
<1>5. IsTask(t)
  BY <1>1, <1>3 DEF IsTask, Working
<1> QED BY <1>1, <1>3, <1>4, <1>5 DEF cells

LEMMA CellsDoneDoes ==
    ASSUME TypeOK, NEW j \in Job, CellsDone(j)
    PROVE  /\ IsTask(job[j]) /\ job[j].todo = {} /\ job[j].pc = "cells"
           /\ job' = [job EXCEPT ![j] = job'[j]] /\ IsTask(job'[j])
           /\ job'[j].pc = (IF job[j].mode = "bypass" THEN "over" ELSE "lock")
           /\ job'[j].spec = job[j].spec /\ job'[j].mode = job[j].mode
           /\ job'[j].rows = job[j].rows /\ job'[j].cells = job[j].cells
<1>1. IsTask(job[j]) /\ DOMAIN job = Job /\ job[j].pc = "cells" /\ job[j].todo = {}
  BY Kinds DEF TypeOK, CellsDone, Working
<1>2. Goto(j, IF job[j].mode = "bypass" THEN "over" ELSE "lock")
  BY DEF CellsDone
<1>3. (IF job[j].mode = "bypass" THEN "over" ELSE "lock") \in Working \ {"lookup", "check", "swap"}
  BY DEF Working
<1> QED BY <1>1, <1>2, <1>3, TaskGoes

LEMMA ReadDoes ==
    ASSUME TypeOK, NEW j \in Job, ReadTable(j)
    PROVE  /\ IsTask(job[j]) /\ job' = [job EXCEPT ![j] = job'[j]] /\ IsTask(job'[j])
           /\ job'[j].spec = job[j].spec /\ job'[j].mode = job[j].mode
           /\ job'[j].rows = job[j].rows /\ job'[j].cells = job[j].cells
           /\ \/ job'[j].pc = "completed" /\ lock' = Nobody
              \/ job'[j].pc = "lookup" /\ lock' = j
<1>1. IsTask(job[j]) /\ DOMAIN job = Job /\ table.rows \subseteq Row
  BY Kinds DEF TypeOK, ReadTable, Working
<1>2. CASE table.rows = {}
  <2>1. Goto(j, "completed") /\ lock' = Nobody
    BY <1>2 DEF ReadTable, Goto
  <2>2. "completed" \in Working \ {"lookup", "check", "swap"}
    BY DEF Working
  <2> QED BY <1>1, <2>1, <2>2, TaskGoes
<1>3. CASE table.rows # {}
  <2> DEFINE t == [job[j] EXCEPT !.pc = "lookup", !.tries = @ + 1,
                                 !.todo = <<table.version, table.rows>>]
  <2>1. job' = [job EXCEPT ![j] = t] /\ lock' = j
    BY <1>3 DEF ReadTable
  <2>2. /\ DOMAIN t = TaskFields /\ t.pc = "lookup" /\ t.todo = <<table.version, table.rows>>
        /\ t.rows = job[j].rows /\ t.cells = job[j].cells /\ t.spec = job[j].spec
        /\ t.mode = job[j].mode
    BY <1>1 DEF IsTask, TaskFields
  <2> HIDE DEF t
  <2>3. job'[j] = t /\ job' = [job EXCEPT ![j] = job'[j]]
    BY <1>1, <2>1
  <2>4. IsTask(t)
    BY <1>1, <2>2 DEF IsTask, Working
  <2> QED BY <1>1, <2>1, <2>2, <2>3, <2>4
<1> QED BY <1>2, <1>3

LEMMA LookUpDoes ==
    ASSUME TypeOK, NEW j \in Job, LookUp(j)
    PROVE  /\ IsTask(job[j]) /\ job' = [job EXCEPT ![j] = job'[j]] /\ IsTask(job'[j])
           /\ job'[j].pc = "check" /\ job'[j].spec = job[j].spec /\ job'[j].mode = job[j].mode
           /\ job'[j].rows = job[j].rows /\ job'[j].cells = job[j].cells
           /\ job'[j].todo[2] = [r \in job[j].todo[2] |-> Shows(job[j].spec, Content[r])]
           /\ job[j].todo[2] \subseteq Row
<1>1. IsTask(job[j]) /\ DOMAIN job = Job /\ job[j].todo[2] \subseteq Row
  BY Kinds DEF TypeOK, LookUp, Working, IsTask
<1> DEFINE shown == [r \in job[j].todo[2] |-> Shows(job[j].spec, Content[r])]
           t == [job[j] EXCEPT !.pc = "check", !.todo = <<job[j].todo[1], shown>>]
<1>2. job' = [job EXCEPT ![j] = t]
  BY DEF LookUp
<1>3. DOMAIN shown = job[j].todo[2]
  OBVIOUS
<1> HIDE DEF shown
<1>4. /\ DOMAIN t = TaskFields /\ t.pc = "check" /\ t.todo = <<job[j].todo[1], shown>>
      /\ t.rows = job[j].rows /\ t.cells = job[j].cells /\ t.spec = job[j].spec
      /\ t.mode = job[j].mode
  BY <1>1 DEF IsTask, TaskFields
<1>5. t.todo[2] = shown
  BY <1>4
<1> HIDE DEF t
<1>6. job'[j] = t /\ job' = [job EXCEPT ![j] = job'[j]]
  BY <1>1, <1>2
<1>7. IsTask(t)
  BY <1>1, <1>3, <1>4, <1>5 DEF IsTask, Working
<1> QED BY <1>1, <1>4, <1>5, <1>6, <1>7 DEF shown

LEMMA CheckDoes ==
    ASSUME TypeOK, NEW j \in Job, CheckVersion(j)
    PROVE  /\ IsTask(job[j]) /\ job[j].pc = "check"
           /\ job' = [job EXCEPT ![j] = job'[j]] /\ IsTask(job'[j])
           /\ job'[j].spec = job[j].spec /\ job'[j].mode = job[j].mode
           /\ job'[j].rows = job[j].rows /\ job'[j].cells = job[j].cells
           /\ job'[j].todo = job[j].todo
           /\ \/ job'[j].pc \in {"swap", "read"} /\ lock' = lock
              \/ job'[j].pc = "failed" /\ lock' = Nobody
<1>1. IsTask(job[j]) /\ DOMAIN job = Job /\ job[j].pc = "check"
  BY Kinds DEF TypeOK, CheckVersion, Working
<1>2. {"read", "failed"} \subseteq Working \ {"lookup", "check", "swap"}
  BY DEF Working
<1>3. CASE VersionStands(j)
  <2> DEFINE t == [job[j] EXCEPT !.pc = "swap"]
  <2>1. job' = [job EXCEPT ![j] = t] /\ lock' = lock
    BY <1>3 DEF CheckVersion, Goto
  <2>2. /\ DOMAIN t = TaskFields /\ t.pc = "swap" /\ t.todo = job[j].todo
        /\ t.rows = job[j].rows /\ t.cells = job[j].cells /\ t.spec = job[j].spec
        /\ t.mode = job[j].mode
    BY <1>1 DEF IsTask, TaskFields
  <2> HIDE DEF t
  <2>3. job'[j] = t /\ job' = [job EXCEPT ![j] = job'[j]]
    BY <1>1, <2>1
  <2>4. IsTask(t)
    BY <1>1, <2>2 DEF IsTask, Working
  <2> QED BY <1>1, <2>1, <2>2, <2>3, <2>4
<1>4. CASE ~VersionStands(j) /\ job[j].tries < 2
  <2>1. Goto(j, "read") /\ lock' = lock
    BY <1>4 DEF CheckVersion
  <2> QED BY <1>1, <1>2, <2>1, TaskGoes
<1>5. CASE ~VersionStands(j) /\ ~(job[j].tries < 2)
  <2>1. Goto(j, "failed") /\ lock' = Nobody
    BY <1>5 DEF CheckVersion
  <2> QED BY <1>1, <1>2, <2>1, TaskGoes
<1> QED BY <1>3, <1>4, <1>5

\* The rewrite puts the snapshot's cells in the table and moves it to the next
\* version.
LEMMA ReplaceDoes ==
    ASSUME TypeOK, NEW j \in Job, NEW broken \in BOOLEAN, Replace(j, broken)
    PROVE  /\ IsTask(job[j]) /\ job[j].pc = "swap"
           /\ job' = [job EXCEPT ![j] = job'[j]] /\ IsTask(job'[j])
           /\ job'[j].spec = job[j].spec /\ job'[j].mode = job[j].mode
           /\ job'[j].rows = job[j].rows /\ job'[j].cells = job[j].cells
           /\ \/ /\ job'[j].pc = "declare" /\ lock' = lock
                 /\ DOMAIN table' = DOMAIN table /\ table'.version = table.version + 1
                 /\ table'.behind = table.behind /\ table'.rows = DOMAIN job[j].todo[2]
                 /\ table'.shown = [r \in Row |-> IF r \in DOMAIN job[j].todo[2]
                                                  THEN job[j].todo[2][r] ELSE Null]
              \/ job'[j].pc = "failed" /\ table' = table /\ lock' = Nobody
<1>1. IsTask(job[j]) /\ DOMAIN job = Job /\ job[j].pc = "swap" /\ TableShaped
  BY Kinds DEF TypeOK, Replace, Working, TableShaped
<1>2. {"declare", "failed"} \subseteq Working \ {"lookup", "check", "swap"}
  BY DEF Working
<1>3. CASE ~broken
  <2> DEFINE shown == job[j].todo[2]
             new == Swapped(shown)
  <2>1. Goto(j, "declare") /\ table' = [new EXCEPT !.version = @ + 1] /\ lock' = lock
    BY <1>3 DEF Replace
  <2>2. /\ DOMAIN new = DOMAIN table /\ new.version = table.version
        /\ new.behind = table.behind /\ new.rows = DOMAIN shown
        /\ new.shown = [r \in Row |-> IF r \in DOMAIN shown THEN shown[r] ELSE Null]
    BY <1>1, Swaps
  <2> HIDE DEF new
  <2>3. /\ DOMAIN table' = DOMAIN table /\ table'.version = table.version + 1
        /\ table'.behind = table.behind /\ table'.rows = new.rows
        /\ table'.shown = new.shown
    BY <1>1, <2>1, <2>2 DEF TableShaped
  <2> QED BY <1>1, <1>2, <2>1, <2>2, <2>3, TaskGoes
<1>4. CASE broken
  <2>1. Goto(j, "failed") /\ table' = table /\ lock' = Nobody
    BY <1>4 DEF Replace
  <2> QED BY <1>1, <1>2, <2>1, TaskGoes
<1> QED BY <1>3, <1>4

LEMMA DeclareDoes ==
    ASSUME TypeOK, NEW j \in Job, NEW broken \in BOOLEAN, Declare(j, broken)
    PROVE  /\ IsTask(job[j]) /\ job' = [job EXCEPT ![j] = job'[j]] /\ IsTask(job'[j])
           /\ job'[j].pc \in {"failed", "completed"}
           /\ job'[j].spec = job[j].spec /\ job'[j].mode = job[j].mode
<1>1. IsTask(job[j]) /\ DOMAIN job = Job
  BY Kinds DEF TypeOK, Declare, Working
<1>2. {"completed", "failed"} \subseteq Working \ {"lookup", "check", "swap"}
  BY DEF Working
<1>3. Goto(j, "failed") \/ Goto(j, "completed")
  BY DEF Declare
<1> QED BY <1>1, <1>2, <1>3, TaskGoes

LEMMA FinishDoes ==
    ASSUME TypeOK, NEW j \in Job, NEW broken \in BOOLEAN, Finish(j, broken)
    PROVE  /\ IsTask(job[j]) /\ job' = [job EXCEPT ![j] = job'[j]] /\ IsTask(job'[j])
           /\ job'[j].pc = "over" /\ job[j].pc \in {"completed", "failed"}
           /\ job'[j].spec = job[j].spec /\ job'[j].mode = job[j].mode
<1>1. IsTask(job[j]) /\ DOMAIN job = Job /\ job[j].pc \in {"completed", "failed"}
  BY Kinds DEF TypeOK, Finish, Ended, Working
<1>2. "over" \in Working \ {"lookup", "check", "swap"}
  BY DEF Working
<1>3. Goto(j, "over")
  BY DEF Finish
<1> QED BY <1>1, <1>2, <1>3, TaskGoes

-----------------------------------------------------------------------------
\* One job becomes another job, the others stay.
JobsTyped == DOMAIN job = Job /\ \A k \in Job : IsJob(job[k])

LEMMA OneJob ==
    ASSUME JobsTyped, NEW j \in Job, NEW t, job' = [job EXCEPT ![j] = t]
    PROVE  /\ DOMAIN job' = Job /\ job'[j] = t /\ (IsJob(t) => JobsTyped')
           /\ \A k \in Job : k # j => job'[k] = job[k]
BY DEF JobsTyped

\* What starts a job.
LEMMA StartDoes ==
    ASSUME TypeOK, NEW j \in Job,
           \/ \E scope \in Scopes : StartCheck(j, scope)
           \/ \E draft \in RunSpec : SampleRun(j, draft)
           \/ MaterializeOnly(j)
    PROVE  /\ job[j] = NoJob /\ run[j] = NoRun /\ job' = [job EXCEPT ![j] = job'[j]]
           /\ \/ IsStart(job'[j]) /\ job'[j].spec = Current /\ job'[j].pc = "clear"
              \/ IsTask(job'[j]) /\ job'[j].pc = "prepare" /\ job'[j].mode = "bypass"
              \/ /\ IsTask(job'[j]) /\ job'[j].pc = "lock" /\ job'[j].mode = "rewrite"
                 /\ job'[j].spec = Current
           /\ UNCHANGED <<fn, cache, table, run, handles, lock, cancel, admin, history>>
<1>0. DOMAIN job = Job /\ Current \in RunSpec
  BY CurrentSaved DEF TypeOK
<1>1. ASSUME NEW scope \in Scopes, StartCheck(j, scope)
      PROVE  /\ IsStart(job'[j]) /\ job'[j].spec = Current /\ job'[j].pc = "clear"
             /\ job' = [job EXCEPT ![j] = job'[j]]
  <2> DEFINE t == [pc |-> "clear", spec |-> Current, scope |-> scope]
  <2>1. job' = [job EXCEPT ![j] = t]
    BY <1>1 DEF StartCheck
  <2>2. IsStart(t) /\ t.spec = Current /\ t.pc = "clear"
    BY <1>0 DEF IsStart
  <2> HIDE DEF t
  <2> QED BY <1>0, <2>1, <2>2
<1>2. ASSUME NEW draft \in RunSpec, SampleRun(j, draft)
      PROVE  /\ IsTask(job'[j]) /\ job'[j].pc = "prepare" /\ job'[j].mode = "bypass"
             /\ job' = [job EXCEPT ![j] = job'[j]]
  <2>1. job' = [job EXCEPT ![j] = Task(draft, "bypass", "prepare")]
    BY <1>2 DEF SampleRun
  <2>2. job'[j] = Task(draft, "bypass", "prepare")
    BY <1>0, <2>1
  <2>3. IsTask(job'[j]) /\ job'[j].pc = "prepare" /\ job'[j].mode = "bypass"
    BY <2>2, NewTask DEF Modes
  <2> QED BY <2>1, <2>2, <2>3
<1>3. ASSUME MaterializeOnly(j)
      PROVE  /\ IsTask(job'[j]) /\ job'[j].pc = "lock" /\ job'[j].mode = "rewrite"
             /\ job'[j].spec = Current
             /\ job' = [job EXCEPT ![j] = job'[j]]
  <2>1. job' = [job EXCEPT ![j] = Task(Current, "rewrite", "lock")]
    BY <1>3 DEF MaterializeOnly
  <2>2. job'[j] = Task(Current, "rewrite", "lock")
    BY <1>0, <2>1
  <2> QED BY <1>0, <2>1, <2>2, NewTask DEF Modes
<1>4. /\ job[j] = NoJob /\ run[j] = NoRun
      /\ UNCHANGED <<fn, cache, table, run, handles, lock, cancel, admin, history>>
  BY DEF StartCheck, SampleRun, MaterializeOnly, Unused
<1> QED BY <1>1, <1>2, <1>3, <1>4

LEMMA CachesTyped ==
    ASSUME TypeOK
    PROVE  /\ \A keep : Pruned(keep) \in [RunSpec \X Inputs(Row) -> Status]
           /\ \A scope, s : Cleared(scope, s) \in [RunSpec \X Inputs(Row) -> Status]
           /\ \A mode, s, c : \A status \in Status :
                 StoreCell(mode, s, c, status) \in [RunSpec \X Inputs(Row) -> Status]
<1>0. cache \in [RunSpec \X Inputs(Row) -> Status] /\ "none" \in Status
  BY DEF TypeOK, Status
<1>1. \A keep : Pruned(keep) \in [RunSpec \X Inputs(Row) -> Status]
  BY <1>0 DEF Pruned
<1>2. \A scope, s : Cleared(scope, s) \in [RunSpec \X Inputs(Row) -> Status]
  BY <1>0 DEF Cleared
<1>3. \A mode, s, c : \A status \in Status :
         StoreCell(mode, s, c, status) \in [RunSpec \X Inputs(Row) -> Status]
  BY <1>0 DEF StoreCell
<1> QED BY <1>1, <1>2, <1>3

\* The run rows after a step that touches one of them.
LEMMA RunsTyped ==
    ASSUME TypeOK, NEW j \in Job,
           \/ run' = [run EXCEPT ![j] = NewRun]
           \/ run[j] # NoRun /\ run' = [run EXCEPT ![j].kept = TRUE]
           \/ run[j] # NoRun /\ run' = [run EXCEPT ![j] = Progress(j)]
           \/ \E status \in Statuses : run[j] # NoRun /\ run' = [run EXCEPT ![j].status = status]
    PROVE  /\ DOMAIN run' = Job /\ \A k \in Job : IsRun(run'[k])
           /\ \A k \in Job : k # j => run'[k] = run[k]
           /\ run' = [run EXCEPT ![j] = NewRun] \/ run'[j].status = run[j].status
              \/ \E status \in Statuses :
                     run' = [run EXCEPT ![j].status = status] /\ run'[j].status = status
<1>0. DOMAIN run = Job /\ IsRun(run[j]) /\ \A k \in Job : IsRun(run[k])
  BY DEF TypeOK
<1>1. CASE run' = [run EXCEPT ![j] = NewRun]
  <2>1. IsRun(NewRun)
    BY DEF NewRun, IsRun, Statuses
  <2> QED BY <1>0, <1>1, <2>1
<1>2. CASE run[j] # NoRun /\ run' = [run EXCEPT ![j].kept = TRUE]
  <2>1. run'[j] = [run[j] EXCEPT !.kept = TRUE]
    BY <1>0, <1>2
  <2>2. DOMAIN run'[j] = DOMAIN run[j] /\ run'[j].status = run[j].status
    BY <1>0, <1>2, <2>1 DEF IsRun
  <2>3. IsRun(run'[j])
    BY <1>0, <1>2, <2>2 DEF IsRun
  <2> QED BY <1>0, <1>2, <2>2, <2>3
<1>3. CASE run[j] # NoRun /\ run' = [run EXCEPT ![j] = Progress(j)]
  <2>1. \E a, b : Progress(j) = [run[j] EXCEPT !.done = a, !.failed = b]
    BY DEF Progress
  <2>2. PICK a, b : run' = [run EXCEPT ![j] = [run[j] EXCEPT !.done = a, !.failed = b]]
    BY <1>3, <2>1
  <2>3. run'[j] = [run[j] EXCEPT !.done = a, !.failed = b]
    BY <1>0, <2>2
  <2>4. DOMAIN run'[j] = DOMAIN run[j] /\ run'[j].status = run[j].status
    BY <1>0, <1>3, <2>3 DEF IsRun
  <2>5. IsRun(run'[j])
    BY <1>0, <1>3, <2>4 DEF IsRun
  <2> QED BY <1>0, <2>2, <2>4, <2>5
<1>4. ASSUME NEW status \in Statuses, run[j] # NoRun, run' = [run EXCEPT ![j].status = status]
      PROVE  IsRun(run'[j]) /\ run'[j].status = status /\ DOMAIN run' = Job
             /\ \A k \in Job : k # j => run'[k] = run[k]
  <2>1. run'[j] = [run[j] EXCEPT !.status = status] /\ DOMAIN run' = Job
        /\ \A k \in Job : k # j => run'[k] = run[k]
    BY <1>0, <1>4
  <2>2. DOMAIN run'[j] = DOMAIN run[j] /\ run'[j].status = status
    BY <1>0, <1>4, <2>1 DEF IsRun
  <2> QED BY <1>0, <1>4, <2>1, <2>2 DEF IsRun
<1> QED BY <1>0, <1>1, <1>2, <1>3, <1>4

-----------------------------------------------------------------------------
LEMMA InitTyped == Init => TypeOK
<1> SUFFICES ASSUME Init PROVE TypeOK
  OBVIOUS
<1>1. PICK s \in RunSpec : fn = [alive |-> TRUE, saved |-> <<s>>]
  BY DEF Init
<1>2. fn \in [alive : BOOLEAN, saved : Seq(RunSpec)] /\ fn.saved # <<>>
  BY <1>1
<1>3. cache \in [RunSpec \X Inputs(Row) -> Status]
  BY DEF Init, Status
<1>4. /\ DOMAIN table = {"version", "behind", "rows", "shown"}
      /\ table.version \in Nat /\ table.behind \subseteq {"sync", "admin"}
      /\ table.rows \subseteq Row /\ lock \in Job \cup {Nobody}
  BY DEF Init
<1>5. /\ DOMAIN run = Job /\ \A j \in Job : IsRun(run[j])
      /\ DOMAIN job = Job /\ \A j \in Job : IsJob(job[j])
  BY DEF Init, IsRun, IsJob
<1>6. cancel = [pc |-> "idle"] /\ "pc" \in DOMAIN admin /\ admin.pc # "drop"
  BY DEF Init
<1> QED BY <1>2, <1>3, <1>4, <1>5, <1>6 DEF TypeOK

LEMMA RequestsTyped == TypeOK /\ Requests => TypeOK'
<1> SUFFICES ASSUME TypeOK, Requests PROVE TypeOK'
  OBVIOUS
<1>1. ASSUME NEW new \in SUBSET Row \ {{}}, Sync(new) PROVE TypeOK'
  <2>1. /\ DOMAIN table' = DOMAIN table /\ table'.version = table.version
        /\ table'.behind = table.behind \cup {"sync"} /\ table'.rows = table.rows \cup new
    <3> DEFINE shown == [r \in table.rows \cup new |-> IF r \in new THEN Null ELSE table.shown[r]]
    <3>1. table' = SwappedFor("sync", shown) /\ TableShaped
      BY <1>1 DEF Sync, TypeOK, TableShaped
    <3>2. DOMAIN shown = table.rows \cup new
      OBVIOUS
    <3> HIDE DEF shown
    <3> QED BY <3>1, <3>2, SwapsFor
  <2>2. UNCHANGED <<fn, cache, run, job, lock, cancel, admin>>
    BY <1>1 DEF Sync
  <2> QED BY <2>1, <2>2 DEF TypeOK, IsJob, IsStart, IsTask, IsRun
<1>2. ASSUME NEW s \in RunSpec, UpdateFunction(s) PROVE TypeOK'
  <2>1. fn' = [fn EXCEPT !.saved = Append(fn.saved, s)]
    BY <1>2 DEF UpdateFunction
  <2>2. fn' \in [alive : BOOLEAN, saved : Seq(RunSpec)] /\ fn'.saved # <<>>
    <3>1. fn \in [alive : BOOLEAN, saved : Seq(RunSpec)]
      BY DEF TypeOK
    <3>2. Append(fn.saved, s) \in Seq(RunSpec) /\ Append(fn.saved, s) # <<>>
      BY <3>1
    <3> HIDE DEF TypeOK
    <3> DEFINE grown == Append(fn.saved, s)
    <3>3. grown \in Seq(RunSpec) /\ grown # <<>> /\ fn' = [fn EXCEPT !.saved = grown]
      BY <2>1, <3>2
    <3> HIDE DEF grown
    <3> QED BY <3>1, <3>3
  <2>3. cache' \in [RunSpec \X Inputs(Row) -> Status]
    BY <1>2, CachesTyped DEF UpdateFunction
  <2>4. UNCHANGED <<table, run, job, lock, cancel, admin>>
    BY <1>2 DEF UpdateFunction
  <2> QED BY <2>2, <2>3, <2>4 DEF TypeOK, IsJob, IsStart, IsTask, IsRun
<1>3. ASSUME NEW j \in Job,
             \/ \E scope \in Scopes : StartCheck(j, scope)
             \/ \E draft \in RunSpec : SampleRun(j, draft)
             \/ MaterializeOnly(j)
      PROVE  TypeOK'
  <2>1. /\ job' = [job EXCEPT ![j] = job'[j]] /\ IsJob(job'[j])
        /\ UNCHANGED <<fn, cache, table, run, lock, cancel, admin>>
    BY <1>3, StartDoes DEF IsJob
  <2>2. JobsTyped'
    BY <2>1, OneJob DEF JobsTyped, TypeOK
  <2> QED BY <2>1, <2>2 DEF TypeOK, JobsTyped, IsRun
<1>4. ASSUME NEW j \in Job, CancelRead(j) PROVE TypeOK'
  <2>1. cancel' \in [pc : {"abort", "mark"}, of : Job]
    BY <1>4 DEF CancelRead
  <2>2. UNCHANGED <<fn, cache, table, run, job, lock, admin>>
    BY <1>4 DEF CancelRead
  <2> QED BY <2>1, <2>2 DEF TypeOK, IsJob, IsStart, IsTask, IsRun
<1>5. ASSUME NEW op, NEW drop \in BOOLEAN, AdminCheck(op, drop) PROVE TypeOK'
  <2>1. "pc" \in DOMAIN admin' /\ admin'.pc # "drop"
    BY <1>5 DEF AdminCheck
  <2>2. UNCHANGED <<fn, cache, table, run, job, lock, cancel>>
    BY <1>5 DEF AdminCheck
  <2> QED BY <2>1, <2>2 DEF TypeOK, IsJob, IsStart, IsTask, IsRun
<1> QED BY <1>1, <1>2, <1>3, <1>4, <1>5 DEF Requests
LEMMA JobStepTyped == ASSUME TypeOK, NEW j \in Job, JobStep(j) PROVE TypeOK'
<1>0. JobsTyped /\ DOMAIN run = Job /\ \A k \in Job : IsRun(run[k])
  BY DEF TypeOK, JobsTyped
<1>a. ASSUME job' = [job EXCEPT ![j] = job'[j]], IsJob(job'[j]),
             fn' = fn, cache' \in [RunSpec \X Inputs(Row) -> Status],
             DOMAIN table' = DOMAIN table, table'.version \in Nat,
             table'.behind \subseteq {"sync", "admin"}, table'.rows \subseteq Row,
             DOMAIN run' = Job, \A k \in Job : IsRun(run'[k]),
             lock' \in Job \cup {Nobody}, cancel' = cancel, admin' = admin
      PROVE  TypeOK'
  <2>1. JobsTyped'
    BY <1>0, <1>a, OneJob
  <2> QED BY <1>a, <2>1 DEF TypeOK, JobsTyped
<1>1. CASE StartClear(j)
  <2>1. job' = [job EXCEPT ![j] = job'[j]] /\ IsJob(job'[j])
    BY <1>1, StartClearDoes DEF IsJob
  <2>2. cache' \in [RunSpec \X Inputs(Row) -> Status]
    BY <1>1, CachesTyped DEF StartClear
  <2>3. UNCHANGED <<fn, table, run, lock, cancel, admin>>
    BY <1>1 DEF StartClear
  <2> QED BY <1>a, <2>1, <2>2, <2>3 DEF TypeOK
<1>2. CASE StartInsert(j)
  <2>1. job' = [job EXCEPT ![j] = job'[j]] /\ IsJob(job'[j])
    BY <1>2, StartInsertDoes DEF IsJob
  <2>2. DOMAIN run' = Job /\ \A k \in Job : IsRun(run'[k])
    BY <1>0, <1>2, StartInsertDoes, RunsTyped
  <2>3. UNCHANGED <<fn, cache, table, lock, cancel, admin>>
    BY <1>2 DEF StartInsert
  <2> QED BY <1>a, <2>1, <2>2, <2>3 DEF TypeOK
<1>3. CASE KeepHandle(j)
  <2>1. DOMAIN run' = Job /\ \A k \in Job : IsRun(run'[k])
    BY <1>3, RunsTyped DEF KeepHandle, Starting
  <2>2. UNCHANGED <<fn, cache, table, job, lock, cancel, admin>>
    BY <1>3 DEF KeepHandle
  <2> QED BY <2>1, <2>2 DEF TypeOK, IsJob, IsStart, IsTask
<1>4. CASE Prepare(j)
  <2>1. job' = [job EXCEPT ![j] = job'[j]] /\ IsJob(job'[j])
    BY <1>4, PrepareDoes DEF IsJob
  <2>2. UNCHANGED <<fn, cache, table, run, lock, cancel, admin>>
    BY <1>4 DEF Prepare
  <2> QED BY <1>a, <2>1, <2>2 DEF TypeOK
<1>5. CASE CellsDone(j)
  <2>1. job' = [job EXCEPT ![j] = job'[j]] /\ IsJob(job'[j])
    BY <1>5, CellsDoneDoes DEF IsJob
  <2>2. DOMAIN run' = Job /\ \A k \in Job : IsRun(run'[k])
    BY <1>0, <1>5, RunsTyped DEF CellsDone
  <2>3. UNCHANGED <<fn, cache, table, lock, cancel, admin>>
    BY <1>5 DEF CellsDone
  <2> QED BY <1>a, <2>1, <2>2, <2>3 DEF TypeOK
<1>6. ASSUME NEW c \in Inputs(Row), NEW first \in Answers, NEW second \in Answers, NEW lost \in BOOLEAN,
             ComputeCell(j, c, first, second, lost)
      PROVE  TypeOK'
  <2>1. job' = [job EXCEPT ![j] = job'[j]] /\ IsJob(job'[j])
    BY <1>6, ComputeDoes DEF IsJob
  <2>2. Outcome(first, second) \in Status
    BY DEF Outcome, Status
  <2>3. cache' = cache \/ cache' = StoreCell(job[j].mode, job[j].spec, c, Outcome(first, second))
    BY <1>6 DEF ComputeCell
  <2>4. cache' \in [RunSpec \X Inputs(Row) -> Status]
    BY <2>2, <2>3, CachesTyped DEF TypeOK
  <2>5. UNCHANGED <<fn, table, run, lock, cancel, admin>>
    BY <1>6 DEF ComputeCell
  <2> QED BY <1>a, <2>1, <2>4, <2>5 DEF TypeOK
<1>7. CASE ReadTable(j)
  <2>1. job' = [job EXCEPT ![j] = job'[j]] /\ IsJob(job'[j]) /\ lock' \in Job \cup {Nobody}
    BY <1>7, ReadDoes DEF IsJob
  <2>2. UNCHANGED <<fn, cache, table, run, cancel, admin>>
    BY <1>7 DEF ReadTable
  <2> QED BY <1>a, <2>1, <2>2 DEF TypeOK
<1>8. CASE LookUp(j)
  <2>1. job' = [job EXCEPT ![j] = job'[j]] /\ IsJob(job'[j])
    BY <1>8, LookUpDoes DEF IsJob
  <2>2. UNCHANGED <<fn, cache, table, run, lock, cancel, admin>>
    BY <1>8 DEF LookUp
  <2> QED BY <1>a, <2>1, <2>2 DEF TypeOK
<1>9. ASSUME NEW broken \in BOOLEAN, Replace(j, broken) PROVE TypeOK'
  <2>1. job' = [job EXCEPT ![j] = job'[j]] /\ IsJob(job'[j]) /\ lock' \in {lock, Nobody}
    BY <1>9, ReplaceDoes DEF IsJob
  <2>2. DOMAIN job[j].todo[2] \subseteq Row
    BY <1>9, ReplaceDoes DEF IsTask
  <2>3. \/ table' = table
        \/ /\ DOMAIN table' = DOMAIN table /\ table'.version = table.version + 1
           /\ table'.behind = table.behind /\ table'.rows = DOMAIN job[j].todo[2]
    BY <1>9, ReplaceDoes
  <2>4. /\ DOMAIN table' = DOMAIN table /\ table'.version \in Nat
        /\ table'.behind \subseteq {"sync", "admin"} /\ table'.rows \subseteq Row
    BY <2>2, <2>3 DEF TypeOK
  <2>5. UNCHANGED <<fn, cache, run, cancel, admin>>
    BY <1>9 DEF Replace
  <2> QED BY <1>a, <2>1, <2>4, <2>5 DEF TypeOK
<1>13. CASE CheckVersion(j)
  <2>1. job' = [job EXCEPT ![j] = job'[j]] /\ IsJob(job'[j]) /\ lock' \in {lock, Nobody}
    BY <1>13, CheckDoes DEF IsJob
  <2>2. UNCHANGED <<fn, cache, table, run, cancel, admin>>
    BY <1>13 DEF CheckVersion
  <2> QED BY <1>a, <2>1, <2>2 DEF TypeOK
<1>10. ASSUME NEW broken \in BOOLEAN, Declare(j, broken) PROVE TypeOK'
  <2>1. job' = [job EXCEPT ![j] = job'[j]] /\ IsJob(job'[j])
    BY <1>10, DeclareDoes DEF IsJob
  <2>2. UNCHANGED <<fn, cache, table, run, cancel, admin>> /\ lock' = Nobody
    BY <1>10 DEF Declare
  <2> QED BY <1>a, <2>1, <2>2 DEF TypeOK
<1>11. ASSUME NEW broken \in BOOLEAN, Finish(j, broken) PROVE TypeOK'
  <2>1. job' = [job EXCEPT ![j] = job'[j]] /\ IsJob(job'[j]) /\ job[j].pc \in Statuses
    BY <1>11, FinishDoes DEF IsJob, Statuses
  <2>2. DOMAIN run' = Job /\ \A k \in Job : IsRun(run'[k])
    BY <1>0, <1>11, <2>1, RunsTyped DEF Finish
  <2>3. UNCHANGED <<fn, cache, table, lock, cancel, admin>>
    BY <1>11 DEF Finish
  <2> QED BY <1>a, <2>1, <2>2, <2>3 DEF TypeOK
<1>12. CASE DropHandle(j)
  <2>1. job' = [job EXCEPT ![j] = NoJob]
    BY <1>12 DEF DropHandle
  <2>2. job' = [job EXCEPT ![j] = job'[j]] /\ IsJob(job'[j])
    BY <1>0, <2>1 DEF JobsTyped, IsJob
  <2>3. UNCHANGED <<fn, cache, table, run, lock, cancel, admin>>
    BY <1>12 DEF DropHandle
  <2> QED BY <1>a, <2>2, <2>3 DEF TypeOK
<1> QED BY <1>1, <1>2, <1>3, <1>4, <1>5, <1>6, <1>7, <1>8, <1>9, <1>10, <1>11, <1>12,
       <1>13 DEF JobStep

LEMMA AbortDoes ==
    ASSUME TypeOK, CancelAbort
    PROVE  /\ cancel.of \in Job /\ cancel' = [pc |-> "mark", of |-> cancel.of]
           /\ \/ job' = job /\ lock' = lock
              \/ /\ job' = [job EXCEPT ![cancel.of] = NoJob]
                 /\ lock' = IF lock = cancel.of THEN Nobody ELSE lock
<1>1. cancel \in [pc : {"abort", "mark"}, of : Job]
  BY DEF TypeOK, CancelAbort
<1>2. cancel' = [cancel EXCEPT !.pc = "mark"]
  BY DEF CancelAbort
<1>3. cancel' = [pc |-> "mark", of |-> cancel.of]
  BY <1>1, <1>2
<1>4. \/ job' = job /\ lock' = lock
      \/ /\ job' = [job EXCEPT ![cancel.of] = NoJob]
         /\ lock' = IF lock = cancel.of THEN Nobody ELSE lock
  BY DEF CancelAbort
<1> QED BY <1>1, <1>3, <1>4

LEMMA MarkDoes ==
    ASSUME TypeOK, NEW broken \in BOOLEAN, CancelMark(broken)
    PROVE  /\ cancel.of \in Job /\ cancel = [pc |-> "mark", of |-> cancel.of]
           /\ cancel' = [pc |-> "idle"]
           /\ \/ run' = run /\ (run[cancel.of] = NoRun \/ cancel.of \in orphaned')
              \/ run[cancel.of] # NoRun /\ run' = [run EXCEPT ![cancel.of].status = "cancelled"]
           /\ orphaned \subseteq orphaned'
           /\ UNCHANGED <<fn, cache, table, job, lock, admin>>
<1>1. cancel \in [pc : {"abort", "mark"}, of : Job] /\ cancel.pc = "mark"
  BY DEF TypeOK, CancelMark
<1>2. cancel = [pc |-> "mark", of |-> cancel.of] /\ cancel.of \in Job
  BY <1>1
<1>3. /\ cancel' = [pc |-> "idle"]
      /\ \/ run' = run /\ (run[cancel.of] = NoRun \/ broken)
         \/ run[cancel.of] # NoRun /\ run' = [run EXCEPT ![cancel.of].status = "cancelled"]
      /\ UNCHANGED <<fn, cache, table, job, lock, admin>>
  BY DEF CancelMark
<1>4. orphaned \subseteq orphaned' /\ (broken => cancel.of \in orphaned')
  BY DEF CancelMark
<1> QED BY <1>2, <1>3, <1>4

LEMMA OtherStepsTyped ==
    TypeOK /\ (Counting \/ CancelStep \/ DropRead \/ DropReplace \/ Forget \/ Restart) => TypeOK'
<1> SUFFICES ASSUME TypeOK, Counting \/ CancelStep \/ DropRead \/ DropReplace \/ Forget \/ Restart PROVE TypeOK'
  OBVIOUS
<1>0. JobsTyped /\ IsJob(NoJob) /\ DOMAIN run = Job /\ \A k \in Job : IsRun(run[k])
  BY DEF TypeOK, JobsTyped, IsJob
<1>1. CASE CancelAbort
  <2>1. JobsTyped' /\ lock' \in Job \cup {Nobody}
    <3>1. CASE job' = job /\ lock' = lock
      BY <1>0, <3>1 DEF JobsTyped, TypeOK
    <3>2. CASE job' = [job EXCEPT ![cancel.of] = NoJob] /\ lock' \in {lock, Nobody}
      BY <1>0, <1>1, <3>2, AbortDoes, OneJob DEF TypeOK
    <3> QED BY <1>1, <3>1, <3>2, AbortDoes
  <2>2. cancel' \in [pc : {"abort", "mark"}, of : Job]
    BY <1>1, AbortDoes
  <2>3. UNCHANGED <<fn, cache, table, run, admin>>
    BY <1>1 DEF CancelAbort
  <2> QED BY <2>1, <2>2, <2>3 DEF TypeOK, JobsTyped, IsRun
<1>2. ASSUME NEW broken \in BOOLEAN, CancelMark(broken) PROVE TypeOK'
  <2>1. DOMAIN run' = Job /\ \A k \in Job : IsRun(run'[k])
    BY <1>0, <1>2, MarkDoes, RunsTyped DEF Statuses
  <2>2. cancel' = [pc |-> "idle"] /\ UNCHANGED <<fn, cache, table, job, lock, admin>>
    BY <1>2, MarkDoes
  <2> QED BY <2>1, <2>2 DEF TypeOK, IsJob, IsStart, IsTask
<1>3. CASE DropRead
  <2>1. "pc" \in DOMAIN admin' /\ admin'.rows \subseteq Row
    BY <1>3 DEF DropRead, TypeOK
  <2>2. UNCHANGED <<fn, cache, table, run, job, lock, cancel>>
    BY <1>3 DEF DropRead
  <2> QED BY <2>1, <2>2 DEF TypeOK, IsJob, IsStart, IsTask, IsRun
<1>4. CASE DropReplace
  <2>1. admin.pc = "drop" /\ admin.rows \subseteq Row /\ admin' = [admin EXCEPT !.pc = "forget"]
    BY <1>4 DEF DropReplace, TypeOK
  <2>2. \/ table' = table
        \/ /\ DOMAIN table' = DOMAIN table /\ table'.version = table.version
           /\ table'.behind = table.behind \cup {"admin"} /\ table'.rows = admin.rows
    <3>1. CASE table' = table
      BY <3>1
    <3>2. CASE table' # table
      <4> DEFINE shown == [r \in admin.rows |-> Null]
      <4>1. table' = SwappedFor("admin", shown) /\ TableShaped
        BY <1>4, <3>2 DEF DropReplace, TypeOK, TableShaped
      <4>2. DOMAIN shown = admin.rows
        OBVIOUS
      <4> HIDE DEF shown
      <4> QED BY <4>1, <4>2, SwapsFor
    <3> QED BY <3>1, <3>2
  <2>3. /\ DOMAIN table' = DOMAIN table /\ table'.version \in Nat
        /\ table'.behind \subseteq {"sync", "admin"} /\ table'.rows \subseteq Row
    BY <2>1, <2>2 DEF TypeOK
  <2>4. DOMAIN admin' = DOMAIN admin /\ admin'.pc = "forget"
    BY <2>1 DEF TypeOK
  <2>5. UNCHANGED <<fn, cache, run, job, lock, cancel>>
    BY <1>4 DEF DropReplace
  <2> QED BY <2>3, <2>4, <2>5 DEF TypeOK, IsJob, IsStart, IsTask, IsRun
<1>5. CASE Forget
  <2>1. fn' \in [alive : BOOLEAN, saved : Seq(RunSpec)] /\ fn'.saved # <<>>
    <3>1. fn \in [alive : BOOLEAN, saved : Seq(RunSpec)] /\ fn.saved # <<>>
      BY DEF TypeOK
    <3>2. fn' = fn \/ fn' = [fn EXCEPT !.alive = FALSE]
      BY <1>5 DEF Forget
    <3> QED BY <3>1, <3>2
  <2>2. cache' \in [RunSpec \X Inputs(Row) -> Status]
    BY <1>5, CachesTyped DEF Forget
  <2>3. run' = run \/ run' = [k \in Job |-> NoRun]
    BY <1>5 DEF Forget
  <2>4. DOMAIN run' = Job /\ \A k \in Job : IsRun(run'[k])
    BY <1>0, <2>3 DEF IsRun
  <2>5. "pc" \in DOMAIN admin' /\ admin'.pc # "drop" /\ UNCHANGED <<table, job, lock, cancel>>
    BY <1>5 DEF Forget
  <2> QED BY <2>1, <2>2, <2>4, <2>5 DEF TypeOK, IsJob, IsStart, IsTask
<1>6. CASE Restart
  <2>1. DOMAIN run' = Job /\ \A k \in Job : run'[k] = Recovered(run[k])
    BY <1>6 DEF Restart
  <2>2. ASSUME NEW k \in Job PROVE IsRun(Recovered(run[k]))
    <3>1. CASE run[k] = NoRun
      BY <3>1 DEF Recovered, IsRun
    <3>2. CASE run[k] # NoRun
      <4>1. PICK status \in Statuses : Recovered(run[k]) = [run[k] EXCEPT !.kept = TRUE, !.status = status]
        BY <1>0, <3>2 DEF Recovered, IsRun, Statuses
      <4>2. DOMAIN Recovered(run[k]) = DOMAIN run[k] /\ Recovered(run[k]).status = status
        BY <1>0, <3>2, <4>1 DEF IsRun
      <4> QED BY <1>0, <3>2, <4>2 DEF IsRun
    <3> QED BY <3>1, <3>2
  <2>3. /\ JobsTyped' /\ lock' = Nobody /\ cancel' = [pc |-> "idle"]
        /\ "pc" \in DOMAIN admin' /\ admin'.pc # "drop"
    BY <1>0, <1>6 DEF Restart, JobsTyped
  <2>4. UNCHANGED <<fn, cache>> /\ table' = [table EXCEPT !.behind = {}]
    BY <1>6 DEF Restart
  <2>5. /\ DOMAIN table' = DOMAIN table /\ table'.version = table.version
        /\ table'.behind = {} /\ table'.rows = table.rows
    BY <2>4 DEF TypeOK
  <2> QED BY <2>1, <2>2, <2>3, <2>4, <2>5 DEF TypeOK, JobsTyped
<1>7. CASE Counting
  <2>1. PICK who \in {"sync", "admin"} : CountUp(who)
    BY <1>7 DEF Counting
  <2>2. /\ DOMAIN table' = DOMAIN table /\ table'.version = table.version + 1
        /\ table'.behind = table.behind \ {who} /\ table'.rows = table.rows
    BY <2>1, CountsUp DEF TypeOK, TableShaped
  <2>3. UNCHANGED <<fn, cache, run, job, lock, cancel, admin>>
    BY <2>1 DEF CountUp
  <2> QED BY <2>2, <2>3 DEF TypeOK, IsJob, IsStart, IsTask, IsRun
<1> QED BY <1>1, <1>2, <1>3, <1>4, <1>5, <1>6, <1>7 DEF CancelStep

-----------------------------------------------------------------------------
\* A step of a job touches that job only, and leaves it its spec and its mode.
LEMMA JobMoves ==
    ASSUME TypeOK, NEW j \in Job, JobStep(j)
    PROVE  /\ \A k \in Job : k # j => job'[k] = job[k]
           /\ \/ job'[j] = job[j] \/ job'[j] = NoJob
              \/ IsStart(job[j]) /\ IsStart(job'[j]) /\ job'[j].spec = job[j].spec
              \/ /\ IsStart(job[j]) /\ IsTask(job'[j]) /\ job'[j].spec = job[j].spec
                 /\ job'[j].mode = "use"
              \/ /\ IsTask(job[j]) /\ IsTask(job'[j]) /\ job'[j].spec = job[j].spec
                 /\ job'[j].mode = job[j].mode
           /\ fn' = fn
<1>0. JobsTyped
  BY DEF TypeOK, JobsTyped
<1>1. CASE StartClear(j)
  <2>1. fn' = fn
    BY <1>1 DEF StartClear
  <2> QED BY <1>0, <1>1, <2>1, StartClearDoes, OneJob
<1>2. CASE StartInsert(j)
  <2>1. fn' = fn
    BY <1>2 DEF StartInsert
  <2> QED BY <1>0, <1>2, <2>1, StartInsertDoes, OneJob
<1>3. CASE KeepHandle(j)
  BY <1>3 DEF KeepHandle
<1>4. CASE Prepare(j)
  <2>1. fn' = fn
    BY <1>4 DEF Prepare
  <2> QED BY <1>0, <1>4, <2>1, PrepareDoes, OneJob
<1>5. CASE CellsDone(j)
  <2>1. fn' = fn
    BY <1>5 DEF CellsDone
  <2> QED BY <1>0, <1>5, <2>1, CellsDoneDoes, OneJob
<1>6. ASSUME NEW c \in Inputs(Row), NEW first \in Answers, NEW second \in Answers, NEW lost \in BOOLEAN,
             ComputeCell(j, c, first, second, lost)
      PROVE  /\ fn' = fn /\ \A k \in Job : k # j => job'[k] = job[k]
             /\ IsTask(job[j]) /\ IsTask(job'[j]) /\ job'[j].spec = job[j].spec
             /\ job'[j].mode = job[j].mode
  <2>1. fn' = fn
    BY <1>6 DEF ComputeCell
  <2> QED BY <1>0, <1>6, <2>1, ComputeDoes, OneJob
<1>7. CASE ReadTable(j)
  <2>1. fn' = fn
    BY <1>7 DEF ReadTable
  <2> QED BY <1>0, <1>7, <2>1, ReadDoes, OneJob
<1>8. CASE LookUp(j)
  <2>1. fn' = fn
    BY <1>8 DEF LookUp
  <2> QED BY <1>0, <1>8, <2>1, LookUpDoes, OneJob
<1>9. ASSUME NEW broken \in BOOLEAN, Replace(j, broken)
      PROVE  /\ fn' = fn /\ \A k \in Job : k # j => job'[k] = job[k]
             /\ IsTask(job[j]) /\ IsTask(job'[j]) /\ job'[j].spec = job[j].spec
             /\ job'[j].mode = job[j].mode
  <2>1. fn' = fn
    BY <1>9 DEF Replace
  <2> QED BY <1>0, <1>9, <2>1, ReplaceDoes, OneJob
<1>12. CASE CheckVersion(j)
  <2>1. fn' = fn
    BY <1>12 DEF CheckVersion
  <2> QED BY <1>0, <1>12, <2>1, CheckDoes, OneJob
<1>10. ASSUME NEW broken \in BOOLEAN, Declare(j, broken) \/ Finish(j, broken)
       PROVE  /\ fn' = fn /\ \A k \in Job : k # j => job'[k] = job[k]
              /\ IsTask(job[j]) /\ IsTask(job'[j]) /\ job'[j].spec = job[j].spec
              /\ job'[j].mode = job[j].mode
  <2>1. fn' = fn
    BY <1>10 DEF Declare, Finish
  <2> QED BY <1>0, <1>10, <2>1, DeclareDoes, FinishDoes, OneJob
<1>11. CASE DropHandle(j)
  <2>1. fn' = fn /\ job' = [job EXCEPT ![j] = NoJob]
    BY <1>11 DEF DropHandle
  <2> QED BY <1>0, <2>1, OneJob
<1> QED BY <1>1, <1>2, <1>3, <1>4, <1>5, <1>6, <1>7, <1>8, <1>9, <1>10, <1>11, <1>12
    DEF JobStep

-----------------------------------------------------------------------------
\* Cells are stored under saved specs only.
LEMMA SavedKept ==
    ASSUME SavedInv, fn'.saved = fn.saved, DOMAIN cache' = DOMAIN cache,
           \A k \in Job :
              \/ job'[k] = job[k] \/ job'[k] = NoJob
              \/ IsTask(job'[k]) /\ job'[k].mode = "bypass"
              \/ (IsStart(job'[k]) \/ IsTask(job'[k])) /\ Saved(job'[k].spec),
           \A e \in DOMAIN cache : cache'[e] = cache[e] \/ cache'[e] = "none" \/ Saved(e[1])
    PROVE  SpecsSaved' /\ CacheOnlySaved'
<1>1. \A s : Saved(s)' <=> Saved(s)
  BY DEF Saved
<1>2. ASSUME NEW k \in Job, IsStart(job'[k]) \/ (IsTask(job'[k]) /\ job'[k].mode # "bypass")
      PROVE  \E i \in DOMAIN fn'.saved : fn'.saved[i] = job'[k].spec
  <2>1. job'[k] # NoJob
    BY <1>2, Kinds
  <2>2. ~(IsTask(job'[k]) /\ job'[k].mode = "bypass")
    BY <1>2, Kinds
  <2>3. CASE job'[k] = job[k]
    <3>1. Saved(job[k].spec)
      BY <1>2, <2>3 DEF SavedInv, SpecsSaved
    <3> QED BY <2>3, <3>1 DEF Saved
  <2>4. CASE Saved(job'[k].spec)
    BY <2>4 DEF Saved
  <2> QED BY <2>1, <2>2, <2>3, <2>4
<1>3. SpecsSaved'
  BY <1>2 DEF SpecsSaved, Saved, IsStart, IsTask
<1>4. ASSUME NEW e \in DOMAIN cache', cache'[e] # "none" PROVE Saved(e[1])'
  <2>1. CASE cache'[e] = cache[e]
    <3>1. Saved(e[1])
      BY <1>4, <2>1 DEF SavedInv, CacheOnlySaved, Saved
    <3> QED BY <3>1 DEF Saved
  <2>2. CASE Saved(e[1])
    BY <2>2 DEF Saved
  <2> QED BY <1>4, <2>1, <2>2
<1> QED BY <1>3, <1>4 DEF CacheOnlySaved, Saved

\* What an edit saved before it saved once more stays saved.
LEMMA SavedGrows ==
    ASSUME TypeOK, NEW s \in RunSpec, fn' = [fn EXCEPT !.saved = Append(@, s)]
    PROVE  \A x : Saved(x) => Saved(x)'
<1> SUFFICES ASSUME NEW x, Saved(x) PROVE Saved(x)'
  OBVIOUS
<1>1. fn.saved \in Seq(RunSpec) /\ fn \in [alive : BOOLEAN, saved : Seq(RunSpec)]
  BY DEF TypeOK
<1>2. PICK i \in DOMAIN fn.saved : fn.saved[i] = x
  BY DEF Saved
<1> DEFINE grown == Append(fn.saved, s)
<1>3. i \in DOMAIN grown /\ grown[i] = x
  BY <1>1, <1>2
<1> HIDE DEF grown
<1>4. fn' = [fn EXCEPT !.saved = grown]
  BY DEF grown
<1>5. fn'.saved = grown
  BY <1>1, <1>4
<1> QED BY <1>3, <1>5 DEF Saved

LEMMA InitSaved == Init => SavedInv
<1> SUFFICES ASSUME Init PROVE SavedInv
  OBVIOUS
<1>1. TypeOK
  BY InitTyped
<1>2. \A j \in Job : job[j] = NoJob
  BY DEF Init
<1>3. SpecsSaved
  BY <1>2, Kinds DEF SpecsSaved
<1>4. CacheOnlySaved
  BY DEF Init, CacheOnlySaved
<1> QED BY <1>1, <1>3, <1>4 DEF SavedInv

LEMMA RequestsSaved == SavedInv /\ Requests => SpecsSaved' /\ CacheOnlySaved'
<1> SUFFICES ASSUME SavedInv, Requests PROVE SpecsSaved' /\ CacheOnlySaved'
  OBVIOUS
<1>0. TypeOK /\ JobsTyped
  BY DEF SavedInv, TypeOK, JobsTyped
<1>1. ASSUME NEW new, Sync(new) PROVE SpecsSaved' /\ CacheOnlySaved'
  <2>1. UNCHANGED <<fn, cache, job>>
    BY <1>1 DEF Sync
  <2> QED BY <2>1, SavedKept
<1>2. ASSUME NEW s \in RunSpec, UpdateFunction(s) PROVE SpecsSaved' /\ CacheOnlySaved'
  <2>1. /\ fn' = [fn EXCEPT !.saved = Append(@, s)] /\ job' = job
        /\ cache' = Pruned({s, Current})
    BY <1>2 DEF UpdateFunction
  <2>2. \A x : Saved(x) => Saved(x)'
    BY <1>0, <2>1, SavedGrows
  <2>3. SpecsSaved'
    <3> SUFFICES ASSUME NEW k \in Job,
                        IsStart(job[k]) \/ (IsTask(job[k]) /\ job[k].mode # "bypass")
                 PROVE  Saved(job[k].spec)'
      BY <2>1 DEF SpecsSaved, IsStart, IsTask
    <3>1. Saved(job[k].spec)
      BY DEF SavedInv, SpecsSaved
    <3> QED BY <2>1, <2>2, <3>1
  <2>4. ASSUME NEW e \in DOMAIN cache', cache'[e] # "none" PROVE Saved(e[1])'
    <3>1. e \in DOMAIN cache /\ cache[e] # "none"
      BY <2>1, <2>4 DEF Pruned
    <3>2. Saved(e[1])
      BY <3>1 DEF SavedInv, CacheOnlySaved, Saved
    <3> QED BY <2>2, <3>2
  <2> QED BY <2>3, <2>4 DEF CacheOnlySaved, Saved
<1>3. ASSUME NEW j \in Job,
             \/ \E scope \in Scopes : StartCheck(j, scope)
             \/ \E draft \in RunSpec : SampleRun(j, draft)
             \/ MaterializeOnly(j)
      PROVE  SpecsSaved' /\ CacheOnlySaved'
  <2>1. /\ job' = [job EXCEPT ![j] = job'[j]] /\ UNCHANGED <<fn, cache>>
        /\ \/ IsStart(job'[j]) /\ job'[j].spec = Current
           \/ IsTask(job'[j]) /\ job'[j].mode = "bypass"
           \/ IsTask(job'[j]) /\ job'[j].spec = Current
    BY <1>0, <1>3, StartDoes
  <2>2. Saved(Current)
    BY <1>0, CurrentSaved
  <2>3. \A k \in Job : k # j => job'[k] = job[k]
    BY <1>0, <2>1, OneJob
  <2> QED BY <2>1, <2>2, <2>3, SavedKept
<1>4. ASSUME NEW j \in Job, CancelRead(j) PROVE SpecsSaved' /\ CacheOnlySaved'
  <2>1. UNCHANGED <<fn, cache, job>>
    BY <1>4 DEF CancelRead
  <2> QED BY <2>1, SavedKept
<1>5. ASSUME NEW op, NEW drop, AdminCheck(op, drop) PROVE SpecsSaved' /\ CacheOnlySaved'
  <2>1. UNCHANGED <<fn, cache, job>>
    BY <1>5 DEF AdminCheck
  <2> QED BY <2>1, SavedKept
<1> QED BY <1>1, <1>2, <1>3, <1>4, <1>5 DEF Requests

\* A job's spec stays saved, and what it stores, it stores under that spec.
LEMMA JobStepSaved ==
    ASSUME SavedInv, NEW j \in Job, JobStep(j) PROVE SpecsSaved' /\ CacheOnlySaved'
<1>0. TypeOK /\ JobsTyped
  BY DEF SavedInv, TypeOK, JobsTyped
<1>1. fn' = fn
  BY <1>0, JobMoves
<1>2. ASSUME NEW k \in Job
      PROVE  \/ job'[k] = job[k] \/ job'[k] = NoJob
             \/ IsTask(job'[k]) /\ job'[k].mode = "bypass"
             \/ (IsStart(job'[k]) \/ IsTask(job'[k])) /\ Saved(job'[k].spec)
  <2>1. CASE k # j
    BY <1>0, <2>1, JobMoves
  <2>2. CASE k = j
    <3>1. IsStart(job[j]) => Saved(job[j].spec)
      BY DEF SavedInv, SpecsSaved
    <3>2. IsTask(job[j]) /\ job[j].mode # "bypass" => Saved(job[j].spec)
      BY DEF SavedInv, SpecsSaved
    <3> QED BY <1>0, <2>2, <3>1, <3>2, JobMoves
  <2> QED BY <2>1, <2>2
<1>3. /\ DOMAIN cache' = DOMAIN cache
      /\ \A e \in DOMAIN cache : cache'[e] = cache[e] \/ cache'[e] = "none" \/ Saved(e[1])
  <2>1. CASE StartClear(j)
    <3>1. cache' = Cleared(job[j].scope, job[j].spec)
      BY <2>1 DEF StartClear
    <3> QED BY <3>1 DEF Cleared
  <2>2. ASSUME NEW c \in Inputs(Row), NEW first \in Answers, NEW second \in Answers, NEW lost \in BOOLEAN,
               ComputeCell(j, c, first, second, lost)
        PROVE  /\ DOMAIN cache' = DOMAIN cache
               /\ \A e \in DOMAIN cache : cache'[e] = cache[e] \/ Saved(e[1])
    <3>1. \/ cache' = cache
          \/ cache' = [cache EXCEPT ![<<job[j].spec, c>>] = Outcome(first, second)] /\ job[j].mode = "use"
      BY <2>2 DEF ComputeCell, StoreCell, Stores
    <3>2. job[j].mode = "use" => Saved(job[j].spec)
      BY <1>0, <2>2, ComputeDoes DEF SavedInv, SpecsSaved
    <3>3. \A e \in DOMAIN cache : e = <<job[j].spec, c>> => e[1] = job[j].spec
      OBVIOUS
    <3> QED BY <3>1, <3>2, <3>3
  <2>3. CASE cache' = cache
    BY <2>3
  <2> QED BY <2>1, <2>2, <2>3
          DEF JobStep, StartInsert, KeepHandle, Prepare, CellsDone, ReadTable, LookUp, Replace,
              CheckVersion, Declare, Finish, DropHandle
<1> QED BY <1>1, <1>2, <1>3, SavedKept

LEMMA OtherStepsSaved ==
    SavedInv /\ (Counting \/ CancelStep \/ DropRead \/ DropReplace \/ Forget \/ Restart)
    => SpecsSaved' /\ CacheOnlySaved'
<1> SUFFICES ASSUME SavedInv, Counting \/ CancelStep \/ DropRead \/ DropReplace \/ Forget \/ Restart
             PROVE  SpecsSaved' /\ CacheOnlySaved'
  OBVIOUS
<1>0. TypeOK /\ JobsTyped
  BY DEF SavedInv, TypeOK, JobsTyped
<1>1. CASE CancelStep
  <2>1. UNCHANGED <<fn, cache>>
    BY <1>1 DEF CancelStep, CancelAbort, CancelMark
  <2>2. job' = job \/ job' = [job EXCEPT ![cancel.of] = NoJob]
    BY <1>1 DEF CancelStep, CancelAbort, CancelMark
  <2>3. \A k \in Job : job'[k] = job[k] \/ job'[k] = NoJob
    BY <1>0, <2>2 DEF JobsTyped
  <2> QED BY <2>1, <2>3, SavedKept
<1>2. CASE Counting \/ DropRead \/ DropReplace
  <2>1. UNCHANGED <<fn, cache, job>>
    BY <1>2 DEF Counting, CountUp, DropRead, DropReplace
  <2> QED BY <2>1, SavedKept
<1>3. CASE Forget
  <2>1. cache' = Pruned({}) /\ job' = job
    BY <1>3 DEF Forget
  <2>2. fn'.saved = fn.saved
    <3>1. fn \in [alive : BOOLEAN, saved : Seq(RunSpec)]
      BY <1>0 DEF TypeOK
    <3>2. fn' = fn \/ fn' = [fn EXCEPT !.alive = FALSE]
      BY <1>3 DEF Forget
    <3> QED BY <3>1, <3>2
  <2>3. DOMAIN cache' = DOMAIN cache /\ \A e \in DOMAIN cache : cache'[e] = "none"
    BY <2>1 DEF Pruned
  <2> QED BY <2>1, <2>2, <2>3, SavedKept
<1>4. CASE Restart
  <2>1. UNCHANGED <<fn, cache>> /\ \A k \in Job : job'[k] = NoJob
    BY <1>4 DEF Restart
  <2> QED BY <2>1, SavedKept
<1> QED BY <1>1, <1>2, <1>3, <1>4

LEMMA StutterTyped == TypeOK /\ UNCHANGED vars => TypeOK'
<1> SUFFICES ASSUME TypeOK, UNCHANGED vars PROVE TypeOK'
  OBVIOUS
<1>1. UNCHANGED <<fn, cache, table, run, job, lock, cancel, admin>>
  BY DEF vars
<1> QED BY <1>1 DEF TypeOK, IsJob, IsStart, IsTask, IsRun

LEMMA NextTyped == TypeOK /\ [Next]_vars => TypeOK'
<1> SUFFICES ASSUME TypeOK, [Next]_vars PROVE TypeOK'
  OBVIOUS
<1>1. CASE Requests
  BY <1>1, RequestsTyped
<1>2. ASSUME NEW j \in Job, JobStep(j) PROVE TypeOK'
  BY <1>2, JobStepTyped
<1>3. CASE Counting \/ CancelStep \/ DropRead \/ DropReplace \/ Forget \/ Restart
  BY <1>3, OtherStepsTyped
<1>4. CASE UNCHANGED vars
  BY <1>4, StutterTyped
<1> QED BY <1>1, <1>2, <1>3, <1>4 DEF Next, Counting

\* The shape of the state (types of the rows, jobs, locks and requests).
THEOREM TypeCorrect == Spec => []TypeOK
BY InitTyped, NextTyped, PTL DEF Spec

\* What a sample computed from a draft is never stored, and a cell stored for
\* a version that was saved stays one: no run is served a draft's cell, for any
\* interleaving of runs, samples, edits, resets and restarts (runner.rs CacheMode).
THEOREM DraftsStayOut == Spec => []CacheOnlySaved
<1>1. SavedInv /\ [Next]_vars => SavedInv'
  <2> SUFFICES ASSUME SavedInv, [Next]_vars PROVE SavedInv'
    OBVIOUS
  <2>0. TypeOK'
    BY NextTyped DEF SavedInv
  <2>1. CASE Requests
    BY <2>0, <2>1, RequestsSaved DEF SavedInv
  <2>2. ASSUME NEW j \in Job, JobStep(j) PROVE SavedInv'
    BY <2>0, <2>2, JobStepSaved DEF SavedInv
  <2>3. CASE Counting \/ CancelStep \/ DropRead \/ DropReplace \/ Forget \/ Restart
    BY <2>0, <2>3, OtherStepsSaved DEF SavedInv
  <2>4. CASE UNCHANGED vars
    <3>1. UNCHANGED <<fn, cache, job>>
      BY <2>4 DEF vars
    <3> QED BY <2>0, <3>1, SavedKept DEF SavedInv
  <2> QED BY <2>1, <2>2, <2>3, <2>4 DEF Next, Counting
<1>2. SavedInv => CacheOnlySaved
  BY DEF SavedInv
<1> QED BY <1>1, <1>2, InitSaved, PTL DEF Spec

-----------------------------------------------------------------------------
\* No run is left behind by those that worked on it.
Holding == {"read", "lookup", "check", "swap", "declare"}

LEMMA AbandonKept ==
    ASSUME AbandonInv, NEW j \in Job, DOMAIN run' = Job,
           \A k \in Job : k # j => job'[k] = job[k] /\ run'[k] = run[k],
           cancel' = cancel, orphaned \subseteq orphaned',
           IsStart(job'[j]) \/ (IsTask(job'[j]) /\ job'[j].mode # "use") => run'[j] = NoRun,
           job'[j].pc = "over" => run'[j].status # "running" \/ j \in orphaned',
           run'[j].status = "running" =>
              \/ job'[j] # NoJob \/ cancel = [pc |-> "mark", of |-> j] \/ j \in orphaned',
           lock' # Nobody => \/ lock' = j /\ job'[j].pc \in Holding
                             \/ lock' = lock /\ (lock = j => job'[j].pc \in Holding)
    PROVE  RowsFit' /\ NoRunAbandoned'
<1>0. TypeOK /\ RowsFit /\ NoRunAbandoned
  BY DEF AbandonInv
<1>1. RowsFit'
  BY <1>0 DEF RowsFit, IsStart, IsTask
<1>2. ASSUME NEW k \in Job, run'[k].status = "running"
      PROVE  job'[k] # NoJob \/ cancel' = [pc |-> "mark", of |-> k] \/ k \in orphaned'
  BY <1>0, <1>2 DEF NoRunAbandoned, ActiveRuns
<1>3. ASSUME lock' # Nobody PROVE job'[lock'].pc \in Holding
  <2>1. CASE lock' = j
    BY <1>3, <2>1
  <2>2. CASE lock' = lock /\ lock # j
    <3>1. lock \in Job /\ job[lock].pc \in Holding
      BY <1>0, <1>3, <2>2 DEF TypeOK, NoRunAbandoned, Holding
    <3> QED BY <2>2, <3>1
  <2> QED BY <1>3, <2>1, <2>2
<1> QED BY <1>1, <1>2, <1>3 DEF NoRunAbandoned, ActiveRuns, Holding

\* A step that moves neither jobs nor rows.
LEMMA AbandonSame ==
    ASSUME AbandonInv, UNCHANGED <<job, run, lock, cancel, orphaned>>
    PROVE  RowsFit' /\ NoRunAbandoned'
BY DEF AbandonInv, RowsFit, NoRunAbandoned, ActiveRuns, IsStart, IsTask

LEMMA InitAbandon == Init => AbandonInv
<1> SUFFICES ASSUME Init PROVE AbandonInv
  OBVIOUS
<1>1. TypeOK
  BY InitTyped
<1>2. \A j \in Job : job[j] = NoJob /\ run[j] = NoRun
  BY DEF Init
<1>3. NoRun.status = "none" /\ lock = Nobody
  BY DEF NoRun, Init
<1>4. RowsFit
  BY <1>2, <1>3, Kinds DEF RowsFit
<1>5. NoRunAbandoned
  BY <1>2, <1>3 DEF NoRunAbandoned, ActiveRuns
<1> QED BY <1>1, <1>4, <1>5 DEF AbandonInv

LEMMA RequestsAbandon == AbandonInv /\ Requests => RowsFit' /\ NoRunAbandoned'
<1> SUFFICES ASSUME AbandonInv, Requests PROVE RowsFit' /\ NoRunAbandoned'
  OBVIOUS
<1>0. TypeOK /\ RowsFit /\ NoRunAbandoned /\ JobsTyped /\ DOMAIN run = Job
  BY DEF AbandonInv, TypeOK, JobsTyped
<1>1. ASSUME \/ \E new \in SUBSET Row \ {{}} : Sync(new)
             \/ \E s \in RunSpec : UpdateFunction(s)
             \/ \E op, drop : AdminCheck(op, drop)
      PROVE  RowsFit' /\ NoRunAbandoned'
  <2>1. UNCHANGED <<job, run, lock, cancel, orphaned>>
    BY <1>1 DEF Sync, UpdateFunction, AdminCheck, history
  <2> QED BY <2>1, AbandonSame
<1>2. ASSUME NEW j \in Job,
             \/ \E scope \in Scopes : StartCheck(j, scope)
             \/ \E draft \in RunSpec : SampleRun(j, draft)
             \/ MaterializeOnly(j)
      PROVE  RowsFit' /\ NoRunAbandoned'
  <2>1. /\ job[j] = NoJob /\ run[j] = NoRun /\ job' = [job EXCEPT ![j] = job'[j]]
        /\ job'[j].pc \in {"clear", "prepare", "lock"}
        /\ UNCHANGED <<run, lock, cancel, history>>
    BY <1>0, <1>2, StartDoes
  <2>2. \A k \in Job : k # j => job'[k] = job[k]
    BY <1>0, <2>1, OneJob
  <2>3. run'[j].status # "running" /\ run'[j] = NoRun /\ orphaned' = orphaned
    BY <2>1 DEF NoRun, history
  <2>4. lock # Nobody => lock # j
    BY <1>0, <2>1, Kinds DEF NoRunAbandoned
  <2> QED BY <1>0, <2>1, <2>2, <2>3, <2>4, AbandonKept
<1>3. ASSUME NEW j \in Job, CancelRead(j) PROVE RowsFit' /\ NoRunAbandoned'
  <2>1. UNCHANGED <<job, run, lock, orphaned>> /\ cancel.pc = "idle"
    BY <1>3 DEF CancelRead, history
  <2>2. \A k : cancel # [pc |-> "mark", of |-> k]
    BY <2>1
  <2> QED BY <1>0, <2>1, <2>2 DEF RowsFit, NoRunAbandoned, ActiveRuns, IsStart, IsTask
<1> QED BY <1>1, <1>2, <1>3 DEF Requests

LEMMA JobStepAbandon ==
    ASSUME AbandonInv, NEW j \in Job, JobStep(j) PROVE RowsFit' /\ NoRunAbandoned'
<1>0. /\ TypeOK /\ RowsFit /\ NoRunAbandoned /\ JobsTyped /\ DOMAIN run = Job
      /\ \A k \in Job : k # j => job'[k] = job[k]
  BY JobMoves DEF AbandonInv, TypeOK, JobsTyped
<1>i. NoRun.status # "running" /\ NoJob.pc = "idle"
  BY Kinds DEF NoRun
<1>l. job[j].pc \notin Holding /\ lock # Nobody => lock # j
  BY <1>0 DEF NoRunAbandoned, Holding
<1>1. CASE StartClear(j)
  <2>1. IsStart(job[j]) /\ IsStart(job'[j]) /\ job'[j].pc = "insert" /\ job[j].pc = "clear"
    BY <1>0, <1>1, StartClearDoes DEF StartClear
  <2>2. UNCHANGED <<run, lock, cancel, orphaned>>
    BY <1>1 DEF StartClear
  <2>3. run[j] = NoRun
    BY <1>0, <2>1 DEF RowsFit
  <2> QED BY <1>0, <1>i, <1>l, <2>1, <2>2, <2>3, AbandonKept DEF Holding
<1>2. CASE StartInsert(j)
  <2>1. /\ IsStart(job[j]) /\ job[j].pc = "insert"
        /\ \/ /\ IsTask(job'[j]) /\ job'[j].pc = "prepare" /\ job'[j].mode = "use"
              /\ run' = [run EXCEPT ![j] = NewRun]
           \/ job'[j] = NoJob /\ run' = run
    BY <1>0, <1>2, StartInsertDoes DEF StartInsert
  <2>2. UNCHANGED <<lock, cancel, orphaned>>
    BY <1>2 DEF StartInsert, bookkeeping
  <2>3. run[j] = NoRun
    BY <1>0, <2>1 DEF RowsFit
  <2>4. CASE job'[j] = NoJob /\ run' = run
    BY <1>0, <1>i, <1>l, <2>1, <2>2, <2>3, <2>4, AbandonKept, Kinds DEF Holding
  <2>5. CASE /\ IsTask(job'[j]) /\ job'[j].pc = "prepare" /\ job'[j].mode = "use"
             /\ run' = [run EXCEPT ![j] = NewRun]
    <3>1. job'[j] # NoJob /\ ~IsStart(job'[j]) /\ DOMAIN run' = Job
          /\ \A k \in Job : k # j => run'[k] = run[k]
      BY <1>0, <2>5, Kinds
    <3> QED BY <1>0, <1>l, <2>1, <2>2, <2>5, <3>1, AbandonKept DEF Holding
  <2> QED BY <2>1, <2>4, <2>5
<1>3. CASE KeepHandle(j)
  <2>1. UNCHANGED <<job, lock, cancel, orphaned>> /\ run[j] # NoRun
    BY <1>3 DEF KeepHandle, Starting, bookkeeping
  <2>2. run' = [run EXCEPT ![j].kept = TRUE]
    BY <1>3 DEF KeepHandle
  <2>3. run'[j].status = run[j].status /\ DOMAIN run' = Job /\ \A k \in Job : k # j => run'[k] = run[k]
    <3>1. run'[j] = [run[j] EXCEPT !.kept = TRUE] /\ DOMAIN run' = Job /\ \A k \in Job : k # j => run'[k] = run[k]
      BY <1>0, <2>2
    <3>2. DOMAIN run[j] = {"status", "kept", "done", "failed"}
      BY <1>0, <2>1 DEF TypeOK, IsRun
    <3> QED BY <3>1, <3>2
  <2>4. ~(IsStart(job[j]) \/ (IsTask(job[j]) /\ job[j].mode # "use"))
    BY <1>0, <2>1 DEF RowsFit
  <2>5. job[j].pc = "over" => run[j].status # "running" \/ j \in orphaned
    BY <1>0 DEF RowsFit
  <2>6. run[j].status = "running" =>
           job[j] # NoJob \/ cancel = [pc |-> "mark", of |-> j] \/ j \in orphaned
    BY <1>0 DEF NoRunAbandoned, ActiveRuns
  <2>7. lock = j /\ lock # Nobody => job[j].pc \in Holding
    BY <1>l
  <2> QED BY <1>0, <2>1, <2>3, <2>4, <2>5, <2>6, <2>7, AbandonKept
\* The other steps are a task's: it stays one until it drops its handle.
<1>a. ASSUME IsTask(job[j]), IsTask(job'[j]), job'[j].mode = job[j].mode,
             run' = run, cancel' = cancel, orphaned' = orphaned, job'[j].pc # "over",
             lock' # Nobody => \/ lock' = j /\ job'[j].pc \in Holding
                               \/ lock' = lock /\ (lock = j => job'[j].pc \in Holding)
      PROVE  RowsFit' /\ NoRunAbandoned'
  <2>1. job'[j] # NoJob /\ ~IsStart(job'[j]) /\ (job'[j].mode # "use" => run'[j] = NoRun)
    BY <1>0, <1>a, Kinds DEF RowsFit
  <2> QED BY <1>0, <1>a, <2>1, AbandonKept
<1>4. CASE Prepare(j)
  <2>1. /\ IsTask(job[j]) /\ IsTask(job'[j]) /\ job'[j].mode = job[j].mode
        /\ job'[j].pc = "cells" /\ job[j].pc = "prepare"
    BY <1>0, <1>4, PrepareDoes DEF Prepare
  <2>2. UNCHANGED <<run, lock, cancel, orphaned>>
    BY <1>4 DEF Prepare, bookkeeping
  <2>3. lock # Nobody => lock # j
    BY <1>l, <2>1 DEF Holding
  <2> QED BY <1>a, <2>1, <2>2, <2>3
<1>5. CASE CellsDone(j)
  <2>1. /\ IsTask(job[j]) /\ IsTask(job'[j]) /\ job'[j].mode = job[j].mode
        /\ job'[j].pc = (IF job[j].mode = "bypass" THEN "over" ELSE "lock") /\ job[j].pc = "cells"
    BY <1>0, <1>5, CellsDoneDoes
  <2>2. UNCHANGED <<lock, cancel, orphaned>>
    BY <1>5 DEF CellsDone, bookkeeping
  <2>3. lock # Nobody => lock # j
    BY <1>l, <2>1 DEF Holding
  <2>4. CASE run[j] = NoRun
    <3>1. run' = run
      BY <1>5, <2>4 DEF CellsDone
    <3>2. job'[j] # NoJob
      BY <2>1, Kinds
    <3> QED BY <1>0, <1>i, <2>1, <2>2, <2>3, <2>4, <3>1, <3>2, AbandonKept
  <2>5. CASE run[j] # NoRun
    <3>1. job[j].mode = "use"
      BY <1>0, <2>1, <2>5 DEF RowsFit
    <3>2. run' = [run EXCEPT ![j] = Progress(j)]
      BY <1>5, <2>5 DEF CellsDone
    <3>3. DOMAIN run' = Job /\ \A k \in Job : k # j => run'[k] = run[k]
      BY <1>0, <3>2
    <3>4. job'[j] # NoJob /\ ~IsStart(job'[j]) /\ job'[j].mode = "use" /\ job'[j].pc = "lock"
      BY <2>1, <3>1, Kinds
    <3> QED BY <1>0, <2>2, <2>3, <3>3, <3>4, AbandonKept
  <2> QED BY <2>4, <2>5
<1>6. ASSUME NEW c \in Inputs(Row), NEW first \in Answers, NEW second \in Answers, NEW lost \in BOOLEAN,
             ComputeCell(j, c, first, second, lost)
      PROVE  RowsFit' /\ NoRunAbandoned'
  <2>1. /\ IsTask(job[j]) /\ IsTask(job'[j]) /\ job'[j].mode = job[j].mode
        /\ job'[j].pc = "cells" /\ job[j].pc = "cells"
    BY <1>0, <1>6, ComputeDoes DEF ComputeCell
  <2>2. UNCHANGED <<run, lock, cancel, orphaned>>
    BY <1>6 DEF ComputeCell
  <2>3. lock # Nobody => lock # j
    BY <1>l, <2>1 DEF Holding
  <2> QED BY <1>a, <2>1, <2>2, <2>3
<1>7. CASE ReadTable(j)
  <2>1. /\ IsTask(job[j]) /\ IsTask(job'[j]) /\ job'[j].mode = job[j].mode
        /\ \/ job'[j].pc = "completed" /\ lock' = Nobody
           \/ job'[j].pc = "lookup" /\ lock' = j
    BY <1>0, <1>7, ReadDoes
  <2>2. UNCHANGED <<run, cancel, orphaned>>
    BY <1>7 DEF ReadTable, bookkeeping
  <2> QED BY <1>a, <2>1, <2>2 DEF Holding
<1>8. CASE LookUp(j)
  <2>1. /\ IsTask(job[j]) /\ IsTask(job'[j]) /\ job'[j].mode = job[j].mode
        /\ job'[j].pc = "check"
    BY <1>0, <1>8, LookUpDoes
  <2>2. UNCHANGED <<run, lock, cancel, orphaned>>
    BY <1>8 DEF LookUp, bookkeeping
  <2> QED BY <1>a, <2>1, <2>2 DEF Holding
<1>9. ASSUME NEW broken \in BOOLEAN, Replace(j, broken) PROVE RowsFit' /\ NoRunAbandoned'
  <2>1. /\ IsTask(job[j]) /\ IsTask(job'[j]) /\ job'[j].mode = job[j].mode
        /\ \/ job'[j].pc = "declare" /\ lock' = lock
           \/ job'[j].pc = "failed" /\ lock' = Nobody
    BY <1>0, <1>9, ReplaceDoes
  <2>2. UNCHANGED <<run, cancel, orphaned>>
    BY <1>9 DEF Replace
  <2> QED BY <1>a, <2>1, <2>2 DEF Holding
<1>13. CASE CheckVersion(j)
  <2>1. /\ IsTask(job[j]) /\ IsTask(job'[j]) /\ job'[j].mode = job[j].mode
        /\ \/ job'[j].pc \in {"swap", "read"} /\ lock' = lock
           \/ job'[j].pc = "failed" /\ lock' = Nobody
    BY <1>0, <1>13, CheckDoes
  <2>2. UNCHANGED <<run, cancel, orphaned>>
    BY <1>13 DEF CheckVersion
  <2> QED BY <1>a, <2>1, <2>2 DEF Holding
<1>10. ASSUME NEW broken \in BOOLEAN, Declare(j, broken) PROVE RowsFit' /\ NoRunAbandoned'
  <2>1. /\ IsTask(job[j]) /\ IsTask(job'[j]) /\ job'[j].mode = job[j].mode
        /\ job'[j].pc \in {"failed", "completed"}
    BY <1>0, <1>10, DeclareDoes
  <2>2. UNCHANGED <<run, cancel, orphaned>> /\ lock' = Nobody
    BY <1>10 DEF Declare
  <2> QED BY <1>a, <2>1, <2>2
<1>11. ASSUME NEW broken \in BOOLEAN, Finish(j, broken) PROVE RowsFit' /\ NoRunAbandoned'
  <2>1. /\ IsTask(job[j]) /\ IsTask(job'[j]) /\ job'[j].mode = job[j].mode
        /\ job'[j].pc = "over" /\ job[j].pc \in {"completed", "failed"}
    BY <1>0, <1>11, FinishDoes
  <2>2. UNCHANGED <<lock, cancel>> /\ orphaned \subseteq orphaned' /\ (broken => j \in orphaned')
    BY <1>11 DEF Finish
  <2>3. lock # Nobody => lock # j
    BY <1>l, <2>1 DEF Holding
  <2>4. job'[j] # NoJob /\ ~IsStart(job'[j])
    BY <2>1, Kinds
  <2>5. CASE run[j] = NoRun
    <3>1. run' = run
      BY <1>11, <2>5 DEF Finish
    <3> QED BY <1>0, <1>i, <2>1, <2>2, <2>3, <2>4, <2>5, <3>1, AbandonKept
  <2>6. CASE run[j] # NoRun
    <3>1. job[j].mode = "use"
      BY <1>0, <2>1, <2>6 DEF RowsFit
    <3>2. CASE broken
      <4>1. run' = run
        BY <1>11, <3>2 DEF Finish
      <4> QED BY <1>0, <2>1, <2>2, <2>3, <2>4, <3>1, <3>2, <4>1, AbandonKept
    <3>3. CASE ~broken
      <4>1. run' = [run EXCEPT ![j].status = job[j].pc]
        BY <1>11, <2>6, <3>3 DEF Finish
      <4>2. run'[j] = [run[j] EXCEPT !.status = job[j].pc] /\ DOMAIN run' = Job
            /\ \A k \in Job : k # j => run'[k] = run[k]
        BY <1>0, <4>1
      <4>3. "status" \in DOMAIN run[j]
        BY <1>0, <2>6 DEF TypeOK, IsRun
      <4>4. run'[j].status = job[j].pc
        BY <4>2, <4>3
      <4> QED BY <1>0, <2>1, <2>2, <2>3, <2>4, <3>1, <4>2, <4>4, AbandonKept
    <3> QED BY <3>2, <3>3
  <2> QED BY <2>5, <2>6
<1>12. CASE DropHandle(j)
  <2>1. job' = [job EXCEPT ![j] = NoJob] /\ job[j].pc = "over" /\ UNCHANGED <<run, lock, cancel, orphaned>>
    BY <1>12 DEF DropHandle, bookkeeping
  <2>2. job'[j] = NoJob
    BY <1>0, <2>1 DEF JobsTyped
  <2>3. lock # Nobody => lock # j
    BY <1>l, <2>1 DEF Holding
  <2>4. run[j].status # "running" \/ j \in orphaned
    BY <1>0, <2>1 DEF RowsFit
  <2> QED BY <1>0, <1>i, <2>1, <2>2, <2>3, <2>4, AbandonKept, Kinds
<1> QED BY <1>1, <1>2, <1>3, <1>4, <1>5, <1>6, <1>7, <1>8, <1>9, <1>10, <1>11, <1>12,
       <1>13 DEF JobStep

LEMMA OtherStepsAbandon ==
    AbandonInv /\ (Counting \/ CancelStep \/ DropRead \/ DropReplace \/ Forget \/ Restart)
    => RowsFit' /\ NoRunAbandoned'
<1> SUFFICES ASSUME AbandonInv, Counting \/ CancelStep \/ DropRead \/ DropReplace \/ Forget \/ Restart
             PROVE  RowsFit' /\ NoRunAbandoned'
  OBVIOUS
<1>0. TypeOK /\ RowsFit /\ NoRunAbandoned /\ JobsTyped /\ DOMAIN run = Job
  BY DEF AbandonInv, TypeOK, JobsTyped
<1>i. NoRun.status # "running" /\ NoJob.pc = "idle" /\ ~IsStart(NoJob) /\ ~IsTask(NoJob)
  BY Kinds DEF NoRun
<1>1. CASE CancelAbort
  <2>1. UNCHANGED <<run, orphaned>> /\ cancel.pc = "abort"
    BY <1>1 DEF CancelAbort, bookkeeping
  <2>2. /\ cancel.of \in Job /\ cancel' = [pc |-> "mark", of |-> cancel.of]
        /\ \/ job' = job /\ lock' = lock
           \/ /\ job' = [job EXCEPT ![cancel.of] = NoJob]
              /\ lock' = IF lock = cancel.of THEN Nobody ELSE lock
    BY <1>0, <1>1, AbortDoes
  <2>3. \A k \in Job : cancel # [pc |-> "mark", of |-> k]
    BY <2>1
  <2>4. \A k \in Job : job'[k] = job[k] \/ (k = cancel.of /\ job'[k] = NoJob)
    BY <1>0, <2>2 DEF JobsTyped
  <2>5. RowsFit'
    BY <1>0, <1>i, <2>1, <2>4 DEF RowsFit, IsStart, IsTask
  <2>6. ASSUME NEW k \in Job, run'[k].status = "running"
        PROVE  job'[k] # NoJob \/ cancel' = [pc |-> "mark", of |-> k] \/ k \in orphaned'
    <3>1. job[k] # NoJob \/ k \in orphaned
      BY <1>0, <2>1, <2>3, <2>6 DEF NoRunAbandoned, ActiveRuns
    <3> QED BY <2>1, <2>2, <2>4, <3>1
  <2>7. ASSUME lock' # Nobody PROVE job'[lock'].pc \in Holding
    <3>1. lock' = lock /\ lock \in Job /\ job[lock].pc \in Holding
      BY <1>0, <2>2, <2>7 DEF TypeOK, NoRunAbandoned, Holding
    <3>2. job' = job \/ lock # cancel.of
      BY <2>2, <2>7, <3>1
    <3> QED BY <2>4, <3>1, <3>2
  <2> QED BY <2>5, <2>6, <2>7 DEF NoRunAbandoned, ActiveRuns, Holding
<1>2. ASSUME NEW broken \in BOOLEAN, CancelMark(broken) PROVE RowsFit' /\ NoRunAbandoned'
  <2> DEFINE o == cancel.of
  <2>1. /\ o \in Job /\ cancel = [pc |-> "mark", of |-> o] /\ UNCHANGED <<job, lock>>
        /\ \/ run' = run /\ (run[o] = NoRun \/ o \in orphaned')
           \/ run[o] # NoRun /\ run' = [run EXCEPT ![o].status = "cancelled"]
        /\ orphaned \subseteq orphaned'
    BY <1>0, <1>2, MarkDoes
  <2>2. \A k \in Job : cancel = [pc |-> "mark", of |-> k] => k = o
    BY <2>1
  <2> HIDE DEF o
  <2>3. /\ \A k \in Job : k # o => run'[k] = run[k]
        /\ run[o] = NoRun => run'[o] = NoRun
        /\ run'[o].status # "running" \/ o \in orphaned'
    <3>1. CASE run' = run /\ (run[o] = NoRun \/ o \in orphaned')
      BY <1>i, <2>1, <3>1
    <3>2. CASE run[o] # NoRun /\ run' = [run EXCEPT ![o].status = "cancelled"]
      <4>1. run'[o] = [run[o] EXCEPT !.status = "cancelled"] /\ \A k \in Job : k # o => run'[k] = run[k]
        BY <1>0, <2>1, <3>2
      <4>2. "status" \in DOMAIN run[o]
        BY <1>0, <2>1, <3>2 DEF TypeOK, IsRun
      <4> QED BY <3>2, <4>1, <4>2
    <3> QED BY <2>1, <3>1, <3>2
  <2>4. RowsFit'
    BY <1>0, <2>1, <2>3 DEF RowsFit, IsStart, IsTask
  <2>5. NoRunAbandoned'
    BY <1>0, <2>1, <2>2, <2>3 DEF NoRunAbandoned, ActiveRuns
  <2> QED BY <2>4, <2>5
<1>3. CASE Counting \/ DropRead \/ DropReplace
  <2>1. UNCHANGED <<job, run, lock, cancel, orphaned>>
    BY <1>3 DEF Counting, CountUp, DropRead, DropReplace, bookkeeping
  <2> QED BY <2>1, AbandonSame
<1>4. CASE Forget
  <2>1. UNCHANGED <<job, lock, cancel, orphaned>> /\ (run' = run \/ run' = [k \in Job |-> NoRun])
    BY <1>4 DEF Forget
  <2>2. CASE run' = run
    BY <2>1, <2>2, AbandonSame
  <2>3. CASE run' = [k \in Job |-> NoRun]
    <3>1. \A k \in Job : run'[k] = NoRun
      BY <2>3
    <3> QED BY <1>0, <1>i, <2>1, <3>1 DEF RowsFit, NoRunAbandoned, ActiveRuns, IsStart, IsTask
  <2> QED BY <2>1, <2>2, <2>3
<1>5. CASE Restart
  <2>1. (\A k \in Job : job'[k] = NoJob) /\ lock' = Nobody /\ \A k \in Job : run'[k] = Recovered(run[k])
    BY <1>5 DEF Restart
  <2>2. ASSUME NEW k \in Job PROVE Recovered(run[k]).status # "running"
    <3>1. CASE run[k] = NoRun
      BY <1>i, <3>1 DEF Recovered
    <3>2. CASE run[k] # NoRun
      <4>1. DOMAIN run[k] = {"status", "kept", "done", "failed"}
        BY <1>0, <3>2 DEF TypeOK, IsRun
      <4> DEFINE status == IF run[k].status = "running" THEN "failed" ELSE run[k].status
      <4>2. status # "running" /\ Recovered(run[k]) = [run[k] EXCEPT !.kept = TRUE, !.status = status]
        BY <3>2 DEF Recovered
      <4> HIDE DEF status
      <4> QED BY <4>1, <4>2
    <3> QED BY <3>1, <3>2
  <2>3. RowsFit'
    BY <1>i, <2>1 DEF RowsFit, IsStart, IsTask
  <2>4. NoRunAbandoned'
    BY <2>1, <2>2 DEF NoRunAbandoned, ActiveRuns
  <2> QED BY <2>3, <2>4
<1> QED BY <1>1, <1>2, <1>3, <1>4, <1>5 DEF CancelStep

\* A run marked running is worked on or about to be marked, except one whose
\* outcome could not be written, and the table's lock is held only by a task
\* that is rewriting the table: no abort, failure or restart leaves either behind.
THEOREM NothingAbandoned == Spec => []NoRunAbandoned
<1>1. AbandonInv /\ [Next]_vars => AbandonInv'
  <2> SUFFICES ASSUME AbandonInv, [Next]_vars PROVE AbandonInv'
    OBVIOUS
  <2>0. TypeOK'
    BY NextTyped DEF AbandonInv
  <2>1. CASE Requests
    BY <2>0, <2>1, RequestsAbandon DEF AbandonInv
  <2>2. ASSUME NEW j \in Job, JobStep(j) PROVE AbandonInv'
    BY <2>0, <2>2, JobStepAbandon DEF AbandonInv
  <2>3. CASE Counting \/ CancelStep \/ DropRead \/ DropReplace \/ Forget \/ Restart
    BY <2>0, <2>3, OtherStepsAbandon DEF AbandonInv
  <2>4. CASE UNCHANGED vars
    <3>1. UNCHANGED <<job, run, lock, cancel, orphaned>>
      BY <2>4 DEF vars
    <3> QED BY <2>0, <3>1, AbandonSame DEF AbandonInv
  <2> QED BY <2>1, <2>2, <2>3, <2>4 DEF Next, Counting
<1>2. AbandonInv => NoRunAbandoned
  BY DEF AbandonInv
<1> QED BY <1>1, <1>2, InitAbandon, PTL DEF Spec

-----------------------------------------------------------------------------
\* What an undisturbed run has computed stands in the cache until it is shown.
RelyingSteps == {"cells", "lock", "read", "lookup", "check"}

\* A job that a step leaves alone: the step disturbs it, or spares the cache.
LEMMA StandsKept ==
    ASSUME NEW k \in Job, Stands(k), job'[k] = job[k], disturbed \subseteq disturbed',
           cache' = cache \/ k \in disturbed' \/ k \notin Relying
    PROVE  Stands(k)'
<1>1. Undisturbed(k)' => Undisturbed(k) /\ cache' = cache
  BY DEF Undisturbed, Relying
<1>2. Showing(k)' => Showing(k)
  BY DEF Showing
<1> QED BY <1>1, <1>2 DEF Stands

\* A job that relies on no cell.
LEMMA StandsIdle ==
    ASSUME NEW k \in Job, job'[k].pc \notin RelyingSteps \cup {"swap"} \/ job'[k].mode # "use"
    PROVE  Stands(k)'
BY DEF Stands, Undisturbed, Showing, Relying, RelyingSteps

\* A task that goes on, with the cells it has.
LEMMA StandsOn ==
    ASSUME NEW k \in Job, Stands(k), job[k].pc \in RelyingSteps,
           job[k].pc = "cells" => job[k].todo = {},
           job'[k].pc \notin {"cells", "check", "swap"}, job'[k].spec = job[k].spec,
           job'[k].mode = job[k].mode, job'[k].rows = job[k].rows, job'[k].cells = job[k].cells,
           cache' = cache, disturbed' = disturbed
    PROVE  Stands(k)'
<1> SUFFICES ASSUME Undisturbed(k)' PROVE Stands(k)'
  BY DEF Stands, Showing
<1>1. Undisturbed(k)
  BY DEF Undisturbed, Relying, RelyingSteps
<1>2. Inputs(job[k].rows) \subseteq DOMAIN job[k].cells
  BY <1>1 DEF Stands
<1> QED BY <1>1, <1>2 DEF Stands, Showing

LEMMA AllStand ==
    ASSUME StandInv, NEW j \in Job, \A k \in Job : k # j => job'[k] = job[k],
           disturbed \subseteq disturbed',
           \A k \in Job \ {j} : cache' = cache \/ k \in disturbed' \/ k \notin Relying,
           Stands(j)'
    PROVE  \A k \in Job : Stands(k)'
<1> SUFFICES ASSUME NEW k \in Job, k # j PROVE Stands(k)'
  OBVIOUS
<1>1. Stands(k) /\ job'[k] = job[k]
  BY DEF StandInv
<1> QED BY <1>1, StandsKept

LEMMA NoneRelyNow ==
    ASSUME StandInv, job' = job, disturbed \subseteq disturbed', cache' = cache \/ Relying \subseteq disturbed'
    PROVE  \A k \in Job : Stands(k)'
<1> SUFFICES ASSUME NEW k \in Job PROVE Stands(k)'
  OBVIOUS
<1>1. Stands(k) /\ job'[k] = job[k]
  BY DEF StandInv
<1> QED BY <1>1, StandsKept

LEMMA InitStand == Init => StandInv
<1> SUFFICES ASSUME Init PROVE StandInv
  OBVIOUS
<1>1. TypeOK /\ \A j \in Job : job[j] = NoJob
  BY InitTyped DEF Init
<1>2. \A j \in Job : Stands(j)
  BY <1>1, Kinds DEF Stands, Undisturbed, Showing, Relying
<1> QED BY <1>1, <1>2 DEF StandInv

LEMMA RequestsStand == StandInv /\ Requests => \A k \in Job : Stands(k)'
<1> SUFFICES ASSUME StandInv, Requests PROVE \A k \in Job : Stands(k)'
  OBVIOUS
<1>0. TypeOK /\ JobsTyped
  BY DEF StandInv, TypeOK, JobsTyped
<1>1. ASSUME \/ \E new \in SUBSET Row \ {{}} : Sync(new)
             \/ \E j \in Job : CancelRead(j)
             \/ \E op, drop : AdminCheck(op, drop)
      PROVE  \A k \in Job : Stands(k)'
  <2>1. UNCHANGED <<job, cache, disturbed>>
    BY <1>1 DEF Sync, CancelRead, AdminCheck, history
  <2> QED BY <2>1, NoneRelyNow
<1>2. ASSUME NEW s \in RunSpec, UpdateFunction(s) PROVE \A k \in Job : Stands(k)'
  <2>1. job' = job /\ disturbed' = disturbed \cup Relying
    BY <1>2 DEF UpdateFunction
  <2> QED BY <2>1, NoneRelyNow
<1>3. ASSUME NEW j \in Job,
             \/ \E scope \in Scopes : StartCheck(j, scope)
             \/ \E draft \in RunSpec : SampleRun(j, draft)
             \/ MaterializeOnly(j)
      PROVE  \A k \in Job : Stands(k)'
  <2>1. /\ job' = [job EXCEPT ![j] = job'[j]]
        /\ job'[j].pc \in {"clear", "prepare"} \/ job'[j].mode = "rewrite"
        /\ UNCHANGED <<cache, history>>
    BY <1>0, <1>3, StartDoes
  <2>2. \A k \in Job : k # j => job'[k] = job[k]
    BY <1>0, <2>1, OneJob
  <2>3. Stands(j)'
    BY <2>1, StandsIdle DEF RelyingSteps
  <2> QED BY <2>1, <2>2, <2>3, AllStand DEF history
<1> QED BY <1>1, <1>2, <1>3 DEF Requests

\* Looking up what is stored: a success is kept, everything else is to be computed.
LEMMA PrepareStands ==
    ASSUME StandInv, NEW j \in Job, Prepare(j) PROVE Stands(j)'
<1>0. TypeOK /\ table.rows \subseteq Row
  BY DEF StandInv, TypeOK
<1>p. job'[j].pc = "cells"
  BY <1>0, PrepareDoes
<1> SUFFICES ASSUME Undisturbed(j)' PROVE Stands(j)'
  BY <1>p DEF Stands, Showing
<1> DEFINE s == job[j].spec
           todo == Misses(s, table.rows, job[j].mode)
           cells == [c \in Inputs(table.rows) \ todo |-> cache[<<s, c>>]]
<1>1. /\ job'[j].pc = "cells" /\ job'[j].spec = s /\ job'[j].mode = job[j].mode
      /\ job'[j].rows = table.rows /\ job'[j].todo = todo /\ job'[j].cells = cells
  BY <1>0, PrepareDoes
<1>2. cache' = cache
  BY DEF Prepare
<1>3. Inputs(table.rows) \subseteq Inputs(Row)
  BY <1>0 DEF Inputs
<1>4. DOMAIN cells = Inputs(table.rows) \ todo
  OBVIOUS
<1>5. ASSUME NEW c \in DOMAIN cells
      PROVE  c \in Inputs(Row) /\ cells[c] # "none" /\ cache[<<s, c>>] = cells[c]
  BY <1>3, <1>5 DEF Misses, CacheHit
<1>6. Inputs(table.rows) \subseteq DOMAIN cells \cup todo
  BY <1>4
<1> HIDE DEF cells, todo
<1>7. /\ Inputs(job'[j].rows) \subseteq DOMAIN job'[j].cells \cup job'[j].todo
      /\ \A c \in DOMAIN job'[j].cells :
            /\ c \in Inputs(Row) /\ job'[j].cells[c] # "none"
            /\ cache'[<<job'[j].spec, c>>] = job'[j].cells[c]
  BY <1>1, <1>2, <1>5, <1>6
<1> QED BY <1>1, <1>7 DEF Stands, Showing, Inputs

\* A computed cell is stored, unless the run is disturbed by it.
LEMMA ComputeStands ==
    ASSUME StandInv, NEW j \in Job, NEW c \in Inputs(Row), NEW first \in Answers, NEW second \in Answers,
           NEW lost \in BOOLEAN, ComputeCell(j, c, first, second, lost)
    PROVE  Stands(j)'
<1>0. TypeOK /\ Stands(j)
  BY DEF StandInv
<1>p. job'[j].pc = "cells"
  BY <1>0, ComputeDoes
<1> SUFFICES ASSUME Undisturbed(j)' PROVE Stands(j)'
  BY <1>p DEF Stands, Showing
<1> DEFINE s == job[j].spec
           status == Outcome(first, second)
           old == job[j].cells
           new == [x \in DOMAIN old \cup {c} |-> IF x = c THEN status ELSE old[x]]
<1>1. /\ IsTask(job[j]) /\ job'[j].pc = "cells" /\ job'[j].spec = s /\ job'[j].mode = job[j].mode
      /\ job'[j].rows = job[j].rows /\ job'[j].todo = job[j].todo \ {c} /\ job'[j].cells = new
  BY <1>0, ComputeDoes
<1>2. j \notin disturbed' /\ job'[j].mode = "use"
  BY DEF Undisturbed
<1>3. ~lost /\ fn.alive /\ j \notin disturbed
  BY <1>2 DEF ComputeCell
<1>4. cache' = [cache EXCEPT ![<<s, c>>] = status]
  BY <1>1, <1>2, <1>3 DEF ComputeCell, StoreCell, Stores
<1>5. job[j].pc = "cells" /\ Undisturbed(j)
  BY <1>1, <1>2, <1>3 DEF ComputeCell, Undisturbed, Relying
<1>6. status # "none"
  BY DEF Outcome
<1>7. s \in RunSpec /\ cache \in [RunSpec \X Inputs(Row) -> Status]
  BY <1>0, <1>1 DEF TypeOK, IsTask
<1>8. /\ Inputs(job[j].rows) \subseteq DOMAIN old \cup job[j].todo
      /\ \A x \in DOMAIN old : x \in Inputs(Row) /\ old[x] # "none" /\ cache[<<s, x>>] = old[x]
  BY <1>0, <1>5 DEF Stands
<1> HIDE DEF s, status, old
<1>9. DOMAIN new = DOMAIN old \cup {c}
  OBVIOUS
<1>10. ASSUME NEW x \in DOMAIN new
       PROVE  x \in Inputs(Row) /\ new[x] # "none" /\ cache'[<<s, x>>] = new[x]
  <2>1. CASE x = c
    BY <1>4, <1>6, <1>7, <2>1
  <2>2. CASE x # c
    <3>1. x \in DOMAIN old /\ new[x] = old[x]
      BY <1>9, <2>2
    <3>2. <<s, x>> # <<s, c>>
      BY <2>2
    <3>3. cache'[<<s, x>>] = cache[<<s, x>>]
      BY <1>4, <1>7, <1>8, <3>1, <3>2
    <3> QED BY <1>8, <3>1, <3>3
  <2> QED BY <2>1, <2>2
<1> HIDE DEF new
<1>11. /\ Inputs(job'[j].rows) \subseteq DOMAIN job'[j].cells \cup job'[j].todo
       /\ \A x \in DOMAIN job'[j].cells :
            /\ x \in Inputs(Row) /\ job'[j].cells[x] # "none"
            /\ cache'[<<job'[j].spec, x>>] = job'[j].cells[x]
  BY <1>1, <1>8, <1>9, <1>10
<1> QED BY <1>1, <1>11 DEF Stands, Showing, Inputs

\* What is looked up for a prepared row is what the run computed for it.
LEMMA LookUpStands ==
    ASSUME StandInv, NEW j \in Job, LookUp(j) PROVE Stands(j)'
<1>0. TypeOK /\ Stands(j)
  BY DEF StandInv
<1>p. job'[j].pc = "check"
  BY <1>0, LookUpDoes
<1> SUFFICES ASSUME Undisturbed(j)' PROVE Stands(j)'
  BY <1>p DEF Stands, Showing, Undisturbed, Relying
<1> DEFINE s == job[j].spec
           shown == [r \in job[j].todo[2] |-> Shows(s, Content[r])]
<1>1. /\ job'[j].pc = "check" /\ job'[j].spec = s /\ job'[j].mode = job[j].mode
      /\ job'[j].rows = job[j].rows /\ job'[j].cells = job[j].cells /\ job'[j].todo[2] = shown
  BY <1>0, LookUpDoes
<1>2. cache' = cache /\ disturbed' = disturbed /\ job[j].pc = "lookup"
  BY DEF LookUp, bookkeeping
<1>3. Undisturbed(j)
  BY <1>1, <1>2 DEF Undisturbed, Relying
<1>4. /\ Inputs(job[j].rows) \subseteq DOMAIN job[j].cells
      /\ \A c \in DOMAIN job[j].cells :
            /\ c \in Inputs(Row) /\ job[j].cells[c] # "none"
            /\ cache[<<s, c>>] = job[j].cells[c]
  BY <1>0, <1>2, <1>3 DEF Stands
<1>5. ASSUME NEW r \in job[j].rows \cap DOMAIN shown
      PROVE  shown[r] = <<s, job[j].cells[Content[r]]>>
  <2>1. Content[r] \in Inputs(job[j].rows)
    BY DEF Inputs
  <2>2. cache[<<s, Content[r]>>] = job[j].cells[Content[r]] /\ cache[<<s, Content[r]>>] # "none"
    BY <1>4, <2>1
  <2>3. shown[r] = Shows(s, Content[r])
    OBVIOUS
  <2> QED BY <2>2, <2>3 DEF Shows
<1> HIDE DEF shown, s
<1> QED BY <1>1, <1>2, <1>4, <1>5 DEF Stands

LEMMA JobStepStands ==
    ASSUME StandInv, NEW j \in Job, JobStep(j) PROVE \A k \in Job : Stands(k)'
<1>0. TypeOK /\ Stands(j) /\ JobsTyped /\ \A k \in Job : k # j => job'[k] = job[k]
  BY JobMoves DEF StandInv, TypeOK, JobsTyped
<1>1. CASE StartClear(j)
  <2>1. job'[j].pc = "insert"
    BY <1>0, <1>1, StartClearDoes
  <2>2. Stands(j)' /\ disturbed \subseteq disturbed'
    BY <1>1, <2>1, StandsIdle DEF RelyingSteps, StartClear
  <2>3. cache' = cache \/ disturbed' = disturbed \cup Relying
    <3>1. CASE job[j].scope = "missing"
      <4>1. cache' = Cleared(job[j].scope, job[j].spec)
        BY <1>1 DEF StartClear
      <4>2. cache' = [e \in DOMAIN cache |-> cache[e]]
        BY <3>1, <4>1 DEF Cleared
      <4> QED BY <1>0, <4>2 DEF TypeOK
    <3>2. CASE job[j].scope # "missing"
      BY <1>1, <3>2 DEF StartClear
    <3> QED BY <3>1, <3>2
  <2> QED BY <1>0, <2>2, <2>3, AllStand
<1>2. CASE StartInsert(j)
  <2>1. job'[j].pc \in {"prepare", "idle"}
    BY <1>0, <1>2, StartInsertDoes, Kinds
  <2>2. UNCHANGED <<cache, disturbed>>
    BY <1>2 DEF StartInsert, bookkeeping
  <2>3. Stands(j)'
    BY <2>1, StandsIdle DEF RelyingSteps
  <2> QED BY <1>0, <2>2, <2>3, AllStand
<1>3. CASE KeepHandle(j)
  <2>1. UNCHANGED <<job, cache, disturbed>>
    BY <1>3 DEF KeepHandle, bookkeeping
  <2> QED BY <2>1, NoneRelyNow
<1>4. CASE Prepare(j)
  <2>1. UNCHANGED <<cache, disturbed>>
    BY <1>4 DEF Prepare, bookkeeping
  <2> QED BY <1>0, <1>4, <2>1, PrepareStands, AllStand
<1>5. CASE CellsDone(j)
  <2>1. UNCHANGED <<cache, disturbed>>
    BY <1>5 DEF CellsDone, bookkeeping
  <2>2. /\ job[j].todo = {} /\ job[j].pc = "cells" /\ job'[j].pc \in {"over", "lock"}
        /\ job'[j].spec = job[j].spec /\ job'[j].mode = job[j].mode
        /\ job'[j].rows = job[j].rows /\ job'[j].cells = job[j].cells
    BY <1>0, <1>5, CellsDoneDoes
  <2>3. Stands(j)'
    BY <1>0, <2>1, <2>2, StandsOn DEF RelyingSteps
  <2> QED BY <1>0, <2>1, <2>3, AllStand
<1>6. ASSUME NEW c \in Inputs(Row), NEW first \in Answers, NEW second \in Answers, NEW lost \in BOOLEAN,
             ComputeCell(j, c, first, second, lost)
      PROVE  \A k \in Job : Stands(k)'
  <2>1. Stands(j)'
    BY <1>6, ComputeStands
  <2>2. disturbed \subseteq disturbed'
    BY <1>6 DEF ComputeCell
  <2>3. cache' = cache \/ Relying \ {j} \subseteq disturbed'
    BY <1>6 DEF ComputeCell, StoreCell, Stores
  <2> QED BY <1>0, <2>1, <2>2, <2>3, AllStand
<1>7. CASE ReadTable(j)
  <2>1. UNCHANGED <<cache, disturbed>> /\ job[j].pc \in {"lock", "read"}
    BY <1>7 DEF ReadTable, bookkeeping
  <2>2. /\ job'[j].pc \in {"completed", "lookup"}
        /\ job'[j].spec = job[j].spec /\ job'[j].mode = job[j].mode
        /\ job'[j].rows = job[j].rows /\ job'[j].cells = job[j].cells
    BY <1>0, <1>7, ReadDoes
  <2>3. Stands(j)'
    BY <1>0, <2>1, <2>2, StandsOn DEF RelyingSteps
  <2> QED BY <1>0, <2>1, <2>3, AllStand
<1>8. CASE LookUp(j)
  <2>1. UNCHANGED <<cache, disturbed>>
    BY <1>8 DEF LookUp, bookkeeping
  <2> QED BY <1>0, <1>8, <2>1, LookUpStands, AllStand
<1>9. ASSUME NEW broken \in BOOLEAN, Replace(j, broken) PROVE \A k \in Job : Stands(k)'
  <2>1. UNCHANGED <<cache, disturbed>>
    BY <1>9 DEF Replace
  <2>2. job'[j].pc \in {"declare", "failed"}
    BY <1>0, <1>9, ReplaceDoes
  <2>3. Stands(j)'
    BY <2>2, StandsIdle DEF RelyingSteps
  <2> QED BY <1>0, <2>1, <2>3, AllStand
<1>12. CASE CheckVersion(j)
  <2>1. UNCHANGED <<cache, disturbed>> /\ job[j].pc = "check"
    BY <1>12 DEF CheckVersion
  <2>2. /\ job'[j].pc \in {"swap", "read", "failed"}
        /\ job'[j].spec = job[j].spec /\ job'[j].mode = job[j].mode
        /\ job'[j].rows = job[j].rows /\ job'[j].cells = job[j].cells
        /\ job'[j].todo = job[j].todo
    BY <1>0, <1>12, CheckDoes
  <2>3. CASE job'[j].pc = "swap"
    <3>1. ~Undisturbed(j)' /\ (Showing(j)' => Showing(j))
      BY <2>1, <2>2, <2>3 DEF Undisturbed, Showing, Relying
    <3>2. Stands(j)'
      BY <1>0, <2>2, <3>1 DEF Stands
    <3> QED BY <1>0, <2>1, <3>2, AllStand
  <2>4. CASE job'[j].pc # "swap"
    <3>1. Stands(j)'
      BY <1>0, <2>1, <2>2, <2>4, StandsOn DEF RelyingSteps
    <3> QED BY <1>0, <2>1, <3>1, AllStand
  <2> QED BY <2>3, <2>4
<1>10. ASSUME NEW broken \in BOOLEAN, Declare(j, broken) \/ Finish(j, broken)
       PROVE  \A k \in Job : Stands(k)'
  <2>1. UNCHANGED <<cache, disturbed>>
    BY <1>10 DEF Declare, Finish
  <2>2. job'[j].pc \in {"failed", "completed", "over"}
    BY <1>0, <1>10, DeclareDoes, FinishDoes
  <2>3. Stands(j)'
    BY <2>2, StandsIdle DEF RelyingSteps
  <2> QED BY <1>0, <2>1, <2>3, AllStand
<1>11. CASE DropHandle(j)
  <2>1. UNCHANGED <<cache, disturbed>> /\ job' = [job EXCEPT ![j] = NoJob]
    BY <1>11 DEF DropHandle, bookkeeping
  <2>2. job'[j].pc = "idle"
    BY <1>0, <2>1, Kinds DEF JobsTyped
  <2>3. Stands(j)'
    BY <2>2, StandsIdle DEF RelyingSteps
  <2> QED BY <1>0, <2>1, <2>3, AllStand
<1> QED BY <1>1, <1>2, <1>3, <1>4, <1>5, <1>6, <1>7, <1>8, <1>9, <1>10, <1>11, <1>12
    DEF JobStep

LEMMA OtherStepsStand ==
    StandInv /\ (Counting \/ CancelStep \/ DropRead \/ DropReplace \/ Forget \/ Restart)
    => \A k \in Job : Stands(k)'
<1> SUFFICES ASSUME StandInv, Counting \/ CancelStep \/ DropRead \/ DropReplace \/ Forget \/ Restart
             PROVE  \A k \in Job : Stands(k)'
  OBVIOUS
<1>0. TypeOK /\ JobsTyped
  BY DEF StandInv, TypeOK, JobsTyped
<1>1. CASE CancelStep
  <2>1. UNCHANGED <<cache, disturbed>>
    BY <1>1 DEF CancelStep, CancelAbort, CancelMark, bookkeeping
  <2>2. job' = job \/ (cancel.of \in Job /\ job' = [job EXCEPT ![cancel.of] = NoJob])
    BY <1>0, <1>1, AbortDoes DEF CancelStep, CancelMark
  <2>3. CASE job' = job
    BY <2>1, <2>3, NoneRelyNow
  <2>4. CASE cancel.of \in Job /\ job' = [job EXCEPT ![cancel.of] = NoJob]
    <3>1. job'[cancel.of].pc = "idle" /\ \A k \in Job : k # cancel.of => job'[k] = job[k]
      BY <1>0, <2>4, Kinds DEF JobsTyped
    <3>2. \A k \in Job : k = cancel.of => job'[k].pc \notin RelyingSteps \cup {"swap"}
      BY <3>1 DEF RelyingSteps
    <3> SUFFICES ASSUME NEW k \in Job PROVE Stands(k)'
      OBVIOUS
    <3>3. CASE k = cancel.of
      BY <3>2, <3>3, StandsIdle
    <3>4. CASE k # cancel.of
      BY <2>1, <3>1, <3>4, StandsKept DEF StandInv
    <3> QED BY <3>3, <3>4
  <2> QED BY <2>2, <2>3, <2>4
<1>2. CASE Counting \/ DropRead \/ DropReplace
  <2>1. UNCHANGED <<job, cache, disturbed>>
    BY <1>2 DEF Counting, CountUp, DropRead, DropReplace, bookkeeping
  <2> QED BY <2>1, NoneRelyNow
<1>3. CASE Forget
  <2>1. job' = job /\ disturbed' = disturbed \cup Relying
    BY <1>3 DEF Forget
  <2> QED BY <2>1, NoneRelyNow
<1>4. CASE Restart
  <2>1. \A k \in Job : job'[k].pc = "idle"
    BY <1>4, Kinds DEF Restart
  <2> QED BY <2>1, StandsIdle DEF RelyingSteps
<1> QED BY <1>1, <1>2, <1>3, <1>4

LEMMA NextStands == StandInv /\ [Next]_vars => StandInv'
<1> SUFFICES ASSUME StandInv, [Next]_vars PROVE StandInv'
  OBVIOUS
<1>0. TypeOK'
  BY NextTyped DEF StandInv
<1>1. \A k \in Job : Stands(k)'
  <2>1. CASE Requests
    BY <2>1, RequestsStand
  <2>2. ASSUME NEW j \in Job, JobStep(j) PROVE \A k \in Job : Stands(k)'
    BY <2>2, JobStepStands
  <2>3. CASE Counting \/ CancelStep \/ DropRead \/ DropReplace \/ Forget \/ Restart
    BY <2>3, OtherStepsStand
  <2>4. CASE UNCHANGED vars
    <3>1. UNCHANGED <<job, cache, disturbed>>
      BY <2>4 DEF vars
    <3> QED BY <3>1, NoneRelyNow
  <2> QED BY <2>1, <2>2, <2>3, <2>4 DEF Next, Counting
<1> QED BY <1>0, <1>1 DEF StandInv

\* Only the swap takes a task from what it looked up to the declaration.
LEMMA OnlyReplaceSwaps ==
    ASSUME TypeOK, [Next]_vars, NEW j \in Job, job[j].pc = "swap", job'[j].pc = "declare"
    PROVE  \E broken \in BOOLEAN : Replace(j, broken)
<1>0. JobsTyped /\ job'[j] # job[j] /\ job'[j] # NoJob /\ job[j] # NoJob
  BY Kinds DEF TypeOK, JobsTyped
<1>1. CASE Requests
  <2>1. ASSUME NEW k \in Job,
               \/ \E scope \in Scopes : StartCheck(k, scope)
               \/ \E draft \in RunSpec : SampleRun(k, draft)
               \/ MaterializeOnly(k)
        PROVE  FALSE
    <3>1. job[k] = NoJob /\ job' = [job EXCEPT ![k] = job'[k]]
      BY <2>1, StartDoes
    <3> QED BY <1>0, <3>1, OneJob
  <2>2. ASSUME job' = job PROVE FALSE
    BY <1>0, <2>2
  <2> QED BY <1>1, <2>1, <2>2 DEF Requests, Sync, UpdateFunction, CancelRead, AdminCheck
<1>2. ASSUME NEW k \in Job, JobStep(k) PROVE \E broken \in BOOLEAN : Replace(j, broken)
  <2>1. k = j
    BY <1>0, <1>2, JobMoves
  <2>2. JobStep(j)
    BY <1>2, <2>1
  <2> QED BY <1>0, <2>2
          DEF JobStep, StartClear, StartInsert, KeepHandle, Prepare, CellsDone, ComputeCell,
              ReadTable, LookUp, CheckVersion, Declare, Finish, Ended, DropHandle
<1>3. CASE Counting \/ CancelStep \/ DropRead \/ DropReplace \/ Forget \/ Restart
  <2>1. \A k \in Job : job'[k] = job[k] \/ job'[k] = NoJob
    BY <1>0, <1>3
       DEF Counting, CountUp, CancelStep, CancelAbort, CancelMark, DropRead, DropReplace,
           Forget, Restart, JobsTyped
  <2> QED BY <1>0, <2>1
<1>4. CASE UNCHANGED vars
  BY <1>0, <1>4 DEF vars
<1> QED BY <1>1, <1>2, <1>3, <1>4 DEF Next, Counting

\* A run shows what it computed: unless an edit, a reset, another run or a lost
\* cell changed the cache beside it, every prepared row that is still there shows
\* the run's own outcome for its content after the swap (materialize.rs).
THEOREM ShowsItsOutcomes == Spec => ShowsWhatItComputed
<1>1. ASSUME StandInv, [Next]_vars, NEW j \in Job,
             job[j].pc = "swap", job'[j].pc = "declare", job[j].mode = "use", j \notin disturbed,
             NEW r \in job[j].rows \cap table'.rows
      PROVE  table'.shown[r] = <<job[j].spec, job[j].cells[Content[r]]>>
  <2>1. TypeOK
    BY <1>1 DEF StandInv
  <2>2. PICK broken \in BOOLEAN : Replace(j, broken)
    BY <1>1, <2>1, OnlyReplaceSwaps
  <2>3. /\ IsTask(job[j]) /\ table'.rows = DOMAIN job[j].todo[2]
        /\ table'.shown = [x \in Row |-> IF x \in DOMAIN job[j].todo[2]
                                         THEN job[j].todo[2][x] ELSE Null]
    BY <1>1, <2>1, <2>2, ReplaceDoes
  <2>4. Showing(j) /\ Stands(j)
    BY <1>1 DEF Showing, StandInv
  <2>5. r \in DOMAIN job[j].todo[2] /\ r \in Row
    BY <1>1, <2>3 DEF IsTask
  <2>6. table'.shown[r] = job[j].todo[2][r]
    BY <2>3, <2>5
  <2> QED BY <2>4, <2>5, <2>6 DEF Stands
<1>2. StandInv /\ [Next]_vars =>
        [\A j \in Job :
            (/\ job[j].pc = "swap" /\ job'[j].pc = "declare"
             /\ job[j].mode = "use" /\ j \notin disturbed)
            => \A r \in job[j].rows \cap table'.rows :
                  table'.shown[r] = <<job[j].spec, job[j].cells[Content[r]]>>]_vars
  BY <1>1
<1> QED BY <1>2, InitStand, NextStands, PTL DEF Spec, ShowsWhatItComputed
=============================================================================
