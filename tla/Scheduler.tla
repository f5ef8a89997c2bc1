----------------------------- MODULE Scheduler -----------------------------
(***************************************************************************)
(* The connector syncs of one connector preset: the 30-second tick over    *)
(* the scheduled jobs, ad-hoc runs, the sync pipeline itself (cursors,     *)
(* fetch, one merge and one cursor per endpoint), changes of the schedule, *)
(* deletion of the preset and restarts.                                    *)
(*                                                                         *)
(* The remote API publishes records numbered 1, 2, ... per endpoint; the   *)
(* number is the record's cursor stamp.  A merge is what TableStore shows  *)
(* it to be: a snapshot of the table, and later one commit computed from   *)
(* it.  The connector runtime (longbow) is outside the repository: it      *)
(* fetches from the cursor on, writes one file per endpoint into the       *)
(* preset's output directory, and reports the highest stamp it saw.        *)
(***************************************************************************)
EXTENDS Integers, FiniteSets

CONSTANTS
    Jobs,         \* ids a scheduled job may get
    AdHoc,        \* the job id of a run without a job
    Slots,        \* executions that may be under way at once
    EndpointCount, \* endpoints of the connector
    MaxRecords,   \* bound: records the API publishes per endpoint
    MaxAdHoc,     \* bound: ad-hoc runs
    MaxEdits,     \* bound: changes of the schedule
    MaxMishaps    \* bound: failed steps of a run, and restarts

ASSUME SchedulerAssumption ==
    /\ AdHoc \notin Jobs
    /\ EndpointCount \in Nat \ {0}
    /\ MaxRecords \in Nat /\ MaxAdHoc \in Nat /\ MaxEdits \in Nat
    /\ MaxMishaps \in Nat

VARIABLES
    published, \* how many records the API has, by endpoint
    jobs,      \* scheduler_jobs: "none", "on" (enabled) or "off"
    rows,      \* sync_runs of each job: its newest row and the one before
    cursor,    \* sync_state: the saved cursor, 0 when there is none
    table,     \* the stamps in the endpoint's table
    output,    \* the stamps in the endpoint's file in the output directory
    runs,      \* executions of execute_sync
    inflight,  \* the in-flight set
    tick,      \* the tick loop: [pc, todo]
    deletion,  \* the delete-preset handler
    overlap,   \* history: two runs were under way at once
    late,      \* history: a run was under way during the deletion
    remnant,   \* history: what failed steps of the deletion left
    adhocs, edits, faults, crashes

database == <<jobs, rows, cursor>>
counters == <<adhocs, edits, faults, crashes>>
history  == <<overlap, late, remnant>>
vars == <<published, database, table, output, runs, inflight, tick, deletion,
          history, counters>>

----------------------------------------------------------------------------
(* Merged in this order.                                                   *)
Endpoints == 1..EndpointCount

Stamps == 0..MaxRecords

Steps == {"idle", "insert", "config", "cursors", "fetch", "files", "merge", "commit",
          "save", "complete", "release", "releaseFailed", "fail"}

(* got: the stamp reported per endpoint (0: none); at: the endpoint being  *)
(* merged; snap, batch: what merge_parquet read.                           *)
Idle == [pc |-> "idle", job |-> AdHoc, from |-> [e \in Endpoints |-> 0],
         got |-> [e \in Endpoints |-> 0], fetched |-> [e \in Endpoints |-> {}],
         at |-> 1, snap |-> {}, batch |-> {}]

Run == [pc : Steps, job : Jobs \cup {AdHoc}, from : [Endpoints -> Stamps],
        got : [Endpoints -> Stamps], fetched : [Endpoints -> SUBSET Stamps],
        at : Nat, snap : SUBSET Stamps, batch : SUBSET Stamps]

(* A row is as old as its started_at: "old" once the interval has passed.  *)
(* of: the execution that will finish the newest row.                      *)
Ages == {"none", "fresh", "old"}
NoSlot  == "none"
JobRows == [status : {"none", "running", "finished"}, age : Ages, before : Ages,
            of : Slots \cup {NoSlot}]
NoRows  == [status |-> "none", age |-> "none", before |-> "none", of |-> NoSlot]

TypeOK ==
    /\ published \in [Endpoints -> Stamps]
    /\ jobs \in [Jobs -> {"none", "on", "off"}]
    /\ rows \in [Jobs -> JobRows]
    /\ cursor \in [Endpoints -> Stamps]
    /\ table \in [Endpoints -> SUBSET Stamps]
    /\ output \in [Endpoints -> SUBSET Stamps]
    /\ runs \in [Slots -> Run]
    /\ inflight \subseteq Jobs \cup {AdHoc}
    /\ tick \in [pc : {"idle", "running", "due", "spawn"}, todo : SUBSET Jobs, job : Jobs \cup {AdHoc}]
    /\ deletion \in {"no", "config", "data", "done", "interrupted"}
    /\ overlap \in BOOLEAN /\ late \in BOOLEAN
    /\ remnant \in [table : [Endpoints -> SUBSET Stamps], output : [Endpoints -> SUBSET Stamps]]
    /\ adhocs \in Nat /\ edits \in Nat /\ faults \in Nat /\ crashes \in Nat

(* The job the preset starts out with.                                     *)
FirstJob == CHOOSE j \in Jobs : TRUE

Nothing == [e \in Endpoints |-> {}]
NoTick == [pc |-> "idle", todo |-> {}, job |-> AdHoc]

Init ==
    /\ published = [e \in Endpoints |-> 0]
    /\ jobs = [j \in Jobs |-> IF j = FirstJob THEN "on" ELSE "none"]
    /\ rows = [j \in Jobs |-> NoRows]
    /\ cursor = [e \in Endpoints |-> 0]
    /\ table = Nothing /\ output = Nothing
    /\ runs = [s \in Slots |-> Idle]
    /\ inflight = {} /\ tick = NoTick
    /\ deletion = "no" /\ overlap = FALSE /\ late = FALSE
    /\ remnant = [table |-> Nothing, output |-> Nothing]
    /\ adhocs = 0 /\ edits = 0 /\ faults = 0 /\ crashes = 0

Active == {s \in Slots : runs[s].pc # "idle"}
Executing == {s \in Active : runs[s].pc # "fail"}
At(s, pc) == runs[s].pc = pc
FreeSlot == CHOOSE s \in Slots : Active = Slots \/ At(s, "idle")
Set(s, rec) == runs' = [runs EXCEPT ![s] = rec]
Go(s, pc) == runs' = [runs EXCEPT ![s].pc = pc]
ConfigExists == deletion = "no"

(* An error of execute_sync goes to the failure arm of the spawned task.   *)
Error(s) == Go(s, "releaseFailed")

----------------------------------------------------------------------------
Publish(e) ==
    /\ published[e] < MaxRecords
    /\ published' = [published EXCEPT ![e] = @ + 1]
    /\ UNCHANGED <<database, table, output, runs, inflight, tick, deletion, history, counters>>

(* interval_secs go by after the last started_at.                          *)
IntervalElapses ==
    /\ \E j \in Jobs : rows[j].age = "fresh"
    /\ rows' = [j \in Jobs |->
                    [rows[j] EXCEPT !.age = IF @ = "fresh" THEN "old" ELSE @,
                                    !.before = IF @ = "fresh" THEN "old" ELSE @]]
    /\ UNCHANGED <<published, jobs, cursor, table, output, runs, inflight, tick, deletion,
                   history, counters>>

(* create_sync_run, by the tick or by a request.  The row needs the        *)
(* connector's (and the job's) row.                                        *)
CreateRun(s, job) ==
    /\ s = FreeSlot /\ At(s, "idle")
    /\ Set(s, [Idle EXCEPT !.pc = "insert", !.job = job])
    /\ rows' = IF job = AdHoc THEN rows
               ELSE [rows EXCEPT ![job] =
                        [status |-> "running", age |-> "fresh", of |-> s,
                         before |-> IF @.status = "finished" THEN @.age ELSE @.before]]
    /\ overlap' = (overlap \/ Executing # {})

----------------------------------------------------------------------------
(* The tick lists the enabled jobs and takes them one by one.              *)
TickList ==
    /\ tick.pc = "idle"
    /\ \E j \in Jobs : jobs[j] = "on"
    /\ tick' = [NoTick EXCEPT !.pc = "running", !.todo = {j \in Jobs : jobs[j] = "on"}]
    /\ UNCHANGED <<published, database, table, output, runs, inflight, deletion, history,
                   counters>>

(* Faulty variant of TickRunning: the in-flight set is not asked.           *)
TickRunningUnchecked ==
    /\ tick.pc = "running"
    /\ IF tick.todo = {} THEN tick' = NoTick
       ELSE \E j \in tick.todo :
                tick' = [pc |-> "due", todo |-> tick.todo \ {j}, job |-> j]
    /\ UNCHANGED <<published, database, table, output, runs, inflight, deletion, history,
                   counters>>

(* A job that is in flight is skipped.                                     *)
TickRunning ==
    /\ tick.pc = "running"
    /\ IF tick.todo = {} THEN tick' = NoTick
       ELSE \E j \in tick.todo :
                IF j \in inflight THEN tick' = [tick EXCEPT !.todo = @ \ {j}]
                ELSE tick' = [pc |-> "due", todo |-> tick.todo \ {j}, job |-> j]
    /\ UNCHANGED <<published, database, table, output, runs, inflight, deletion, history,
                   counters>>

(* The latest row of the job says whether it is due; if so its run is      *)
(* created (which a job or preset deleted since refuses).                  *)
TickDue ==
    /\ tick.pc = "due"
    /\ IF rows[tick.job].age = "fresh" \/ jobs[tick.job] = "none" \/ ~ConfigExists
       THEN /\ tick' = [tick EXCEPT !.pc = "running", !.job = AdHoc]
            /\ UNCHANGED <<runs, rows, overlap>>
       ELSE /\ tick' = [tick EXCEPT !.pc = "spawn"]
            /\ \E s \in Slots : CreateRun(s, tick.job)
    /\ UNCHANGED <<published, jobs, cursor, table, output, inflight, deletion, late, remnant, counters>>

(* POST /connectors/:name/run                                              *)
TriggerConnectorRun(s) ==
    /\ adhocs < MaxAdHoc
    /\ ConfigExists
    /\ adhocs' = adhocs + 1
    /\ CreateRun(s, AdHoc)
    /\ UNCHANGED <<published, jobs, cursor, table, output, inflight, tick, deletion, late, remnant,
                   edits, faults, crashes>>

(* spawn_job ends: the key goes into the in-flight set, the task starts,   *)
(* and the tick, which waited for it, takes its next job.                  *)
Launch(s) ==
    /\ At(s, "insert")
    /\ inflight' = inflight \cup {runs[s].job}
    /\ Go(s, "config")
    /\ tick' = IF runs[s].job = AdHoc THEN tick
               ELSE [tick EXCEPT !.pc = "running", !.job = AdHoc]
    /\ UNCHANGED <<published, database, table, output, deletion, history, counters>>

----------------------------------------------------------------------------
(* execute_sync                                                            *)
LoadConfig(s) ==
    /\ At(s, "config")
    /\ IF ConfigExists THEN Go(s, "cursors") ELSE Error(s)
    /\ UNCHANGED <<published, database, table, output, inflight, tick, deletion, history,
                   counters>>

LoadCursors(s) ==
    /\ At(s, "cursors")
    /\ Set(s, [runs[s] EXCEPT !.pc = "fetch", !.from = cursor])
    /\ UNCHANGED <<published, database, table, output, inflight, tick, deletion, history,
                   counters>>

(* The connector fetches.  Whether the record at the cursor itself comes   *)
(* again is up to the API.                                                 *)
Fetch(s) ==
    /\ At(s, "fetch")
    /\ \E again \in {0, 1} :
        LET batch(e) == {k \in 1..published[e] : k > runs[s].from[e] - again} IN
        Set(s, [runs[s] EXCEPT
                !.pc = "files",
                !.fetched = [e \in Endpoints |-> batch(e)],
                !.got = [e \in Endpoints |-> IF batch(e) = {} THEN 0 ELSE published[e]]])
    /\ UNCHANGED <<published, database, table, output, inflight, tick, deletion, history,
                   counters>>

(* It leaves a file for every endpoint that had records; a file of an      *)
(* earlier run stays where it is.                                          *)
WriteFiles(s) ==
    /\ At(s, "files")
    /\ output' = [e \in Endpoints |-> IF runs[s].fetched[e] = {} THEN output[e]
                                      ELSE runs[s].fetched[e]]
    /\ Set(s, [runs[s] EXCEPT !.pc = "merge", !.at = 1,
                              !.fetched = [e \in Endpoints |-> {}]])
    /\ UNCHANGED <<published, database, table, inflight, tick, deletion, history, counters>>

(* merge_parquet reads the endpoint's file and the table; an endpoint      *)
(* without a file is passed over.                                          *)
MergeRead(s) ==
    /\ At(s, "merge")
    /\ LET e == runs[s].at IN
        IF e \notin Endpoints THEN Go(s, "complete")
        ELSE IF output[e] = {} THEN Set(s, [runs[s] EXCEPT !.at = e + 1])
        ELSE Set(s, [runs[s] EXCEPT !.pc = "commit", !.snap = table[e], !.batch = output[e]])
    /\ UNCHANGED <<published, database, table, output, inflight, tick, deletion, history,
                   counters>>

(* Faulty variant of MergeCommit: the file takes the table's place.         *)
MergeCommitReplace(s) ==
    /\ At(s, "commit")
    /\ table' = [table EXCEPT ![runs[s].at] = runs[s].batch]
    /\ Set(s, [runs[s] EXCEPT !.pc = "save", !.snap = {}, !.batch = {}])
    /\ UNCHANGED <<published, database, output, inflight, tick, deletion, history, counters>>

(* What was read is joined with the file, whatever the table is by now.    *)
MergeCommit(s) ==
    /\ At(s, "commit")
    /\ table' = [table EXCEPT ![runs[s].at] = runs[s].snap \cup runs[s].batch]
    /\ Set(s, [runs[s] EXCEPT !.pc = "save", !.snap = {}, !.batch = {}])
    /\ UNCHANGED <<published, database, output, inflight, tick, deletion, history, counters>>

(* upsert_sync_state keeps the old cursor when the run reports none; the   *)
(* row needs the connector's.  The post-sync hook follows.                 *)
SaveCursor(s) ==
    /\ At(s, "save")
    /\ LET e == runs[s].at IN
        IF ConfigExists
        THEN /\ cursor' = [cursor EXCEPT ![e] = IF runs[s].got[e] = 0 THEN @ ELSE runs[s].got[e]]
             /\ Set(s, [runs[s] EXCEPT !.pc = "merge", !.at = e + 1])
        ELSE Error(s) /\ UNCHANGED cursor
    /\ UNCHANGED <<published, jobs, rows, table, output, inflight, tick, deletion, history,
                   counters>>

(* update_sync_run: the run's own row, if it is still there; a newer row   *)
(* of the job was created only once this one was old.                      *)
FinishRow(s) ==
    LET j == runs[s].job IN
    rows' = IF j = AdHoc \/ rows[j] = NoRows THEN rows
            ELSE IF rows[j].of = s THEN [rows EXCEPT ![j].status = "finished", ![j].of = NoSlot]
            ELSE [rows EXCEPT ![j].before = "old"]

Complete(s) ==
    /\ At(s, "complete")
    /\ FinishRow(s)
    /\ Go(s, "release")
    /\ UNCHANGED <<published, jobs, cursor, table, output, inflight, tick, deletion, history,
                   counters>>

(* A step of the pipeline fails.                                           *)
FailStep(s) ==
    /\ runs[s].pc \in {"config", "cursors", "fetch", "files", "merge", "commit", "save", "complete"}
    /\ faults + crashes < MaxMishaps
    /\ faults' = faults + 1
    /\ Error(s)
    /\ UNCHANGED <<published, database, table, output, inflight, tick, deletion, history,
                   adhocs, edits, crashes>>

(* Faulty variant of Release: only a run that succeeded leaves the set.     *)
ReleaseCompleted(s) ==
    /\ runs[s].pc \in {"release", "releaseFailed"}
    /\ IF At(s, "release")
       THEN inflight' = inflight \ {runs[s].job} /\ Set(s, Idle)
       ELSE Go(s, "fail") /\ UNCHANGED inflight
    /\ UNCHANGED <<published, database, table, output, tick, deletion, history, counters>>

(* The key leaves the in-flight set whatever the result.                   *)
Release(s) ==
    /\ runs[s].pc \in {"release", "releaseFailed"}
    /\ inflight' = inflight \ {runs[s].job}
    /\ IF At(s, "release") THEN Set(s, Idle) ELSE Go(s, "fail")
    /\ UNCHANGED <<published, database, table, output, tick, deletion, history, counters>>

(* The row is marked failed.                                               *)
MarkFailed(s) ==
    /\ At(s, "fail")
    /\ FinishRow(s)
    /\ Set(s, Idle)
    /\ UNCHANGED <<published, jobs, cursor, table, output, inflight, tick, deletion, history,
                   counters>>

RunStep(s) ==
    \/ Launch(s) \/ LoadConfig(s) \/ LoadCursors(s) \/ Fetch(s) \/ WriteFiles(s)
    \/ MergeRead(s) \/ MergeCommit(s) \/ SaveCursor(s) \/ Complete(s) \/ Release(s)
    \/ MarkFailed(s)

----------------------------------------------------------------------------
(* schedule_connector: the connector's job is switched on or off, or a new *)
(* one is created when it has none.                                        *)
Schedule(on) ==
    /\ edits < MaxEdits /\ ConfigExists
    /\ edits' = edits + 1
    /\ LET status == IF on THEN "on" ELSE "off" IN
        IF \A j \in Jobs : jobs[j] = "none"
        THEN \E j \in Jobs : rows[j] = NoRows /\ jobs' = [jobs EXCEPT ![j] = "on"]
        ELSE jobs' = [j \in Jobs |-> IF jobs[j] = "none" THEN "none" ELSE status]
    /\ UNCHANGED <<published, rows, cursor, table, output, runs, inflight, tick, deletion,
                   history, adhocs, faults, crashes>>

(* delete_schedule: the job goes, its rows stay without it.                *)
DeleteJob(j) ==
    /\ edits < MaxEdits
    /\ jobs[j] # "none"
    /\ edits' = edits + 1
    /\ jobs' = [jobs EXCEPT ![j] = "none"]
    /\ UNCHANGED <<published, rows, cursor, table, output, runs, inflight, tick, deletion,
                   history, adhocs, faults, crashes>>

(* delete_connector_config: the row takes jobs, cursors and runs with it;  *)
(* then the tables; then the output directory.                             *)
DeleteConfig ==
    /\ deletion = "no"
    /\ jobs' = [j \in Jobs |-> "none"]
    /\ rows' = [j \in Jobs |-> NoRows]
    /\ cursor' = [e \in Endpoints |-> 0]
    /\ deletion' = "config"
    /\ late' = (Active # {})
    /\ UNCHANGED <<published, table, output, runs, inflight, tick, overlap, remnant, counters>>

(* Faulty variant of DeleteData: the tables stay.                           *)
DeleteDataSkipped ==
    /\ deletion = "config"
    /\ deletion' = "data"
    /\ UNCHANGED <<published, database, table, output, runs, inflight, tick, history, counters>>

DeleteData ==
    /\ deletion = "config"
    /\ table' = Nothing
    /\ deletion' = "data"
    /\ UNCHANGED <<published, database, output, runs, inflight, tick, history, counters>>

DeleteOutput ==
    /\ deletion = "data"
    /\ output' = Nothing
    /\ deletion' = "done"
    /\ UNCHANGED <<published, database, table, runs, inflight, tick, history, counters>>

(* The tables cannot be purged, or some of the output files not removed: a *)
(* warning, and the handler goes on.                                       *)
DeleteDataFails ==
    /\ deletion = "config"
    /\ deletion' = "data"
    /\ remnant' = [remnant EXCEPT !.table = table]
    /\ UNCHANGED <<table, output>>

DeleteOutputFails ==
    /\ deletion = "data"
    /\ deletion' = "done"
    /\ \E left \in SUBSET Endpoints :
          output' = [e \in Endpoints |-> IF e \in left THEN output[e] ELSE {}]
    /\ remnant' = [remnant EXCEPT !.output = output']
    /\ UNCHANGED table

DeletionFails ==
    /\ DeleteDataFails \/ DeleteOutputFails
    /\ faults + crashes < MaxMishaps
    /\ faults' = faults + 1
    /\ UNCHANGED <<published, database, runs, inflight, tick, overlap, late, adhocs, edits,
                   crashes>>

(* The process restarts.  start() deletes the rows left as running before  *)
(* its first tick.                                                         *)
Restart ==
    /\ faults + crashes < MaxMishaps
    /\ crashes' = crashes + 1
    /\ runs' = [s \in Slots |-> Idle]
    /\ inflight' = {} /\ tick' = NoTick
    /\ rows' = [j \in Jobs |->
                    IF rows[j].status # "running" THEN rows[j]
                    ELSE IF rows[j].before = "none" THEN NoRows
                    ELSE [NoRows EXCEPT !.status = "finished", !.age = rows[j].before]]
    /\ deletion' = IF deletion \in {"config", "data"} THEN "interrupted" ELSE deletion
    /\ UNCHANGED <<published, jobs, cursor, table, output, history, adhocs, edits, faults>>

Next ==
    \/ \E e \in Endpoints : Publish(e)
    \/ IntervalElapses
    \/ TickList \/ TickRunning \/ TickDue
    \/ \E s \in Slots : TriggerConnectorRun(s)
    \/ \E s \in Slots : RunStep(s)
    \/ \E s \in Slots : FailStep(s)
    \/ \E on \in BOOLEAN : Schedule(on)
    \/ \E j \in Jobs : DeleteJob(j)
    \/ DeleteConfig \/ DeleteData \/ DeleteOutput \/ DeletionFails
    \/ Restart

(* The timer of the loop keeps firing, time passes, and a run that was     *)
(* started runs on.  Nothing obliges anyone to publish, trigger or edit.   *)
Fairness ==
    /\ WF_vars(TickList) /\ WF_vars(TickRunning) /\ WF_vars(TickDue)
    /\ WF_vars(IntervalElapses)
    /\ \A s \in Slots : WF_vars(RunStep(s))

Spec == Init /\ [][Next]_vars /\ Fairness

----------------------------------------------------------------------------
(* JobRunsOnce: a job never has two runs under way: the in-flight set      *)
(* "stops the tick from double-spawning a job that is still running"       *)
(* (lib.rs:5-7), however long the run and however short the interval.      *)
JobRunsOnce ==
    \A s, t \in Executing : (runs[s].job = runs[t].job /\ runs[s].job # AdHoc) => s = t

(* CursorCovered: every record up to the saved cursor is in the table, so  *)
(* a run that starts from the cursor misses nothing - across failed steps, *)
(* restarts between the merge and the cursor, and schedule changes - as    *)
(* long as no two runs of the preset were under way at once.               *)
CursorCovered ==
    ~overlap => \A e \in Endpoints : 1..cursor[e] \subseteq table[e]

(* CursorNeverRegresses: a cursor moves forward only (until the preset is  *)
(* deleted): a run that found nothing keeps it (COALESCE).                 *)
CursorNeverRegresses ==
    \A e \in Endpoints : (~overlap /\ deletion' = "no") => cursor'[e] >= cursor[e]

(* CursorSound: a sync cursor may be resumed from: nothing before it is    *)
(* missing, and it never moves back.                                       *)
CursorSound == [][CursorCovered' /\ CursorNeverRegresses]_vars

(* DeletedStaysDeleted: a deletion that no run overlapped leaves no table  *)
(* and no file but those a failed step of it left, which the handler only  *)
(* warns about: exactly these stay, and nothing brings the others back.    *)
DeletedStaysDeleted ==
    (deletion = "done" /\ ~late) => table = remnant.table /\ output = remnant.output

(* EventuallySynced: with the job switched on, every record gets into the  *)
(* table: failed runs, restarts and stale rows of runs that never finished *)
(* only delay it.                                                          *)
Scheduled == ConfigExists /\ \E j \in Jobs : jobs[j] = "on"
EventuallySynced ==
    \A e \in Endpoints, k \in 1..MaxRecords :
        (published[e] >= k /\ Scheduled) ~> (k \in table[e] \/ ~Scheduled \/ overlap)

----------------------------------------------------------------------------
(* What the comments of the code promise and the code does not do.         *)

(* "Ad-hoc runs (no job id) key by connector, which keeps them from ever   *)
(* colliding with a scheduled run of the same connector" (lib.rs:488-489): *)
(* when no run is under way, whatever ran before, every record up to the   *)
(* saved cursor is in the table.                                           *)
SettledCursorCovered ==
    Active = {} => \A e \in Endpoints : 1..cursor[e] \subseteq table[e]

=============================================================================
