--------------------------- MODULE EnrichmentRuns ---------------------------
(***************************************************************************)
(* The life of an enrichment function: its versions, the cache of computed *)
(* cells keyed by spec and content, and the runs that fill the cache and   *)
(* rewrite the function's columns of one table, while syncs merge rows,    *)
(* people edit, reset, cancel and delete, and the process restarts.        *)
(* A step ends where the code awaits.                                      *)
(***************************************************************************)
EXTENDS Integers, Sequences, FiniteSets

CONSTANTS
    Row,          \* rows a sync may merge
    Content,      \* what a row's input columns hold: rows may share content
    RunSpec,      \* prompts and settings: what spec_hash tells apart
    Job,          \* ids of runs, samples and materialisations
    MaxRequests,  \* bound on what users and syncs ask for
    MaxFaults     \* bound on failed writes and restarts

ASSUME EnrichmentAssumption ==
    /\ RunSpec # {}
    /\ MaxRequests \in Nat /\ MaxFaults \in Nat

VARIABLES
    fn,       \* the function: its saved specs, oldest first, and if it lives
    cache,    \* enrichment_cache: (spec, content) -> its stored status
    table,    \* the table's version, who has yet to count it up after swapping the
              \* files, its rows, and the cell each row shows
    run,      \* enrichment_runs rows
    job,      \* the tasks and requests, by id
    handles,  \* AppState.enrichment_jobs
    lock,     \* who holds the table's materialize_lock
    cancel,   \* the cancel request under way
    admin,    \* the reset or deletion under way
    requests, \* how many requests were made
    faults,   \* how many failures there were
    disturbed, \* runs some edit, reset, clearing or lost cell ran beside (history)
    merged,    \* rows some sync merged, no reset took away and no rewrite in its
               \* window overlooked (history)
    orphaned   \* runs whose outcome could not be written (history)

vars == <<fn, cache, table, run, job, handles, lock, cancel, admin, requests, faults,
          disturbed, merged, orphaned>>
bookkeeping == <<requests, faults, disturbed, merged, orphaned>>
history == <<faults, disturbed, merged, orphaned>>

Inputs(rows) == {Content[r] : r \in rows}
Null == <<"null">>
NoJob == [pc |-> "idle"]
NoRun == [status |-> "none"]
NewRun == [status |-> "running", kept |-> FALSE, done |-> 0, failed |-> 0]
Nobody == "free"
Current == fn.saved[Len(fn.saved)]
Scopes == {"missing", "all", "failed"}

ActiveRuns == {j \in Job : run[j].status = "running"}

\* The tasks that rely on cells they have looked up or stored.
Relying == {j \in Job : job[j].pc \in {"cells", "lock", "read", "lookup", "check"}}

Init ==
    /\ \E s \in RunSpec : fn = [alive |-> TRUE, saved |-> <<s>>]
    /\ cache = [e \in RunSpec \X Inputs(Row) |-> "none"]
    /\ merged \in SUBSET Row
    /\ table = [version |-> 1, behind |-> {}, rows |-> merged, shown |-> [r \in Row |-> Null]]
    /\ run = [j \in Job |-> NoRun]
    /\ job = [j \in Job |-> NoJob]
    /\ handles = {} /\ lock = Nobody
    /\ cancel = [pc |-> "idle"] /\ admin = [pc |-> "idle"]
    /\ requests = 0 /\ faults = 0 /\ disturbed = {} /\ orphaned = {}

Request == requests < MaxRequests /\ requests' = requests + 1

Goto(j, pc) == job' = [job EXCEPT ![j].pc = pc]

(***************************************************************************)
(* A swap of the table's files and the counting up of its version are two  *)
(* statements. Nobody compares versions between those of a rewrite: it     *)
(* holds the lock, and who comes next reads the version first.             *)
(***************************************************************************)
Swapped(shown) ==
    [table EXCEPT !.rows = DOMAIN shown,
                  !.shown = [r \in Row |-> IF r \in DOMAIN shown THEN shown[r] ELSE Null]]
SwappedFor(who, shown) == [Swapped(shown) EXCEPT !.behind = @ \cup {who}]

CountUp(who) ==
    /\ who \in table.behind
    /\ table' = [table EXCEPT !.version = @ + 1, !.behind = @ \ {who}]
    /\ UNCHANGED <<fn, cache, run, job, handles, lock, cancel, admin, bookkeeping>>

(***************************************************************************)
(* A sync merges rows (a row fetched again loses its computed cells until  *)
(* the next rewrite) and then asks for a run of what is missing.           *)
(***************************************************************************)
\* A rewrite past its version check swaps whatever is merged by then.
InWindow == \E j \in Job : job[j].pc = "swap"

Sync(new) ==
    /\ Request /\ "sync" \notin table.behind
    /\ table' = SwappedFor("sync", [r \in table.rows \cup new |->
                                       IF r \in new THEN Null ELSE table.shown[r]])
    /\ merged' = IF InWindow THEN merged ELSE merged \cup new
    /\ UNCHANGED <<fn, cache, run, job, handles, lock, cancel, admin, faults, disturbed, orphaned>>

(***************************************************************************)
(* Versions: an edit saves a new version and prunes the cache to the new   *)
(* and the previous spec; it does not ask for an active run.               *)
(***************************************************************************)
Pruned(keep) == [e \in DOMAIN cache |-> IF e[1] \in keep THEN cache[e] ELSE "none"]

UpdateFunction(s) ==
    /\ fn.alive /\ Request
    /\ fn' = [fn EXCEPT !.saved = Append(@, s)]
    /\ cache' = Pruned({s, Current})
    /\ disturbed' = disturbed \cup Relying
    /\ UNCHANGED <<table, run, job, handles, lock, cancel, admin, faults, merged, orphaned>>

(***************************************************************************)
(* Starting a run: refuse if one is active, read the spec, clear what the  *)
(* scope says, insert the run row, spawn, and only then keep the handle.   *)
(***************************************************************************)
Unused(j) == job[j] = NoJob /\ run[j] = NoRun

StartCheck(j, scope) ==
    /\ Request
    /\ fn.alive /\ Unused(j) /\ ActiveRuns = {}
    /\ job' = [job EXCEPT ![j] = [pc |-> "clear", spec |-> Current, scope |-> scope]]
    /\ UNCHANGED <<fn, cache, table, run, handles, lock, cancel, admin, history>>

Cleared(scope, s) ==
    [e \in DOMAIN cache |->
        IF e[1] = s /\ (scope = "all" \/ (scope = "failed" /\ cache[e] = "error"))
        THEN "none" ELSE cache[e]]

StartClear(j) ==
    /\ job[j].pc = "clear"
    /\ cache' = Cleared(job[j].scope, job[j].spec)
    /\ disturbed' = IF job[j].scope = "missing" THEN disturbed ELSE disturbed \cup Relying
    /\ Goto(j, "insert")
    /\ UNCHANGED <<fn, table, run, handles, lock, cancel, admin, requests, faults, merged, orphaned>>

Task(spec, mode, pc) ==
    [pc |-> pc, spec |-> spec, mode |-> mode, tries |-> 0, rows |-> {}, todo |-> {}, cells |-> <<>>]

\* The row is inserted and the task spawned; the starter still has the handle.
StartInsert(j) ==
    /\ job[j].pc = "insert"
    /\ IF fn.alive
       THEN /\ run' = [run EXCEPT ![j] = NewRun]
            /\ job' = [job EXCEPT ![j] = Task(job[j].spec, "use", "prepare")]
       ELSE /\ job' = [job EXCEPT ![j] = NoJob]
            /\ UNCHANGED run
    /\ UNCHANGED <<fn, cache, table, handles, lock, cancel, admin, bookkeeping>>

Starting(j) == run[j] # NoRun /\ ~run[j].kept

KeepHandle(j) ==
    /\ Starting(j)
    /\ handles' = handles \cup {j}
    /\ run' = [run EXCEPT ![j].kept = TRUE]
    /\ UNCHANGED <<fn, cache, table, job, lock, cancel, admin, bookkeeping>>

\* A sample run tests a draft, outside the cache.
SampleRun(j, draft) ==
    /\ Request
    /\ fn.alive /\ Unused(j)
    /\ job' = [job EXCEPT ![j] = Task(draft, "bypass", "prepare")]
    /\ UNCHANGED <<fn, cache, table, run, handles, lock, cancel, admin, history>>

\* Materialise only: rewrite from the cache, without a call.
MaterializeOnly(j) ==
    /\ Request
    /\ fn.alive /\ Unused(j) /\ ActiveRuns = {}
    /\ job' = [job EXCEPT ![j] = Task(Current, "rewrite", "lock")]
    /\ UNCHANGED <<fn, cache, table, run, handles, lock, cancel, admin, history>>

(***************************************************************************)
(* The cells: equal contents share one, a stored success is a hit, every   *)
(* miss goes to the model, and what came back is stored, failures too.     *)
(***************************************************************************)
CacheHit(e) == cache[e] = "ok"

Misses(s, rows, mode) ==
    {c \in Inputs(rows) : mode = "bypass" \/ ~CacheHit(<<s, c>>)}

Prepare(j) ==
    /\ job[j].pc = "prepare"
    /\ LET todo == Misses(job[j].spec, table.rows, job[j].mode)
       IN job' = [job EXCEPT ![j].pc = "cells", ![j].rows = table.rows, ![j].todo = todo,
                             ![j].cells = [c \in Inputs(table.rows) \ todo |->
                                              cache[<<job[j].spec, c>>]]]
    /\ UNCHANGED <<fn, cache, table, run, handles, lock, cancel, admin, bookkeeping>>

Fault(b) == faults' = IF b THEN faults + 1 ELSE faults
FaultAllowed(b) == b => faults < MaxFaults

\* Faulty variant of Stores: what a sample computed from a draft is kept.
StoresSamples(mode) == fn.alive

\* Storing a cell; a deleted function takes no more (its foreign key is gone).
Stores(mode) == mode = "use" /\ fn.alive

\* What the model's answer to one prompt may be: a call that fits the schema,
\* one that does not, or no answer after the retries.
Answers == {"valid", "invalid", "none"}

\* One re-ask with the validation error, then give up.
Outcome(first, second) ==
    IF first = "valid" \/ (first = "invalid" /\ second = "valid") THEN "ok" ELSE "error"

StoreCell(mode, s, c, status) ==
    IF Stores(mode) THEN [cache EXCEPT ![<<s, c>>] = status] ELSE cache

ComputeCell(j, c, first, second, lost) ==
  LET status == Outcome(first, second) IN
    /\ job[j].pc = "cells" /\ c \in job[j].todo /\ FaultAllowed(lost)
    /\ job' = [job EXCEPT ![j].todo = @ \ {c},
                          ![j].cells = [x \in DOMAIN @ \cup {c} |-> IF x = c THEN status ELSE @[x]]]
    /\ cache' = IF lost THEN cache ELSE StoreCell(job[j].mode, job[j].spec, c, status)
    /\ Fault(lost)
    /\ disturbed' = disturbed \cup (IF lost \/ ~fn.alive THEN {j} ELSE Relying \ {j})
    /\ UNCHANGED <<fn, table, run, handles, lock, cancel, admin, requests, merged, orphaned>>

\* progress_counts weighs each distinct content by the rows that hold it.
Weight(rows, cs) == Cardinality({r \in rows : Content[r] \in cs})

Progress(j) ==
    LET cells == job[j].cells
    IN [run[j] EXCEPT !.done = Weight(job[j].rows, DOMAIN cells),
                      !.failed = Weight(job[j].rows, {c \in DOMAIN cells : cells[c] = "error"})]

CellsDone(j) ==
    /\ job[j].pc = "cells" /\ job[j].todo = {}
    /\ run' = IF run[j] = NoRun THEN run ELSE [run EXCEPT ![j] = Progress(j)]
    /\ Goto(j, IF job[j].mode = "bypass" THEN "over" ELSE "lock")
    /\ UNCHANGED <<fn, cache, table, handles, lock, cancel, admin, bookkeeping>>

(***************************************************************************)
(* Rewriting the table, one materialisation at a time: read its version    *)
(* and rows, read the cells, compare the version and, if it still stands,  *)
(* write a file and swap, else start over once; then declare the columns   *)
(* and write the child table.                                              *)
(***************************************************************************)
ReadTable(j) ==
    /\ \/ job[j].pc = "lock" /\ lock = Nobody
       \/ job[j].pc = "read"
    /\ IF table.rows = {}
       THEN /\ lock' = Nobody
            /\ job' = [job EXCEPT ![j].pc = "completed"]
       ELSE /\ lock' = j
            /\ job' = [job EXCEPT ![j].pc = "lookup", ![j].tries = @ + 1,
                                  ![j].todo = <<table.version, table.rows>>]
    /\ UNCHANGED <<fn, cache, table, run, handles, cancel, admin, bookkeeping>>

\* Faulty variant of Shows: a failed cell leaves the row blank.
ShowsHits(s, c) == IF CacheHit(<<s, c>>) THEN <<s, "ok">> ELSE Null

\* What each row is to show: the cell under the run's own spec, or nothing.
Shows(s, c) == IF cache[<<s, c>>] = "none" THEN Null ELSE <<s, cache[<<s, c>>]>>

LookUp(j) ==
    /\ job[j].pc = "lookup"
    /\ LET s == job[j].spec
           rows == job[j].todo[2]
       IN job' = [job EXCEPT ![j].pc = "check", ![j].todo =
                    <<job[j].todo[1],
                      [r \in rows |-> Shows(s, Content[r])]>>]
    /\ UNCHANGED <<fn, cache, table, run, handles, lock, cancel, admin, bookkeeping>>

\* Faulty variant of VersionStands: the version is no longer compared.
VersionIgnored(j) == TRUE

VersionStands(j) == table.version = job[j].todo[1]

\* Rows merged since the read whose sync has not counted up yet go unnoticed.
CheckVersion(j) ==
    /\ job[j].pc = "check"
    /\ IF VersionStands(j)
       THEN /\ Goto(j, "swap")
            /\ merged' = IF "sync" \in table.behind THEN merged \cap DOMAIN job[j].todo[2] ELSE merged
            /\ UNCHANGED lock
       ELSE /\ Goto(j, IF job[j].tries < 2 THEN "read" ELSE "failed")
            /\ lock' = IF job[j].tries < 2 THEN lock ELSE Nobody
            /\ UNCHANGED merged
    /\ UNCHANGED <<fn, cache, table, run, handles, cancel, admin, requests, faults, disturbed, orphaned>>

\* The swap and the version's bump, or a step on the way to them that fails.
\* Whoever compares versions holds the lock, so nobody can look in between.
Replace(j, broken) ==
    /\ job[j].pc = "swap" /\ FaultAllowed(broken)
    /\ Fault(broken)
    /\ IF broken
       THEN lock' = Nobody /\ Goto(j, "failed") /\ UNCHANGED table
       ELSE UNCHANGED lock /\ Goto(j, "declare")
            /\ table' = [Swapped(job[j].todo[2]) EXCEPT !.version = @ + 1]
    /\ UNCHANGED <<fn, cache, run, handles, cancel, admin, requests, disturbed, merged, orphaned>>

Declare(j, broken) ==
    /\ job[j].pc = "declare" /\ FaultAllowed(broken)
    /\ lock' = Nobody
    /\ Goto(j, IF broken THEN "failed" ELSE "completed")
    /\ Fault(broken)
    /\ UNCHANGED <<fn, cache, table, run, handles, cancel, admin, requests, disturbed, merged, orphaned>>

\* The run row gets its outcome, whatever it says by then; a failed write is
\* only logged. A materialisation has no row.
Ended(pc) == pc \in {"completed", "failed"}

Finish(j, broken) ==
    /\ Ended(job[j].pc) /\ FaultAllowed(broken)
    /\ run' = IF run[j] = NoRun \/ broken THEN run ELSE [run EXCEPT ![j].status = job[j].pc]
    /\ Goto(j, "over")
    /\ Fault(broken)
    /\ orphaned' = IF broken THEN orphaned \cup {j} ELSE orphaned
    /\ UNCHANGED <<fn, cache, table, handles, lock, cancel, admin, requests, disturbed, merged>>

DropHandle(j) ==
    /\ job[j].pc = "over"
    /\ handles' = handles \ {j}
    /\ job' = [job EXCEPT ![j] = NoJob]
    /\ UNCHANGED <<fn, cache, table, run, lock, cancel, admin, bookkeeping>>

(***************************************************************************)
(* Cancelling: a running row is aborted if its handle is there, and marked *)
(* cancelled either way.                                                   *)
(***************************************************************************)
CancelRead(j) ==
    /\ Request
    /\ cancel.pc = "idle" /\ run[j].status = "running"
    /\ cancel' = [pc |-> "abort", of |-> j]
    /\ UNCHANGED <<fn, cache, table, run, job, handles, lock, admin, history>>

Aborts(j) == j \in handles

CancelAbort ==
    /\ cancel.pc = "abort"
    /\ LET j == cancel.of
       IN /\ handles' = handles \ {j}
          /\ job' = IF Aborts(j) THEN [job EXCEPT ![j] = NoJob] ELSE job
          /\ lock' = IF Aborts(j) /\ lock = j THEN Nobody ELSE lock
    /\ cancel' = [cancel EXCEPT !.pc = "mark"]
    /\ UNCHANGED <<fn, cache, table, run, admin, bookkeeping>>

CancelMark(broken) ==
    /\ cancel.pc = "mark" /\ FaultAllowed(broken)
    /\ run' = IF broken \/ run[cancel.of] = NoRun THEN run
              ELSE [run EXCEPT ![cancel.of].status = "cancelled"]
    /\ cancel' = [pc |-> "idle"]
    /\ Fault(broken)
    /\ orphaned' = IF broken THEN orphaned \cup {cancel.of} ELSE orphaned
    /\ UNCHANGED <<fn, cache, table, job, handles, lock, admin, requests, disturbed, merged>>

(***************************************************************************)
(* Resetting and deleting: refuse if a run is active, drop the columns     *)
(* with neither lock nor version, then forget the cells or the function.   *)
(***************************************************************************)
AdminCheck(op, dropColumns) ==
    /\ Request
    /\ admin.pc = "idle" /\ fn.alive /\ ActiveRuns = {}
    /\ admin' = [pc |-> IF dropColumns THEN "read" ELSE "forget", op |-> op]
    /\ UNCHANGED <<fn, cache, table, run, job, handles, lock, cancel, history>>

DropRead ==
    /\ admin.pc = "read"
    /\ admin' = [pc |-> "drop", op |-> admin.op, rows |-> table.rows]
    /\ UNCHANGED <<fn, cache, table, run, job, handles, lock, cancel, bookkeeping>>

\* Rows a sync merged since the read go with the columns.
DropReplace ==
    /\ admin.pc = "drop"
    /\ table' = IF \A r \in Row : table.shown[r] = Null THEN table
                ELSE SwappedFor("admin", [r \in admin.rows |-> Null])
    /\ merged' = merged \cap table'.rows
    /\ admin' = [admin EXCEPT !.pc = "forget"]
    /\ UNCHANGED <<fn, cache, run, job, handles, lock, cancel, requests, faults, disturbed, orphaned>>

Forget ==
    /\ admin.pc = "forget" /\ "admin" \notin table.behind
    /\ cache' = Pruned({})
    /\ IF admin.op = "delete"
       THEN /\ fn' = [fn EXCEPT !.alive = FALSE]
            /\ run' = [j \in Job |-> NoRun]
       ELSE UNCHANGED <<fn, run>>
    /\ admin' = [pc |-> "idle"]
    /\ disturbed' = disturbed \cup Relying
    /\ UNCHANGED <<table, job, handles, lock, cancel, requests, faults, merged, orphaned>>

\* Faulty variant of Recovered: boot leaves the run rows as they are.
RecoveredNot(row) == row

Recovered(row) ==
    IF row = NoRun THEN row
    ELSE [row EXCEPT !.kept = TRUE, !.status = IF @ = "running" THEN "failed" ELSE @]

\* A crash ends every task; at boot the runs it left running are failed.
Restart ==
    /\ faults < MaxFaults
    /\ faults' = faults + 1
    /\ job' = [j \in Job |-> NoJob]
    /\ handles' = {} /\ lock' = Nobody
    /\ cancel' = [pc |-> "idle"] /\ admin' = [pc |-> "idle"]
    /\ run' = [j \in Job |-> Recovered(run[j])]
    /\ table' = [table EXCEPT !.behind = {}]
    /\ UNCHANGED <<fn, cache, requests, disturbed, merged, orphaned>>

(***************************************************************************)
(* What the user is told a run would cost.                                 *)
(***************************************************************************)
EstimatedRows(scope) ==
    {r \in table.rows :
        \/ scope = "all"
        \/ scope = "failed" /\ cache[<<Current, Content[r]>>] = "error"
        \/ scope = "missing" /\ cache[<<Current, Content[r]>>] = "none"}

JobStep(j) ==
    \/ StartClear(j) \/ StartInsert(j) \/ KeepHandle(j)
    \/ Prepare(j) \/ CellsDone(j)
    \/ \E c \in Inputs(Row), first, second \in Answers, lost \in BOOLEAN :
          ComputeCell(j, c, first, second, lost)
    \/ ReadTable(j) \/ LookUp(j) \/ CheckVersion(j)
    \/ \E broken \in BOOLEAN : Replace(j, broken) \/ Declare(j, broken) \/ Finish(j, broken)
    \/ DropHandle(j)

CancelStep == CancelAbort \/ \E broken \in BOOLEAN : CancelMark(broken)

Requests ==
    \/ \E new \in SUBSET Row \ {{}} : Sync(new)
    \/ \E s \in RunSpec : UpdateFunction(s)
    \/ \E j \in Job, scope \in Scopes : StartCheck(j, scope)
    \/ \E j \in Job, draft \in RunSpec : SampleRun(j, draft)
    \/ \E j \in Job : MaterializeOnly(j) \/ CancelRead(j)
    \/ \E op \in {"reset", "delete"} : AdminCheck(op, TRUE)
    \/ AdminCheck("delete", FALSE)

Next ==
    \/ Requests
    \/ \E j \in Job : JobStep(j)
    \/ \E who \in {"sync", "admin"} : CountUp(who)
    \/ CancelStep
    \/ DropRead \/ DropReplace \/ Forget
    \/ Restart

Spec == Init /\ [][Next]_vars

-----------------------------------------------------------------------------

\* The rows a sync merged are not lost to a run or a materialisation that rewrites
\* the table from what it read before: its version check (replace_table_data) sees
\* every sync that had counted the version up by then. Excepted are rows of a sync
\* that swaps, or counts up, only after the check, which the rewrite overwrites, and
\* rows a reset or a deletion takes along, which swaps without a check.
MergedKept == merged \subseteq table.rows

\* The cache holds cells of saved versions only: what a sample computed from a
\* draft is never served, or shown, as if the draft had shipped (CacheMode).
CacheOnlySaved ==
    \A e \in DOMAIN cache : cache[e] # "none" => \E i \in DOMAIN fn.saved : fn.saved[i] = e[1]

\* A run rewrites the table with what it computed: every row it prepared that
\* is still there shows the run's outcome for its content, a failure as a
\* failure, also when syncs moved the table meanwhile. Excluded are runs beside
\* which an edit, a reset, or another run changed the cache, or whose cell
\* could not be stored.
ShowsWhatItComputed ==
    [][\A j \in Job :
        (/\ job[j].pc = "swap" /\ job'[j].pc = "declare"
         /\ job[j].mode = "use" /\ j \notin disturbed)
        => \A r \in job[j].rows \cap table'.rows :
              table'.shown[r] = <<job[j].spec, job[j].cells[Content[r]]>>]_vars

\* A run marked running is being worked on or about to be marked: while it is
\* running it blocks every other run of the function, so one that nobody works
\* on blocks them until somebody cancels it. Only a failed write of its outcome,
\* which the code logs, leaves one behind. The same for the table's lock.
NoRunAbandoned ==
    /\ \A j \in ActiveRuns :
          job[j] # NoJob \/ cancel = [pc |-> "mark", of |-> j] \/ j \in orphaned
    /\ lock # Nobody => job[lock].pc \in {"read", "lookup", "check", "swap", "declare"}

\* Stated of the code and refuted (enrichment types.rs:130): "Rows the
\* requested scope would actually run", that is, the estimate of a scope is
\* the number of rows whose cell a run of that scope would compute.
EstimateHonest ==
    fn.alive => \A scope \in Scopes :
        EstimatedRows(scope) =
            {r \in table.rows : Cleared(scope, Current)[<<Current, Content[r]>>] # "ok"}

=============================================================================
