# Verification of Brightflow

TLA+ models of Brightflow, the data workbench in this repository: a Rust server that ingests web
events, syncs connectors, derives tables (models) and columns (enrichments) from them, lets people
and agents curate what they mean, and reports what stands out in them. Everything is kept in Parquet
files catalogued in SQLite. Paths below are relative to `src/crates/` unless they start with `src/`;
`api` is `brightflow-api/src`, `store` is `brightflow-store/src`, `engine` is
`brightflow-engine/src`, `types` is `brightflow-types/src`.

1. [The system](#1-the-system)
2. [Modules](#2-modules)
3. [Runs](#3-runs)
4. [Bounds, fairness and abstraction](#4-bounds-fairness-and-abstraction)
5. [Proofs](#5-proofs)
6. [Disagreements between code and documentation](#6-disagreements-between-code-and-documentation)
7. [Plan and what is not modelled](#7-plan-and-what-is-not-modelled)

## 1. The system

| Component | Code | State it keeps | What is hard | What makes it correct |
|---|---|---|---|---|
| Web event ingestion | `api/ingest` | `sources` rows, source cache, one SQLite buffer per source, `events/<source>/<date>/*.parquet` | requests, flush and deletion interleave; a flush is write, catalog, delete without a transaction | no accepted event is lost; partition dates and sessions are sound; a deletion is final but for what its own steps failed to remove; events become visible |
| Event catalog | `store/lib.rs`, `scan.rs`, `stats.rs` | `table_files`, `file_partitions`, statistics, `total_rows` | registering, sweeping and compacting are sequences of statements in several processes; a batch leaves the buffer last and may be written twice | no event's last copy is unlinked; a settled scan counts each event once, or at least once if it was written twice |
| Parquet store | `store/ingest.rs`, `table.rs`, `db/catalog.rs` | `tables`, `table_files`, files | database and disk change one after the other; no lock in the store; optimistic version | a table changes by whole results only; the catalog lists what exists; the version tells whether rows moved |
| Text index and search | `api/textexplore` | an index per table, tagged with a version | the table changes during a build; case folding changes lengths | an index served is the index of the table's rows; what is marked is what occurs |
| Connector scheduler | `brightflow-scheduler/src` | jobs, sync runs, cursors, the in-flight set | runs outlive their interval; crash between merge and cursor; ad-hoc beside scheduled runs | no job runs twice at once; the cursor is never ahead of the table; every record arrives |
| Model builds | `api/models`, `api/actions/exec/models.rs`, `store/db/models.rs` | models, versions, builds, a lock per output | recipes read before the lock; failing updates fall back; builds inside enrichments, which may be aborted; outcomes that cannot be recorded | output, recipe and input belong together; versions are immutable; every build ends |
| Enrichment runs | `api/enrichment` | functions and versions, runs, the cell cache, a task handle per run | start is check-then-insert; cancellation at any await; materialisation retries, and checks the version some awaits before its swap | merged rows stay outside that window; only saved definitions' answers are kept and shown; no run blocks the next for ever |
| Tickets and mentions | `engine/enrichment`, `api/enrichment` | vocabularies, cached answers, output columns, a child table | answers refer to vocabulary that is edited later | equal rows share an answer, unequal ones never; four views of the mentions agree |
| Action log | `api/actions`, `store/db/actions.rs`, `curation.rs` | `action_log` and the curated state it changes | effect and record are two steps; executors of several statements may fail halfway; undo after other changes | the log says what was done; an undo is exact |
| Live activity feed | `api/actions/events.rs`, `api/analytics/handlers.rs`, the web app's socket | a broadcast bus, a socket task, the client's list | lag, batches, reconnection, snapshots beside pushes | a client at rest accounts for every event |
| Agent runs | `api/agent` | runs, a task per run | cancellation, restart, limits | a run's row tells what its task did |
| Insights | `api/insights` | history, marks, suppressions, automatic runs | marks change during a report; single flight; debounce | answers are curated; the guard is given back |
| Semantic layers | `types`, `store/db/semantics.rs`, `api/semantics` | opinions by layer and producer, relationships, metrics, recorded changes | precedence, ties, retries, replaced declarations | the strongest statement in force is resolved; a declaration replaces its producer's and nobody else's |
| Datasets and queries | `api/analytics`, `types/ops.rs` | loaded datasets and the files they stand for | files replaced under a dataset; ids of several sources | an answer is of one state of one table; a page is the page of what was asked |
| Web and product analytics | `api/ingest/process.rs`, `api/web_analytics`, `api/product_analytics` | none | identities, calendar weeks, ties in time | dashboards, funnels and retention agree with the events |
| Analysis engine | `engine/analysis`, `engine/data` | none | budgets, nulls, roles, grouping, novelty | series are of their rows; a report has a place for every story and explains its parents |
| Login limiter | `api/auth/rate_limit.rs` | token buckets | the map is pruned while it counts | no key gets more than burst and refill |

**How they meet.** Every writer of a table goes through the store. After a table was written
(`api/sync.rs`) it is described, the models fed by it are rebuilt in feeding order, and enrichment
and insights are started on it. A materialising enrichment rewrites its own table under that table's
lock and rebuilds the dependent models while it holds it; a build takes the lock of its own output.
People and agents change curated state by actions only; an applied action is broadcast to the feed.
`TableStore` shows what a write of a table is made of; `Scheduler`, `ModelBuilds` and
`EnrichmentRuns` rely on the outcome (a merge is a snapshot and one commit computed from it, a
materialisation is a read, a check, a swap and a bump).

The hazards list in `PROJECT.json` names where each of these can go wrong, line by line, and the
property that watches it, or why none does.

## 2. Modules

State machines:

| Module | What it models |
|---|---|
| `EventIngest` | one tracked source: handlers, session derivation, buffer, flush task, catalog registration, deletion, failing steps, crashes |
| `EventCatalog` | `register_file`, the sweep `register_existing_events`, `compact_partition` and pruned scans, statement by statement in three processes |
| `AtomicTable` | abstract: what the store promises of a table, rows change by whole results, each computed from rows the table held |
| `TableStore` | every writer of one table, one step per await, deletion, the text index cache; implements `AtomicTable` |
| `Scheduler` | the syncs of one connector preset: tick, in-flight set, ad-hoc runs, pipeline, cursors, schedule changes, deletion, restarts |
| `ModelBuilds` | one model: its operations and undos, rebuilds after syncs and enrichments, locks, failing builds, restarts |
| `EnrichmentRuns` | one function: versions, cell cache, runs of every scope, samples of drafts, materialisation, edit, reset, cancel, delete, restart |
| `Curation`, `ActionLog` | what each curation action and its undo does; how rows of the log are dispatched, approved, rejected, applied and undone by requests that overlap or stop |
| `Declarations`, `Semantics` | what can be said about tables and how it resolves; the rows a source's producers write, replace and take back |
| `AgentRuns` | start, the turn loop with its limits, tool calls, cancellation, recovery |
| `InsightRuns` | the automatic hook with its guard and debounce, requested reports, marks, suppressions, history |
| `Datasets` | the registry of loaded datasets, uploads and queries over tables that go on changing |
| `LiveFeed` | the broadcast bus, the socket task, the wire, the client and its snapshots |
| `LoginLimit` | the token buckets and their pruning |

Computations without state:

| Module | What it models |
|---|---|
| `Columns` | column detection, roles on record, calendar periods, the reading of dates |
| `Candidates` | the derived series of a table under the budget |
| `Detectors` | the detectors that are arithmetic on small numbers: drivers, level shift, change, concentration, churn, segments |
| `Findings`, `Reports`, `Novelty` | the tree of findings, scores, fingerprints and grouping; how reports walk a table; what history does to a story across reports |
| `Queries` | the operations language, run as a query and as a model recipe, and its validation |
| `Activity` | the page of background jobs merged out of five tables |
| `Highlights` | the marks a search sets in a text |
| `Tickets`, `Mentions` | requests, cache keys, validation, columns and reports of ticket functions; mentions and the vocabulary they resolve to |
| `EventAnalytics` | the enriched event, date ranges, dashboards, funnels, retention tables |

`MC*` modules hold model values, small inputs and symmetry for TLC. `MCServer` explores five state
machines that share nothing in one run: the initial state picks one and only its steps are taken.
`MCFunctions` does the same for the computations: an initial state asks nothing, an `Ask...` action
picks a computation and an input, `Next...` actions grow the input one row, operation, event or
character at a time, and the invariants compare the answer for every input on the way with a
reference definition. `*Proofs` modules hold the proofs.

`PROJECT.json` maps each definition to the lines it stands for. The correspondence in short:

- **EventIngest.** `buffer` is the source's SQLite buffer, `disk` the Parquet files, `listed` and
  `dated` the ids with a `table_files` and a `file_partitions` row. A request is two steps
  (`ReceiveEvent`: the cache and table lookup, `InsertEvent`: the buffer insert with the session
  lookup). A flush is read, write, register the row, register the partition, delete; each may fail.
  The deletion of a source is row, buffer, catalog, directory; a failure at the buffer ends it with an
  error, the other two are only logged and answered with 204, and `remnant` is what they left.
- **EventCatalog.** `rows` are catalog rows with the partition date and the time range they carry
  at that moment, `disk` the files and how often each event is in them, `at` where each process
  stands with what it has read. `buffer` says up to which event the buffer has been emptied (`out`),
  which batch is in a flush's hands (`upto`) and which events an earlier flush wrote and did not drop
  (`again`): a batch leaves the buffer in `FlushDrop`, after its registration, and a flush that dies
  before that, or fails there, leaves it to the next one.
- **TableStore.** `row` is the `tables` row, `listed` the `table_files` rows, `disk` the files.
  A writer's `pc` names the await it stands at; `Swap` is the `replace_table_files` transaction,
  `Meta` the version bump, `Clean` the removal of the files it listed at its start. `history`
  variables record overlaps; they guard nothing.
- **Scheduler.** `rows` holds the newest `sync_runs` row of a job and the one before it, which is
  all that `job_is_due` and the startup cleanup look at. A run's pipeline is load the preset, load
  the cursors, fetch, write the files, and per endpoint merge (read, commit) and save the cursor. The
  purge and the `remove_dir_all` of a deleted preset may fail with a warning; `remnant` is what stayed.
- **ModelBuilds.** `versions` is `model_versions` with a recipe named by the operation that brought
  it, `output` the pair of recipe and input state it was built from. `context`, `lock`, `row`,
  `read`, `write`, `finish` are the steps of `rebuild` and `build_once`, `done` and `error` what the
  caller does next. An enrichment holds the input's lock from `LockInput` to the end. `Fails` has every
  way out but success: a statement before the build (`BuildRefused`), the build, the record of its
  outcome (`FinishFails`), the insert of a model whose table exists already (`InsertFails`), the cleanup
  after a failure (`CleanupFails`), and a task that is aborted at any await (`Abort`: `cancel_run`, or a
  client that hangs up). `history` keeps what these leave: a build nobody records (`unrecorded`), a
  table without a model (`stray`).
- **EnrichmentRuns.** `cache` maps a spec and a content to a stored outcome; `job` holds a task's or
  request's step and what it has read; `table.shown` is the cell each row displays. `CheckVersion`
  is the check at the head of `replace_table_data`, `Replace` the swap and the bump some awaits later;
  a sync swaps (`Sync`) and counts the version up (`CountUp`) in two steps, so it may do either between
  a rewrite's check and its swap. `merged` are the rows no such window lost.
- **ActionLog.** A worker reads the row, reads what the executor checks, writes, refreshes the
  functions' copies of the vocabulary, and then records the outcome; `history` counts effects. A write
  that succeeds is one step; one that fails after its first statement leaves what `Halfway` (executors)
  or `HalfUndone` (undos) says of its kind, and the row is recorded failed, or stays applied. A refresh
  that fails (`RefreshFails`) is a warning, and the copy lags until the next that succeeds.
- **Semantics.** `columnRows`, `tableRows`, `relRows`, `metricRows` are the tables of the catalog;
  `job` is what a producer has still to apply; `landed` and `told` record declarations for the
  properties.

Each module also holds *faulty variants* of some definitions, marked as such and used by no
specification: they are the bugs the properties are there to catch, and each property is confirmed
to fail when its variant takes the definition's place. Statements the code's documentation makes
and the code does not keep are written down too, under a comment "Stated of the code and refuted";
no run but `scheduler_overlap` checks them.

## 3. Runs

| Run | Question | Properties |
|---|---|---|
| `event_ingest` | are accepted events kept, filed and found, whatever flush, requests, a deletion, a fault and a crash do to each other? | `AcceptedNotLost`, `FilesSound`, `SessionHasNoGap`, `DeletionIsFinal`, `EventuallyScanned` |
| `event_catalog` | do a flush, a sweep and a compaction, each with its own view and failing or dying anywhere, keep every event, and count it once? | `EventsOnDisk`, `SettledScanExact` |
| `table_store` | two concurrent writers of any kind, a deletion, and an index build or one mishap | `ImplementsAtomicTable` (refinement), `CatalogSound`, `VersionSound` |
| `scheduler` | scheduled runs with failures, restarts, edits, deletion | `CursorSound`, `EventuallySynced` |
| `scheduler_adhoc` | the same with an ad-hoc run, jobs deleted and created anew, a deletion whose steps may fail | `JobRunsOnce`, `DeletedStaysDeleted` |
| `model_builds` | two tasks, three operations of seven kinds, input writes, and one failing statement, abort or crash | `OutputSound`, `VersionsImmutable`, `NoBuildLeftRunning`, `EventuallyDone` |
| `enrichment` | runs, samples, edits, cancellations and syncs over one cache and one table, a rewrite's check and its swap apart | `MergedKept`, `CacheOnlySaved`, `ShowsWhatItComputed`, `NoRunAbandoned` |
| `action_log` | scenarios for each family of actions, two workers, a stop or a failing statement anywhere | `LogTellsTruth`, `VocabularySound`, `SnapshotCurrent`, `UndoIsExact` |
| `semantics` | five producers over two tables, in any order and at equal times | `ResolvesStrongest`, `RelationshipsAsDeclared`, `DeclarationsSound` |
| `server` | agent runs, insight runs, datasets, the live feed and the login limiter, each by itself | `AgentRunsSound`, `InsightRunsSound`, `AnswersOneTable`, `NothingSkipped`, `AttemptsBounded` |
| `functions` | does each computation agree with its reference over every small input? | `SeriesSound`, `ReportsSound`, `QueriesSound`, `TextSound`, `EventsAnswered`, `ImportSound` |
| `scheduler_overlap` | *violation*: an ad-hoc and a scheduled run of one connector collide | `SettledCursorCovered` |

Where a property is a conjunction (`FilesSound`, `CatalogSound`, `VersionSound`, `OutputSound`, the
properties of `functions`), its parts are named definitions with comments of their own. The comment
above each part says what it claims and in which situations it does not claim it. Those exceptions
are not incidental: most are windows the code really has (see `hazards` and section 6).

## 4. Bounds, fairness and abstraction

Bounds that cut behaviour off are constants named `Max...`, declared with a comment.

| Run | Bounds | Why they are enough |
|---|---|---|
| `event_ingest` | one visitor, three events, times 0 to 2, a day and the timeout of 2 ticks, batch of 2, one fault or crash; registration does not fail (liveness needs that, `Durability` is proved with failures) | three events are more than a batch takes, make a session with a middle, a gap of exactly the timeout and a batch over midnight; the mishap may be a step of the deletion |
| `event_catalog` | three events over two days, batches of two, three files, one fault, two commands | a batch over midnight, a batch written twice, a partition with two files to compact, a sweep before, during or after it |
| `table_store` | two writers, two keys, two operations, one index build or one mishap (`MaxExtras`) | every pair of operations in every interleaving, files with rows and empty ones; no step looks at more than the catalog and its own state |
| `scheduler`, `scheduler_adhoc` | two job ids, two execution slots, one endpoint, one or two records, one or two edits, one mishap | two records let a cursor be ahead of the table; two job ids let a job be replaced under a run |
| `model_builds` | two callers, three operations, two input writes, one mishap (a failing statement, an abort or a crash) | an operation, its undo and a third that meets what they left, or two that overlap and one after them |
| `enrichment` | two rows with one content, two specs, two jobs at once, three requests, one fault | rows that share a cell are where the cache matters; a run, what disturbs it (a sync around its check and swap too) and what comes after |
| `action_log` | scenarios of three actions, two workers, two approvals, rejections or undos, one stop, failing statement or failing refresh (`MaxStops`); caps of two | each scenario is a family whose members meet (parent and child, two spellings, a level at its cap, one target) |
| `semantics` | two tables, five producers, three commands, two moments; declarations of both tables that share relationship names | a statement, one that replaces or hides it and one that takes it back; two moments suffice for ties and order |
| `server` | small sets per part: one agent run of two iterations and two calls; two hooks, one request, two findings; two sources, one upload, two clients, three files; two feed entries over a bus that holds one; two keys, burst 2, the prune threshold at 1 | each limit (iterations, tokens, capacity, batch cap, threshold) is passed by one; turns of one or two tokens against a budget of one, so that the check lets one turn through and refuses another |
| `functions` | four rows of two dimensions, budgets that cut within a slice and within a pair, a value spelt with the fingerprint's separators; two columns; three operations, limits of 0 and 1 anywhere among them, on frames of up to two or three rows; four job rows at most; texts of four characters; two answers with three mentions; up to four events; models of two datasets | the boundaries are in the values: nulls, ties, equal names, ISO week years, day-first dates, expansions of one character into two |

**Fairness.** `EventIngest`: weak fairness of the flush tick and of the flush's steps, a loop over a
`tokio::time::interval` that nothing else stops. `Scheduler`: weak fairness of the tick's steps, of
the passing of the interval and of each run's steps (a failing step is a step). `ModelBuilds`: weak
fairness of each caller's next step, a failing one included; an operation is an async task that runs
on unless it waits for a lock, and tokio's mutexes serve waiters in turn. `EventuallyDone` says that
again and again nobody is at work: with finitely many operations, everyone comes to an end. Starting
requests, operations, faults and crashes is never assumed. The other modules have no liveness
property and state no fairness: a task of an enrichment or agent run waits for an external model
that may never answer.

**Deadlock** is off in all runs: the systems may come to rest when the bounds are used up. Where
waiting for ever would be a fault there is a liveness property (`EventuallyDone`, `EventuallySynced`,
`EventuallyScanned`) or an invariant on what holds others up (`NoRunAbandoned`, `AgentRunsSound`,
`InsightRunsSound`).

**Abstractions.** Rows are keys with the stamp of the operation that wrote them; events are an id, a
time and an identity; recipes, specs and contents are names for what the code tells apart. SQLite
transactions are one step, separate statements are separate steps; in `EnrichmentRuns`,
`AgentRuns` and `InsightRuns` a step ends where the code awaits, in `ActionLog` too, but for the
statements of one executor or undo: all of them in one step when they succeed, a part of them when one
fails. In `ModelBuilds` the
write of a table is one step, because what `TableStore` makes visible of it is one swap. Ratios and
means are pairs of whole numbers compared by cross-multiplication; where polars promises no order
(groups, ties of a sort) an operator gives the set of possible answers. Names are a word and a
spelling where some comparisons ignore case. The agent's language model, the classifier, the
connector pipeline and polars itself are external and modelled by how the code uses them.

## 5. Proofs

Eight modules hold proofs. Each theorem is about the module's `Spec` for every value of the constants
that the module's named assumption allows: any number of tasks, rows, versions, faults, crashes and
restarts, where the runs of section 3 have two or three. A proof of an invariant has one lemma per
action (what the action *does*: the few equations the rest of the proof needs), one lemma per
invariant and group of actions, and a last step that combines them.

**`EventIngestProofs`** (`EventIngestAssumption`).

- `TypeCorrect`: `Spec => []TypeOK`.
- `Durability`: `Spec => []AcceptedNotLost`. When a flush deletes its batch from the buffer, one has
  to know that the batch is in a file: the invariant adds that a flush which has written its file
  keeps exactly its batch in a file on disk until it is done, and that files disappear from the disk
  only with the source.
- `FilesTrusted`: `Spec => []FilesSound`. `Numbered` gives every event and file a number of its own
  below the counters; `CopiesInv` counts the copies of an event in the buffer and in files against the
  flush that has it in hand and the failures so far; `DatesInv` keeps the date of the batch that is
  about to be written at its earliest event.
- `SessionsHold`: `Spec => []SessionHasNoGap`, assuming `MaxDelay < SessionTimeout`. A request takes
  its timestamp in the handler and its session at the insert; between the two it waits for a pooled
  connection whose busy timeout is 5 seconds, against a session timeout of 30 minutes. Without the
  assumption the property is false: an event stamped long ago would join a session that has moved on.
  `Timely` says how old a waiting request can be.
- `DeletedForGood`: `Spec => []DeletionIsFinal`, by `FinalInv`, which says what the deletion has
  removed after each of its steps, and that what a failing step left is what `remnant` holds.

**`TableStoreProofs`** (`TableStoreAssumption`).

- `TypeCorrect`: `Spec => []TypeOK`.
- `Refinement`: `Spec => ImplementsAtomicTable`. Under the mapping `data <- Data` (the rows of the
  files the catalog lists) each step of a writer is a step of `AtomicTable` or changes nothing a
  reader sees. `RefInv` says of a writer that its number is nobody else's until its file is listed, that
  the file under that number holds what the writer computed, that this was computed from a snapshot of
  the table, and that the files it will clean up are not listed any more.
- `ListedFilesExist`: `Spec => []ListedOnDisk`. `DiskInv` adds that a file which was written is on
  disk until it is listed, and that a table no deletion raced keeps the row its writers hold.
- `CatalogHolds`: `Spec => []CatalogSound`. An overwriting ingest of an empty file returns before
  `update_table_meta`; `total_rows` stays at the old table's count, and the next append adds to it. The
  property names that difference (`history.stale`) and the operations that end it. `ExactInv` says of
  operations that ran one after the other how far the one under way has got.
- `VersionsTell`: `Spec => VersionSound`. `VersionInv` says of everyone who remembers a version (a
  materialisation, an index under construction, the cached index) that equal versions of one table
  mean equal rows, outside the windows the property names.

**`SchedulerProofs`** (`SchedulerAssumption`).

- `TypeCorrect`; `OneRunPerJob`: `Spec => []JobRunsOnce`. `OnceInv`: a scheduled run that is under way
  is in the in-flight set, and what the tick carries from its reads is not.
- `DeletionIsLasting`: `Spec => []DeletedStaysDeleted`. `DeletedInv` says what is gone after each of
  the deletion's three steps, or was left by one that failed, as long as no run is under way.
- `CursorsHold`: `Spec => CursorSound`. `CursorInv` follows a run: what it fetched starts at the cursor
  it loaded, and what it is about to save is covered by what it has merged. It needs that runs do not
  overlap, which the code does not ensure (`scheduler_overlap`).

**`ModelBuildsProofs`** (`ModelBuildsAssumption`, which has `NoOne` apart from the tasks).

- `TypeCorrect`. `ModelInv` says what each task has in hand at each step (an update past its start
  knows the version to fall back to, an undo has an entry that can be undone), that operations have
  numbers of their own, and that versions exist only with their model and models only with their table.
- `VersionsKept`: `Spec => VersionsImmutable`. The step that needs `ModelInv` is `Insert`, which
  restores what a deletion captured: no model may exist under the table the task has just created.
- `BuildsEnd`: `Spec => []NoBuildLeftRunning`. `BuildInv` gives every running build the task that
  builds it, unless the outcome of some build could not be recorded (an abort or a crash during it, a
  failing `finish_model_build`: nothing looks at the row again), and every lock, whatever failed, a holder
  at a step from which it is given back.
- `BelongTogether`: `Spec => []OutputSound`. `SoundInv` says of every task how what it read (recipe,
  input, version) relates to the model and its output as long as nobody else interfered, and who is
  still going to repair an output that does not fit. What an abort, a failing statement or a failing
  cleanup leaves is named part by part: the output behind its input (`failed`) or its recipe
  (`behind`), a table without a model (`stray`), a version off the record (`torn`).

**`EnrichmentRunsProofs`** (`EnrichmentAssumption`).

- `TypeCorrect`; `MergedStay`: `Spec => []MergedKept`. A task holds rows it read some steps ago;
  `SnapshotsStand` says that as long as the version it read is the table's, they are the table's rows,
  but for those a writer has swapped in and not counted up yet. A rewrite past its check keeps the
  merged rows it read; those that come after the check are the exception the property names.
- `DraftsStayOut`: `Spec => []CacheOnlySaved`. `SavedInv`: a task that may store cells works for a
  saved version, and saved versions stay saved.
- `NothingAbandoned`: `Spec => []NoRunAbandoned`. `AbandonInv` gives each running row its task and the
  lock its holder, through cancellation and restart.
- `ShowsItsOutcomes`: `Spec => ShowsWhatItComputed`. `StandInv`: the cells a task has in hand are those
  the cache holds, unless the task was disturbed, and its plan covers the rows it prepared.

**`ActionLogProofs`** (`ActionLogAssumption`).

The assumption says that a scenario starts from a curated state the schema allows (`WellFormed`): ids
are primary keys below the next id, a level has a name once (`UNIQUE(table_id, kind, parent_id,
name)`, `brightflow-store/migrations/020_vocabulary_hierarchy.sql:36`), views have their columns. It
also says that the vocabulary a scenario starts from is of the five kinds (`VocabKind`,
`brightflow-engine/src/enrichment/vocabulary.rs:36-42`) and `Sound`, which the empty vocabulary of a
new table is, and that the caps are natural numbers.

- `LogHolds`: `Spec => []LogTellsTruth`. `LogInv` says of every row that no two requests had at
  once, no stop nor a failing statement touched that it is in one queue at most, how its status and
  its two counts go together at the step its worker is at (`Served`), and that a row in no queue is
  settled (`Settled`). The counts are history; that an action is applied once is the result of the
  status it is checked by.
- `CopiesAreCurrent`: `Spec => []SnapshotCurrent`. `StateInv` says that the curated state stays
  `WellFormed` under every executor and every undo, and that the undos on record, in queues and in hand
  fit it; one lemma per kind of action and of undo (`ExecuteKeeps`, `UndoKeeps`) shows this and that a
  kind after which the code does not refresh leaves the snapshot as it was. `SnapInv` puts the
  copy behind the vocabulary only between a request's write and its refresh, and from a refresh that
  failed or an undo that was refused halfway (`torn`) to the next refresh that succeeds.
- `UndosAreExact`: `Spec => UndoIsExact`. `OutcomeBack` is the lemma about the operators: for each of
  the kinds, applying the undo that its execution returned gives the state back, but for the counter of
  ids. That needs `WellFormed`: a restored entry or view finds its name free only because no other had
  it. `LastInv` ties it to the requests: the executor of the latest change, or the row it was recorded
  on, and every request that is about to undo that row have the undo of that very execution, and the
  curated state is still what it made of it. The two exceptions of `Inexact` are exceptions of the code.
- `VocabularyStaysSound`: `Spec => []VocabularySound`. The executors check parent, cap and spelling,
  an undo checks neither cap nor spelling; it is sound only because of what was there before. Two lemmas
  about the operators, kind by kind: `OutcomeLeads`, an executor that accepts keeps the `Rules` of the
  vocabulary (ids, kinds, parents, caps, names, said of the `Places` entries take, not of their counts
  or aliases), and its undo leads back to the places there were; `UndoPlaces`, what an undo makes of
  the places. `VocInv` has a `Stack`: from the places there are, the undos of the rows in effect, the
  newest first, lead through places that keep the rules, and each undo is followed (`Traced`) from its
  executor to the record, the queue and the request that applies it. An undo out of order, a second
  request at work or a failure halfway breaks the stack, and the property excepts them.

**`EventCatalogProofs`** (`CatalogAssumption`: an event's day is never before an earlier one's).

- Sums first. The model counts copies and rows with the fold of the community modules, which takes
  elements out of a set in an order nobody knows. `SumExists` shows, by a least counterexample on
  cardinalities, that the recursive equation behind it has a solution on the subsets of a finite set,
  `SumTakesOut` that the solution is the same whichever element is taken out, and the rest
  (`SumOfOne`, `SumOfNothing`, `RowCountMore`) is what the steps need of it.
- `FlushedStaysOnDisk`: `Spec => []EventsOnDisk`. `CatalogInv` has the types of what each of the three
  writers holds at each of its steps and `Covered`: from its merge on, a compaction's merged file is on
  disk and holds every event the files to be unlinked still hold. No failure and no dead process
  disturbs that; nothing else unlinks. `Buffered` and `Written`: a batch about to leave the buffer is in
  a file.
- `SettledScans`: `Spec => []SettledScanExact`. `Exact` holds as long as the history is not *sullied*
  (a failure halfway through a row or a compaction, a sweep beside other writers or over compacted
  files): each event has one copy in the files that count, or at least one if an earlier flush wrote it
  and left it in the buffer (`OnceEach`); no file has two rows and a
  compaction's rows are there until it deletes them (`ListedOnce`); every file that counts is listed or
  in the hands of the writer about to list it, unless a sweep is due (`Found`, `FlushUnlisted`,
  `SweepAlone`); a row is described in full or its writer has done so up to the step it stands at
  (`Described`); and without a race the total counts the rows, short of what the one writer at work
  still has to add (`Counted`). In a quiet catalog an event is then in one file, the file has one row,
  and the row's date and range pass the pruning of any period that contains them (`SeenOnce`).

**`ServerProofs`** (`ServerAssumption`, `LoginAssumption`). The theorems are about `ServerSpec`, the
specification the `server` run checks; a part keeps its invariant because its own steps do and the other
parts' steps leave its variables alone. `ServerAssumption` says that budgets, token counts and the
ring's capacity are natural numbers, that a task of `InsightRuns` is a request or a hook and not both
(the code spawns them from different places, each with its own state), that each finding has a measure
column, and that a finding is not a column: marks are kept by fingerprint and suppressions by column,
and what stands hidden is a set of both.

- `InsightsCurated`: `ServerSpec => []InsightRunsSound`. A run keeps the part of what stood hidden at
  its start that has stood ever since. `RunStands` says what it knows of that part after each of its
  reads: the dismissed findings once it has read the marks, the columns once it has read the
  suppressions. The code's stable sort by pins is an ordering by keys no two findings share;
  `SortedListing` shows that there is one for every finite set. `KeyIsHeld` follows the
  single-flight guard.
- `AgentRunsAccounted`: `ServerSpec => []AgentRunsSound`. `RowSound` and `TaskSound` relate a run's row,
  its task and its log entries: what the task counts is what it has logged plus what was dropped, it
  asks again only within the budget, and a row says running only while a task works on it, a
  cancellation is about to mark it or the outcome could not be written.
- `AnswersAreOfOneTable`: `ServerSpec => []AnswersOneTable`. A dataset id names source and table and no
  made-up id is one of these; what an id reads is a set of files its table once had, and what a table
  once had stays that.
- `FeedSkipsNothing`: `ServerSpec => []NothingSkipped`. `FeedInv`: for a live socket, each event since
  the subscription and before the socket's place in the bus is heard, is on the wire as itself or as
  part of a "refresh", or is in a snapshot being fetched that was read after it.
- `ServerLimitsLogins`: `ServerSpec => []AttemptsBounded`, from `LoginLimited` about the limiter alone,
  for any keys, burst, refill, pruning threshold and any eviction age that outlasts a full refill
  (`LoginAssumption`). The idea is an account per key, its bucket's tokens after refilling, or a full
  bucket when the map has forgotten it: `WithinRefill` bounds what was let through since any attempt
  plus the account by the capacity and the time gone since. Forgetting a bucket keeps the account,
  because only a bucket that has refilled by now is idle.

**What the proofs corrected.** Models were wrong, or said too little, in ways TLC's bounds had not
shown. In `TableStore` a writer now remembers which table it started on, so that a listing after a
deletion and a recreation is the new table's. In `ModelBuilds` an undo that fails halfway leaves a
state the property has to except. In `ActionLog` an undo next to a stopped or doubly held row is not
exact, a snapshot refresh that a stop cut short leaves the copy stale, and a level is cleared in the
order of its names.

**What stays with TLC.** Liveness (`EventuallyScanned`, `EventuallySynced`, `EventuallyDone`): the
prover handles neither fairness nor `ENABLED`. The computations of `functions`: they are stated with
folds and set operators, and that they agree with their references for inputs of every size would need
induction over data. `ResolvesStrongest`, `RelationshipsAsDeclared` and `DeclarationsSound` of
`Semantics`: what a resolution yields is built and folded from ordered sequences of statements, one
after the other, again an induction, over their length; no proof of them was attempted.
`SettledCursorCovered` is refuted (section 6).

## 6. Disagreements between code and documentation

`scheduler_overlap` is kept as a run: ad-hoc runs are said to be kept "from ever colliding with a
scheduled run of the same connector" (`brightflow-scheduler/src/lib.rs:488-489`); they do collide,
the cursor may end up ahead of the table, and the records between are never fetched again.

These were refuted by TLC and stand in the modules as definitions marked "Stated of the code and
refuted":

| Statement | Module, definition | What the code does |
|---|---|---|
| a failing store is tried again, events are not dropped (`api/ingest/flush.rs:4-6`) | `EventIngest`, `CataloguedBeforeDropped` | a file the catalog refuses stays on disk unlisted, its events leave the buffer |
| an identity's last event of less than 30 minutes ago hands on its session (`api/ingest/buffer.rs:204-205`) | `EventIngest`, `SessionContinuity` | a flush between two events splits the session |
| the sweep is idempotent (`store/lib.rs:577-580`) | `EventCatalog`, `SweepIdempotent` | compacted files are listed by absolute path and listed again by relative path |
| a scan's filters prune irrelevant files (`store/scan.rs:5`) | `EventCatalog`, `PrunesIrrelevantFiles` | a file is filed under the day of its first event; the scan of a later day leaves it out with events of that day |
| the swap is refused if the version moved (`store/ingest.rs:332-334`) | `TableStore`, `SwapRefusedIfMoved` | the version is compared once at the head; a merge that commits during the write is overwritten |
| a version bump makes the next request rebuild the index (`api/textexplore/index.rs:3-5`) | `TableStore`, `ServedIndexIsCurrent` | a table created anew reaches the cached version number |
| an output is built from its current recipe (`api/models/mod.rs:89`) | `ModelBuilds`, `BuiltFromCurrentRecipe` | a rebuild reads the recipe before it waits for the lock |
| the next version is current + 1 (`store/db/models.rs:195`) | `ModelBuilds`, `NextVersionFree` | after a failed or undone update that number is taken, for good |
| the estimate counts the rows the scope would actually run (`api/enrichment/types.rs:130`) | `EnrichmentRuns`, `EstimateHonest` | a run computes every cell that is not stored as ok; "missing" leaves the failed ones out of its estimate, "failed" the uncached ones |
| a frozen entry keeps its definition (`api/actions/exec/taxonomy.rs:4-8`) | `ActionLog`, `FrozenHolds` | defining the name again changes it (`store/db/curation.rs:101-106`) |
| pushes keep the feed current (`src/brightflow-app/src/stores/curation.ts:53`) | `LiveFeed`, `FeedSettles` | a snapshot read before a push may arrive after it |
| "shown" means shown to a human (`api/insights/auto.rs:14-16`) | `InsightRuns`, `ShownToAHuman` | an agent's report writes the history too |
| a story seen before and unchanged stays quieter (`engine/analysis/history.rs:1-2`) | `Novelty`, `SeenStoryStaysQuiet` | the recorded signature is of the decayed score (`api/insights/handlers.rs:278`), so the quieted story looks changed |
| sums are of their rows | `Candidates`, `SumsAreOfTheirRows` | nulls are dropped from a measure's column and later values move up |
| the fingerprint is a story's (`engine/analysis/candidates.rs:169-170`) | `Candidates`, `StoriesTellApart` | parts are joined with `,`, `=` and `\|` and nothing is escaped: one filter on a value spelt like two filters has their fingerprint |
| a story recurs under its fingerprint | `Candidates`, `StoriesRecur` | with two filters the fingerprint depends on the order a hash map yields them |
| a visitor who later identifies is the same person throughout (`api/product_analytics/queries.rs:3-5`) | `EventAnalytics`, `ConvertersCounted` | a visitor who becomes a known user is two people to a funnel |

Seen while modelling, and visible in the exceptions of properties:

- *Events.* A deletion whose purge or `remove_dir_all` fails answers 204 all the same. A flush that
  dies after its write writes the batch again, and a sweep lists both files. The flush visits only
  sources whose pool is open. A registration that fails midway leaves a row no dated scan sees. An
  explicit end date excludes its own day, `7d` spans eight; `contains("t.co")` labels more hosts
  than Twitter's; a funnel never starts again from a later first step; anonymous visitors are new
  people every day.
- *Tables.* `fail_stuck_model_builds` is said to run at startup (`store/db/models.rs:370`) and is
  never called, and besides a crash an aborted enrichment and a failing `finish_model_build` leave builds
  running. A creation whose `insert_model` fails leaves a table without a model. A build that fails
  after its write does not leave the previous output. A dropped
  function's columns go without a version check and its mentions table stays. A table's upload whose
  `register_source` fails has no `sources` row.
- *Runs.* Two requests may start two runs of a function, of an agent's scope or of an automatic
  report. A cancellation that finds no handle yet marks the row and aborts nothing. A failed write of
  the outcome leaves the run "running". A tool call that repeats an id of its turn is answered from
  the log.
- *Curation.* An executor that fails after its first statement is recorded "failed" with part of its
  effect. Undoing all goes by log id, not by the order of application. Nothing restricts the
  deletion of a parent between check and write. Two opinions mutated at once lose one. Undoing the
  clearing of a level may restore part of it. Undoing a suppression may remove an earlier one.
- *Meaning.* Opinions of one second are ordered by the producer's spelling. Relationships are unique
  by name, layer and producer, so two tables that share a name take it from each other. A table
  removed from a document keeps its old rows.
- *Analysis.* Pairs of dimensions skipped once the budget is used up are not counted. The offsetting
  flag looks at all dimensions together. A change in the first two periods is not found. A column
  found to be the time by its name is both dimension and axis.
- *Queries.* `Limit` is hoisted to the end in queries and kept in place in builds, and of several only
  the last counts: `QueryPages` says for which chains that changes the page and what page it is then;
  recipe validation
  does not narrow the known columns at a `Select`. A page of jobs may miss the newest builds, because
  rows whose model is gone take places before they are dropped.
- *Tickets.* Health counts "entries" with deleted names and mixes languages in usage; a subject of
  quotes and dots only becomes an empty unresolved subject; two functions on one table write the same
  columns. In whole-word mode a word cut by the snippet's edge may be marked as whole.

## 7. Plan and what is not modelled

Done: every component of section 1, in the order of the tables in section 2. What would add most
next:

1. Proofs of the three properties of `Semantics`, and of the computations of `functions` for inputs of
   every size, which needs a prover that can do induction over data.
2. The composition of the hooks after a table write (`api/sync.rs`) in one model; so far each hook is
   an action of the module it starts.
3. Chains of several models and the deletion of an input; two enrichment functions over one table;
   two connector presets.

Not modelled:

- `engine/stats` and the real-valued parts of the detectors: p-values and regressions on floating
  point numbers.
- `engine/nlp`: tokens and keyness, functions over real text without state.
- `store/migrate.rs`: scripts run in order, each in its transaction, guarded by a checksum.
- `brightflow-llm` and the connector pipeline (not in the repository): external, seen only as
  answers that may fail.
- server start, routes, passwords and session tokens: reads and writes of single rows within one
  request.
- the web application's views, apart from the activity feed's socket and store.
