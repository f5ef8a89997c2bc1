----------------------------- MODULE EventIngest -----------------------------
(***************************************************************************)
(* Web-event ingestion of one tracked source: the public event handlers,   *)
(* the per-source SQLite write buffer, and the background task that moves  *)
(* buffered events into Parquet files and registers them in the catalog.   *)
(*                                                                         *)
(* Three actors interleave at their await points: the request handlers,    *)
(* the flush task and the handler that deletes the source.  The process    *)
(* may crash between any two steps and restart.  What survives a crash is  *)
(* the source row, the buffer database, the files on disk and the catalog; *)
(* what does not is the source cache, the open pools and everybody's local *)
(* state.                                                                  *)
(*                                                                         *)
(* Time is a counter of ticks; a day is DayLength ticks.                   *)
(***************************************************************************)
EXTENDS Integers, FiniteSets

CONSTANTS
    Visitors,        \* identities a session is derived for
    DayLength,       \* ticks per calendar day (the date partition)
    SessionTimeout,  \* SESSION_TIMEOUT_MINUTES, in ticks
    BatchSize,       \* DEFAULT_BATCH_SIZE
    RegisterMayFail, \* whether the catalog may refuse a flushed file
    MaxEvents,       \* bound: requests ever received
    MaxTime,         \* bound: last tick of the clock
    MaxDelay,        \* bound: ticks a request stays in flight
    MaxMishaps       \* bound: failed inserts, writes and deletes, and crashes

ASSUME EventIngestAssumption ==
    /\ DayLength \in Nat \ {0}
    /\ SessionTimeout \in Nat \ {0}
    /\ BatchSize \in Nat \ {0}
    /\ RegisterMayFail \in BOOLEAN
    /\ MaxEvents \in Nat /\ MaxTime \in Nat /\ MaxDelay \in Nat
    /\ MaxMishaps \in Nat

VARIABLES
    now,       \* the wall clock
    sourceRow, \* the source's row in the ingest database
    cached,    \* its domain is in the in-memory source cache
    poolOpen,  \* the buffer pool is open: what source_ids() lists
    requests,  \* requests in flight, past the cache lookup
    buffer,    \* rows of the buffer database
    disk,      \* Parquet files under events/<source>/<date>/
    listed,    \* ids of the files with a table_files row
    dated,     \* ids of the files with a file_partitions row too
    flush,     \* the flush task: [pc, batch, file]
    deletion,  \* progress of the delete-source handler
    accepted,  \* history: events answered with 202
    overlap,   \* history: the deletion met a request or a flush in progress
    remnant,   \* history: what failed steps of the deletion left: rows, files
    nextEvent, nextFile,
    faults, crashes

buffers  == <<poolOpen, buffer>>
catalog  == <<listed, dated>>
history  == <<accepted, overlap, remnant>>
counters == <<nextEvent, nextFile, faults, crashes>>
vars == <<now, sourceRow, cached, requests, buffers, disk, catalog, flush,
          deletion, history, counters>>

----------------------------------------------------------------------------
Event   == [id : Nat, visitor : Visitors, ts : Nat, session : Nat]
Request == [id : Nat, visitor : Visitors, ts : Nat]
File    == [id : Nat, date : Nat, events : SUBSET Event]

Day(ts) == ts \div DayLength

FlushState == [pc : {"idle", "listed", "read", "written", "row", "registered"},
               batch : SUBSET Event, file : File]

NoFile == [id |-> 0, date |-> 0, events |-> {}]
Idle   == [pc |-> "idle", batch |-> {}, file |-> NoFile]

TypeOK ==
    /\ now \in Nat
    /\ sourceRow \in BOOLEAN /\ cached \in BOOLEAN /\ poolOpen \in BOOLEAN
    /\ requests \in SUBSET Request
    /\ buffer \in SUBSET Event
    /\ disk \in SUBSET File
    /\ listed \in SUBSET Nat /\ dated \in SUBSET Nat
    /\ flush \in FlushState
    /\ deletion \in {"no", "row", "buffer", "catalog", "done", "interrupted"}
    /\ accepted \in SUBSET Event /\ overlap \in BOOLEAN
    /\ remnant \in [rows : SUBSET Nat, files : SUBSET File]
    /\ nextEvent \in Nat /\ nextFile \in Nat
    /\ faults \in Nat /\ crashes \in Nat

Init ==
    /\ now = 0
    /\ sourceRow = TRUE /\ cached = TRUE /\ poolOpen = FALSE
    /\ requests = {} /\ buffer = {} /\ disk = {}
    /\ listed = {} /\ dated = {}
    /\ flush = Idle
    /\ deletion = "no"
    /\ accepted = {} /\ overlap = FALSE
    /\ remnant = [rows |-> {}, files |-> {}]
    /\ nextEvent = 1 /\ nextFile = 1
    /\ faults = 0 /\ crashes = 0

----------------------------------------------------------------------------
(* The clock.  MaxDelay keeps a request from sleeping through it.          *)
Tick ==
    /\ now < MaxTime
    /\ \A r \in requests : now - r.ts < MaxDelay
    /\ now' = now + 1
    /\ UNCHANGED <<sourceRow, cached, requests, buffers, disk, catalog, flush,
                   deletion, history, counters>>

(* ingest_event / track_event up to the buffer insert: the domain is found *)
(* in the cache and the event gets its id and its timestamp.               *)
ReceiveEvent(v) ==
    /\ cached
    /\ nextEvent <= MaxEvents
    /\ requests' = requests \cup {[id |-> nextEvent, visitor |-> v, ts |-> now]}
    /\ nextEvent' = nextEvent + 1
    /\ UNCHANGED <<now, sourceRow, cached, buffers, disk, catalog, flush,
                   deletion, history, nextFile, faults, crashes>>

(* Faulty variant of SessionsFor: a gap of exactly the timeout reuses.      *)
SessionsForLate(r) ==
    IF \E e \in buffer : e.visitor = r.visitor /\ r.ts - e.ts <= SessionTimeout
    THEN {e.session : e \in {f \in buffer : f.visitor = r.visitor}}
    ELSE {r.id}

(* derive_session_id: the session of the visitor's newest BUFFERED event,  *)
(* unless that event is SessionTimeout or more older (a negative gap also  *)
(* reuses); otherwise a new one, named here after the event that opens it. *)
Newest(v) ==
    {e \in buffer : e.visitor = v /\ \A f \in buffer : f.visitor = v => f.ts <= e.ts}

SessionsFor(r) ==
    IF \E e \in Newest(r.visitor) : r.ts - e.ts < SessionTimeout
    THEN {e.session : e \in Newest(r.visitor)}
    ELSE {r.id}

(* EventBuffer::insert: opens (and creates) the buffer if need be, then    *)
(* looks the session up and inserts the row in one closure; 202 follows.   *)
InsertEvent(r) ==
    \E s \in SessionsFor(r) :
        LET e == [id |-> r.id, visitor |-> r.visitor, ts |-> r.ts, session |-> s] IN
        /\ requests' = requests \ {r}
        /\ poolOpen' = TRUE
        /\ buffer' = buffer \cup {e}
        /\ accepted' = accepted \cup {e}
        /\ UNCHANGED <<now, sourceRow, cached, disk, catalog, flush, deletion,
                       overlap, remnant, counters>>

(* The insert fails: 500, and the event is nobody's.                       *)
RejectEvent(r) ==
    /\ faults + crashes < MaxMishaps
    /\ faults' = faults + 1
    /\ requests' = requests \ {r}
    /\ UNCHANGED <<now, sourceRow, cached, buffers, disk, catalog, flush,
                   deletion, history, nextEvent, nextFile, crashes>>

----------------------------------------------------------------------------
(* FlushTask.  tick() lists the sources whose pool is open.                *)
FlushTick ==
    /\ flush.pc = "idle"
    /\ poolOpen
    /\ flush' = [flush EXCEPT !.pc = "listed"]
    /\ UNCHANGED <<now, sourceRow, cached, requests, buffers, disk, catalog,
                   deletion, history, counters>>

(* SELECT * FROM events ORDER BY timestamp LIMIT batch_size                *)
OldestRows ==
    {B \in SUBSET buffer :
        /\ Cardinality(B) = IF Cardinality(buffer) < BatchSize
                            THEN Cardinality(buffer) ELSE BatchSize
        /\ \A x \in B, y \in buffer \ B : x.ts <= y.ts}

(* Faulty variant of FirstRow: the rows come in no order.                   *)
FirstRowUnordered(B) == B

FirstRow(B) == {x \in B : \A y \in B : x.ts <= y.ts}

(* The partition of the file is the date of the batch's first row.         *)
FlushRead ==
    /\ flush.pc = "listed"
    /\ poolOpen' = TRUE
    /\ IF buffer = {}
       THEN flush' = Idle
       ELSE \E B \in OldestRows : \E first \in FirstRow(B) :
                flush' = [pc |-> "read", batch |-> B,
                          file |-> [NoFile EXCEPT !.date = Day(first.ts)]]
    /\ UNCHANGED <<now, sourceRow, cached, requests, buffer, disk, catalog,
                   deletion, history, counters>>

FlushWrite ==
    /\ flush.pc = "read"
    /\ LET f == [id |-> nextFile, date |-> flush.file.date, events |-> flush.batch] IN
        /\ disk' = disk \cup {f}
        /\ flush' = [flush EXCEPT !.pc = "written", !.file = f]
    /\ nextFile' = nextFile + 1
    /\ UNCHANGED <<now, sourceRow, cached, requests, buffers, catalog, deletion,
                   history, nextEvent, faults, crashes>>

(* register_file, first half: the table_files row.  It needs the file.     *)
FlushRegisterRow ==
    /\ flush.pc = "written"
    /\ flush.file \in disk
    /\ listed' = listed \cup {flush.file.id}
    /\ flush' = [flush EXCEPT !.pc = "row"]
    /\ UNCHANGED <<now, sourceRow, cached, requests, buffers, disk, dated,
                   deletion, history, counters>>

(* Faulty variant of FlushRegisterPartition: no partition row is written.   *)
FlushRegisterNoPartition ==
    /\ flush.pc = "row"
    /\ flush.file.id \in listed
    /\ flush' = [flush EXCEPT !.pc = "registered"]
    /\ UNCHANGED <<now, sourceRow, cached, requests, buffers, disk, catalog,
                   deletion, history, counters>>

(* register_file, second half: the date partition row (a foreign key) and  *)
(* the statistics.                                                         *)
FlushRegisterPartition ==
    /\ flush.pc = "row"
    /\ flush.file.id \in listed
    /\ dated' = dated \cup {flush.file.id}
    /\ flush' = [flush EXCEPT !.pc = "registered"]
    /\ UNCHANGED <<now, sourceRow, cached, requests, buffers, disk, listed,
                   deletion, history, counters>>

(* Either half fails, of itself or because the deletion took the file or   *)
(* the row away: the error is logged and the flush goes on.                *)
FlushRegisterFails ==
    /\ \/ flush.pc = "written" /\ (RegisterMayFail \/ flush.file \notin disk)
       \/ flush.pc = "row" /\ (RegisterMayFail \/ flush.file.id \notin listed)
    /\ flush' = [flush EXCEPT !.pc = "registered"]
    /\ UNCHANGED <<now, sourceRow, cached, requests, buffers, disk, catalog,
                   deletion, history, counters>>

(* Faulty variant of FlushDelete: every row goes.                          *)
FlushDeleteEverything ==
    /\ flush.pc = "registered"
    /\ buffer' = {}
    /\ flush' = Idle
    /\ UNCHANGED <<now, sourceRow, cached, poolOpen, requests, disk, catalog,
                   deletion, history, counters>>

(* The transaction that deletes exactly the flushed ids.                   *)
FlushDelete ==
    /\ flush.pc = "registered"
    /\ buffer' = buffer \ flush.batch
    /\ flush' = Idle
    /\ UNCHANGED <<now, sourceRow, cached, poolOpen, requests, disk, catalog,
                   deletion, history, counters>>

(* The file cannot be written, or the delete transaction fails: logged,    *)
(* and left to the next tick.                                              *)
FlushFails ==
    /\ flush.pc \in {"read", "registered"}
    /\ faults + crashes < MaxMishaps
    /\ faults' = faults + 1
    /\ flush' = Idle
    /\ UNCHANGED <<now, sourceRow, cached, requests, buffers, disk, catalog,
                   deletion, history, nextEvent, nextFile, crashes>>

FlushStep ==
    \/ FlushRead \/ FlushWrite \/ FlushRegisterRow \/ FlushRegisterPartition
    \/ FlushRegisterFails \/ FlushDelete

----------------------------------------------------------------------------
(* delete_source, one action per await.  A handler that finds no row       *)
(* returns an error, so a deletion that was interrupted is never resumed.  *)
DeleteRow ==
    /\ deletion = "no"
    /\ sourceRow' = FALSE
    /\ deletion' = "row"
    /\ UNCHANGED <<now, cached, requests, buffers, disk, catalog, flush, history,
                   counters>>

(* Faulty variant of DeleteBuffer: the domain stays in the source cache.    *)
DeleteBufferKeepCache ==
    /\ deletion = "row"
    /\ poolOpen' = FALSE
    /\ buffer' = {}
    /\ overlap' = (requests # {} \/ flush.pc # "idle")
    /\ deletion' = "buffer"
    /\ UNCHANGED <<now, sourceRow, cached, requests, disk, catalog, flush,
                   accepted, remnant, counters>>

(* The cache entry, then the buffer: its pool is closed and its database   *)
(* unlinked, with no await between the two.                                *)
DeleteBuffer ==
    /\ deletion = "row"
    /\ cached' = FALSE
    /\ poolOpen' = FALSE
    /\ buffer' = {}
    /\ overlap' = (requests # {} \/ flush.pc # "idle")
    /\ deletion' = "buffer"
    /\ UNCHANGED <<now, sourceRow, requests, disk, catalog, flush, accepted,
                   remnant, counters>>

(* A failure counts against the bound on mishaps.                          *)
Mishap ==
    /\ faults + crashes < MaxMishaps
    /\ faults' = faults + 1
    /\ UNCHANGED <<nextEvent, nextFile, crashes>>

(* The pool is closed, but its database cannot be unlinked: an error, and  *)
(* the handler ends there.                                                 *)
DeleteBufferFails ==
    /\ deletion = "row"
    /\ cached' = FALSE
    /\ poolOpen' = FALSE
    /\ deletion' = "interrupted"
    /\ Mishap
    /\ UNCHANGED <<now, sourceRow, buffer, requests, disk, catalog, flush, history>>

DeleteCatalog ==
    /\ deletion = "buffer"
    /\ listed' = {} /\ dated' = {}
    /\ deletion' = "catalog"
    /\ UNCHANGED <<now, sourceRow, cached, requests, buffers, disk, flush,
                   history, counters>>

(* The rows cannot be purged: a warning, and the handler goes on.          *)
DeleteCatalogFails ==
    /\ deletion = "buffer"
    /\ remnant' = [remnant EXCEPT !.rows = listed]
    /\ deletion' = "catalog"
    /\ Mishap
    /\ UNCHANGED <<now, sourceRow, cached, requests, buffers, disk, catalog, flush,
                   accepted, overlap>>

DeleteDir ==
    /\ deletion = "catalog"
    /\ disk' = {}
    /\ deletion' = "done"
    /\ UNCHANGED <<now, sourceRow, cached, requests, buffers, catalog, flush,
                   history, counters>>

(* Some of the files cannot be removed: a warning, and the answer is 204   *)
(* all the same.                                                           *)
DeleteDirFails ==
    /\ deletion = "catalog"
    /\ \E left \in SUBSET disk : disk' = left /\ remnant' = [remnant EXCEPT !.files = left]
    /\ deletion' = "done"
    /\ Mishap
    /\ UNCHANGED <<now, sourceRow, cached, requests, buffers, catalog, flush,
                   accepted, overlap>>

DeletionFails == DeleteBufferFails \/ DeleteCatalogFails \/ DeleteDirFails

(* The process dies and restarts: IngestState::new reloads the cache from  *)
(* the rows, and no pool is open until something asks for one.             *)
Crash ==
    /\ faults + crashes < MaxMishaps
    /\ crashes' = crashes + 1
    /\ cached' = sourceRow
    /\ poolOpen' = FALSE
    /\ requests' = {}
    /\ flush' = Idle
    /\ deletion' = IF deletion \in {"row", "buffer", "catalog"}
                   THEN "interrupted" ELSE deletion
    /\ UNCHANGED <<now, sourceRow, buffer, disk, catalog, history, nextEvent,
                   nextFile, faults>>

Next ==
    \/ Tick
    \/ \E v \in Visitors : ReceiveEvent(v)
    \/ \E r \in requests : InsertEvent(r)
    \/ \E r \in requests : RejectEvent(r)
    \/ FlushTick \/ FlushStep \/ FlushFails
    \/ DeleteRow \/ DeleteBuffer \/ DeleteCatalog \/ DeleteDir \/ DeletionFails
    \/ Crash

(* The interval timer keeps ticking and a started flush runs on; nothing   *)
(* obliges a visitor to come, an administrator to delete or a fault to hit.*)
Fairness == WF_vars(FlushTick) /\ WF_vars(FlushStep)

Spec == Init /\ [][Next]_vars /\ Fairness

----------------------------------------------------------------------------
(* AcceptedNotLost: while the source exists, every event that was answered *)
(* with 202 is in the buffer or in a file on disk - however the flush, new *)
(* requests, failures and crashes interleave ("the events are still        *)
(* durable in the buffer", flush.rs:5).                                    *)
Stored == UNION {f.events : f \in disk}
AcceptedNotLost == deletion = "no" => accepted \subseteq buffer \cup Stored

(* CopiesBounded: flushing is at-least-once, and a second copy of an event *)
(* is paid for by a crash or a failed step; a healthy flush never makes    *)
(* one.  While a flush holds its written file the event is in both places. *)
Copies(e) == Cardinality({f \in disk : e \in f.events})
               + (IF e \in buffer THEN 1 ELSE 0)
InHand(e) == IF flush.pc \in {"written", "row", "registered"} /\ e \in flush.batch
             THEN 1 ELSE 0
CopiesBounded ==
    deletion = "no" => \A e \in accepted : Copies(e) <= 1 + InHand(e) + faults + crashes

(* FileDateIsEarliest: the date a file is partitioned under is the day of  *)
(* its earliest event, so a scan whose range starts early enough sees all  *)
(* of the file (events_scan.rs date_filters prunes on it).                 *)
FileDateIsEarliest ==
    \A f \in disk : /\ \A e \in f.events : f.date <= Day(e.ts)
                    /\ \E e \in f.events : f.date = Day(e.ts)

(* FilesSound: what a flush leaves on disk can be trusted: no event twice  *)
(* unless something failed, and every file under the day a scan prunes on. *)
FilesSound == CopiesBounded /\ FileDateIsEarliest

(* SessionHasNoGap: no session spans a silence of SessionTimeout: between  *)
(* any split of a session into earlier and later events, some two events   *)
(* are closer than the timeout.  Late-arriving requests included.          *)
SessionHasNoGap ==
    \A e \in accepted :
        LET later   == {f \in accepted : f.session = e.session /\ f.ts > e.ts}
        IN  later # {} => \E f \in later : f.ts - e.ts < SessionTimeout

(* DeletionIsFinal: a deletion that was answered with 204 and that no      *)
(* request and no flush overlapped leaves no buffer, no file and no catalog*)
(* row, and nothing comes back later (a stale cache entry or open pool     *)
(* would bring it back).  The exceptions are the rows a failed purge and   *)
(* the files a failed removal left, which the handler only warns about:    *)
(* exactly these stay.                                                     *)
DeletionIsFinal ==
    (deletion = "done" /\ ~overlap) =>
        buffer = {} /\ ~poolOpen /\ listed = remnant.rows /\ disk = remnant.files

(* EventuallyScanned: an accepted event ends up in a file that a dated scan*)
(* can find, as long as the pool stays open (only a crash or a deletion    *)
(* closes it): whatever the batch limit and the failed ticks on the way.   *)
(* Assumes a catalog that takes the file (RegisterMayFail = FALSE).        *)
Scanned(i) == \E f \in disk : f.id \in dated /\ \E e \in f.events : e.id = i
EventuallyScanned ==
    \A i \in 1..MaxEvents :
        (poolOpen /\ \E e \in accepted : e.id = i) ~> (Scanned(i) \/ ~poolOpen \/ deletion # "no")

----------------------------------------------------------------------------
(* Stated of the code and refuted.                                         *)

(* "Failures are logged and retried on the next tick ... the right         *)
(* response to a transient store error is to try again, not to drop them"  *)
(* (flush.rs:4-6): an event leaves the buffer only into the catalog.       *)
CataloguedBeforeDropped ==
    deletion = "no" =>
        \A e \in accepted : e \in buffer \/ \E f \in disk : f.id \in listed /\ e \in f.events

(* "If the last event from this identity was less than 30 minutes ago,     *)
(* reuse the same session" (buffer.rs:204-205).                            *)
SessionContinuity ==
    deletion = "no" => \A e, f \in accepted :
        (e.visitor = f.visitor /\ e.ts <= f.ts /\ f.ts - e.ts < SessionTimeout)
            => e.session = f.session

============================================================================
