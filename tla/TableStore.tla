----------------------------- MODULE TableStore -----------------------------
(***************************************************************************)
(* One table of the Parquet store (brightflow-store): its row in the       *)
(* `tables` catalog, its `table_files` rows, and the immutable Parquet     *)
(* files on disk.  The database and the disk are changed one after the     *)
(* other, so every operation is a chain of steps, one per await:           *)
(*                                                                         *)
(*   merge        a sync's upsert by primary key     (merge_parquet)       *)
(*   materialize  an enrichment rewriting the table  (replace_table_data   *)
(*                against the version it read, one retry)                  *)
(*   strip        an enrichment column taken out     (replace_table_data   *)
(*                against no version)                                      *)
(*   rewrite      a model build                      (write_table)         *)
(*   append, overwrite    a file handed to the CLI   (ingest_parquet)      *)
(*   DeleteRow, RemoveDir the table or source is deleted                   *)
(*                                                                         *)
(* Writers run concurrently (tasks of the server, and the CLI in a process *)
(* of its own); only materialize and rewrite share a per-table lock.  The  *)
(* text index is the cache that rides the table's version.                 *)
(***************************************************************************)
EXTENDS Integers, FiniteSets

CONSTANTS
    Writers,         \* concurrent callers
    Keys,            \* primary keys of the table
    Kinds,           \* the operations that run here
    Batches,         \* the keys a file brought from outside may hold
    MayDelete,       \* whether the table may be deleted
    MaxOps,          \* bound: operations ever started
    MaxExtras        \* bound: index builds, steps that fail of themselves, and crashes

ASSUME TableStoreAssumption ==
    /\ Kinds \subseteq {"merge", "materialize", "strip", "rewrite", "append", "overwrite"}
    /\ IsFiniteSet(Keys)
    /\ Batches \subseteq SUBSET Keys
    /\ MayDelete \in BOOLEAN
    /\ MaxOps \in Nat /\ MaxExtras \in Nat

VARIABLES
    row,      \* the `tables` row: [id, version, total]; id 0 when there is none
    listed,   \* ids of the files with a table_files row
    disk,     \* the files on disk: [id, rows]
    writers,  \* each caller's local state
    dropping, \* a deletion is between its row and its directory
    index,    \* the cached text index: [version, rows, of]
    builder,  \* the index build under way: [pc, version, of, base]
    history,  \* what has happened so far: see History
    nextOp, builds, mishaps

catalog  == <<row, listed>>
cache    == <<index, builder>>
counters == <<nextOp, builds, mishaps>>
vars == <<catalog, disk, writers, dropping, cache, history, counters>>

----------------------------------------------------------------------------
Row  == [key : Keys, val : Nat, cell : BOOLEAN]
File == [id : Nat, rows : SUBSET Row]
Ids(files) == {f.id : f \in files}
RowsOf(ids) == UNION {f.rows : f \in {g \in disk : g.id \in ids}}

Data == RowsOf(listed)

Steps == {"idle", "lookup", "create", "createMeta", "list", "read", "check",
          "relist", "unlink", "unlist", "write", "swap", "meta", "add", "clean"}

NoRow == [id |-> 0, version |-> 0, total |-> 0]

(* tid: the row id the caller holds; seen: what the table held when base   *)
(* was listed (history, for the refinement).                               *)
Idle == [pc |-> "idle", kind |-> "none", op |-> 0, batch |-> {}, tid |-> 0,
         version |-> 0, total |-> 0, base |-> {}, seen |-> {}, old |-> {},
         rows |-> {}, tries |-> 0]

Writer == [pc : Steps, kind : Kinds \cup {"none"}, op : Nat, batch : SUBSET Keys,
           tid : Nat, version : Nat, total : Nat, base : SUBSET Nat,
           seen : SUBSET Row, old : SUBSET Nat, rows : SUBSET Row, tries : {0, 1, 2}]

(* of: the row id whose version was read (history).                        *)
NoIndex == [version |-> -1, rows |-> {}, of |-> 0]
NoBuild == [pc |-> "idle", version |-> 0, of |-> 0, base |-> {}]

(* overlap: two operations ran at once.  dropped: a deletion and a writer  *)
(* did.  torn: an overwriting ingest took files away that are still listed.*)
(* ingested: ingest_parquet ran.  unbumped: a writer swapped the files and *)
(* then failed before it moved the version.  stale: the rows total_rows    *)
(* counts since an overwriting ingest of an empty file took them away.     *)
History == [overlap : BOOLEAN, dropped : BOOLEAN, torn : BOOLEAN,
            ingested : BOOLEAN, unbumped : BOOLEAN, stale : Nat]

TypeOK ==
    /\ row \in [id : Nat, version : Nat, total : Nat]
    /\ listed \in SUBSET Nat /\ disk \in SUBSET File
    /\ writers \in [Writers -> Writer]
    /\ dropping \in BOOLEAN
    /\ index \in [version : Int, rows : SUBSET Row, of : Nat]
    /\ builder \in [pc : {"idle", "list", "read"}, version : Nat, of : Nat,
                    base : SUBSET Nat]
    /\ history \in History
    /\ nextOp \in Nat /\ builds \in Nat /\ mishaps \in Nat

(* There is no table yet, or there is one that was synced and enriched.    *)
Init ==
    /\ \/ row = NoRow /\ listed = {} /\ disk = {}
       \/ LET rows == [key : Keys, val : {1}, cell : {TRUE}] IN
            /\ row = [id |-> 1, version |-> 3, total |-> Cardinality(rows)]
            /\ listed = {1}
            /\ disk = {[id |-> 1, rows |-> rows]}
    /\ writers = [w \in Writers |-> Idle]
    /\ dropping = FALSE
    /\ index = NoIndex /\ builder = NoBuild
    /\ history = [overlap |-> FALSE, dropped |-> FALSE, torn |-> FALSE,
                  ingested |-> FALSE, unbumped |-> FALSE, stale |-> 0]
    /\ nextOp = 2 /\ builds = 0 /\ mishaps = 0

----------------------------------------------------------------------------
(* Helpers: where a writer stands, and how it moves on.                    *)
At(w, pc)   == writers[w].pc = pc
Is(w, kind) == writers[w].kind = kind
Busy        == {w \in Writers : writers[w].pc # "idle"}

Go(w, pc)      == writers' = [writers EXCEPT ![w].pc = pc]
GoWith(w, rec) == writers' = [writers EXCEPT ![w] = rec]
Return(w)      == writers' = [writers EXCEPT ![w] = Idle]

(* Rows of a file brought from outside; and merge's two joins.             *)
Brought(w) == {[key |-> k, val |-> writers[w].op, cell |-> FALSE] : k \in writers[w].batch}
Upsert(old, new) == new \cup {r \in old : \A n \in new : n.key # r.key}
WithCells(rows, b) == {[r EXCEPT !.cell = b] : r \in rows}

Result(w, old) ==
    CASE Is(w, "merge")       -> Upsert(old, Brought(w))
      [] Is(w, "materialize") -> WithCells(old, TRUE)
      [] Is(w, "strip")       -> WithCells(old, FALSE)

(* list_table_files: the rows of a table that is gone are gone with it.    *)
ListFor(tid) == IF row.id = tid THEN listed ELSE {}

(* update_table_meta.                                                      *)
Bumped(total) == [row EXCEPT !.version = @ + 1, !.total = total]

Locking == {"materialize", "rewrite"}

----------------------------------------------------------------------------
(* An operation starts.  AppState::materialize_lock admits one             *)
(* materialisation or model build of the table at a time.                  *)
Begin(w, kind, batch) ==
    /\ At(w, "idle")
    /\ nextOp < MaxOps + 2
    /\ kind \in Locking => \A o \in Writers : writers[o].kind \notin Locking
    /\ IF kind \in {"materialize", "strip"} THEN batch = {} ELSE batch \in Batches
    /\ GoWith(w, [Idle EXCEPT !.pc = IF kind = "strip" THEN "list" ELSE "lookup",
                              !.kind = kind, !.op = nextOp, !.batch = batch, !.tries = 1])
    /\ history' = [history EXCEPT !.overlap = @ \/ Busy # {} \/ dropping,
                                  !.dropped = @ \/ dropping,
                                  !.ingested = @ \/ kind \in {"append", "overwrite"}]
    /\ nextOp' = nextOp + 1
    /\ UNCHANGED <<catalog, disk, dropping, cache, builds, mishaps>>

(* get_table, at the head of every operation.                              *)
AfterLookup(kind, exists) ==
    CASE kind = "merge"       -> IF exists THEN "list" ELSE "create"
      [] kind = "materialize" -> IF exists THEN "list" ELSE "idle"
      [] kind = "append"      -> "write"
      [] kind \in {"rewrite", "overwrite"} -> IF exists THEN "relist" ELSE "write"

Lookup(w) ==
    /\ At(w, "lookup")
    /\ LET next == AfterLookup(writers[w].kind, row # NoRow) IN
        IF next = "idle" THEN Return(w)
        ELSE GoWith(w, [writers[w] EXCEPT
                !.pc = next, !.tid = row.id,
                !.version = IF Is(w, "materialize") THEN row.version ELSE 0,
                !.total = IF Is(w, "append") THEN row.total ELSE 0])
    /\ UNCHANGED <<catalog, disk, dropping, cache, history, counters>>

(* create_table: a second row under the same name violates UNIQUE.         *)
Create(w) ==
    /\ At(w, "create")
    /\ IF row # NoRow THEN Return(w) /\ UNCHANGED row
       ELSE /\ row' = [NoRow EXCEPT !.id = writers[w].op]
            /\ GoWith(w, [writers[w] EXCEPT
                    !.tid = writers[w].op,
                    !.pc = CASE Is(w, "merge")   -> "createMeta"
                             [] Is(w, "rewrite") -> "swap"
                             [] OTHER            -> "meta"])
    /\ UNCHANGED <<listed, disk, dropping, cache, history, counters>>

(* merge_parquet records the primary keys of the table it created.         *)
CreateMeta(w) ==
    /\ At(w, "createMeta")
    /\ IF row.id = writers[w].tid THEN row' = Bumped(0) /\ Go(w, "list")
       ELSE Return(w) /\ UNCHANGED row
    /\ UNCHANGED <<listed, disk, dropping, cache, history, counters>>

(* The files to read.  merge lists those of the row it holds; read_table   *)
(* looks the table up again first, and a table that is gone ends there (if *)
(* it goes between the two queries nothing is listed, and that ends it too).*)
(* The row a materialisation holds stays the one whose version it read.    *)
List(w) ==
    /\ At(w, "list")
    /\ LET ids == ListFor(IF Is(w, "merge") THEN writers[w].tid ELSE row.id)
       IN  IF ~Is(w, "merge") /\ row = NoRow THEN Return(w)
           ELSE GoWith(w, [writers[w] EXCEPT !.pc = "read", !.base = ids,
                                             !.seen = RowsOf(ids), !.old = ids])
    /\ UNCHANGED <<catalog, disk, dropping, cache, history, counters>>

(* Faulty variant of Read: a file that cannot be opened is skipped.         *)
ReadWhatIsThere(w) ==
    /\ At(w, "read")
    /\ LET existing == RowsOf(writers[w].base) IN
        IF IF Is(w, "merge") THEN writers[w].batch = {} ELSE existing = {}
        THEN Return(w)
        ELSE GoWith(w, [writers[w] EXCEPT !.rows = Result(w, existing),
                                          !.pc = IF Is(w, "merge") THEN "write" ELSE "check"])
    /\ UNCHANGED <<catalog, disk, dropping, cache, history, counters>>

(* The listed files are opened; one that is gone by now fails the whole    *)
(* operation.  Nothing to merge, fill or strip: it returns.                *)
Read(w) ==
    /\ At(w, "read")
    /\ LET existing == RowsOf(writers[w].base)
           nothing  == CASE Is(w, "merge")       -> writers[w].batch = {}
                         [] Is(w, "materialize") -> existing = {}
                         [] Is(w, "strip")       -> \A r \in existing : ~r.cell
       IN  IF nothing \/ ~(writers[w].base \subseteq Ids(disk)) THEN Return(w)
           ELSE GoWith(w, [writers[w] EXCEPT !.rows = Result(w, existing),
                                             !.pc = IF Is(w, "merge") THEN "write" ELSE "check"])
    /\ UNCHANGED <<catalog, disk, dropping, cache, history, counters>>

(* Faulty variant of Check: the version is not compared.                    *)
CheckNothing(w) ==
    /\ At(w, "check")
    /\ IF row = NoRow THEN Return(w)
       ELSE GoWith(w, [writers[w] EXCEPT !.pc = "relist", !.tid = row.id])
    /\ UNCHANGED <<catalog, disk, dropping, cache, history, counters>>

(* replace_table_data begins: materialize refuses a table whose version    *)
(* moved, and tries again from the top once.                               *)
Conflict(w) == Is(w, "materialize") /\ row.version # writers[w].version

Check(w) ==
    /\ At(w, "check")
    /\ IF row = NoRow \/ (Conflict(w) /\ writers[w].tries >= 2) THEN Return(w)
       ELSE IF Conflict(w)
       THEN GoWith(w, [writers[w] EXCEPT !.pc = "lookup", !.tries = @ + 1])
       ELSE GoWith(w, [writers[w] EXCEPT !.pc = "relist", !.tid = row.id])
    /\ UNCHANGED <<catalog, disk, dropping, cache, history, counters>>

(* The files to take off the disk at the end (overwrite: at once).         *)
Relist(w) ==
    /\ At(w, "relist")
    /\ GoWith(w, [writers[w] EXCEPT !.old = ListFor(writers[w].tid),
                                    !.pc = IF Is(w, "overwrite") THEN "unlink" ELSE "write"])
    /\ UNCHANGED <<catalog, disk, dropping, cache, history, counters>>

(* IngestMode::Overwrite: the old files go first, from disk ...            *)
Unlink(w) ==
    /\ At(w, "unlink")
    /\ disk' = {f \in disk : f.id \notin writers[w].old}
    /\ history' = [history EXCEPT !.torn = TRUE]
    /\ Go(w, "unlist")
    /\ UNCHANGED <<catalog, dropping, cache, counters>>

(* ... and then from the catalog.                                          *)
Unlist(w) ==
    /\ At(w, "unlist")
    /\ listed' = IF row.id = writers[w].tid THEN {} ELSE listed
    /\ history' = [history EXCEPT !.torn = FALSE]
    /\ Go(w, "write")
    /\ UNCHANGED <<row, disk, dropping, cache, counters>>

(* A new file under a fresh UUIDv7 name; ingest removes an empty one again *)
(* and stops, which leaves the total of a table it emptied as it was.      *)
Write(w) ==
    /\ At(w, "write")
    /\ LET ingest  == writers[w].kind \in {"append", "overwrite"}
           rows    == IF ingest \/ Is(w, "rewrite") THEN Brought(w) ELSE writers[w].rows
           fresh   == writers[w].tid = 0
       IN  IF ingest /\ rows = {}
           THEN /\ Return(w) /\ UNCHANGED disk
                /\ history' = IF Is(w, "overwrite") /\ ~fresh
                              THEN [history EXCEPT !.stale = row.total] ELSE history
           ELSE /\ disk' = disk \cup {[id |-> writers[w].op, rows |-> rows]}
                /\ GoWith(w, [writers[w] EXCEPT
                        !.rows = rows,
                        !.pc = IF fresh THEN "create" ELSE IF ingest THEN "meta" ELSE "swap"])
                /\ UNCHANGED history
    /\ UNCHANGED <<catalog, dropping, cache, counters>>

(* replace_table_files: one transaction; a table that is gone refuses it.  *)
Swap(w) ==
    /\ At(w, "swap")
    /\ IF row.id = writers[w].tid THEN listed' = {writers[w].op} /\ Go(w, "meta")
       ELSE Return(w) /\ UNCHANGED listed
    /\ UNCHANGED <<row, disk, dropping, cache, history, counters>>

(* update_table_meta.  On a table that is gone merge goes on to clean up   *)
(* and the others fail, the ingest before it lists its file.               *)
Meta(w) ==
    /\ At(w, "meta")
    /\ LET ingest == writers[w].kind \in {"append", "overwrite"}
           total  == Cardinality(writers[w].rows)
                       + (IF Is(w, "append") THEN writers[w].total ELSE 0)
       IN  IF row.id = writers[w].tid
           THEN /\ row' = Bumped(total) /\ Go(w, IF ingest THEN "add" ELSE "clean")
                /\ history' = IF Is(w, "append") THEN history ELSE [history EXCEPT !.stale = 0]
           ELSE /\ IF Is(w, "merge") THEN Go(w, "clean") ELSE Return(w)
                /\ UNCHANGED <<row, history>>
    /\ UNCHANGED <<listed, disk, dropping, cache, counters>>

(* add_table_file, the last step of an ingest.                             *)
Add(w) ==
    /\ At(w, "add")
    /\ IF row.id = writers[w].tid
       THEN listed' = listed \cup {writers[w].op} /\ GoWith(w, [writers[w] EXCEPT !.old = {}, !.pc = "clean"])
       ELSE Return(w) /\ UNCHANGED listed
    /\ UNCHANGED <<row, disk, dropping, cache, history, counters>>

(* Faulty variant of Clean: it takes what is listed by then.                *)
CleanListed(w) ==
    /\ At(w, "clean")
    /\ disk' = {f \in disk : f.id \notin ListFor(writers[w].tid)}
    /\ Return(w)
    /\ UNCHANGED <<catalog, dropping, cache, history, counters>>

(* The replaced files go from disk; the column statistics are stored.      *)
Clean(w) ==
    /\ At(w, "clean")
    /\ disk' = {f \in disk : f.id \notin writers[w].old}
    /\ Return(w)
    /\ UNCHANGED <<catalog, dropping, cache, history, counters>>

(* A step fails: the error returns and what was done so far stays.         *)
Fail(w) ==
    /\ writers[w].pc # "idle"
    /\ builds + mishaps < MaxExtras
    /\ mishaps' = mishaps + 1
    /\ Return(w)
    /\ history' = [history EXCEPT !.unbumped = @ \/ At(w, "meta")]
    /\ UNCHANGED <<catalog, disk, dropping, cache, nextOp, builds>>

----------------------------------------------------------------------------
(* delete_table and delete_source_data: the row (its files and statistics  *)
(* cascade), then the directory.                                           *)
DeleteRow ==
    /\ MayDelete /\ ~dropping /\ row # NoRow
    /\ row' = NoRow /\ listed' = {}
    /\ dropping' = TRUE
    /\ history' = [history EXCEPT !.overlap = @ \/ Busy # {}, !.dropped = @ \/ Busy # {},
                                  !.stale = 0]
    /\ UNCHANGED <<disk, writers, cache, counters>>

RemoveDir ==
    /\ dropping
    /\ disk' = {}
    /\ dropping' = FALSE
    /\ UNCHANGED <<catalog, writers, cache, history, counters>>

(* textexplore get_or_build: the version first; a cached index of that     *)
(* version is served as it is.  Otherwise the table is read and the index  *)
(* stored under the version seen first.                                    *)
IndexLookup ==
    /\ builder.pc = "idle"
    /\ row # NoRow /\ index.version # row.version
    /\ builds + mishaps < MaxExtras
    /\ builds' = builds + 1
    /\ builder' = [NoBuild EXCEPT !.pc = "list", !.version = row.version,
                                     !.of = row.id]
    /\ UNCHANGED <<catalog, disk, writers, dropping, index, history, nextOp, mishaps>>

IndexList ==
    /\ builder.pc = "list"
    /\ builder' = IF row = NoRow THEN NoBuild
                  ELSE [builder EXCEPT !.pc = "read", !.base = listed]
    /\ UNCHANGED <<catalog, disk, writers, dropping, index, history, counters>>

IndexStore ==
    /\ builder.pc = "read"
    /\ index' = IF builder.base \subseteq Ids(disk)
                THEN [version |-> builder.version, rows |-> RowsOf(builder.base), of |-> builder.of]
                ELSE index
    /\ builder' = NoBuild
    /\ UNCHANGED <<catalog, disk, writers, dropping, history, counters>>

(* The process dies: what was in memory is gone, locks included.           *)
Crash ==
    /\ builds + mishaps < MaxExtras
    /\ mishaps' = mishaps + 1
    /\ writers' = [w \in Writers |-> Idle]
    /\ dropping' = FALSE
    /\ index' = NoIndex /\ builder' = NoBuild
    /\ UNCHANGED <<catalog, disk, history, nextOp, builds>>

Next ==
    \/ \E w \in Writers, k \in Kinds, b \in {{}} \cup Batches : Begin(w, k, b)
    \/ \E w \in Writers : Lookup(w)
    \/ \E w \in Writers : Create(w)
    \/ \E w \in Writers : CreateMeta(w)
    \/ \E w \in Writers : List(w)
    \/ \E w \in Writers : Read(w)
    \/ \E w \in Writers : Check(w)
    \/ \E w \in Writers : Relist(w)
    \/ \E w \in Writers : Unlink(w)
    \/ \E w \in Writers : Unlist(w)
    \/ \E w \in Writers : Write(w)
    \/ \E w \in Writers : Swap(w)
    \/ \E w \in Writers : Meta(w)
    \/ \E w \in Writers : Add(w)
    \/ \E w \in Writers : Clean(w)
    \/ \E w \in Writers : Fail(w)
    \/ DeleteRow \/ RemoveDir
    \/ IndexLookup \/ IndexList \/ IndexStore
    \/ Crash

Spec == Init /\ [][Next]_vars

----------------------------------------------------------------------------
(* ImplementsAtomicTable: whatever the writers interleave, fail or crash,  *)
(* the rows a reader can get are changed only by whole results, each       *)
(* computed from rows the table really held at one moment - never from the *)
(* half of a file set that another writer was taking off the disk - and    *)
(* never by the cleaning up (merge_parquet, replace_table_data,            *)
(* write_table, ingest_parquet).                                           *)
Abstract == INSTANCE AtomicTable WITH
    data <- Data,
    role <- [w \in Writers |-> writers[w].kind],
    snap <- [w \in Writers |-> writers[w].seen]

ImplementsAtomicTable == Abstract!Spec

(* ListedOnDisk: the catalog never lists a file that is not on disk, so a  *)
(* table can always be read and merged into - except while an overwriting  *)
(* ingest is halfway, and after a deletion that raced a writer: a table    *)
(* created again between the row and the directory loses its files.        *)
ListedOnDisk ==
    (~history.torn /\ ~history.dropped) => listed \subseteq Ids(disk)

(* CatalogExact: operations that ran one after the other and succeeded     *)
(* leave no file behind that the catalog does not list, and a total_rows   *)
(* that counts the rows of the listed files.  The exception: an overwriting*)
(* ingest of an empty file has removed the old ones by then and returns    *)
(* before it updates the total, so the rows it took away stay counted until*)
(* an operation other than an append counts anew.                          *)
CatalogExact ==
    (Busy = {} /\ ~dropping /\ ~history.overlap /\ mishaps = 0) =>
        /\ Ids(disk) = listed
        /\ row.total = Cardinality(Data) + history.stale

(* CatalogSound: the catalog and the disk agree on a table's files, in     *)
(* what they must while writers work and in all once they are done.        *)
CatalogSound == ListedOnDisk /\ CatalogExact

(* VersionCheckSound: when the version check lets a materialisation pass,  *)
(* the rows it read are still the table's, unless a writer stands between  *)
(* its swap and its version bump, or the table was deleted and created     *)
(* again up to the same version (the number starts over).  ingest_parquet  *)
(* bumps BEFORE it lists its file, so beside an ingest the check proves    *)
(* nothing; nor after a writer that failed before its bump.                *)
VersionCheckSound ==
    \A w \in Writers :
        (Is(w, "materialize") /\ At(w, "check") /\ writers'[w].pc = "relist") =>
            \/ writers[w].base = listed
            \/ \E o \in Writers : At(o, "meta")
            \/ writers[w].tid # row.id
            \/ history.ingested \/ history.unbumped

(* IndexFresh: a cached text index whose version is the table's holds the  *)
(* table's rows, with the same exceptions: "cache freshness rides          *)
(* tables.version" (index.rs:3) needs the bump after the swap and the      *)
(* version read before the rows.                                           *)
Unread == history.ingested \/ history.unbumped \/ \E w \in Writers : At(w, "meta")
IndexFresh ==
    (index.version = row.version /\ index.of = row.id /\ listed \subseteq Ids(disk) /\ ~Unread)
        => index.rows = Data

(* VersionSound: whoever compares a table's version, a materialisation     *)
(* before its swap or a search before it uses an index, learns from an     *)
(* equal version that the rows are the ones it knows (the exceptions are   *)
(* named in the two parts).                                                *)
VersionSound == [][VersionCheckSound /\ IndexFresh']_vars

----------------------------------------------------------------------------
(* Stated of the code and refuted.                                         *)

(* "the swap is refused with StoreError::VersionConflict if the table's    *)
(* version moved (a sync merged concurrently)" (store ingest.rs:332-334).  *)
SwapRefusedIfMoved ==
    [][\A w \in Writers :
        (Is(w, "materialize") /\ At(w, "swap") /\ writers'[w].pc = "meta")
            => row.version = writers[w].version]_vars

(* "Cache freshness rides tables.version in SQLite: every write path       *)
(* already bumps it" (textexplore/index.rs:3-5): an index is served when   *)
(* the table is at rest and the versions agree.                            *)
ServedIndexIsCurrent ==
    (row # NoRow /\ index.version = row.version /\ Busy = {} /\ listed \subseteq Ids(disk))
        => index.rows = Data

=============================================================================
