-------------------------- MODULE TableStoreProofs --------------------------
(***************************************************************************)
(* Proofs about TableStore, for every value of its constants, in four      *)
(* parts, each with its inductive invariant:                               *)
(*                                                                         *)
(*   TypeInv     types, finiteness, which operation stands at which step   *)
(*   RefInv      how files, numbers and snapshots hang together: every     *)
(*               step is a step of AtomicTable or a stutter                *)
(*   DiskInv, ExactInv   the catalog lists what is on disk, and counts it  *)
(*   VersionInv  who holds a version of the table knows its rows           *)
(***************************************************************************)
EXTENDS TableStore, FiniteSetTheorems, TLAPS

\* Files and what writers carry are finite.
DiskFinite == IsFiniteSet(disk) /\ \A f \in disk : IsFiniteSet(f.rows)

\* Which operation can be at which step, and who holds the id of a row by then.
Reading  == {"merge", "materialize", "strip"}
Revising == {"materialize", "strip"}
Ingest   == {"append", "overwrite"}

Fits(t) ==
    /\ t.pc = "idle" => t = Idle
    /\ t.pc # "idle" => t.kind # "none" /\ t.op # 0
    /\ t.pc = "lookup" => t.kind # "strip"
    /\ t.pc = "create" => t.kind \notin Revising
    /\ t.pc = "createMeta" => t.kind = "merge"
    /\ t.pc \in {"list", "read"} => t.kind \in Reading
    /\ t.pc = "check" => t.kind \in Revising
    /\ t.pc = "relist" => t.kind \in {"materialize", "strip", "rewrite", "overwrite"}
    /\ t.pc \in {"unlink", "unlist"} => t.kind = "overwrite"
    /\ t.pc = "swap" => t.kind \notin Ingest
    /\ t.pc = "add" => t.kind \in Ingest
    /\ t.pc \in {"createMeta", "relist", "unlink", "unlist", "swap", "meta", "add"} => t.tid # 0
    /\ (t.kind = "merge" /\ t.pc \in {"list", "read"}) => t.tid # 0
    /\ (t.kind \in Reading /\ t.pc = "write") => t.tid # 0

Sound(t) == t \in Writer /\ IsFiniteSet(t.rows) /\ Fits(t)

WritersSound == writers \in [Writers -> Writer] /\ \A w \in Writers : Sound(writers[w])

\* A table's row has an id, and ids are not zero.
RowHasId == (row # NoRow => row.id # 0) /\ nextOp # 0

TypeInv == TypeOK /\ DiskFinite /\ WritersSound /\ RowHasId

-----------------------------------------------------------------------------
\* A batch of finitely many keys brings finitely many rows.
LEMMA BroughtFinite == ASSUME NEW S \in SUBSET Keys, NEW v PROVE
   IsFiniteSet({[key |-> k, val |-> v, cell |-> FALSE] : k \in S})
<1> DEFINE T == {[key |-> k, val |-> v, cell |-> FALSE] : k \in S}
           f == [k \in S |-> [key |-> k, val |-> v, cell |-> FALSE]]
<1>1. IsFiniteSet(S)
  BY TableStoreAssumption, FS_Subset
<1>2. f \in Surjection(S, T)
  BY DEF Surjection
<1> QED BY <1>1, <1>2, FS_Surjection

\* What is brought are rows of the table.
LEMMA BroughtTyped ==
    ASSUME NEW w \in Writers, writers[w] \in Writer
    PROVE  Brought(w) \in SUBSET Row /\ IsFiniteSet(Brought(w))
<1>1. writers[w].batch \in SUBSET Keys /\ writers[w].op \in Nat
  BY DEF Writer
<1>2. \A k \in writers[w].batch : [key |-> k, val |-> writers[w].op, cell |-> FALSE] \in Row
  BY <1>1 DEF Row
<1>3. Brought(w) \in SUBSET Row
  BY <1>2 DEF Brought
<1> QED BY <1>1, <1>3, BroughtFinite DEF Brought

\* Filling or emptying a column gives rows again,
LEMMA WithCellsTyped ==
    ASSUME NEW S \in SUBSET Row, NEW b \in BOOLEAN
    PROVE  WithCells(S, b) \in SUBSET Row
BY DEF WithCells, Row

\* as many as there were.
LEMMA WithCellsFinite == ASSUME NEW S, IsFiniteSet(S), NEW b PROVE IsFiniteSet(WithCells(S, b))
<1> DEFINE f == [r \in S |-> [r EXCEPT !.cell = b]]
<1>2. f \in Surjection(S, WithCells(S, b))
  BY DEF Surjection, WithCells
<1> QED BY <1>2, FS_Surjection

\* A merge of finite sets of rows is finite.
LEMMA UpsertFinite == ASSUME NEW S, NEW T, IsFiniteSet(S), IsFiniteSet(T) PROVE IsFiniteSet(Upsert(S, T))
<1>1. IsFiniteSet({r \in S : \A n \in T : n.key # r.key})
  BY FS_Subset
<1> QED BY <1>1, FS_Union DEF Upsert

\* Listed files hold finitely many rows.
LEMMA RowsOfFinite == ASSUME DiskFinite, NEW ids PROVE IsFiniteSet(RowsOf(ids))
<1> DEFINE S == {g \in disk : g.id \in ids}
           T == {f.rows : f \in S}
           h == [f \in S |-> f.rows]
<1>1. IsFiniteSet(S)
  BY FS_Subset DEF DiskFinite
<1>2. h \in Surjection(S, T)
  BY DEF Surjection
<1>3. IsFiniteSet(T)
  BY <1>1, <1>2, FS_Surjection
<1>4. \A t \in T : IsFiniteSet(t)
  BY DEF DiskFinite
<1> QED BY <1>3, <1>4, FS_UNION DEF RowsOf

FirstRows == [key : Keys, val : {1}, cell : {TRUE}]

\* The rows of the table the system may start with are finitely many.
LEMMA FirstRowsFinite ==
    IsFiniteSet(FirstRows) /\ Cardinality(FirstRows) \in Nat /\ FirstRows \in SUBSET Row
<1> DEFINE f == [k \in Keys |-> [key |-> k, val |-> 1, cell |-> TRUE]]
<1>0. ASSUME NEW r \in FirstRows PROVE r.key \in Keys /\ r = [key |-> r.key, val |-> 1, cell |-> TRUE]
  <2>1. r = [key |-> r.key, val |-> 1, cell |-> TRUE]
    BY Zenon DEF FirstRows
  <2> QED BY <2>1 DEF FirstRows
<1>1. \A r \in FirstRows : r.key \in Keys /\ r = f[r.key]
  BY <1>0
<1>2. \A k \in Keys : f[k] \in FirstRows
  BY DEF FirstRows
<1>3. f \in [Keys -> FirstRows]
  BY <1>2
<1> HIDE DEF f
<1>4. f \in Surjection(Keys, FirstRows)
  BY <1>1, <1>3 DEF Surjection
<1>5. IsFiniteSet(FirstRows)
  BY <1>4, FS_Surjection, TableStoreAssumption
<1>6. \A k \in Keys : [key |-> k, val |-> 1, cell |-> TRUE] \in Row
  BY DEF Row
<1>7. FirstRows \in SUBSET Row
  BY <1>0, <1>6
<1> QED BY <1>5, <1>7, FS_CardinalityType

\* A caller that does nothing is sound.
LEMMA IdleSound == Sound(Idle)
<1>1. Idle \in Writer
  BY DEF Idle, Writer, Steps
<1> QED BY <1>1, FS_EmptySet DEF Sound, Fits, Idle

\* The invariant of types holds at the start.
LEMMA InitTypes == Init => TypeInv
<1> SUFFICES ASSUME Init PROVE TypeInv
  OBVIOUS
<1>1. /\ row \in [id : Nat, version : Nat, total : Nat] /\ RowHasId
      /\ listed \in SUBSET Nat /\ disk \in SUBSET File /\ DiskFinite
  <2>1. CASE row = NoRow /\ listed = {} /\ disk = {}
    BY <2>1, FS_EmptySet DEF Init, NoRow, RowHasId, DiskFinite
  <2>2. CASE /\ row = [id |-> 1, version |-> 3, total |-> Cardinality(FirstRows)]
             /\ listed = {1} /\ disk = {[id |-> 1, rows |-> FirstRows]}
    <3>1. [id |-> 1, rows |-> FirstRows] \in File
      BY FirstRowsFinite DEF File
    <3>2. row \in [id : Nat, version : Nat, total : Nat]
      BY <2>2, FirstRowsFinite
    <3>3. IsFiniteSet(disk) /\ disk \in SUBSET File /\ \A g \in disk : g.rows = FirstRows
      BY <2>2, <3>1, FS_Singleton
    <3> QED BY <2>2, <3>2, <3>3, FirstRowsFinite DEF Init, RowHasId, DiskFinite
  <2> QED BY <2>1, <2>2 DEF Init, FirstRows
<1>2. WritersSound
  BY IdleSound DEF Init, WritersSound, Sound
<1>3. history \in History
  BY DEF Init, History
<1>4. index \in [version : Int, rows : SUBSET Row, of : Nat]
  BY DEF Init, NoIndex
<1>5. /\ dropping \in BOOLEAN
      /\ builder \in [pc : {"idle", "list", "read"}, version : Nat, of : Nat, base : SUBSET Nat]
      /\ nextOp \in Nat /\ builds \in Nat /\ mishaps \in Nat
  BY DEF Init, NoBuild
<1> QED BY <1>1, <1>2, <1>3, <1>4, <1>5 DEF TypeInv, TypeOK, WritersSound

-----------------------------------------------------------------------------
\* A writer that moves on with a sound record, and one that returns.
LEMMA WriterMoves ==
    ASSUME TypeInv, NEW w \in Writers, NEW t, Sound(t), writers' = [writers EXCEPT ![w] = t]
    PROVE  WritersSound'
BY DEF TypeInv, WritersSound, Sound

\* A caller that returns stays sound.
LEMMA WriterReturns ==
    ASSUME TypeInv, NEW w \in Writers, Return(w)
    PROVE  WritersSound'
BY IdleSound, WriterMoves DEF Return

\* A caller that only moves on stays sound, if it may stand there.
LEMMA WriterGoes ==
    ASSUME TypeInv, NEW w \in Writers, NEW pc \in Steps, Go(w, pc), Fits([writers[w] EXCEPT !.pc = pc])
    PROVE  WritersSound'
<1> DEFINE t == [writers[w] EXCEPT !.pc = pc]
<1>1. Sound(writers[w])
  BY DEF TypeInv, WritersSound
<1>2. t \in Writer /\ t.rows = writers[w].rows
  BY <1>1 DEF Sound, Writer
<1>3. writers' = [writers EXCEPT ![w] = t]
  BY DEF Go
<1>4. Fits(t)
  OBVIOUS
<1> HIDE DEF t
<1> QED BY <1>1, <1>2, <1>3, <1>4, WriterMoves DEF Sound

\* What is left to show of a step that changes a writer, the catalog or the disk.
LEMMA TypesKept ==
    ASSUME TypeInv,
           row' \in [id : Nat, version : Nat, total : Nat], RowHasId',
           listed' \in SUBSET Nat, disk' \in SUBSET File, DiskFinite',
           WritersSound', history' \in History,
           UNCHANGED <<dropping, cache, counters>>
    PROVE  TypeInv'
BY DEF TypeInv, TypeOK, WritersSound, cache, counters

\* A step of one caller that leaves catalog and disk alone keeps the types.
LEMMA OnlyWriter ==
    ASSUME TypeInv, WritersSound', UNCHANGED <<catalog, disk, dropping, cache, history, counters>>
    PROVE  TypeInv'
BY TypesKept DEF TypeInv, TypeOK, RowHasId, DiskFinite, catalog, counters

\* The types, operation by operation.
LEMMA BeginTypes ==
    ASSUME TypeInv, NEW w \in Writers, NEW k \in Kinds, NEW b \in {{}} \cup Batches, Begin(w, k, b)
    PROVE  TypeInv'
<1> DEFINE pc == IF k = "strip" THEN "list" ELSE "lookup"
           t == [Idle EXCEPT !.pc = pc, !.kind = k, !.op = nextOp, !.batch = b, !.tries = 1]
<1>1. nextOp \in Nat /\ nextOp # 0 /\ b \in SUBSET Keys /\ k # "none"
      /\ pc = IF k = "strip" THEN "list" ELSE "lookup"
  BY TableStoreAssumption DEF TypeInv, TypeOK, RowHasId
<1>2. writers' = [writers EXCEPT ![w] = t]
  BY DEF Begin, GoWith
<1> HIDE DEF pc
<1>3. pc \in Steps
  BY <1>1 DEF Steps
<1>4. Idle \in Writer /\ Idle.rows = {}
  BY IdleSound DEF Sound, Idle
<1>5. t \in Writer /\ t.pc = pc /\ t.kind = k /\ t.op = nextOp /\ t.rows = {}
  BY <1>1, <1>3, <1>4 DEF Writer
<1> HIDE DEF t
<1>6. Fits(t)
  BY <1>1, <1>5 DEF Fits, Reading, Revising, Ingest
<1>8. WritersSound'
  BY <1>2, <1>5, <1>6, FS_EmptySet, WriterMoves DEF Sound
<1>9. history' \in History
  BY DEF Begin, History, TypeInv, TypeOK
<1> QED BY <1>1, <1>8, <1>9 DEF TypeInv, TypeOK, WritersSound, DiskFinite, RowHasId, Begin, catalog, cache

\* Lookup: the types.
LEMMA LookupTypes == ASSUME TypeInv, NEW w \in Writers, Lookup(w) PROVE TypeInv'
<1> DEFINE next == AfterLookup(writers[w].kind, row # NoRow)
           t == [writers[w] EXCEPT !.pc = next, !.tid = row.id,
                    !.version = IF Is(w, "materialize") THEN row.version ELSE 0,
                    !.total = IF Is(w, "append") THEN row.total ELSE 0]
<1>1. CASE next = "idle"
  <2>1. Return(w)
    BY <1>1 DEF Lookup
  <2> QED BY <2>1, WriterReturns, OnlyWriter DEF Lookup
<1>2. CASE next # "idle"
  <2>1. /\ row \in [id : Nat, version : Nat, total : Nat] /\ RowHasId
        /\ Sound(writers[w]) /\ writers[w].pc = "lookup"
    BY DEF TypeInv, TypeOK, WritersSound, Lookup, At
  <2>2. writers' = [writers EXCEPT ![w] = t]
    BY <1>2 DEF Lookup, GoWith
  <2>3. /\ next \in Steps
        /\ next = "create" => writers[w].kind = "merge"
        /\ next = "list" => writers[w].kind \in {"merge", "materialize"} /\ row # NoRow
        /\ next = "relist" => writers[w].kind \in {"rewrite", "overwrite"} /\ row # NoRow
        /\ next = "write" => writers[w].kind \in {"append", "rewrite", "overwrite"}
        /\ next \in {"create", "list", "relist", "write"}
    <3>1. writers[w].kind \in {"merge", "materialize", "rewrite", "append", "overwrite"}
      BY <2>1, TableStoreAssumption DEF Sound, Writer, Fits
    <3> QED BY <1>2, <3>1 DEF AfterLookup, Steps
  <2>4. t \in Writer /\ t.rows = writers[w].rows
    BY <2>1, <2>3 DEF Sound, Writer
  <2>5. t.pc = next /\ t.kind = writers[w].kind /\ t.op = writers[w].op /\ t.tid = row.id
    BY <2>1 DEF Sound, Writer
  <2> HIDE DEF next, t
  <2>6. Fits(t)
    BY <1>2, <2>1, <2>3, <2>5 DEF Fits, Sound, Reading, Revising, Ingest, RowHasId
  <2> QED BY <2>1, <2>2, <2>4, <2>6, WriterMoves, OnlyWriter DEF Lookup, Sound
<1> QED BY <1>1, <1>2

\* The rows the catalog leads to are rows of files, finitely many.
LEMMA RowsKnown ==
    ASSUME TypeInv
    PROVE  \A ids : RowsOf(ids) \in SUBSET Row /\ IsFiniteSet(RowsOf(ids))
<1>1. \A ids : RowsOf(ids) \in SUBSET Row
  BY DEF TypeInv, TypeOK, RowsOf, File
<1>2. \A ids : IsFiniteSet(RowsOf(ids))
  BY RowsOfFinite DEF TypeInv
<1> QED BY <1>1, <1>2

\* What is known of a writer that takes a step.
LEMMA Known ==
    ASSUME TypeInv, NEW w \in Writers
    PROVE  /\ Sound(writers[w]) /\ writers[w] \in Writer
           /\ row \in [id : Nat, version : Nat, total : Nat] /\ RowHasId
           /\ listed \in SUBSET Nat /\ disk \in SUBSET File /\ DiskFinite
           /\ \A ids : RowsOf(ids) \in SUBSET Row /\ IsFiniteSet(RowsOf(ids))
BY RowsKnown DEF TypeInv, TypeOK, WritersSound, Sound

\* Create: the types.
LEMMA CreateTypes == ASSUME TypeInv, NEW w \in Writers, Create(w) PROVE TypeInv'
<1> DEFINE t == [writers[w] EXCEPT !.tid = writers[w].op,
                    !.pc = CASE Is(w, "merge")   -> "createMeta"
                             [] Is(w, "rewrite") -> "swap"
                             [] OTHER            -> "meta"]
<1>1. CASE row # NoRow
  <2>1. Return(w) /\ UNCHANGED row
    BY <1>1 DEF Create
  <2> QED BY <2>1, WriterReturns, OnlyWriter DEF Create, catalog
<1>2. CASE row = NoRow
  <2>1. /\ Sound(writers[w]) /\ writers[w] \in Writer /\ writers[w].pc = "create"
        /\ writers[w].op # 0 /\ writers[w].kind \notin Revising \cup {"none"}
    BY Known DEF Create, At, Sound, Fits
  <2>2. writers' = [writers EXCEPT ![w] = t] /\ row' = [NoRow EXCEPT !.id = writers[w].op]
    BY <1>2 DEF Create, GoWith
  <2>3. t \in Writer /\ t.rows = writers[w].rows /\ t.op = writers[w].op /\ t.kind = writers[w].kind
        /\ t.tid = writers[w].op
        /\ t.pc = CASE Is(w, "merge") -> "createMeta" [] Is(w, "rewrite") -> "swap" [] OTHER -> "meta"
    BY <2>1 DEF Writer, Steps
  <2> HIDE DEF t
  <2>4. Fits(t)
    BY <2>1, <2>3 DEF Fits, Reading, Revising, Ingest, Is
  <2>5. WritersSound'
    BY <2>1, <2>2, <2>3, <2>4, WriterMoves DEF Sound
  <2>6. row' \in [id : Nat, version : Nat, total : Nat] /\ RowHasId'
    BY <2>1, <2>2, Known DEF NoRow, Writer, RowHasId, Create, counters
  <2> QED BY <2>5, <2>6, TypesKept, Known DEF Create, DiskFinite, TypeInv, TypeOK
<1> QED BY <1>1, <1>2

\* update_table_meta keeps a row a row.
LEMMA BumpedTyped ==
    ASSUME TypeInv, NEW total \in Nat, NEW w \in Writers, row.id = writers[w].tid, writers[w].tid # 0,
           row' = Bumped(total), nextOp' = nextOp
    PROVE  row' \in [id : Nat, version : Nat, total : Nat] /\ RowHasId'
<1>1. row \in [id : Nat, version : Nat, total : Nat] /\ RowHasId
  BY Known
<1>2. row.version + 1 \in Nat /\ row' = [row EXCEPT !.version = row.version + 1, !.total = total]
  BY <1>1 DEF Bumped
<1>3. row' \in [id : Nat, version : Nat, total : Nat]
  BY <1>1, <1>2
<1>4. row'.id = row.id
  BY <1>1, <1>2
<1> QED BY <1>1, <1>3, <1>4 DEF RowHasId

\* CreateMeta: the types.
LEMMA CreateMetaTypes == ASSUME TypeInv, NEW w \in Writers, CreateMeta(w) PROVE TypeInv'
<1>1. /\ Sound(writers[w]) /\ writers[w] \in Writer /\ writers[w].pc = "createMeta"
      /\ writers[w].tid # 0 /\ writers[w].kind = "merge"
  BY Known DEF CreateMeta, At, Sound, Fits
<1>2. CASE row.id = writers[w].tid
  <2>1. row' = Bumped(0) /\ Go(w, "list")
    BY <1>2 DEF CreateMeta
  <2>2. Fits([writers[w] EXCEPT !.pc = "list"])
    BY <1>1 DEF Sound, Fits, Writer, Reading, Revising, Ingest
  <2>3. WritersSound'
    BY <2>1, <2>2, WriterGoes DEF Steps
  <2>4. row' \in [id : Nat, version : Nat, total : Nat] /\ RowHasId'
    BY <1>1, <1>2, <2>1, BumpedTyped DEF CreateMeta, counters
  <2> QED BY <2>3, <2>4, TypesKept, Known DEF CreateMeta, DiskFinite, TypeInv, TypeOK
<1>3. CASE row.id # writers[w].tid
  BY <1>3, WriterReturns, OnlyWriter DEF CreateMeta, catalog
<1> QED BY <1>2, <1>3

\* List: the types.
LEMMA ListTypes == ASSUME TypeInv, NEW w \in Writers, List(w) PROVE TypeInv'
<1> DEFINE ids == ListFor(IF Is(w, "merge") THEN writers[w].tid ELSE row.id)
           t == [writers[w] EXCEPT !.pc = "read", !.base = ids,
                                   !.seen = RowsOf(ids), !.old = ids]
<1>1. CASE ~Is(w, "merge") /\ row = NoRow
  <2>1. Return(w)
    BY <1>1 DEF List
  <2> QED BY <2>1, WriterReturns, OnlyWriter DEF List
<1>2. CASE ~(~Is(w, "merge") /\ row = NoRow)
  <2>1. /\ Sound(writers[w]) /\ writers[w] \in Writer /\ writers[w].pc = "list"
        /\ writers[w].op # 0 /\ writers[w].kind \in Reading
        /\ writers[w].kind = "merge" => writers[w].tid # 0
    BY Known DEF List, At, Sound, Fits, Reading
  <2>2. writers' = [writers EXCEPT ![w] = t]
    BY <1>2 DEF List, GoWith
  <2>3. ids \in SUBSET Nat /\ RowsOf(ids) \in SUBSET Row
    BY <2>1, Known DEF ListFor
  <2> HIDE DEF ids
  <2>4. t \in Writer /\ t.rows = writers[w].rows /\ t.op = writers[w].op /\ t.kind = writers[w].kind
        /\ t.tid = writers[w].tid /\ t.pc = "read"
    BY <2>1, <2>3 DEF Writer, Steps
  <2> HIDE DEF t
  <2>5. Fits(t)
    BY <2>1, <2>3, <2>4 DEF Fits, Reading, Revising, Ingest, Is
  <2>6. WritersSound'
    BY <2>1, <2>2, <2>4, <2>5, WriterMoves DEF Sound
  <2> QED BY <2>6, OnlyWriter DEF List
<1> QED BY <1>1, <1>2

\* What an operation computes are rows.
LEMMA ResultTyped ==
    ASSUME TypeInv, NEW w \in Writers, writers[w].kind \in Reading,
           NEW old \in SUBSET Row, IsFiniteSet(old)
    PROVE  Result(w, old) \in SUBSET Row /\ IsFiniteSet(Result(w, old))
<1>1. Brought(w) \in SUBSET Row /\ IsFiniteSet(Brought(w))
  BY Known, BroughtTyped
<1>2. \A b \in BOOLEAN : WithCells(old, b) \in SUBSET Row /\ IsFiniteSet(WithCells(old, b))
  BY WithCellsFinite, WithCellsTyped
<1>3. Upsert(old, Brought(w)) \in SUBSET Row /\ IsFiniteSet(Upsert(old, Brought(w)))
  BY <1>1, UpsertFinite DEF Upsert
<1> QED BY <1>2, <1>3 DEF Result, Is, Reading

\* Read: the types.
LEMMA ReadTypes == ASSUME TypeInv, NEW w \in Writers, Read(w) PROVE TypeInv'
<1> DEFINE rows == Result(w, RowsOf(writers[w].base))
           pc == IF Is(w, "merge") THEN "write" ELSE "check"
           t == [writers[w] EXCEPT !.rows = rows, !.pc = pc]
<1>1. CASE Return(w)
  BY <1>1, WriterReturns, OnlyWriter DEF Read
<1>2. CASE GoWith(w, t)
  <2>1. /\ Sound(writers[w]) /\ writers[w] \in Writer /\ writers[w].pc = "read"
        /\ writers[w].op # 0 /\ writers[w].kind \in Reading
        /\ writers[w].kind = "merge" => writers[w].tid # 0
    BY Known DEF Read, At, Sound, Fits, Reading
  <2>2. rows \in SUBSET Row /\ IsFiniteSet(rows)
    BY <2>1, Known, ResultTyped
  <2>3. writers' = [writers EXCEPT ![w] = t] /\ pc = IF Is(w, "merge") THEN "write" ELSE "check"
    BY <1>2 DEF GoWith
  <2> HIDE DEF rows, pc
  <2>4. t \in Writer /\ t.rows = rows /\ t.op = writers[w].op /\ t.kind = writers[w].kind
        /\ t.tid = writers[w].tid /\ t.pc = pc
    BY <2>1, <2>2, <2>3 DEF Writer, Steps
  <2> HIDE DEF t
  <2>5. Fits(t)
    BY <2>1, <2>3, <2>4 DEF Fits, Reading, Revising, Ingest, Is
  <2>6. WritersSound'
    BY <2>2, <2>3, <2>4, <2>5, WriterMoves DEF Sound
  <2> QED BY <2>6, OnlyWriter DEF Read
<1> QED BY <1>1, <1>2 DEF Read

\* Check: the types.
LEMMA CheckTypes == ASSUME TypeInv, NEW w \in Writers, Check(w) PROVE TypeInv'
<1> DEFINE again == [writers[w] EXCEPT !.pc = "lookup", !.tries = @ + 1]
           on == [writers[w] EXCEPT !.pc = "relist", !.tid = row.id]
<1>0. /\ Sound(writers[w]) /\ writers[w] \in Writer /\ writers[w].pc = "check"
      /\ writers[w].op # 0 /\ writers[w].kind \in Revising
  BY Known DEF Check, At, Sound, Fits
<1>1. CASE Return(w)
  BY <1>1, WriterReturns, OnlyWriter DEF Check
<1>2. CASE Conflict(w) /\ writers[w].tries < 2 /\ GoWith(w, again)
  <2>1. writers[w].tries + 1 \in {0, 1, 2}
    BY <1>0, <1>2 DEF Writer
  <2>2. writers' = [writers EXCEPT ![w] = again]
    BY <1>2 DEF GoWith
  <2>3. again \in Writer /\ again.rows = writers[w].rows /\ again.op = writers[w].op
        /\ again.kind = "materialize" /\ again.pc = "lookup"
    BY <1>0, <1>2, <2>1 DEF Writer, Steps, Conflict, Is
  <2> HIDE DEF again
  <2>4. Fits(again)
    BY <1>0, <2>3 DEF Fits, Reading, Revising, Ingest
  <2> QED BY <1>0, <2>2, <2>3, <2>4, WriterMoves, OnlyWriter DEF Sound, Check
<1>3. CASE row # NoRow /\ GoWith(w, on)
  <2>1. row.id \in Nat /\ row.id # 0
    BY <1>3, Known DEF RowHasId
  <2>2. writers' = [writers EXCEPT ![w] = on]
    BY <1>3 DEF GoWith
  <2>3. on \in Writer /\ on.rows = writers[w].rows /\ on.op = writers[w].op
        /\ on.kind = writers[w].kind /\ on.pc = "relist" /\ on.tid = row.id
    BY <1>0, <2>1 DEF Writer, Steps
  <2> HIDE DEF on
  <2>4. Fits(on)
    BY <1>0, <2>1, <2>3 DEF Fits, Reading, Revising, Ingest
  <2> QED BY <1>0, <2>2, <2>3, <2>4, WriterMoves, OnlyWriter DEF Sound, Check
<1> QED BY <1>0, <1>1, <1>2, <1>3 DEF Check, Writer

\* Relist: the types.
LEMMA RelistTypes == ASSUME TypeInv, NEW w \in Writers, Relist(w) PROVE TypeInv'
<1> DEFINE pc == IF Is(w, "overwrite") THEN "unlink" ELSE "write"
           old == ListFor(writers[w].tid)
           t == [writers[w] EXCEPT !.old = old, !.pc = pc]
<1>1. /\ Sound(writers[w]) /\ writers[w] \in Writer /\ writers[w].pc = "relist"
      /\ writers[w].op # 0 /\ writers[w].tid # 0
      /\ writers[w].kind \in {"materialize", "strip", "rewrite", "overwrite"}
  BY Known DEF Relist, At, Sound, Fits
<1>2. writers' = [writers EXCEPT ![w] = t] /\ pc = IF Is(w, "overwrite") THEN "unlink" ELSE "write"
  BY DEF Relist, GoWith
<1>3. old \in SUBSET Nat
  BY Known DEF ListFor
<1> HIDE DEF pc, old
<1>4. t \in Writer /\ t.rows = writers[w].rows /\ t.op = writers[w].op /\ t.kind = writers[w].kind
      /\ t.tid = writers[w].tid /\ t.pc = pc
  BY <1>1, <1>2, <1>3 DEF Writer, Steps
<1> HIDE DEF t
<1>5. Fits(t)
  BY <1>1, <1>2, <1>4 DEF Fits, Reading, Revising, Ingest, Is
<1> QED BY <1>1, <1>2, <1>4, <1>5, WriterMoves, OnlyWriter DEF Sound, Relist

\* Taking files off the disk.
LEMMA FilesGone ==
    ASSUME TypeInv, NEW ids, disk' = {f \in disk : f.id \notin ids}
    PROVE  disk' \in SUBSET File /\ DiskFinite'
<1>1. disk' \in SUBSET disk /\ IsFiniteSet(disk)
  BY DEF TypeInv, DiskFinite
<1>2. IsFiniteSet(disk')
  BY <1>1, FS_Subset
<1> QED BY <1>1, <1>2 DEF TypeInv, TypeOK, DiskFinite

\* Unlink: the types.
LEMMA UnlinkTypes == ASSUME TypeInv, NEW w \in Writers, Unlink(w) PROVE TypeInv'
<1>1. Sound(writers[w]) /\ writers[w].pc = "unlink"
  BY Known DEF Unlink, At
<1>2. Fits([writers[w] EXCEPT !.pc = "unlist"])
  BY <1>1 DEF Sound, Fits, Writer, Reading, Revising, Ingest
<1>3. WritersSound'
  BY <1>2, WriterGoes DEF Unlink, Steps
<1>4. disk' \in SUBSET File /\ DiskFinite'
  BY FilesGone DEF Unlink
<1>5. history' \in History
  BY DEF Unlink, History, TypeInv, TypeOK
<1> QED BY <1>3, <1>4, <1>5, TypesKept DEF Unlink, catalog, counters, RowHasId, TypeInv, TypeOK

\* Unlist: the types.
LEMMA UnlistTypes == ASSUME TypeInv, NEW w \in Writers, Unlist(w) PROVE TypeInv'
<1>1. Sound(writers[w]) /\ writers[w].pc = "unlist"
  BY Known DEF Unlist, At
<1>2. Fits([writers[w] EXCEPT !.pc = "write"])
  BY <1>1 DEF Sound, Fits, Writer, Reading, Revising, Ingest
<1>3. WritersSound'
  BY <1>2, WriterGoes DEF Unlist, Steps
<1>4. history' \in History
  BY DEF Unlist, History, TypeInv, TypeOK
<1>5. listed' \in SUBSET Nat
  BY Known DEF Unlist
<1> QED BY <1>3, <1>4, <1>5, TypesKept DEF Unlist, counters, RowHasId, DiskFinite, TypeInv, TypeOK

\* The file that Write brings to the disk, and where it goes on.
WrittenRows(w) ==
    IF writers[w].kind \in Ingest \/ Is(w, "rewrite") THEN Brought(w) ELSE writers[w].rows

\* Of the history, Write and Meta change what total_rows counts in excess at most.
LEMMA OnlyStale ==
    ASSUME TypeInv, NEW w \in Writers, Write(w) \/ Meta(w)
    PROVE  /\ history' \in History
           /\ history'.overlap = history.overlap /\ history'.dropped = history.dropped
           /\ history'.torn = history.torn /\ history'.ingested = history.ingested
           /\ history'.unbumped = history.unbumped
<1>1. history \in History /\ row.total \in Nat
  BY DEF TypeInv, TypeOK
<1>2. \/ history' = history \/ history' = [history EXCEPT !.stale = row.total]
      \/ history' = [history EXCEPT !.stale = 0]
  BY DEF Write, Meta
<1> QED BY <1>1, <1>2 DEF History

\* Write: the types.
LEMMA WriteTypes == ASSUME TypeInv, NEW w \in Writers, Write(w) PROVE TypeInv'
<1> DEFINE rows == WrittenRows(w)
           pc == IF writers[w].tid = 0 THEN "create"
                 ELSE IF writers[w].kind \in Ingest THEN "meta" ELSE "swap"
           t == [writers[w] EXCEPT !.rows = rows, !.pc = pc]
           file == [id |-> writers[w].op, rows |-> rows]
<1>0. /\ Sound(writers[w]) /\ writers[w] \in Writer /\ writers[w].pc = "write"
      /\ writers[w].op # 0 /\ writers[w].kind # "none"
      /\ writers[w].kind \in Reading => writers[w].tid # 0
  BY Known DEF Write, At, Sound, Fits
<1>1. CASE Return(w) /\ UNCHANGED disk
  BY <1>1, WriterReturns, OnlyStale, TypesKept DEF Write, catalog, RowHasId, DiskFinite, TypeInv, TypeOK, counters
<1>2. CASE disk' = disk \cup {file} /\ GoWith(w, t)
  <2>1. rows \in SUBSET Row /\ IsFiniteSet(rows)
    BY <1>0, BroughtTyped DEF WrittenRows, Sound, Writer
  <2>2. /\ writers' = [writers EXCEPT ![w] = t]
        /\ pc \in {"create", "meta", "swap"}
        /\ pc = "create" => writers[w].kind \notin Reading
        /\ pc # "create" => writers[w].tid # 0
        /\ pc = "swap" => writers[w].kind \notin Ingest
    BY <1>0, <1>2 DEF GoWith
  <2> HIDE DEF rows, pc
  <2>3. t \in Writer /\ t.rows = rows /\ t.op = writers[w].op /\ t.kind = writers[w].kind
        /\ t.tid = writers[w].tid /\ t.pc = pc
    BY <1>0, <2>1, <2>2 DEF Writer, Steps
  <2> HIDE DEF t
  <2>4. Fits(t)
    BY <1>0, <2>2, <2>3 DEF Fits, Reading, Revising, Ingest
  <2>5. WritersSound'
    BY <2>1, <2>2, <2>3, <2>4, WriterMoves DEF Sound
  <2>6. file \in File
    BY <1>0, <2>1 DEF File, Writer
  <2>7. file.rows = rows
    OBVIOUS
  <2> HIDE DEF file
  <2>8. disk' \in SUBSET File /\ DiskFinite'
    BY <1>2, <2>1, <2>6, <2>7, Known, FS_AddElement DEF DiskFinite
  <2>9. history' \in History
    BY OnlyStale
  <2> QED BY <2>5, <2>8, <2>9, TypesKept DEF Write, catalog, counters, RowHasId, TypeInv, TypeOK
<1> QED BY <1>1, <1>2 DEF Write, WrittenRows, Ingest

\* Swap: the types.
LEMMA SwapTypes == ASSUME TypeInv, NEW w \in Writers, Swap(w) PROVE TypeInv'
<1>1. CASE Return(w) /\ UNCHANGED listed
  BY <1>1, WriterReturns, OnlyWriter DEF Swap, catalog
<1>2. CASE listed' = {writers[w].op} /\ Go(w, "meta")
  <2>1. Sound(writers[w]) /\ writers[w] \in Writer /\ writers[w].pc = "swap"
    BY Known DEF Swap, At
  <2>2. Fits([writers[w] EXCEPT !.pc = "meta"])
    BY <2>1 DEF Sound, Fits, Writer, Reading, Revising, Ingest
  <2>3. WritersSound'
    BY <1>2, <2>2, WriterGoes DEF Steps
  <2>4. listed' \in SUBSET Nat
    BY <1>2, <2>1 DEF Writer
  <2> QED BY <2>3, <2>4, TypesKept DEF Swap, counters, RowHasId, DiskFinite, TypeInv, TypeOK
<1> QED BY <1>1, <1>2 DEF Swap

\* Meta: the types.
LEMMA MetaTypes == ASSUME TypeInv, NEW w \in Writers, Meta(w) PROVE TypeInv'
<1> DEFINE total == Cardinality(writers[w].rows)
                      + (IF Is(w, "append") THEN writers[w].total ELSE 0)
           pc == IF writers[w].kind \in Ingest THEN "add" ELSE "clean"
<1>0. /\ Sound(writers[w]) /\ writers[w] \in Writer /\ writers[w].pc = "meta"
      /\ writers[w].kind # "none" /\ writers[w].tid # 0
  BY Known DEF Meta, At, Sound, Fits
<1>1. Fits([writers[w] EXCEPT !.pc = pc]) /\ Fits([writers[w] EXCEPT !.pc = "clean"])
  BY <1>0 DEF Sound, Fits, Writer, Reading, Revising, Ingest
<1>2. CASE row.id = writers[w].tid
  <2>1. row' = Bumped(total) /\ Go(w, pc)
    BY <1>2 DEF Meta, Ingest
  <2>2. total \in Nat
    BY <1>0, FS_CardinalityType DEF Sound, Writer
  <2> HIDE DEF total
  <2>3. WritersSound'
    BY <1>1, <2>1, WriterGoes DEF Steps
  <2>4. row' \in [id : Nat, version : Nat, total : Nat] /\ RowHasId'
    BY <1>0, <1>2, <2>1, <2>2, BumpedTyped DEF Meta, counters
  <2>5. history' \in History
    BY OnlyStale
  <2> QED BY <2>3, <2>4, <2>5, TypesKept, Known DEF Meta, DiskFinite, TypeInv, TypeOK
<1>3. CASE row.id # writers[w].tid
  <2>1. WritersSound'
    BY <1>1, <1>3, WriterGoes, WriterReturns DEF Meta, Steps
  <2> QED BY <1>3, <2>1, OnlyWriter DEF Meta, catalog
<1> QED BY <1>2, <1>3

\* Add: the types.
LEMMA AddTypes == ASSUME TypeInv, NEW w \in Writers, Add(w) PROVE TypeInv'
<1> DEFINE t == [writers[w] EXCEPT !.old = {}, !.pc = "clean"]
<1>1. CASE Return(w) /\ UNCHANGED listed
  BY <1>1, WriterReturns, OnlyWriter DEF Add, catalog
<1>2. CASE listed' = listed \cup {writers[w].op} /\ GoWith(w, t)
  <2>1. Sound(writers[w]) /\ writers[w] \in Writer /\ writers[w].pc = "add"
    BY Known DEF Add, At
  <2>2. t \in Writer /\ t.rows = writers[w].rows /\ t.op = writers[w].op /\ t.kind = writers[w].kind
        /\ t.pc = "clean"
    BY <2>1 DEF Writer, Steps
  <2>3. writers' = [writers EXCEPT ![w] = t]
    BY <1>2 DEF GoWith
  <2> HIDE DEF t
  <2>4. Fits(t)
    BY <2>1, <2>2 DEF Sound, Fits, Reading, Revising, Ingest
  <2>5. WritersSound'
    BY <2>1, <2>2, <2>3, <2>4, WriterMoves DEF Sound
  <2>6. listed' \in SUBSET Nat
    BY <1>2, <2>1, Known DEF Writer
  <2> QED BY <2>5, <2>6, TypesKept DEF Add, counters, RowHasId, DiskFinite, TypeInv, TypeOK
<1> QED BY <1>1, <1>2 DEF Add

\* Clean: the types.
LEMMA CleanTypes == ASSUME TypeInv, NEW w \in Writers, Clean(w) PROVE TypeInv'
<1>1. disk' \in SUBSET File /\ DiskFinite'
  BY FilesGone DEF Clean
<1> QED BY <1>1, WriterReturns, TypesKept DEF Clean, catalog, counters, RowHasId, TypeInv, TypeOK

\* Fail: the types.
LEMMA FailTypes == ASSUME TypeInv, NEW w \in Writers, Fail(w) PROVE TypeInv'
<1>1. history' \in History
  BY DEF Fail, History, TypeInv, TypeOK
<1>2. WritersSound'
  BY WriterReturns DEF Fail
<1> QED BY <1>1, <1>2 DEF Fail, catalog, cache, RowHasId, DiskFinite, WritersSound, TypeInv, TypeOK

\* Other: the types.
LEMMA OtherTypes ==
    TypeInv /\ (DeleteRow \/ RemoveDir \/ IndexLookup \/ IndexList \/ IndexStore \/ Crash) => TypeInv'
<1> SUFFICES ASSUME TypeInv, DeleteRow \/ RemoveDir \/ IndexLookup \/ IndexList \/ IndexStore \/ Crash
             PROVE  TypeInv'
  OBVIOUS
<1>1. CASE DeleteRow
  <2>1. row' \in [id : Nat, version : Nat, total : Nat] /\ listed' \in SUBSET Nat /\ dropping' \in BOOLEAN
    BY <1>1 DEF DeleteRow, NoRow
  <2>2. history' \in History
    BY <1>1 DEF DeleteRow, History, TypeInv, TypeOK
  <2> QED BY <1>1, <2>1, <2>2 DEF DeleteRow, cache, counters, RowHasId, DiskFinite, WritersSound,
                                  TypeInv, TypeOK
<1>2. CASE RemoveDir
  BY <1>2, FS_EmptySet DEF RemoveDir, catalog, cache, counters, RowHasId, DiskFinite, WritersSound,
                           TypeInv, TypeOK
<1>3. CASE IndexLookup
  <2>1. builder' \in [pc : {"idle", "list", "read"}, version : Nat, of : Nat, base : SUBSET Nat]
    BY <1>3 DEF IndexLookup, NoBuild, TypeInv, TypeOK
  <2> QED BY <1>3, <2>1 DEF IndexLookup, catalog, RowHasId, DiskFinite, WritersSound, TypeInv, TypeOK
<1>4. CASE IndexList
  <2>1. builder' \in [pc : {"idle", "list", "read"}, version : Nat, of : Nat, base : SUBSET Nat]
    BY <1>4 DEF IndexList, NoBuild, TypeInv, TypeOK
  <2> QED BY <1>4, <2>1 DEF IndexList, catalog, counters, RowHasId, DiskFinite, WritersSound, TypeInv, TypeOK
<1>5. CASE IndexStore
  <2>1. index' \in [version : Int, rows : SUBSET Row, of : Nat]
    <3>1. [version |-> builder.version, rows |-> RowsOf(builder.base), of |-> builder.of]
             \in [version : Int, rows : SUBSET Row, of : Nat]
      <4>1. builder \in [pc : {"idle", "list", "read"}, version : Nat, of : Nat, base : SUBSET Nat]
        BY DEF TypeInv, TypeOK
      <4>2. builder.version \in Int /\ builder.of \in Nat
        BY <4>1
      <4>3. RowsOf(builder.base) \in SUBSET Row
        BY RowsKnown
      <4> QED BY <4>2, <4>3
    <3> QED BY <1>5, <3>1 DEF IndexStore, TypeInv, TypeOK
  <2>2. builder' \in [pc : {"idle", "list", "read"}, version : Nat, of : Nat, base : SUBSET Nat]
    BY <1>5 DEF IndexStore, NoBuild
  <2> QED BY <1>5, <2>1, <2>2 DEF IndexStore, catalog, counters, RowHasId, DiskFinite, WritersSound,
                                  TypeInv, TypeOK
<1>6. CASE Crash
  <2>1. WritersSound'
    BY <1>6, IdleSound DEF Crash, WritersSound, Sound
  <2>2. index' \in [version : Int, rows : SUBSET Row, of : Nat]
    BY <1>6 DEF Crash, NoIndex
  <2>3. builder' \in [pc : {"idle", "list", "read"}, version : Nat, of : Nat, base : SUBSET Nat]
    BY <1>6 DEF Crash, NoBuild
  <2>4. mishaps' \in Nat
    BY <1>6 DEF Crash, TypeInv, TypeOK
  <2>5. dropping' \in BOOLEAN
    BY <1>6 DEF Crash
  <2> QED BY <1>6, <2>1, <2>2, <2>3, <2>4, <2>5 DEF Crash, catalog, RowHasId, DiskFinite, WritersSound, TypeInv, TypeOK
<1> QED BY <1>1, <1>2, <1>3, <1>4, <1>5, <1>6

\* Every step keeps the types.
LEMMA StepTypes == TypeInv /\ [Next]_vars => TypeInv'
<1> SUFFICES ASSUME TypeInv, [Next]_vars PROVE TypeInv'
  OBVIOUS
<1>1. ASSUME NEW w \in Writers, NEW k \in Kinds, NEW b \in {{}} \cup Batches, Begin(w, k, b)
      PROVE  TypeInv'
  BY <1>1, BeginTypes
<1>2. ASSUME NEW w \in Writers,
             \/ Lookup(w) \/ Create(w) \/ CreateMeta(w) \/ List(w) \/ Read(w) \/ Check(w)
             \/ Relist(w) \/ Unlink(w) \/ Unlist(w) \/ Write(w) \/ Swap(w) \/ Meta(w) \/ Add(w)
             \/ Clean(w) \/ Fail(w)
      PROVE  TypeInv'
  BY <1>2, LookupTypes, CreateTypes, CreateMetaTypes, ListTypes, ReadTypes, CheckTypes, RelistTypes,
     UnlinkTypes, UnlistTypes, WriteTypes, SwapTypes, MetaTypes, AddTypes, CleanTypes, FailTypes
<1>3. CASE DeleteRow \/ RemoveDir \/ IndexLookup \/ IndexList \/ IndexStore \/ Crash
  BY <1>3, OtherTypes
<1>4. CASE UNCHANGED vars
  BY <1>4 DEF vars, catalog, cache, counters, RowHasId, DiskFinite, WritersSound, TypeInv, TypeOK
<1> QED BY <1>1, <1>2, <1>3, <1>4 DEF Next

(* Every reachable state is well typed: the writers' steps (ingest.rs,     *)
(* parquet.rs) and the index build never leave the shape of their state.   *)
THEOREM TypeCorrect == Spec => []TypeOK
<1>1. TypeInv => TypeOK
  BY DEF TypeInv
<1> QED BY <1>1, InitTypes, StepTypes, PTL DEF Spec

-----------------------------------------------------------------------------
\* The invariant of the refinement.  An operation has not written its file yet;
\* or it has, and the file is not listed yet.
Unwritten(t) ==
    \/ t.pc \in {"lookup", "createMeta", "list", "read", "check", "relist", "unlink", "unlist", "write"}
    \/ t.pc = "create" /\ t.kind = "merge"

Unlisted(t) ==
    \/ Unwritten(t)
    \/ t.pc \in {"create", "swap", "add"}
    \/ t.pc = "meta" /\ t.kind \in Ingest

RowsAt(d, ids) == UNION {f.rows : f \in {g \in d : g.id \in ids}}
BroughtBy(t) == {[key |-> k, val |-> t.op, cell |-> FALSE] : k \in t.batch}

\* Nothing in the files d has come from operation i, and i is no id of theirs.
Unseen(i, d) == i \notin Ids(d) /\ \A f \in d : \A r \in f.rows : r.val # i

\* An operation's number is its own until its file is there, and then until it
\* is listed.
Fresh(t, d, l) ==
    /\ Unwritten(t) => Unseen(t.op, d)
    /\ Unlisted(t) => t.op \notin l
    /\ \A r \in t.seen : r.val # t.op

\* The file under an operation's number holds what the operation computed.
OwnFile(t, d) ==
    (Unlisted(t) /\ ~Unwritten(t)) => \A f \in d : f.id = t.op => f.rows = t.rows

\* While its files are there, what is read is what the table held when listed.
Snapshot(t, d) ==
    (t.pc = "read" /\ t.base \subseteq Ids(d)) => RowsAt(d, t.base) = t.seen

\* What an operation writes is computed from the snapshot, or brought.
Computed(t) ==
    /\ (t.kind = "merge" /\ t.pc \in {"write", "swap"}) =>
          t.batch # {} /\ t.rows = Upsert(t.seen, BroughtBy(t))
    /\ (t.kind = "materialize" /\ t.pc \in {"check", "relist", "write", "swap"}) =>
          t.rows = WithCells(t.seen, TRUE)
    /\ (t.kind = "strip" /\ t.pc \in {"check", "relist", "write", "swap"}) =>
          t.rows = WithCells(t.seen, FALSE)
    /\ (t.kind \notin Reading /\ Unlisted(t) /\ ~Unwritten(t)) => t.rows = BroughtBy(t)

\* What is taken off the disk at the end is not listed any more.
Replaced(t, l) ==
    (t.pc = "clean" \/ (t.pc = "meta" /\ t.kind \notin Ingest)) => t.old \cap l = {}

Past(t, n) ==
    /\ t.pc # "idle" => t.op < n
    /\ \A i \in t.base \cup t.old : i < n
    /\ \A r \in t.rows : r.val < n

Good(t, d, l, n) ==
    Fresh(t, d, l) /\ OwnFile(t, d) /\ Snapshot(t, d) /\ Computed(t) /\ Replaced(t, l) /\ Past(t, n)

\* Two writers have different numbers, and neither knows the other's too early.
Apart(t, u) ==
    /\ t.pc # "idle" /\ u.pc # "idle" => t.op # u.op
    /\ Unwritten(t) => \A r \in u.rows : r.val # t.op

NotKnown(t, u) == Unlisted(t) => t.op \notin u.base \cup u.old

StorePast(d, l, n) ==
    (\A i \in Ids(d) \cup l : i < n) /\ \A f \in d : \A r \in f.rows : r.val < n

RefInv ==
    /\ TypeInv
    /\ StorePast(disk, listed, nextOp)
    /\ \A w \in Writers : Good(writers[w], disk, listed, nextOp)
    /\ \A w, o \in Writers : NotKnown(writers[w], writers[o])
    /\ \A w, o \in Writers : w # o => Apart(writers[w], writers[o])

-----------------------------------------------------------------------------
\* What a step of writer u may do to the disk, to the list and to itself.
Shrinks(d, e) == \E ids : e = {f \in d : f.id \notin ids}

Adds(u, d, e) ==
    \E rows : /\ e = d \cup {[id |-> u.op, rows |-> rows]}
              /\ \A r \in rows : r.val = u.op \/ r \in u.rows

Lists(u, l, m) == m \subseteq l \/ (Unlisted(u) /\ m \subseteq l \cup {u.op})

Moves(u, t, d, l) ==
    /\ u.pc # "idle"
    /\ t.pc # "idle" => t.op = u.op
    /\ Unwritten(t) => Unwritten(u)
    /\ Unlisted(t) => Unlisted(u)
    /\ t.base \subseteq u.base \cup u.old \cup l
    /\ t.old \subseteq u.base \cup u.old \cup l
    /\ \A r \in t.rows : r \in u.rows \/ r.val = u.op \/ \E f \in d : \E q \in f.rows : q.val = r.val

\* An operation whose file is not listed is at work.
LEMMA Busyness == \A t : Unlisted(t) => t.pc # "idle"
BY DEF Unlisted, Unwritten

\* Taking files away leaves a subset.
LEMMA SubsetShrinks == ASSUME NEW d, NEW e, Shrinks(d, e) PROVE e \subseteq d
BY DEF Shrinks

\* Another writer's state stays good when files go, when a file comes under
\* u's number, and when u's number is listed.
LEMMA GoodAsFilesGo ==
    ASSUME NEW t, NEW d, NEW e, NEW l, NEW n, Good(t, d, l, n), Shrinks(d, e)
    PROVE  Good(t, e, l, n)
<1>1. PICK ids : e = {f \in d : f.id \notin ids}
  BY DEF Shrinks
<1>2. Fresh(t, e, l)
  BY <1>1 DEF Good, Fresh, Unseen, Ids
<1>3. OwnFile(t, e)
  BY <1>1 DEF Good, OwnFile
<1>4. ASSUME t.pc = "read", t.base \subseteq Ids(e) PROVE RowsAt(e, t.base) = t.seen
  <2>1. t.base \subseteq Ids(d)
    BY <1>1, <1>4 DEF Ids
  <2>2. {g \in e : g.id \in t.base} = {g \in d : g.id \in t.base}
    BY <1>1, <1>4 DEF Ids
  <2> QED BY <1>4, <2>1, <2>2 DEF Good, Snapshot, RowsAt
<1> QED BY <1>2, <1>3, <1>4 DEF Good, Snapshot

\* A new file of another operation disturbs nobody.
LEMMA GoodAsFileComes ==
    ASSUME NEW t, NEW u, NEW d, NEW e, NEW l, NEW n, Good(t, d, l, n),
           Unwritten(u), Adds(u, d, e), Apart(t, u), NotKnown(u, t)
    PROVE  Good(t, e, l, n)
<1>1. PICK rows : /\ e = d \cup {[id |-> u.op, rows |-> rows]}
                  /\ \A r \in rows : r.val = u.op \/ r \in u.rows
  BY DEF Adds
<1>2. u.pc # "idle" /\ Unlisted(u)
  BY Busyness DEF Unlisted
<1>3. Unlisted(t) => t.op # u.op
  BY <1>2, Busyness DEF Apart
<1>4. Fresh(t, e, l)
  <2>1. Unwritten(t) => Unseen(t.op, e)
    BY <1>1, <1>3 DEF Good, Fresh, Unseen, Ids, Apart, Unlisted
  <2> QED BY <2>1 DEF Good, Fresh
<1>5. OwnFile(t, e)
  BY <1>1, <1>3 DEF Good, OwnFile
<1>6. ASSUME t.pc = "read", t.base \subseteq Ids(e) PROVE RowsAt(e, t.base) = t.seen
  <2>1. u.op \notin t.base
    BY <1>2 DEF NotKnown
  <2>2. t.base \subseteq Ids(d)
    BY <1>1, <1>6, <2>1 DEF Ids
  <2>3. {g \in e : g.id \in t.base} = {g \in d : g.id \in t.base}
    BY <1>1, <2>1
  <2> QED BY <1>6, <2>2, <2>3 DEF Good, Snapshot, RowsAt
<1> QED BY <1>4, <1>5, <1>6 DEF Good, Snapshot

\* Listing the file of another operation disturbs nobody.
LEMMA GoodAsListed ==
    ASSUME NEW t, NEW u, NEW d, NEW l, NEW m, NEW n, Good(t, d, l, n), Lists(u, l, m),
           Apart(t, u), NotKnown(u, t)
    PROVE  Good(t, d, m, n)
<1>1. Unlisted(t) => t.op \notin m
  BY Busyness DEF Good, Fresh, Lists, Apart
<1>2. Replaced(t, m)
  BY DEF Good, Replaced, Lists, NotKnown
<1> QED BY <1>1, <1>2 DEF Good, Fresh

\* The numbers stay apart.
LEMMA ApartStays ==
    ASSUME NEW u, NEW t, NEW o, NEW d, NEW l, NEW n, Moves(u, t, d, l),
           Good(o, d, l, n), Apart(u, o), Apart(o, u), NotKnown(u, o), NotKnown(o, u)
    PROVE  Apart(t, o) /\ Apart(o, t) /\ NotKnown(t, o) /\ NotKnown(o, t)
<1>1. Apart(t, o)
  BY Busyness DEF Moves, Apart, Unlisted
<1>2. Unwritten(o) => \A r \in t.rows : r.val # o.op
  <2> SUFFICES ASSUME Unwritten(o), NEW r \in t.rows PROVE r.val # o.op
    OBVIOUS
  <2>1. u.op # o.op
    BY Busyness DEF Apart, Unlisted, Moves
  <2>2. Unseen(o.op, d)
    BY DEF Good, Fresh
  <2> QED BY <2>1, <2>2 DEF Moves, Apart, Unseen
<1>3. Apart(o, t)
  BY <1>2 DEF Moves, Apart
<1>4. NotKnown(t, o)
  BY Busyness DEF Moves, NotKnown
<1>5. NotKnown(o, t)
  BY DEF Moves, NotKnown, Good, Fresh
<1> QED BY <1>1, <1>3, <1>4, <1>5

\* What a step of one writer leaves to show: its own state is good, and it
\* moves as it may.
LEMMA StepKeeps ==
    ASSUME RefInv, TypeInv', NEW w \in Writers, NEW t, writers' = [writers EXCEPT ![w] = t],
           Moves(writers[w], t, disk, listed),
           Shrinks(disk, disk') \/ (Unwritten(writers[w]) /\ Adds(writers[w], disk, disk')),
           Lists(writers[w], listed, listed'),
           nextOp' = nextOp, Good(t, disk', listed', nextOp)
    PROVE  RefInv'
<1> DEFINE u == writers[w]
<1>1. /\ Good(u, disk, listed, nextOp) /\ StorePast(disk, listed, nextOp)
      /\ writers'[w] = t /\ \A o \in Writers : o # w => writers'[o] = writers[o]
      /\ NotKnown(u, u)
  BY DEF RefInv, TypeInv, WritersSound
<1>2. ASSUME NEW o \in Writers, o # w PROVE Good(writers[o], disk', listed', nextOp)
  <2>1. Good(writers[o], disk, listed, nextOp) /\ Apart(writers[o], u) /\ NotKnown(u, writers[o])
    BY <1>2 DEF RefInv
  <2>2. Good(writers[o], disk', listed, nextOp)
    BY <2>1, GoodAsFilesGo, GoodAsFileComes
  <2> QED BY <2>1, <2>2, GoodAsListed
<1>3. ASSUME NEW o \in Writers, o # w
      PROVE  Apart(t, writers[o]) /\ Apart(writers[o], t) /\ NotKnown(t, writers[o]) /\ NotKnown(writers[o], t)
  <2>1. /\ Good(writers[o], disk, listed, nextOp) /\ Apart(writers[o], u) /\ Apart(u, writers[o])
        /\ NotKnown(u, writers[o]) /\ NotKnown(writers[o], u)
    BY <1>3 DEF RefInv
  <2> QED BY <2>1, ApartStays
<1>4. NotKnown(t, t)
  BY <1>1, Busyness DEF Moves, NotKnown, Good, Fresh
<1>5. StorePast(disk', listed', nextOp)
  <2>1. u.op < nextOp /\ \A r \in u.rows : r.val < nextOp
    BY <1>1 DEF Moves, Good, Past
  <2>2. (\A i \in Ids(disk') : i < nextOp) /\ \A f \in disk' : \A r \in f.rows : r.val < nextOp
    <3>1. CASE Shrinks(disk, disk')
      BY <1>1, <3>1, SubsetShrinks DEF StorePast, Ids
    <3>2. CASE Adds(u, disk, disk')
      <4>1. PICK rows : /\ disk' = disk \cup {[id |-> u.op, rows |-> rows]}
                        /\ \A r \in rows : r.val = u.op \/ r \in u.rows
        BY <3>2 DEF Adds
      <4> QED BY <1>1, <2>1, <4>1 DEF StorePast, Ids
    <3> QED BY <3>1, <3>2
  <2>3. \A i \in listed' : i < nextOp
    BY <1>1, <2>1 DEF Lists, StorePast
  <2> QED BY <2>2, <2>3 DEF StorePast
<1> HIDE DEF u
<1>6. \A o, p \in Writers : NotKnown(writers'[o], writers'[p])
  <2> SUFFICES ASSUME NEW o \in Writers, NEW p \in Writers PROVE NotKnown(writers'[o], writers'[p])
    OBVIOUS
  <2>1. CASE o # w /\ p # w
    BY <1>1, <2>1 DEF RefInv
  <2> QED BY <1>1, <1>3, <1>4, <2>1
<1>7. \A o, p \in Writers : o # p => Apart(writers'[o], writers'[p])
  <2> SUFFICES ASSUME NEW o \in Writers, NEW p \in Writers, o # p PROVE Apart(writers'[o], writers'[p])
    OBVIOUS
  <2>1. CASE o # w /\ p # w
    BY <1>1, <2>1 DEF RefInv
  <2> QED BY <1>1, <1>3, <2>1
<1>8. \A o \in Writers : Good(writers'[o], disk', listed', nextOp)
  BY <1>1, <1>2
<1> QED BY <1>5, <1>6, <1>7, <1>8 DEF RefInv

\* Taking nothing away is a way of taking files away.
LEMMA NothingGone == \A d : Shrinks(d, d)
<1> TAKE d
<1>1. PICK ids : ids = {}
  OBVIOUS
<1>2. d = {f \in d : f.id \notin ids}
  BY <1>1
<1> HIDE <1>1
<1> QED BY <1>2, Zenon DEF Shrinks

\* A step of a writer that only moves on.
LEMMA MoveKeeps ==
    ASSUME RefInv, TypeInv', NEW w \in Writers, NEW t, writers' = [writers EXCEPT ![w] = t],
           Moves(writers[w], t, disk, listed), Good(t, disk, listed, nextOp),
           disk' = disk, listed' = listed, nextOp' = nextOp
    PROVE  RefInv'
<1>1. Shrinks(disk, disk')
  BY NothingGone
<1>2. Lists(writers[w], listed, listed')
  BY DEF Lists
<1> QED BY <1>1, <1>2, StepKeeps

\* A caller that does nothing is good.
LEMMA IdleGood == \A d, l, n : Good(Idle, d, l, n)
BY DEF Good, Idle, Fresh, OwnFile, Snapshot, Computed, Replaced, Past, Unwritten, Unlisted

\* A caller that returns, its step changing the disk or the list.
LEMMA ReturnKeeps ==
    ASSUME RefInv, TypeInv', NEW w \in Writers, Return(w), writers[w].pc # "idle",
           Shrinks(disk, disk'), listed' \subseteq listed, nextOp' = nextOp
    PROVE  RefInv'
<1>1. Moves(writers[w], Idle, disk, listed)
  BY DEF Moves, Idle, Unwritten, Unlisted
<1>2. Lists(writers[w], listed, listed')
  BY DEF Lists
<1> QED BY <1>1, <1>2, IdleGood, StepKeeps DEF Return

\* A caller that returns and changes nothing else.
LEMMA Returned ==
    ASSUME RefInv, TypeInv', NEW w \in Writers, Return(w), writers[w].pc # "idle",
           disk' = disk, listed' = listed, nextOp' = nextOp
    PROVE  RefInv'
BY NothingGone, ReturnKeeps

\* What the invariant says of the writer that takes a step.
LEMMA Here ==
    ASSUME RefInv, NEW w \in Writers
    PROVE  /\ TypeInv /\ Sound(writers[w]) /\ writers[w] \in Writer /\ Fits(writers[w])
           /\ Good(writers[w], disk, listed, nextOp) /\ NotKnown(writers[w], writers[w])
           /\ StorePast(disk, listed, nextOp)
BY Known DEF RefInv, Sound

\* The helpers of the module, of the values they read.
LEMMA BroughtIs == \A w : Brought(w) = BroughtBy(writers[w])
BY DEF Brought, BroughtBy

\* The rows of files, of the disk they are on.
LEMMA RowsOfIs == \A ids : RowsOf(ids) = RowsAt(disk, ids)
BY DEF RowsOf, RowsAt

\* The invariant, operation by operation.
LEMMA LookupKeeps == ASSUME RefInv, NEW w \in Writers, Lookup(w) PROVE RefInv'
<1> DEFINE next == AfterLookup(writers[w].kind, row # NoRow)
           t == [writers[w] EXCEPT !.pc = next, !.tid = row.id,
                    !.version = IF Is(w, "materialize") THEN row.version ELSE 0,
                    !.total = IF Is(w, "append") THEN row.total ELSE 0]
<1>0. TypeInv' /\ disk' = disk /\ listed' = listed /\ nextOp' = nextOp /\ writers[w].pc = "lookup"
  BY Here, LookupTypes DEF Lookup, catalog, counters, At
<1>1. CASE next = "idle"
  BY <1>0, <1>1, Returned DEF Lookup
<1>2. CASE next # "idle"
  <2>1. writers' = [writers EXCEPT ![w] = t]
    BY <1>2 DEF Lookup, GoWith
  <2>2. /\ next \in {"create", "list", "relist", "write"}
        /\ next = "create" => writers[w].kind = "merge"
        /\ next \in {"relist", "write"} => writers[w].kind \notin Reading
    <3>1. writers[w].kind \in {"merge", "materialize", "rewrite", "append", "overwrite"}
      BY <1>0, Here, TableStoreAssumption DEF Writer, Fits
    <3> QED BY <1>2, <3>1 DEF AfterLookup, Reading
  <2>3. /\ t.pc = next /\ t.kind = writers[w].kind /\ t.op = writers[w].op /\ t.rows = writers[w].rows
        /\ t.base = writers[w].base /\ t.old = writers[w].old /\ t.seen = writers[w].seen
    BY Here DEF Writer
  <2> HIDE DEF next, t
  <2>4. Moves(writers[w], t, disk, listed)
    BY <1>0, <2>2, <2>3 DEF Moves, Unwritten, Unlisted
  <2>5. Good(t, disk, listed, nextOp)
    BY <1>0, <2>2, <2>3, Here DEF Good, Fresh, OwnFile, Snapshot, Computed, Replaced, Past, Unwritten,
       Unlisted, Reading
  <2> QED BY <1>0, <2>1, <2>4, <2>5, MoveKeeps
<1> QED BY <1>1, <1>2

\* Create: the invariant of the refinement.
LEMMA CreateKeeps == ASSUME RefInv, NEW w \in Writers, Create(w) PROVE RefInv'
<1> DEFINE pc == CASE Is(w, "merge")   -> "createMeta"
                   [] Is(w, "rewrite") -> "swap"
                   [] OTHER            -> "meta"
           t == [writers[w] EXCEPT !.tid = writers[w].op, !.pc = pc]
<1>0. TypeInv' /\ disk' = disk /\ listed' = listed /\ nextOp' = nextOp /\ writers[w].pc = "create"
  BY Here, CreateTypes DEF Create, counters, At
<1>1. CASE row # NoRow
  BY <1>0, <1>1, Returned DEF Create
<1>2. CASE row = NoRow
  <2>1. writers' = [writers EXCEPT ![w] = t]
    BY <1>2 DEF Create, GoWith
  <2>2. /\ writers[w].kind \in {"merge", "rewrite", "append", "overwrite"}
        /\ writers[w].kind = "merge" => pc = "createMeta"
        /\ writers[w].kind = "rewrite" => pc = "swap"
        /\ writers[w].kind \in Ingest => pc = "meta"
    <3>1. writers[w].kind \in {"merge", "rewrite", "append", "overwrite"}
      BY <1>0, Here, TableStoreAssumption DEF Writer, Fits, Revising
    <3> QED BY <3>1 DEF Is, Ingest
  <2> HIDE DEF pc
  <2>3. /\ t.pc = pc /\ t.kind = writers[w].kind /\ t.op = writers[w].op /\ t.rows = writers[w].rows
        /\ t.base = writers[w].base /\ t.old = writers[w].old /\ t.seen = writers[w].seen
        /\ t.batch = writers[w].batch
    BY Here DEF Writer
  <2> HIDE DEF t
  <2>4. Moves(writers[w], t, disk, listed)
    BY <1>0, <2>2, <2>3 DEF Moves, Unwritten, Unlisted, Ingest
  <2>5. Fresh(t, disk, listed) /\ OwnFile(t, disk) /\ Snapshot(t, disk)
    BY <1>0, <2>2, <2>3, Here DEF Good, Fresh, OwnFile, Snapshot, Unwritten, Unlisted, Ingest
  <2>6. Computed(t) /\ Replaced(t, listed) /\ Past(t, nextOp)
    <3>1. CASE writers[w].kind = "merge"
      BY <1>0, <2>2, <2>3, <3>1, Here DEF Good, Computed, Replaced, Past, Reading
    <3>2. CASE writers[w].kind # "merge"
      <4>1. t.rows = BroughtBy(writers[w])
        BY <1>0, <2>2, <2>3, <3>2, Here DEF Good, Computed, Unwritten, Unlisted, Reading
      <4>2. BroughtBy(t) = BroughtBy(writers[w])
        BY <2>3 DEF BroughtBy
      <4> QED BY <1>0, <2>2, <2>3, <3>2, <4>1, <4>2, Here DEF Good, Computed, Replaced, Past, Reading, Ingest
    <3> QED BY <3>1, <3>2
  <2>7. Good(t, disk, listed, nextOp)
    BY <2>5, <2>6 DEF Good
  <2> QED BY <2>7, <1>0, <2>1, <2>4, <2>5, MoveKeeps
<1> QED BY <1>1, <1>2

\* CreateMeta: the invariant of the refinement.
LEMMA CreateMetaKeeps == ASSUME RefInv, NEW w \in Writers, CreateMeta(w) PROVE RefInv'
<1> DEFINE t == [writers[w] EXCEPT !.pc = "list"]
<1>0. TypeInv' /\ disk' = disk /\ listed' = listed /\ nextOp' = nextOp /\ writers[w].pc = "createMeta"
  BY Here, CreateMetaTypes DEF CreateMeta, counters, At
<1>1. CASE Return(w)
  BY <1>0, <1>1, Returned
<1>2. CASE Go(w, "list")
  <2>1. writers' = [writers EXCEPT ![w] = t]
    BY <1>2 DEF Go
  <2>3. /\ t.pc = "list" /\ t.kind = writers[w].kind /\ t.op = writers[w].op /\ t.rows = writers[w].rows
        /\ t.base = writers[w].base /\ t.old = writers[w].old /\ t.seen = writers[w].seen
    BY Here DEF Writer
  <2> HIDE DEF t
  <2>4. Moves(writers[w], t, disk, listed)
    BY <1>0, <2>3 DEF Moves, Unwritten, Unlisted
  <2>5. Good(t, disk, listed, nextOp)
    BY <1>0, <2>3, Here DEF Good, Fresh, OwnFile, Snapshot, Computed, Replaced, Past, Unwritten,
       Unlisted
  <2> QED BY <1>0, <2>1, <2>4, <2>5, MoveKeeps
<1> QED BY <1>1, <1>2 DEF CreateMeta

\* List: the invariant of the refinement.
LEMMA ListKeeps == ASSUME RefInv, NEW w \in Writers, List(w) PROVE RefInv'
<1> DEFINE ids == ListFor(IF Is(w, "merge") THEN writers[w].tid ELSE row.id)
           t == [writers[w] EXCEPT !.pc = "read", !.base = ids,
                                   !.seen = RowsOf(ids), !.old = ids]
<1>0. TypeInv' /\ disk' = disk /\ listed' = listed /\ nextOp' = nextOp /\ writers[w].pc = "list"
  BY Here, ListTypes DEF List, counters, catalog, At
<1>1. CASE Return(w)
  BY <1>0, <1>1, Returned
<1>2. CASE GoWith(w, t)
  <2>1. writers' = [writers EXCEPT ![w] = t]
    BY <1>2 DEF GoWith
  <2>2. ids \subseteq listed
    BY DEF ListFor
  <2> HIDE DEF ids
  <2>3. /\ t.pc = "read" /\ t.kind = writers[w].kind /\ t.op = writers[w].op /\ t.rows = writers[w].rows
        /\ t.base = ids /\ t.old = ids /\ t.seen = RowsAt(disk, ids)
    BY Here, RowsOfIs DEF Writer
  <2> HIDE DEF t
  <2>4. Moves(writers[w], t, disk, listed)
    BY <1>0, <2>2, <2>3 DEF Moves, Unwritten, Unlisted
  <2>5. Unseen(writers[w].op, disk) /\ writers[w].op \notin listed
    BY <1>0, Here DEF Good, Fresh, Unwritten, Unlisted
  <2>6. Fresh(t, disk, listed)
    BY <2>3, <2>5 DEF Fresh, Unseen, RowsAt
  <2>7. Past(t, nextOp)
    BY <1>0, <2>2, <2>3, Here DEF Good, Past, StorePast
  <2> QED BY <1>0, <2>1, <2>3, <2>4, <2>6, <2>7, MoveKeeps
          DEF Good, OwnFile, Snapshot, Computed, Replaced, Unwritten, Unlisted
<1> QED BY <1>1, <1>2 DEF List

\* A result is computed from the snapshot; its rows are older than the operation,
\* or its own.
LEMMA ResultIs ==
    ASSUME NEW w \in Writers, writers[w].kind \in Reading, NEW old
    PROVE  /\ writers[w].kind = "merge" => Result(w, old) = Upsert(old, BroughtBy(writers[w]))
           /\ writers[w].kind = "materialize" => Result(w, old) = WithCells(old, TRUE)
           /\ writers[w].kind = "strip" => Result(w, old) = WithCells(old, FALSE)
BY BroughtIs DEF Result, Is, Reading

\* What is computed comes from what was read or brought.
LEMMA ResultRows ==
    ASSUME NEW w \in Writers, writers[w].kind \in Reading, NEW old \in SUBSET Row
    PROVE  \A r \in Result(w, old) : r.val = writers[w].op \/ \E q \in old : q.val = r.val
<1>1. CASE writers[w].kind = "merge"
  <2>1. \A r \in BroughtBy(writers[w]) : r.val = writers[w].op
    BY DEF BroughtBy
  <2>2. \A r \in Upsert(old, BroughtBy(writers[w])) : r \in BroughtBy(writers[w]) \/ r \in old
    BY DEF Upsert
  <2> QED BY <1>1, <2>1, <2>2, ResultIs
<1>2. ASSUME NEW b \in BOOLEAN, NEW r \in WithCells(old, b) PROVE \E q \in old : q.val = r.val
  BY <1>2 DEF WithCells, Row
<1> QED BY <1>1, <1>2, ResultIs DEF Reading

\* Read: the invariant of the refinement.
LEMMA ReadKeeps == ASSUME RefInv, NEW w \in Writers, Read(w) PROVE RefInv'
<1> DEFINE old == RowsOf(writers[w].base)
           rows == Result(w, old)
           pc == IF Is(w, "merge") THEN "write" ELSE "check"
           t == [writers[w] EXCEPT !.rows = rows, !.pc = pc]
<1>0. TypeInv' /\ disk' = disk /\ listed' = listed /\ nextOp' = nextOp /\ writers[w].pc = "read"
      /\ writers[w].kind \in Reading
  BY Here, ReadTypes DEF Read, counters, catalog, At, Fits
<1>1. CASE Return(w)
  BY <1>0, <1>1, Returned
<1>2. CASE /\ GoWith(w, t)
           /\ writers[w].base \subseteq Ids(disk)
           /\ Is(w, "merge") => writers[w].batch # {}
  <2>1. writers' = [writers EXCEPT ![w] = t]
    BY <1>2 DEF GoWith
  <2>2. old = writers[w].seen /\ old = RowsAt(disk, writers[w].base) /\ old \in SUBSET Row
    BY <1>0, <1>2, Here, RowsOfIs, RowsKnown DEF Good, Snapshot
  <2>3. \A r \in rows : r.val = writers[w].op \/ \E q \in old : q.val = r.val
    BY <1>0, <2>2, ResultRows
  <2>4. \A r \in rows : r.val = writers[w].op \/ \E f \in disk : \E q \in f.rows : q.val = r.val
    BY <2>2, <2>3 DEF RowsAt
  <2>5. /\ writers[w].kind = "merge" => rows = Upsert(old, BroughtBy(writers[w]))
        /\ writers[w].kind = "materialize" => rows = WithCells(old, TRUE)
        /\ writers[w].kind = "strip" => rows = WithCells(old, FALSE)
    BY <1>0, ResultIs
  <2>6. pc = IF writers[w].kind = "merge" THEN "write" ELSE "check"
    BY DEF Is
  <2> HIDE DEF old, rows, pc
  <2>7. /\ t.pc = pc /\ t.kind = writers[w].kind /\ t.op = writers[w].op /\ t.rows = rows
        /\ t.base = writers[w].base /\ t.old = writers[w].old /\ t.seen = writers[w].seen
        /\ t.batch = writers[w].batch
    BY Here DEF Writer
  <2> HIDE DEF t
  <2>8. Moves(writers[w], t, disk, listed)
    BY <1>0, <2>4, <2>6, <2>7 DEF Moves, Unwritten, Unlisted
  <2>9. Fresh(t, disk, listed) /\ OwnFile(t, disk) /\ Snapshot(t, disk) /\ Replaced(t, listed)
    BY <1>0, <2>6, <2>7, Here DEF Good, Fresh, OwnFile, Snapshot, Replaced, Unwritten, Unlisted
  <2>10. BroughtBy(t) = BroughtBy(writers[w])
    BY <2>7 DEF BroughtBy
  <2>11. Computed(t)
    BY <1>0, <1>2, <2>2, <2>5, <2>6, <2>7, <2>10 DEF Computed, Is
  <2>12. Past(t, nextOp)
    BY <1>0, <2>4, <2>7, Here DEF Good, Past, StorePast
  <2> QED BY <1>0, <2>1, <2>8, <2>9, <2>11, <2>12, MoveKeeps DEF Good
<1>3. Is(w, "merge") /\ writers[w].batch = {} => Return(w)
  BY DEF Read, Is
<1> QED BY <1>1, <1>2, <1>3 DEF Read

\* Check: the invariant of the refinement.
LEMMA CheckKeeps == ASSUME RefInv, NEW w \in Writers, Check(w) PROVE RefInv'
<1> DEFINE again == [writers[w] EXCEPT !.pc = "lookup", !.tries = @ + 1]
           on == [writers[w] EXCEPT !.pc = "relist", !.tid = row.id]
<1>0. TypeInv' /\ disk' = disk /\ listed' = listed /\ nextOp' = nextOp /\ writers[w].pc = "check"
  BY Here, CheckTypes DEF Check, counters, catalog, At
<1>1. CASE Return(w)
  BY <1>0, <1>1, Returned
<1>2. ASSUME NEW t, t \in {again, on}, GoWith(w, t) PROVE RefInv'
  <2>1. writers' = [writers EXCEPT ![w] = t]
    BY <1>2 DEF GoWith
  <2>2. /\ t.pc \in {"lookup", "relist"} /\ t.kind = writers[w].kind /\ t.op = writers[w].op
        /\ t.base = writers[w].base /\ t.old = writers[w].old /\ t.seen = writers[w].seen
        /\ t.rows = writers[w].rows
    BY <1>2, Here DEF Writer
  <2>3. Moves(writers[w], t, disk, listed)
    BY <1>0, <2>2 DEF Moves, Unwritten, Unlisted
  <2>4. Good(t, disk, listed, nextOp)
    BY <1>0, <2>2, Here DEF Good, Fresh, OwnFile, Snapshot, Computed, Replaced, Past, Unwritten, Unlisted
  <2> QED BY <1>0, <2>1, <2>3, <2>4, MoveKeeps
<1> QED BY <1>1, <1>2 DEF Check

\* Relist: the invariant of the refinement.
LEMMA RelistKeeps == ASSUME RefInv, NEW w \in Writers, Relist(w) PROVE RefInv'
<1> DEFINE pc == IF Is(w, "overwrite") THEN "unlink" ELSE "write"
           old == ListFor(writers[w].tid)
           t == [writers[w] EXCEPT !.old = old, !.pc = pc]
<1>0. TypeInv' /\ disk' = disk /\ listed' = listed /\ nextOp' = nextOp /\ writers[w].pc = "relist"
      /\ writers[w].kind # "merge"
  BY Here, RelistTypes DEF Relist, counters, catalog, At, Fits
<1>1. writers' = [writers EXCEPT ![w] = t] /\ pc \in {"unlink", "write"} /\ old \subseteq listed
  BY DEF Relist, GoWith, ListFor
<1> HIDE DEF pc, old
<1>2. /\ t.pc = pc /\ t.kind = writers[w].kind /\ t.op = writers[w].op /\ t.rows = writers[w].rows
      /\ t.base = writers[w].base /\ t.old = old /\ t.seen = writers[w].seen
  BY Here DEF Writer
<1> HIDE DEF t
<1>3. Moves(writers[w], t, disk, listed)
  BY <1>0, <1>1, <1>2 DEF Moves, Unwritten, Unlisted
<1>4. Past(t, nextOp)
  BY <1>0, <1>1, <1>2, Here DEF Good, Past, StorePast
<1>5. Good(t, disk, listed, nextOp)
  BY <1>0, <1>1, <1>2, <1>4, Here DEF Good, Fresh, OwnFile, Snapshot, Computed, Replaced, Unwritten, Unlisted
<1> QED BY <1>0, <1>1, <1>3, <1>5, MoveKeeps

\* Unlink: the invariant of the refinement.
LEMMA UnlinkKeeps == ASSUME RefInv, NEW w \in Writers, Unlink(w) PROVE RefInv'
<1> DEFINE t == [writers[w] EXCEPT !.pc = "unlist"]
<1>0. TypeInv' /\ listed' = listed /\ nextOp' = nextOp /\ writers[w].pc = "unlink"
  BY Here, UnlinkTypes DEF Unlink, counters, catalog, At
<1>1. writers' = [writers EXCEPT ![w] = t] /\ Shrinks(disk, disk') /\ Lists(writers[w], listed, listed')
  BY <1>0 DEF Unlink, Go, Shrinks, Lists
<1>2. /\ t.pc = "unlist" /\ t.kind = writers[w].kind /\ t.op = writers[w].op /\ t.rows = writers[w].rows
      /\ t.base = writers[w].base /\ t.old = writers[w].old /\ t.seen = writers[w].seen
  BY Here DEF Writer
<1> HIDE DEF t
<1>3. Moves(writers[w], t, disk, listed)
  BY <1>0, <1>2 DEF Moves, Unwritten, Unlisted
<1>4. Good(t, disk, listed, nextOp)
  BY <1>0, <1>2, Here DEF Good, Fresh, OwnFile, Snapshot, Computed, Replaced, Past, Unwritten, Unlisted
<1> QED BY <1>0, <1>1, <1>3, <1>4, GoodAsFilesGo, StepKeeps

\* Unlist: the invariant of the refinement.
LEMMA UnlistKeeps == ASSUME RefInv, NEW w \in Writers, Unlist(w) PROVE RefInv'
<1> DEFINE t == [writers[w] EXCEPT !.pc = "write"]
<1>0. TypeInv' /\ disk' = disk /\ nextOp' = nextOp /\ writers[w].pc = "unlist" /\ writers[w].kind = "overwrite"
  BY Here, UnlistTypes DEF Unlist, counters, catalog, At, Fits
<1>1. writers' = [writers EXCEPT ![w] = t] /\ Shrinks(disk, disk') /\ listed' \subseteq listed
  BY <1>0, NothingGone DEF Unlist, Go
<1>2. /\ t.pc = "write" /\ t.kind = writers[w].kind /\ t.op = writers[w].op /\ t.rows = writers[w].rows
      /\ t.base = writers[w].base /\ t.old = writers[w].old /\ t.seen = writers[w].seen
  BY Here DEF Writer
<1> HIDE DEF t
<1>3. Moves(writers[w], t, disk, listed)
  BY <1>0, <1>2 DEF Moves, Unwritten, Unlisted
<1>4. Good(t, disk, listed', nextOp)
  BY <1>0, <1>1, <1>2, Here DEF Good, Fresh, OwnFile, Snapshot, Computed, Replaced, Past, Unwritten, Unlisted
<1>5. Lists(writers[w], listed, listed')
  BY <1>1 DEF Lists
<1> QED BY <1>0, <1>1, <1>3, <1>4, <1>5, StepKeeps

\* Write: the invariant of the refinement.
LEMMA WriteKeeps == ASSUME RefInv, NEW w \in Writers, Write(w) PROVE RefInv'
<1> DEFINE rows == WrittenRows(w)
           pc == IF writers[w].tid = 0 THEN "create"
                 ELSE IF writers[w].kind \in Ingest THEN "meta" ELSE "swap"
           t == [writers[w] EXCEPT !.rows = rows, !.pc = pc]
<1>0. TypeInv' /\ listed' = listed /\ nextOp' = nextOp /\ writers[w].pc = "write"
  BY Here, WriteTypes DEF Write, counters, catalog, At
<1>1. CASE Return(w) /\ UNCHANGED disk
  BY <1>0, <1>1, Returned
<1>2. CASE disk' = disk \cup {[id |-> writers[w].op, rows |-> rows]} /\ GoWith(w, t)
  <2>1. writers' = [writers EXCEPT ![w] = t]
    BY <1>2 DEF GoWith
  <2>2. /\ writers[w].kind \in Reading => rows = writers[w].rows
        /\ writers[w].kind \notin Reading => rows = BroughtBy(writers[w])
        /\ \A r \in rows : r.val = writers[w].op \/ r \in writers[w].rows
    <3>1. writers[w].kind \in Reading \cup Ingest \cup {"rewrite"}
      BY <1>0, Here, TableStoreAssumption DEF Writer, Fits, Reading, Ingest
    <3>2. rows = IF writers[w].kind \in Reading THEN writers[w].rows ELSE BroughtBy(writers[w])
      BY <3>1, BroughtIs DEF WrittenRows, Reading, Ingest, Is
    <3>3. \A r \in BroughtBy(writers[w]) : r.val = writers[w].op
      BY DEF BroughtBy
    <3> QED BY <3>2, <3>3
  <2>3. /\ pc \in {"create", "meta", "swap"}
        /\ pc = "create" => writers[w].kind \notin Reading
        /\ pc = "meta" => writers[w].kind \in Ingest
    BY <1>0, Here DEF Fits
  <2> HIDE DEF rows, pc
  <2>4. /\ t.pc = pc /\ t.kind = writers[w].kind /\ t.op = writers[w].op /\ t.rows = rows
        /\ t.base = writers[w].base /\ t.old = writers[w].old /\ t.seen = writers[w].seen
        /\ t.batch = writers[w].batch
    BY Here DEF Writer
  <2> HIDE DEF t
  <2>5. Unwritten(writers[w]) /\ Unlisted(writers[w]) /\ ~Unwritten(t)
    BY <1>0, <2>3, <2>4 DEF Unwritten, Unlisted, Reading
  <2>6. Adds(writers[w], disk, disk')
    BY <1>2, <2>2 DEF Adds
  <2>7. Moves(writers[w], t, disk, listed)
    BY <1>0, <2>2, <2>4, <2>5 DEF Moves
  <2>8. Fresh(t, disk', listed)
    BY <2>4, <2>5, Here DEF Good, Fresh
  <2>9. OwnFile(t, disk')
    <3>1. writers[w].op \notin Ids(disk)
      BY <2>5, Here DEF Good, Fresh, Unseen
    <3>2. \A f \in disk' : f.id = t.op => f = [id |-> writers[w].op, rows |-> rows]
      BY <1>2, <2>4, <3>1 DEF Ids
    <3> QED BY <2>4, <3>2 DEF OwnFile
  <2>10. BroughtBy(t) = BroughtBy(writers[w])
    BY <2>4 DEF BroughtBy
  <2>11. Computed(t)
    BY <1>0, <2>2, <2>3, <2>4, <2>10, Here DEF Good, Computed, Reading, Ingest
  <2>12. Snapshot(t, disk') /\ Replaced(t, listed)
    BY <2>3, <2>4 DEF Snapshot, Replaced
  <2>13. Past(t, nextOp)
    BY <1>0, <2>2, <2>4, Here DEF Good, Past
  <2>14. Lists(writers[w], listed, listed')
    BY <1>0 DEF Lists
  <2> QED BY <1>0, <2>1, <2>5, <2>6, <2>7, <2>8, <2>9, <2>11, <2>12, <2>13, <2>14, StepKeeps DEF Good
<1> QED BY <1>1, <1>2 DEF Write, WrittenRows, Ingest

\* Swap: the invariant of the refinement.
LEMMA SwapKeeps == ASSUME RefInv, NEW w \in Writers, Swap(w) PROVE RefInv'
<1> DEFINE t == [writers[w] EXCEPT !.pc = "meta"]
<1>0. TypeInv' /\ disk' = disk /\ nextOp' = nextOp /\ writers[w].pc = "swap" /\ writers[w].kind \notin Ingest
  BY Here, SwapTypes DEF Swap, counters, At, Fits
<1>1. CASE Return(w) /\ UNCHANGED listed
  BY <1>0, <1>1, Returned
<1>2. CASE listed' = {writers[w].op} /\ Go(w, "meta")
  <2>1. writers' = [writers EXCEPT ![w] = t] /\ Shrinks(disk, disk')
    BY <1>0, <1>2, NothingGone DEF Go
  <2>2. /\ t.pc = "meta" /\ t.kind = writers[w].kind /\ t.op = writers[w].op /\ t.rows = writers[w].rows
        /\ t.base = writers[w].base /\ t.old = writers[w].old /\ t.seen = writers[w].seen
    BY Here DEF Writer
  <2> HIDE DEF t
  <2>3. Unlisted(writers[w]) /\ ~Unlisted(t) /\ ~Unwritten(t)
    BY <1>0, <2>2 DEF Unwritten, Unlisted
  <2>4. Moves(writers[w], t, disk, listed) /\ Lists(writers[w], listed, listed')
    BY <1>0, <1>2, <2>2, <2>3 DEF Moves, Lists
  <2>5. Replaced(t, listed')
    BY <1>2, <2>2, <2>3, Here DEF Replaced, NotKnown
  <2>6. Good(t, disk, listed', nextOp)
    BY <1>0, <2>2, <2>3, <2>5, Here DEF Good, Fresh, OwnFile, Snapshot, Computed, Past
  <2> QED BY <1>0, <2>1, <2>4, <2>6, StepKeeps
<1> QED BY <1>1, <1>2 DEF Swap

\* Meta: the invariant of the refinement.
LEMMA MetaKeeps == ASSUME RefInv, NEW w \in Writers, Meta(w) PROVE RefInv'
<1> DEFINE ingest == writers[w].kind \in Ingest
<1>0. TypeInv' /\ disk' = disk /\ listed' = listed /\ nextOp' = nextOp /\ writers[w].pc = "meta"
  BY Here, MetaTypes DEF Meta, counters, At
<1>1. CASE Return(w)
  BY <1>0, <1>1, Returned
<1>2. ASSUME NEW pc, Go(w, pc), pc = IF ingest THEN "add" ELSE "clean" PROVE RefInv'
  <2> DEFINE t == [writers[w] EXCEPT !.pc = pc]
  <2>1. writers' = [writers EXCEPT ![w] = t]
    BY <1>2 DEF Go
  <2>2. /\ t.pc = pc /\ t.kind = writers[w].kind /\ t.op = writers[w].op /\ t.rows = writers[w].rows
        /\ t.base = writers[w].base /\ t.old = writers[w].old /\ t.seen = writers[w].seen
        /\ t.batch = writers[w].batch
    BY Here DEF Writer
  <2> HIDE DEF t
  <2>3. (Unlisted(t) <=> Unlisted(writers[w])) /\ ~Unwritten(t) /\ ~Unwritten(writers[w])
    BY <1>0, <1>2, <2>2 DEF Unwritten, Unlisted
  <2>4. Moves(writers[w], t, disk, listed)
    BY <1>0, <1>2, <2>2, <2>3 DEF Moves
  <2>5. BroughtBy(t) = BroughtBy(writers[w])
    BY <2>2 DEF BroughtBy
  <2>6. Replaced(t, listed)
    BY <1>0, <1>2, <2>2, Here DEF Good, Replaced
  <2>7. Fresh(t, disk, listed) /\ OwnFile(t, disk) /\ Snapshot(t, disk) /\ Past(t, nextOp)
    BY <1>0, <1>2, <2>2, <2>3, Here DEF Good, Fresh, OwnFile, Snapshot, Past
  <2>8. Computed(t)
    BY <1>0, <1>2, <2>2, <2>3, <2>5, Here DEF Good, Computed
  <2> QED BY <1>0, <2>1, <2>4, <2>6, <2>7, <2>8, MoveKeeps DEF Good
<1>3. \/ Return(w)
      \/ Go(w, IF ingest THEN "add" ELSE "clean")
      \/ Go(w, "clean") /\ ~ingest
  BY DEF Meta, Ingest, Is
<1> QED BY <1>1, <1>2, <1>3

\* Add: the invariant of the refinement.
LEMMA AddKeeps == ASSUME RefInv, NEW w \in Writers, Add(w) PROVE RefInv'
<1> DEFINE t == [writers[w] EXCEPT !.old = {}, !.pc = "clean"]
<1>0. TypeInv' /\ disk' = disk /\ nextOp' = nextOp /\ writers[w].pc = "add"
  BY Here, AddTypes DEF Add, counters, At
<1>1. CASE Return(w) /\ UNCHANGED listed
  BY <1>0, <1>1, Returned
<1>2. CASE listed' = listed \cup {writers[w].op} /\ GoWith(w, t)
  <2>1. writers' = [writers EXCEPT ![w] = t] /\ Shrinks(disk, disk')
    BY <1>0, <1>2, NothingGone DEF GoWith
  <2>2. /\ t.pc = "clean" /\ t.kind = writers[w].kind /\ t.op = writers[w].op /\ t.rows = writers[w].rows
        /\ t.base = writers[w].base /\ t.old = {} /\ t.seen = writers[w].seen
    BY Here DEF Writer
  <2> HIDE DEF t
  <2>3. Unlisted(writers[w]) /\ ~Unlisted(t) /\ ~Unwritten(t)
    BY <1>0, <2>2 DEF Unwritten, Unlisted
  <2>4. Moves(writers[w], t, disk, listed) /\ Lists(writers[w], listed, listed')
    BY <1>0, <1>2, <2>2, <2>3 DEF Moves, Lists
  <2>6. Good(t, disk, listed', nextOp)
    BY <1>0, <2>2, <2>3, Here DEF Good, Fresh, OwnFile, Snapshot, Computed, Past, Replaced
  <2> QED BY <1>0, <2>1, <2>4, <2>6, StepKeeps
<1> QED BY <1>1, <1>2 DEF Add

\* Clean: the invariant of the refinement.
LEMMA CleanKeeps == ASSUME RefInv, NEW w \in Writers, Clean(w) PROVE RefInv'
<1>1. TypeInv' /\ writers[w].pc = "clean" /\ Shrinks(disk, disk') /\ listed' = listed /\ nextOp' = nextOp
  BY Here, CleanTypes DEF Clean, Shrinks, At, catalog, counters
<1> QED BY <1>1, ReturnKeeps DEF Clean

\* Fail: the invariant of the refinement.
LEMMA FailKeeps == ASSUME RefInv, NEW w \in Writers, Fail(w) PROVE RefInv'
<1>1. TypeInv'
  BY Here, FailTypes
<1> QED BY <1>1, Returned DEF Fail, catalog

\* A new operation takes a number that nothing has yet.
LEMMA BeginKeeps ==
    ASSUME RefInv, NEW w \in Writers, NEW k \in Kinds, NEW b \in {{}} \cup Batches, Begin(w, k, b)
    PROVE  RefInv'
<1> DEFINE pc == IF k = "strip" THEN "list" ELSE "lookup"
           t == [Idle EXCEPT !.pc = pc, !.kind = k, !.op = nextOp, !.batch = b, !.tries = 1]
<1>0. /\ TypeInv /\ TypeInv' /\ disk' = disk /\ listed' = listed /\ nextOp' = nextOp + 1
      /\ nextOp \in Nat /\ writers' = [writers EXCEPT ![w] = t]
  BY Here, BeginTypes DEF Begin, GoWith, catalog, TypeInv, TypeOK
<1>1. pc \in {"list", "lookup"}
  OBVIOUS
<1> HIDE DEF pc
<1>2. t.pc = pc /\ t.kind = k /\ t.op = nextOp /\ t.rows = {} /\ t.base = {} /\ t.old = {} /\ t.seen = {}
  BY DEF Idle
<1> HIDE DEF t
<1>3. Past(t, nextOp + 1)
  BY <1>0, <1>2 DEF Past
<1>4. Fresh(t, disk, listed)
  BY <1>0, <1>1, <1>2, Here DEF Fresh, StorePast, Unseen
<1>5. Good(t, disk, listed, nextOp + 1)
  BY <1>1, <1>2, <1>3, <1>4 DEF Good, OwnFile, Snapshot, Computed, Replaced, Unwritten, Unlisted
<1>6. ASSUME NEW o \in Writers, o # w
      PROVE  /\ Good(writers[o], disk, listed, nextOp + 1)
             /\ Apart(t, writers[o]) /\ Apart(writers[o], t)
             /\ NotKnown(t, writers[o]) /\ NotKnown(writers[o], t)
  <2>1. Past(writers[o], nextOp) /\ writers[o] \in Writer
    BY Here DEF Good
  <2>2. Past(writers[o], nextOp + 1)
    BY <1>0, <2>1 DEF Past, Writer, Row
  <2>3. Good(writers[o], disk, listed, nextOp + 1)
    BY <2>2, Here DEF Good
  <2>4. Apart(t, writers[o]) /\ Apart(writers[o], t)
    BY <1>0, <1>2, <2>1 DEF Apart, Past
  <2>5. NotKnown(t, writers[o]) /\ NotKnown(writers[o], t)
    BY <1>0, <1>2, <2>1 DEF NotKnown, Past
  <2> QED BY <2>3, <2>4, <2>5
<1>7. NotKnown(t, t)
  BY <1>2 DEF NotKnown
<1>8. StorePast(disk, listed, nextOp + 1)
  <2>1. \A i \in Ids(disk) : i \in Nat
    BY <1>0 DEF TypeInv, TypeOK, Ids, File
  <2>2. \A f \in disk : \A r \in f.rows : r.val \in Nat
    BY <1>0 DEF TypeInv, TypeOK, File, Row
  <2> QED BY <1>0, <2>1, <2>2, Here, Known DEF StorePast
<1>9. writers'[w] = t /\ \A o \in Writers : o # w => writers'[o] = writers[o]
  BY <1>0 DEF TypeInv, TypeOK
<1>10. \A o, p \in Writers : NotKnown(writers'[o], writers'[p])
  <2> SUFFICES ASSUME NEW o \in Writers, NEW p \in Writers PROVE NotKnown(writers'[o], writers'[p])
    OBVIOUS
  <2>1. CASE o # w /\ p # w
    BY <1>9, <2>1 DEF RefInv
  <2> QED BY <1>6, <1>7, <1>9, <2>1
<1>11. \A o, p \in Writers : o # p => Apart(writers'[o], writers'[p])
  <2> SUFFICES ASSUME NEW o \in Writers, NEW p \in Writers, o # p PROVE Apart(writers'[o], writers'[p])
    OBVIOUS
  <2>1. CASE o # w /\ p # w
    BY <1>9, <2>1 DEF RefInv
  <2> QED BY <1>6, <1>9, <2>1
<1>12. \A o \in Writers : Good(writers'[o], disk, listed, nextOp + 1)
  BY <1>5, <1>6, <1>9
<1> QED BY <1>0, <1>8, <1>10, <1>11, <1>12 DEF RefInv

\* Other: the invariant of the refinement.
LEMMA OtherKeeps ==
    RefInv /\ (DeleteRow \/ RemoveDir \/ IndexLookup \/ IndexList \/ IndexStore \/ Crash) => RefInv'
<1> SUFFICES ASSUME RefInv, DeleteRow \/ RemoveDir \/ IndexLookup \/ IndexList \/ IndexStore \/ Crash
             PROVE  RefInv'
  OBVIOUS
<1>0. TypeInv' /\ nextOp' = nextOp
  BY OtherTypes DEF RefInv, DeleteRow, RemoveDir, IndexLookup, IndexList, IndexStore, Crash, counters
<1>1. CASE DeleteRow
  <2>1. writers' = writers /\ disk' = disk /\ listed' = {}
    BY <1>1 DEF DeleteRow
  <2>2. \A w \in Writers : Good(writers[w], disk, {}, nextOp)
    BY DEF RefInv, Good, Fresh, Replaced
  <2>3. StorePast(disk, {}, nextOp)
    BY DEF RefInv, StorePast
  <2> QED BY <1>0, <2>1, <2>2, <2>3 DEF RefInv
<1>2. CASE RemoveDir
  <2>1. writers' = writers /\ disk' = {} /\ listed' = listed
    BY <1>2 DEF RemoveDir, catalog
  <2>2. Shrinks(disk, {})
    <3>1. {} = {f \in disk : f.id \notin Ids(disk)}
      BY DEF Ids
    <3> QED BY <3>1, Zenon DEF Shrinks
  <2>3. \A w \in Writers : Good(writers[w], {}, listed, nextOp)
    BY <2>2, GoodAsFilesGo DEF RefInv
  <2>4. StorePast({}, listed, nextOp)
    BY DEF RefInv, StorePast, Ids
  <2> QED BY <1>0, <2>1, <2>3, <2>4 DEF RefInv
<1>3. CASE IndexLookup \/ IndexList \/ IndexStore
  <2>1. writers' = writers /\ disk' = disk /\ listed' = listed
    BY <1>3 DEF IndexLookup, IndexList, IndexStore, catalog
  <2> QED BY <1>0, <2>1 DEF RefInv
<1>4. CASE Crash
  <2>1. writers' = [w \in Writers |-> Idle] /\ disk' = disk /\ listed' = listed
    BY <1>4 DEF Crash, catalog
  <2>2. \A w, o \in Writers : NotKnown(writers'[w], writers'[o]) /\ Apart(writers'[w], writers'[o])
    BY <2>1 DEF NotKnown, Apart, Idle
  <2>3. \A w \in Writers : Good(writers'[w], disk', listed', nextOp')
    BY <2>1, IdleGood
  <2> QED BY <1>0, <2>1, <2>2, <2>3 DEF RefInv
<1> QED BY <1>1, <1>2, <1>3, <1>4

\* The invariant holds at the start.
LEMMA InitRefines == Init => RefInv
<1> SUFFICES ASSUME Init PROVE RefInv
  OBVIOUS
<1>1. TypeInv
  BY InitTypes
<1>2. StorePast(disk, listed, nextOp)
  <2>1. nextOp = 2 /\ \A i \in listed : i = 1
    BY DEF Init
  <2>2. \A r \in FirstRows : r.val = 1
    BY DEF FirstRows
  <2>3. disk = {} \/ disk = {[id |-> 1, rows |-> FirstRows]}
    BY DEF Init, FirstRows
  <2>4. \A f \in disk : f.id = 1 /\ \A r \in f.rows : r.val = 1
    BY <2>2, <2>3
  <2> QED BY <2>1, <2>4 DEF StorePast, Ids
<1>3. \A w, o \in Writers : NotKnown(writers[w], writers[o]) /\ Apart(writers[w], writers[o])
  BY DEF Init, NotKnown, Apart, Idle
<1>4. \A w \in Writers : Good(writers[w], disk, listed, nextOp)
  BY IdleGood DEF Init
<1> QED BY <1>1, <1>2, <1>3, <1>4 DEF RefInv

\* Every step keeps the invariant of the refinement.
LEMMA StepRefInv == RefInv /\ [Next]_vars => RefInv'
<1> SUFFICES ASSUME RefInv, [Next]_vars PROVE RefInv'
  OBVIOUS
<1>1. ASSUME NEW w \in Writers, NEW k \in Kinds, NEW b \in {{}} \cup Batches, Begin(w, k, b)
      PROVE  RefInv'
  BY <1>1, BeginKeeps
<1>2. ASSUME NEW w \in Writers,
             \/ Lookup(w) \/ Create(w) \/ CreateMeta(w) \/ List(w) \/ Read(w) \/ Check(w)
             \/ Relist(w) \/ Unlink(w) \/ Unlist(w) \/ Write(w) \/ Swap(w) \/ Meta(w) \/ Add(w)
             \/ Clean(w) \/ Fail(w)
      PROVE  RefInv'
  BY <1>2, LookupKeeps, CreateKeeps, CreateMetaKeeps, ListKeeps, ReadKeeps, CheckKeeps, RelistKeeps,
     UnlinkKeeps, UnlistKeeps, WriteKeeps, SwapKeeps, MetaKeeps, AddKeeps, CleanKeeps, FailKeeps
<1>3. CASE DeleteRow \/ RemoveDir \/ IndexLookup \/ IndexList \/ IndexStore \/ Crash
  BY <1>3, OtherKeeps
<1>4. CASE UNCHANGED vars
  <2>1. TypeInv'
    BY <1>4, StepTypes DEF RefInv
  <2> QED BY <1>4, <2>1 DEF vars, catalog, counters, RefInv
<1> QED BY <1>1, <1>2, <1>3, <1>4 DEF Next

-----------------------------------------------------------------------------
\* Every step of the store is a step of the atomic table, or none.
role == [w \in Writers |-> writers[w].kind]
snap == [w \in Writers |-> writers[w].seen]

\* The abstract data, of the disk and the list,
LEMMA DataIs == Data = RowsAt(disk, listed)
BY DEF Data, RowsOf, RowsAt

\* and after a step.
LEMMA DataIsAgain == Data' = RowsAt(disk', listed')
BY DEF Data, RowsOf, RowsAt

\* A step that leaves disk and list alone leaves the data alone.
LEMMA SameData == disk' = disk /\ listed' = listed => Data' = Data
BY DataIs, DataIsAgain

\* A writer that moves on in its operation, and one that returns.
LEMMA SameRole ==
    ASSUME TypeInv, NEW w \in Writers, NEW t, writers' = [writers EXCEPT ![w] = t],
           t.kind = writers[w].kind, t.seen = writers[w].seen
    PROVE  role' = role /\ snap' = snap
BY DEF TypeInv, WritersSound, role, snap

\* A step of a writer that keeps data, role and snapshot is a stutter.
LEMMA Stutters ==
    ASSUME TypeInv, NEW w \in Writers, NEW t, writers' = [writers EXCEPT ![w] = t],
           t.kind = writers[w].kind, t.seen = writers[w].seen, Data' = Data
    PROVE  UNCHANGED Abstract!avars
BY SameRole DEF Abstract!avars, role, snap

\* A caller that returns while the data stay is an abstract Finish.
LEMMA Finishes ==
    ASSUME TypeInv, NEW w \in Writers, Return(w), Data' = Data
    PROVE  Abstract!Next
<1>1. Abstract!Finish(w)
  BY DEF TypeInv, WritersSound, Return, Idle, Abstract!Finish
<1> QED BY <1>1 DEF Abstract!Next

\* The steps of a writer that change neither the disk nor the list.
LEMMA QuietSteps ==
    ASSUME RefInv, NEW w \in Writers,
           \/ Lookup(w) \/ Create(w) \/ CreateMeta(w) \/ Read(w) \/ Check(w) \/ Relist(w) \/ Meta(w)
           \/ Fail(w)
    PROVE  [Abstract!Next]_(Abstract!avars)
<1>1. TypeInv /\ writers[w] \in Writer /\ Data' = Data
  BY Here, SameData DEF Lookup, Create, CreateMeta, Read, Check, Relist, Meta, Fail, catalog
<1>2. ASSUME Return(w) PROVE Abstract!Next
  BY <1>1, <1>2, Finishes
<1>3. ASSUME NEW t, writers' = [writers EXCEPT ![w] = t], t.kind = writers[w].kind, t.seen = writers[w].seen
      PROVE  UNCHANGED Abstract!avars
  BY <1>1, <1>3, Stutters
<1>4. ASSUME NEW pc, Go(w, pc) PROVE UNCHANGED Abstract!avars
  <2> DEFINE t == [writers[w] EXCEPT !.pc = pc]
  <2>1. writers' = [writers EXCEPT ![w] = t] /\ t.kind = writers[w].kind /\ t.seen = writers[w].seen
    BY <1>1, <1>4 DEF Go, Writer
  <2> QED BY <1>3, <2>1
<1>5. CASE Lookup(w)
  <2> DEFINE next == AfterLookup(writers[w].kind, row # NoRow)
             t == [writers[w] EXCEPT !.pc = next, !.tid = row.id,
                      !.version = IF Is(w, "materialize") THEN row.version ELSE 0,
                      !.total = IF Is(w, "append") THEN row.total ELSE 0]
  <2>1. Return(w) \/ writers' = [writers EXCEPT ![w] = t]
    BY <1>5 DEF Lookup, GoWith
  <2>2. t.kind = writers[w].kind /\ t.seen = writers[w].seen
    BY <1>1 DEF Writer
  <2> HIDE DEF t
  <2> QED BY <1>2, <1>3, <2>1, <2>2
<1>6. CASE Create(w)
  <2> DEFINE pc == CASE Is(w, "merge")   -> "createMeta"
                     [] Is(w, "rewrite") -> "swap"
                     [] OTHER            -> "meta"
             t == [writers[w] EXCEPT !.tid = writers[w].op, !.pc = pc]
  <2>1. Return(w) \/ writers' = [writers EXCEPT ![w] = t]
    BY <1>6 DEF Create, GoWith
  <2> HIDE DEF pc
  <2>2. t.kind = writers[w].kind /\ t.seen = writers[w].seen
    BY <1>1 DEF Writer
  <2> HIDE DEF t
  <2> QED BY <1>2, <1>3, <2>1, <2>2
<1>7. CASE CreateMeta(w)
  BY <1>2, <1>4, <1>7 DEF CreateMeta
<1>8. CASE Read(w)
  <2> DEFINE rows == Result(w, RowsOf(writers[w].base))
             pc == IF Is(w, "merge") THEN "write" ELSE "check"
             t == [writers[w] EXCEPT !.rows = rows, !.pc = pc]
  <2>1. Return(w) \/ writers' = [writers EXCEPT ![w] = t]
    BY <1>8 DEF Read, GoWith
  <2> HIDE DEF pc, rows
  <2>2. t.kind = writers[w].kind /\ t.seen = writers[w].seen
    BY <1>1 DEF Writer
  <2> HIDE DEF t
  <2> QED BY <1>2, <1>3, <2>1, <2>2
<1>9. CASE Check(w)
  <2> DEFINE again == [writers[w] EXCEPT !.pc = "lookup", !.tries = @ + 1]
             on == [writers[w] EXCEPT !.pc = "relist", !.tid = row.id]
  <2>1. Return(w) \/ writers' = [writers EXCEPT ![w] = again] \/ writers' = [writers EXCEPT ![w] = on]
    BY <1>9 DEF Check, GoWith
  <2>2. /\ again.kind = writers[w].kind /\ again.seen = writers[w].seen
        /\ on.kind = writers[w].kind /\ on.seen = writers[w].seen
    BY <1>1 DEF Writer
  <2> HIDE DEF again, on
  <2> QED BY <1>2, <1>3, <2>1, <2>2
<1>10. CASE Relist(w)
  <2> DEFINE pc == IF Is(w, "overwrite") THEN "unlink" ELSE "write"
             t == [writers[w] EXCEPT !.old = ListFor(writers[w].tid), !.pc = pc]
  <2>1. writers' = [writers EXCEPT ![w] = t]
    BY <1>10 DEF Relist, GoWith
  <2> HIDE DEF pc
  <2>2. t.kind = writers[w].kind /\ t.seen = writers[w].seen
    BY <1>1 DEF Writer
  <2> HIDE DEF t
  <2> QED BY <1>3, <2>1, <2>2
<1>11. CASE Meta(w)
  <2>1. Return(w) \/ Go(w, "add") \/ Go(w, "clean")
    BY <1>11 DEF Meta
  <2> QED BY <1>2, <1>4, <2>1
<1>12. CASE Fail(w)
  BY <1>2, <1>12 DEF Fail
<1> QED BY <1>5, <1>6, <1>7, <1>8, <1>9, <1>10, <1>11, <1>12

\* A writer starts, and takes its snapshot.
LEMMA BeginStarts ==
    ASSUME RefInv, NEW w \in Writers, NEW k \in Kinds, NEW b, Begin(w, k, b)
    PROVE  Abstract!Next
<1> DEFINE pc == IF k = "strip" THEN "list" ELSE "lookup"
           t == [Idle EXCEPT !.pc = pc, !.kind = k, !.op = nextOp, !.batch = b, !.tries = 1]
<1>1. writers' = [writers EXCEPT ![w] = t] /\ Data' = Data
  BY SameData DEF Begin, GoWith, catalog
<1>2. t.kind = k /\ t.seen = {}
  BY DEF Idle
<1> HIDE DEF t
<1>3. writers[w] = Idle /\ writers \in [Writers -> Writer]
  BY Here DEF Begin, At, Fits, TypeInv, WritersSound
<1>4. role[w] = "none" /\ role' = [role EXCEPT ![w] = k]
  <2>1. writers[w].kind = "none"
    BY <1>3 DEF Idle
  <2>2. role[w] = "none"
    BY <2>1 DEF role
  <2>3. role' = [role EXCEPT ![w] = k]
    BY <1>1, <1>2, <1>3 DEF role
  <2> QED BY <2>2, <2>3
<1>5. snap' = snap
  BY <1>1, <1>2, <1>3 DEF Idle, snap
<1>6. k \in Abstract!Roles
  BY TableStoreAssumption DEF Abstract!Roles
<1>7. Abstract!Start(w)
  BY <1>1, <1>4, <1>5, <1>6 DEF Abstract!Start, role, snap
<1> QED BY <1>7 DEF Abstract!Next

\* list_table_files is the abstract snapshot.
LEMMA ListTakes == ASSUME RefInv, NEW w \in Writers, List(w) PROVE Abstract!Next
<1> DEFINE ids == ListFor(IF Is(w, "merge") THEN writers[w].tid ELSE row.id)
           t == [writers[w] EXCEPT !.pc = "read", !.base = ids,
                                   !.seen = RowsOf(ids), !.old = ids]
<1>0. Data' = Data /\ TypeInv /\ writers[w] \in Writer
  BY SameData, Here DEF List, catalog
<1>1. CASE Return(w)
  BY <1>0, <1>1, Finishes
<1>2. CASE GoWith(w, t)
  <2>1. writers' = [writers EXCEPT ![w] = t]
    BY <1>2 DEF GoWith
  <2>2. RowsOf(ids) \in {Data, {}}
    <3>1. ids = listed \/ ids = {}
      BY DEF ListFor
    <3>2. RowsOf({}) = {}
      BY DEF RowsOf
    <3> QED BY <3>1, <3>2 DEF Data
  <2> HIDE DEF ids
  <2>3. t.kind = writers[w].kind /\ t.seen \in {Data, {}}
    BY <1>0, <2>2 DEF Writer
  <2> HIDE DEF t
  <2>4. role' = role
    BY <1>0, <2>1, <2>3 DEF role, TypeInv, WritersSound
  <2>5. snap' = [snap EXCEPT ![w] = Data] \/ snap' = [snap EXCEPT ![w] = {}]
    BY <1>0, <2>1, <2>3 DEF snap, TypeInv, WritersSound
  <2>6. Abstract!Take(w)
    BY <1>0, <2>4, <2>5 DEF Abstract!Take, role, snap
  <2> QED BY <2>6 DEF Abstract!Next
<1> QED BY <1>1, <1>2 DEF List

\* A file that nobody lists comes or goes: the table holds what it held.
LEMMA WriteKeepsData == ASSUME RefInv, NEW w \in Writers, Write(w) PROVE Data' = Data
<1>1. writers[w].op \notin listed /\ listed' = listed
  BY Here DEF Write, At, catalog, Good, Fresh, Unlisted, Unwritten
<1>2. \/ disk' = disk
      \/ \E rows : disk' = disk \cup {[id |-> writers[w].op, rows |-> rows]}
  BY DEF Write
<1>3. {g \in disk' : g.id \in listed} = {g \in disk : g.id \in listed}
  BY <1>1, <1>2
<1> QED BY <1>1, <1>3, DataIs, DataIsAgain DEF RowsAt

\* A new file changes nothing a reader can get.
LEMMA WriteStutters == ASSUME RefInv, NEW w \in Writers, Write(w) PROVE [Abstract!Next]_(Abstract!avars)
<1> DEFINE rows == WrittenRows(w)
           pc == IF writers[w].tid = 0 THEN "create"
                 ELSE IF writers[w].kind \in Ingest THEN "meta" ELSE "swap"
           t == [writers[w] EXCEPT !.rows = rows, !.pc = pc]
<1>1. TypeInv /\ writers[w] \in Writer /\ Data' = Data
  BY Here, WriteKeepsData
<1>2. CASE Return(w)
  BY <1>1, <1>2, Finishes
<1>3. CASE GoWith(w, t)
  <2>1. writers' = [writers EXCEPT ![w] = t]
    BY <1>3 DEF GoWith
  <2> HIDE DEF rows, pc
  <2>2. t.kind = writers[w].kind /\ t.seen = writers[w].seen
    BY <1>1 DEF Writer
  <2> HIDE DEF t
  <2> QED BY <1>1, <2>1, <2>2, Stutters
<1> QED BY <1>2, <1>3 DEF Write, WrittenRows, Ingest

\* Cleaning up takes no listed file.
LEMMA CleanKeepsData == ASSUME RefInv, NEW w \in Writers, Clean(w) PROVE Data' = Data
<1>1. writers[w].old \cap listed = {} /\ listed' = listed
  BY Here DEF Clean, At, catalog, Good, Replaced
<1>2. {g \in disk' : g.id \in listed} = {g \in disk : g.id \in listed}
  BY <1>1 DEF Clean
<1> QED BY <1>1, <1>2, DataIs, DataIsAgain DEF RowsAt

\* Cleaning up is an abstract Finish.
LEMMA CleanFinishes == ASSUME RefInv, NEW w \in Writers, Clean(w) PROVE Abstract!Next
BY CleanKeepsData, Here, Finishes DEF Clean

\* The directory and an overwriting ingest: files go while they are listed.
LEMMA DiscardSteps ==
    ASSUME RefInv, NEW w \in Writers, Unlink(w) \/ Unlist(w)
    PROVE  Abstract!Next
<1>1. Data' \subseteq Data
  <2>1. disk' \subseteq disk /\ listed' \subseteq listed
    BY DEF Unlink, Unlist, catalog
  <2> QED BY <2>1, DataIs, DataIsAgain DEF RowsAt
<1>2. TypeInv /\ writers[w] \in Writer /\ writers[w].kind = "overwrite"
  BY Here DEF Unlink, Unlist, At, Fits
<1>3. ASSUME NEW pc, Go(w, pc) PROVE role' = role /\ snap' = snap
  <2> DEFINE t == [writers[w] EXCEPT !.pc = pc]
  <2>1. writers' = [writers EXCEPT ![w] = t] /\ t.kind = writers[w].kind /\ t.seen = writers[w].seen
    BY <1>2, <1>3 DEF Go, Writer
  <2> QED BY <1>2, <2>1, SameRole
<1>4. role' = role /\ snap' = snap
  BY <1>3 DEF Unlink, Unlist
<1>5. Abstract!Discard(w)
  BY <1>1, <1>2, <1>4 DEF Abstract!Discard, role, snap
<1> QED BY <1>5 DEF Abstract!Next

\* Data that are gone are an abstract Drop.
LEMMA Drops == ASSUME Data' = {}, role' = role, snap' = snap PROVE Abstract!Next
BY DEF Abstract!Next, Abstract!Drop, role, snap

\* What an operation brought can be told from what it found.
LEMMA MergeCommits ==
    ASSUME RefInv, NEW w \in Writers, writers[w].kind = "merge", writers[w].pc = "swap"
    PROVE  \E r \in writers[w].rows :
               writers[w].rows = Abstract!Upsert(writers[w].seen, Abstract!Brought(writers[w].rows, r.val))
<1> DEFINE u == writers[w]
           new == BroughtBy(u)
<1>1. /\ u.batch # {} /\ u.rows = Upsert(u.seen, new)
      /\ \A r \in u.seen : r.val # u.op
  BY Here DEF Good, Computed, Fresh
<1>2. PICK k \in u.batch : TRUE
  BY <1>1
<1>3. \A r \in new : r.val = u.op /\ r.cell = FALSE
  BY DEF BroughtBy
<1>4. PICK r \in new : r.val = u.op
  BY <1>2, <1>3 DEF BroughtBy
<1> HIDE DEF u, new
<1>5. new \subseteq u.rows /\ \A q \in u.rows : q \in new \/ q \in u.seen
  BY <1>1 DEF Upsert
<1>6. Abstract!Brought(u.rows, u.op) = new
  BY <1>1, <1>3, <1>5 DEF Abstract!Brought
<1>7. u.rows = Abstract!Upsert(u.seen, Abstract!Brought(u.rows, r.val))
  BY <1>1, <1>4, <1>6 DEF Upsert, Abstract!Upsert
<1> QED BY <1>4, <1>5, <1>7 DEF u

\* replace_table_files is the abstract commit.
LEMMA SwapCommits == ASSUME RefInv, NEW w \in Writers, Swap(w) PROVE Abstract!Next
<1> DEFINE u == writers[w]
           t == [writers[w] EXCEPT !.pc = "meta"]
<1>0. /\ TypeInv /\ u \in Writer /\ u.pc = "swap" /\ disk' = disk /\ Good(u, disk, listed, nextOp)
      /\ u.kind \in {"merge", "materialize", "strip", "rewrite"}
  BY Here, TableStoreAssumption DEF Swap, At, Fits, Ingest, Writer
<1>1. CASE Return(w) /\ UNCHANGED listed
  BY <1>0, <1>1, SameData, Finishes
<1>2. CASE listed' = {u.op} /\ Go(w, "meta")
  <2>1. writers' = [writers EXCEPT ![w] = t] /\ t.kind = u.kind /\ t.seen = u.seen
    BY <1>0, <1>2 DEF Go, Writer
  <2>2. role' = role /\ snap' = snap
    BY <1>0, <2>1, SameRole
  <2>3. \A f \in disk : f.id = u.op => f.rows = u.rows
    BY <1>0 DEF Good, OwnFile, Unlisted, Unwritten
  <2>4. Data' = {} \/ Data' = u.rows
    BY <1>0, <1>2, <2>3, DataIsAgain DEF RowsAt
  <2>5. role[w] = u.kind /\ snap[w] = u.seen
    BY DEF role, snap
  <2>6. CASE Data' = u.rows
    <3>1. u.kind = "merge" => \E r \in Data' : Data' = Abstract!Upsert(snap[w], Abstract!Brought(Data', r.val))
      BY <1>0, <2>5, <2>6, MergeCommits
    <3>2. u.kind = "materialize" => Data' = Abstract!WithCells(snap[w], TRUE)
      BY <1>0, <2>5, <2>6 DEF Good, Computed, WithCells, Abstract!WithCells
    <3>3. u.kind = "strip" => Data' = Abstract!WithCells(snap[w], FALSE)
      BY <1>0, <2>5, <2>6 DEF Good, Computed, WithCells, Abstract!WithCells
    <3>4. u.kind = "rewrite" => \A r, s \in Data' : r.val = s.val /\ ~r.cell
      <4>1. u.kind = "rewrite" => u.rows = BroughtBy(u)
        BY <1>0 DEF Good, Computed, Reading, Unlisted, Unwritten
      <4>2. \A r \in BroughtBy(u) : r.val = u.op /\ ~r.cell
        BY DEF BroughtBy
      <4> QED BY <2>6, <4>1, <4>2
    <3>5. Abstract!Commit(w)
      BY <1>0, <2>2, <2>5, <3>1, <3>2, <3>3, <3>4 DEF Abstract!Commit, role, snap
    <3> QED BY <3>5 DEF Abstract!Next
  <2> QED BY <2>2, <2>4, <2>6, Drops
<1> QED BY <1>1, <1>2 DEF Swap

\* add_table_file is the abstract commit of an append.
LEMMA AddCommits == ASSUME RefInv, NEW w \in Writers, Add(w) PROVE Abstract!Next
<1> DEFINE u == writers[w]
           t == [writers[w] EXCEPT !.old = {}, !.pc = "clean"]
<1>0. /\ TypeInv /\ u \in Writer /\ u.pc = "add" /\ disk' = disk /\ Good(u, disk, listed, nextOp)
      /\ u.kind \in {"append", "overwrite"}
  BY Here DEF Add, At, Fits, Ingest
<1>1. CASE Return(w) /\ UNCHANGED listed
  BY <1>0, <1>1, SameData, Finishes
<1>2. CASE listed' = listed \cup {u.op} /\ GoWith(w, t)
  <2>1. writers' = [writers EXCEPT ![w] = t] /\ t.kind = u.kind /\ t.seen = u.seen
    BY <1>0, <1>2 DEF GoWith, Writer
  <2>2. role' = role /\ snap' = snap
    BY <1>0, <2>1, SameRole
  <2>3. u.rows = BroughtBy(u)
    BY <1>0 DEF Good, Computed, Reading, Unlisted, Unwritten
  <2>4. \A r \in u.rows : r.val = u.op /\ ~r.cell
    BY <2>3 DEF BroughtBy
  <2>5. \A f \in disk : f.id = u.op => f.rows = u.rows
    BY <1>0 DEF Good, OwnFile, Unlisted, Unwritten
  <2>6. Data \subseteq Data' /\ \A r \in Data' : r \in Data \/ r \in u.rows
    BY <1>0, <1>2, <2>5, DataIs, DataIsAgain DEF RowsAt
  <2>7. \A r, s \in Data' \ Data : r.val = s.val /\ ~r.cell
    BY <2>4, <2>6
  <2>8. Abstract!Commit(w)
    BY <1>0, <2>2, <2>6, <2>7 DEF Abstract!Commit, role, snap
  <2> QED BY <2>8 DEF Abstract!Next
<1> QED BY <1>1, <1>2 DEF Add

\* Deletions, the index and a crash.
LEMMA OtherSteps ==
    RefInv /\ (DeleteRow \/ RemoveDir \/ IndexLookup \/ IndexList \/ IndexStore \/ Crash)
        => [Abstract!Next]_(Abstract!avars)
<1> SUFFICES ASSUME RefInv, DeleteRow \/ RemoveDir \/ IndexLookup \/ IndexList \/ IndexStore \/ Crash
             PROVE  [Abstract!Next]_(Abstract!avars)
  OBVIOUS
<1>1. CASE DeleteRow \/ RemoveDir
  <2>1. writers' = writers /\ (listed' = {} \/ disk' = {})
    BY <1>1 DEF DeleteRow, RemoveDir
  <2>2. Data' = {}
    BY <2>1, DataIsAgain DEF RowsAt
  <2>3. role' = role /\ snap' = snap
    BY <2>1 DEF role, snap
  <2> QED BY <2>2, <2>3, Drops
<1>2. CASE IndexLookup \/ IndexList \/ IndexStore
  <2>1. writers' = writers /\ disk' = disk /\ listed' = listed
    BY <1>2 DEF IndexLookup, IndexList, IndexStore, catalog
  <2> QED BY <2>1, SameData DEF Abstract!avars
<1>3. CASE Crash
  <2>1. writers' = [w \in Writers |-> Idle] /\ Data' = Data
    BY <1>3, SameData DEF Crash, catalog
  <2>2. Abstract!Restart
    BY <2>1 DEF Abstract!Restart, Idle
  <2> QED BY <2>2 DEF Abstract!Next
<1> QED BY <1>1, <1>2, <1>3

\* Initial states map to initial states.
LEMMA InitMaps == Init => Abstract!Init
<1> SUFFICES ASSUME Init PROVE Abstract!Init
  OBVIOUS
<1>1. Data \in SUBSET Abstract!Row
  <2>1. TypeInv
    BY InitTypes
  <2>2. Data \in SUBSET Row
    BY <2>1, RowsKnown DEF Data
  <2> QED BY <2>2 DEF Row, Abstract!Row
<1>2. writers = [w \in Writers |-> Idle]
  BY DEF Init
<1> QED BY <1>1, <1>2 DEF Abstract!Init, Idle

\* Every step maps to a step or a stutter.
LEMMA StepMaps == RefInv /\ [Next]_vars => [Abstract!Next]_(Abstract!avars)
<1> SUFFICES ASSUME RefInv, [Next]_vars PROVE [Abstract!Next]_(Abstract!avars)
  OBVIOUS
<1>1. ASSUME NEW w \in Writers, NEW k \in Kinds, NEW b \in {{}} \cup Batches, Begin(w, k, b)
      PROVE  Abstract!Next
  BY <1>1, BeginStarts
<1>2. ASSUME NEW w \in Writers,
             \/ Lookup(w) \/ Create(w) \/ CreateMeta(w) \/ List(w) \/ Read(w) \/ Check(w)
             \/ Relist(w) \/ Unlink(w) \/ Unlist(w) \/ Write(w) \/ Swap(w) \/ Meta(w) \/ Add(w)
             \/ Clean(w) \/ Fail(w)
      PROVE  [Abstract!Next]_(Abstract!avars)
  BY <1>2, QuietSteps, ListTakes, DiscardSteps, WriteStutters, SwapCommits, AddCommits, CleanFinishes
<1>3. CASE DeleteRow \/ RemoveDir \/ IndexLookup \/ IndexList \/ IndexStore \/ Crash
  BY <1>3, OtherSteps
<1>4. CASE UNCHANGED vars
  <2>1. writers' = writers /\ Data' = Data
    BY <1>4, SameData DEF vars, catalog
  <2> QED BY <2>1 DEF Abstract!avars
<1> QED BY <1>1, <1>2, <1>3, <1>4 DEF Next

\* Refinement: every behaviour of the store, however writers interleave, fail,
\* crash and delete, is a behaviour of the atomic table.
THEOREM Refinement == Spec => ImplementsAtomicTable
<1> QED BY InitRefines, StepRefInv, InitMaps, StepMaps, PTL
        DEF Spec, ImplementsAtomicTable, Abstract!Spec

-----------------------------------------------------------------------------
\* The catalog and the disk.  The file an operation wrote is there until it is
\* listed, and a table that no deletion raced keeps the row id its writers hold.
Written(t) == Unlisted(t) /\ ~Unwritten(t)

Undropped ==
    /\ dropping => listed = {} /\ \A w \in Writers : writers[w].pc = "idle"
    /\ \A w \in Writers : writers[w].tid # 0 => row.id = writers[w].tid
    /\ \A w \in Writers : Written(writers[w]) => writers[w].op \in Ids(disk)
    /\ ~history.torn => listed \subseteq Ids(disk)

DiskInv == RefInv /\ (~history.dropped => Undropped)

\* Operations that run one after the other.  At rest, the files on disk are the
\* listed ones and the row counts their rows.
Exact ==
    /\ Ids(disk) = listed
    /\ row.total = Cardinality(Data) + history.stale
    /\ row = NoRow => listed = {}

Untouched(t) ==
    \/ t.pc \in {"lookup", "createMeta", "list", "read", "check", "relist", "unlink"}
    \/ t.pc = "create" /\ t.kind = "merge"
    \/ t.pc = "write" /\ (t.kind # "overwrite" \/ t.tid = 0)

\* Where the one operation that runs stands: before it wrote,
BeforeFile(t) ==
    /\ Untouched(t) => Exact
    /\ t.pc = "create" \/ (t.pc = "write" /\ t.tid = 0) => row = NoRow
    /\ t.pc = "createMeta" => listed = {} /\ history.stale = 0
    /\ t.pc = "write" /\ t.tid # 0 /\ t.kind \notin Ingest => t.old = listed
    /\ t.pc = "write" /\ t.kind = "append" => t.total = row.total
    /\ t.pc = "read" /\ t.kind = "merge" => t.old = listed
    /\ t.kind = "rewrite" /\ (t.pc = "lookup" \/ (t.pc = "write" /\ t.tid = 0)) => t.old = {}
    /\ t.pc = "unlink" => t.old = listed
    /\ t.pc = "unlist" => disk = {}
    /\ t.pc = "write" /\ t.kind = "overwrite" => disk = {} /\ listed = {}

\* ... with its file written and not listed,
WithFile(t) ==
    /\ Written(t) => Ids(disk) = listed \cup {t.op} /\ \A r \in Data : r.val # t.op
    /\ t.pc = "create" /\ t.kind # "merge" => listed = {}
    /\ t.pc = "create" /\ t.kind = "rewrite" => t.old = {}
    /\ Written(t) /\ t.kind = "append" /\ t.pc # "add" =>
          t.total = Cardinality(Data) + history.stale
    /\ Written(t) /\ t.kind = "overwrite" => listed = {}
    /\ t.pc = "swap" => t.old = listed
    /\ t.pc = "add" => row.total = Cardinality(Data) + Cardinality(t.rows) + history.stale

\* ... and with its file listed.
AfterFile(t) ==
    /\ t.pc = "meta" /\ t.kind \notin Ingest => listed = Ids(disk) \ t.old /\ Data = t.rows
    /\ t.pc = "clean" => /\ listed = Ids(disk) \ t.old /\ row # NoRow
                         /\ row.total = Cardinality(Data) + history.stale

Stage(t) == BeforeFile(t) /\ WithFile(t) /\ AfterFile(t)

Sequential == ~history.overlap /\ mishaps = 0

OneByOne ==
    /\ ~history.dropped
    /\ \A w, o \in Writers : writers[w].pc # "idle" /\ writers[o].pc # "idle" => w = o
    /\ dropping => row = NoRow /\ history.stale = 0
    /\ (\A w \in Writers : writers[w].pc = "idle") /\ ~dropping => Exact
    /\ \A w \in Writers : writers[w].pc # "idle" => Stage(writers[w])

ExactInv == DiskInv /\ (Sequential => OneByOne)

\* What each step of a writer does to the writer.
Keeps(t, u) == t.kind = u.kind /\ t.op = u.op /\ t.batch = u.batch

\* What the steps do to the caller, in the fields that matter.
LEMMA LookupDoes ==
    ASSUME TypeInv, NEW w \in Writers, Lookup(w)
    PROVE  /\ writers[w].pc = "lookup"
           /\ UNCHANGED <<row, listed, disk, dropping, history, mishaps>>
           /\ \/ Return(w)
              \/ \E t : /\ writers' = [writers EXCEPT ![w] = t] /\ Keeps(t, writers[w])
                        /\ t.old = writers[w].old /\ t.tid = row.id
                        /\ t.kind = "materialize" => t.version = row.version
                        /\ \/ t.pc = "create" /\ t.kind = "merge" /\ row = NoRow
                           \/ t.pc = "list" /\ t.kind \in Reading /\ row # NoRow
                           \/ t.pc = "relist" /\ t.kind \in {"rewrite", "overwrite"} /\ row # NoRow
                           \/ t.pc = "write" /\ t.kind = "append" /\ t.total = row.total
                           \/ t.pc = "write" /\ t.kind \in {"rewrite", "overwrite"} /\ row = NoRow
<1> DEFINE next == AfterLookup(writers[w].kind, row # NoRow)
           t == [writers[w] EXCEPT !.pc = next, !.tid = row.id,
                    !.version = IF Is(w, "materialize") THEN row.version ELSE 0,
                    !.total = IF Is(w, "append") THEN row.total ELSE 0]
<1>1. writers[w].pc = "lookup" /\ UNCHANGED <<row, listed, disk, dropping, history, mishaps>>
  BY DEF Lookup, At, catalog, counters
<1>2. CASE next = "idle"
  BY <1>1, <1>2 DEF Lookup
<1>3. CASE next # "idle"
  <2>1. writers' = [writers EXCEPT ![w] = t]
    BY <1>3 DEF Lookup, GoWith
  <2>2. writers[w].kind \in {"merge", "materialize", "rewrite", "append", "overwrite"}
    BY <1>1, Known, TableStoreAssumption DEF Sound, Writer, Fits
  <2>3. \/ next = "create" /\ writers[w].kind = "merge" /\ row = NoRow
        \/ next = "list" /\ writers[w].kind \in Reading /\ row # NoRow
        \/ next = "relist" /\ writers[w].kind \in {"rewrite", "overwrite"} /\ row # NoRow
        \/ next = "write" /\ writers[w].kind = "append"
        \/ next = "write" /\ writers[w].kind \in {"rewrite", "overwrite"} /\ row = NoRow
    BY <1>3, <2>2 DEF AfterLookup, Reading
  <2>4. /\ t.pc = next /\ Keeps(t, writers[w]) /\ t.old = writers[w].old /\ t.tid = row.id
        /\ t.kind = "append" => t.total = row.total
        /\ t.kind = "materialize" => t.version = row.version
    BY Known DEF Writer, Keeps, Is
  <2> HIDE DEF t, next
  <2>5. \/ t.pc = "create" /\ t.kind = "merge" /\ row = NoRow
        \/ t.pc = "list" /\ t.kind \in Reading /\ row # NoRow
        \/ t.pc = "relist" /\ t.kind \in {"rewrite", "overwrite"} /\ row # NoRow
        \/ t.pc = "write" /\ t.kind = "append" /\ t.total = row.total
        \/ t.pc = "write" /\ t.kind \in {"rewrite", "overwrite"} /\ row = NoRow
    BY <2>3, <2>4 DEF Keeps
  <2> QED BY <1>1, <2>1, <2>4, <2>5
<1> QED BY <1>2, <1>3

\* Create: what it does to the caller.
LEMMA CreateDoes ==
    ASSUME TypeInv, NEW w \in Writers, Create(w)
    PROVE  /\ writers[w].pc = "create"
           /\ UNCHANGED <<listed, disk, dropping, history, mishaps>>
           /\ \/ row # NoRow /\ row' = row /\ Return(w)
              \/ /\ row = NoRow /\ row'.id = writers[w].op /\ row'.total = 0 /\ row' # NoRow
                 /\ \E t : /\ writers' = [writers EXCEPT ![w] = t] /\ Keeps(t, writers[w])
                           /\ t.old = writers[w].old /\ t.tid = writers[w].op
                           /\ t.rows = writers[w].rows /\ t.total = writers[w].total
                           /\ \/ t.pc = "createMeta" /\ t.kind = "merge"
                              \/ t.pc = "swap" /\ t.kind = "rewrite"
                              \/ t.pc = "meta" /\ t.kind \in Ingest
<1> DEFINE pc == CASE Is(w, "merge")   -> "createMeta"
                   [] Is(w, "rewrite") -> "swap"
                   [] OTHER            -> "meta"
           t == [writers[w] EXCEPT !.tid = writers[w].op, !.pc = pc]
<1>1. writers[w].pc = "create" /\ UNCHANGED <<listed, disk, dropping, history, mishaps>>
  BY DEF Create, At, counters
<1>2. CASE row # NoRow
  BY <1>1, <1>2 DEF Create
<1>3. CASE row = NoRow
  <2>1. writers' = [writers EXCEPT ![w] = t] /\ row' = [NoRow EXCEPT !.id = writers[w].op]
    BY <1>3 DEF Create, GoWith
  <2>2. writers[w].kind \in {"merge", "rewrite", "append", "overwrite"} /\ writers[w].op # 0
    BY <1>1, Known, TableStoreAssumption DEF Sound, Writer, Fits, Revising
  <2>3. row'.id = writers[w].op /\ row'.total = 0 /\ row' # NoRow
    BY <2>1, <2>2 DEF NoRow
  <2>4. \/ pc = "createMeta" /\ writers[w].kind = "merge"
        \/ pc = "swap" /\ writers[w].kind = "rewrite"
        \/ pc = "meta" /\ writers[w].kind \in Ingest
    BY <2>2 DEF Is, Ingest
  <2> HIDE DEF pc
  <2>5. /\ t.pc = pc /\ Keeps(t, writers[w]) /\ t.old = writers[w].old /\ t.tid = writers[w].op
        /\ t.rows = writers[w].rows /\ t.total = writers[w].total
    BY Known DEF Writer, Keeps
  <2> HIDE DEF t
  <2>6. \/ t.pc = "createMeta" /\ t.kind = "merge"
        \/ t.pc = "swap" /\ t.kind = "rewrite"
        \/ t.pc = "meta" /\ t.kind \in Ingest
    BY <2>4, <2>5 DEF Keeps
  <2> QED BY <1>1, <1>3, <2>1, <2>3, <2>5, <2>6
<1> QED BY <1>2, <1>3

\* Going on to pc changes nothing else of the writer.
LEMMA GoDoes ==
    ASSUME TypeInv, NEW w \in Writers, NEW pc, Go(w, pc)
    PROVE  \E t : /\ writers' = [writers EXCEPT ![w] = t] /\ Keeps(t, writers[w]) /\ t.pc = pc
                  /\ t.old = writers[w].old /\ t.tid = writers[w].tid
                  /\ t.rows = writers[w].rows /\ t.total = writers[w].total
<1> DEFINE t == [writers[w] EXCEPT !.pc = pc]
<1>1. writers' = [writers EXCEPT ![w] = t]
  BY DEF Go
<1>2. /\ t.pc = pc /\ Keeps(t, writers[w]) /\ t.old = writers[w].old /\ t.tid = writers[w].tid
      /\ t.rows = writers[w].rows /\ t.total = writers[w].total
  BY Known DEF Writer, Keeps
<1> HIDE DEF t
<1> QED BY <1>1, <1>2

\* update_table_meta keeps the id and sets the total.
LEMMA BumpedIs ==
    ASSUME TypeInv, NEW total
    PROVE  Bumped(total).id = row.id /\ Bumped(total).total = total
BY DEF Bumped, TypeInv, TypeOK

\* List: what it does to the caller.
LEMMA ListDoes ==
    ASSUME TypeInv, NEW w \in Writers, List(w)
    PROVE  /\ writers[w].pc = "list" /\ writers[w].kind \in Reading
           /\ UNCHANGED <<row, listed, disk, dropping, history, mishaps>>
           /\ \/ Return(w)
              \/ \E t : /\ writers' = [writers EXCEPT ![w] = t] /\ Keeps(t, writers[w])
                        /\ t.pc = "read" /\ t.tid = writers[w].tid
                        /\ t.version = writers[w].version /\ t.base = t.old
                        /\ t.old = ListFor(IF t.kind = "merge" THEN t.tid ELSE row.id)
<1> DEFINE ids == ListFor(IF Is(w, "merge") THEN writers[w].tid ELSE row.id)
           t == [writers[w] EXCEPT !.pc = "read", !.base = ids,
                                   !.seen = RowsOf(ids), !.old = ids]
<1>1. /\ writers[w].pc = "list" /\ writers[w].kind \in Reading
      /\ UNCHANGED <<row, listed, disk, dropping, history, mishaps>>
  BY Known DEF List, At, catalog, counters, Sound, Fits
<1>2. CASE GoWith(w, t)
  <2>1. writers' = [writers EXCEPT ![w] = t]
    BY <1>2 DEF GoWith
  <2>2. ids = ListFor(IF writers[w].kind = "merge" THEN writers[w].tid ELSE row.id)
    BY DEF Is
  <2> HIDE DEF ids
  <2>3. Keeps(t, writers[w]) /\ t.pc = "read" /\ t.old = ids /\ t.tid = writers[w].tid
        /\ t.version = writers[w].version /\ t.base = t.old
    BY Known DEF Writer, Keeps
  <2> HIDE DEF t
  <2>4. t.old = ListFor(IF t.kind = "merge" THEN t.tid ELSE row.id)
    BY <2>2, <2>3 DEF Keeps
  <2> QED BY <1>1, <2>1, <2>3, <2>4
<1> QED BY <1>1, <1>2 DEF List

\* Read: what it does to the caller.
LEMMA ReadDoes ==
    ASSUME TypeInv, NEW w \in Writers, Read(w)
    PROVE  /\ writers[w].pc = "read" /\ writers[w].kind \in Reading
           /\ UNCHANGED <<row, listed, disk, dropping, history, mishaps>>
           /\ \/ Return(w)
              \/ \E t : /\ writers' = [writers EXCEPT ![w] = t] /\ Keeps(t, writers[w])
                        /\ t.pc = IF t.kind = "merge" THEN "write" ELSE "check"
                        /\ t.old = writers[w].old /\ t.tid = writers[w].tid
                        /\ t.version = writers[w].version /\ t.base = writers[w].base
<1> DEFINE rows == Result(w, RowsOf(writers[w].base))
           pc == IF Is(w, "merge") THEN "write" ELSE "check"
           t == [writers[w] EXCEPT !.rows = rows, !.pc = pc]
<1>1. /\ writers[w].pc = "read" /\ writers[w].kind \in Reading
      /\ UNCHANGED <<row, listed, disk, dropping, history, mishaps>>
  BY Known DEF Read, At, catalog, counters, Sound, Fits
<1>2. CASE GoWith(w, t)
  <2>1. writers' = [writers EXCEPT ![w] = t] /\ pc = IF writers[w].kind = "merge" THEN "write" ELSE "check"
    BY <1>2 DEF GoWith, Is
  <2> HIDE DEF rows, pc
  <2>2. Keeps(t, writers[w]) /\ t.pc = pc /\ t.old = writers[w].old /\ t.tid = writers[w].tid
        /\ t.version = writers[w].version /\ t.base = writers[w].base
    BY Known DEF Writer, Keeps
  <2> HIDE DEF t
  <2>3. t.pc = IF t.kind = "merge" THEN "write" ELSE "check"
    BY <2>1, <2>2 DEF Keeps
  <2> QED BY <1>1, <2>1, <2>2, <2>3
<1> QED BY <1>1, <1>2 DEF Read

\* Check: what it does to the caller.
LEMMA CheckDoes ==
    ASSUME TypeInv, NEW w \in Writers, Check(w)
    PROVE  /\ writers[w].pc = "check" /\ writers[w].kind \in Revising
           /\ UNCHANGED <<row, listed, disk, dropping, history, mishaps>>
           /\ \/ Return(w)
              \/ \E t : /\ writers' = [writers EXCEPT ![w] = t] /\ Keeps(t, writers[w])
                        /\ t.pc \in {"lookup", "relist"} /\ t.tid \in {writers[w].tid, row.id}
<1> DEFINE again == [writers[w] EXCEPT !.pc = "lookup", !.tries = @ + 1]
           on == [writers[w] EXCEPT !.pc = "relist", !.tid = row.id]
<1>1. /\ writers[w].pc = "check" /\ writers[w].kind \in Revising
      /\ UNCHANGED <<row, listed, disk, dropping, history, mishaps>>
  BY Known DEF Check, At, catalog, counters, Sound, Fits
<1>2. ASSUME NEW t, t \in {again, on}, GoWith(w, t)
      PROVE  /\ writers' = [writers EXCEPT ![w] = t] /\ Keeps(t, writers[w])
             /\ t.pc \in {"lookup", "relist"} /\ t.tid \in {writers[w].tid, row.id}
  BY <1>2, Known DEF Writer, Keeps, GoWith
<1> QED BY <1>1, <1>2 DEF Check

\* Relist: what it does to the caller.
LEMMA RelistDoes ==
    ASSUME TypeInv, NEW w \in Writers, Relist(w)
    PROVE  /\ writers[w].pc = "relist" /\ writers[w].tid # 0
           /\ writers[w].kind \in {"materialize", "strip", "rewrite", "overwrite"}
           /\ UNCHANGED <<row, listed, disk, dropping, history, mishaps>>
           /\ \E t : /\ writers' = [writers EXCEPT ![w] = t] /\ Keeps(t, writers[w])
                     /\ t.pc = IF t.kind = "overwrite" THEN "unlink" ELSE "write"
                     /\ t.old = ListFor(t.tid) /\ t.tid = writers[w].tid
<1> DEFINE pc == IF Is(w, "overwrite") THEN "unlink" ELSE "write"
           old == ListFor(writers[w].tid)
           t == [writers[w] EXCEPT !.old = old, !.pc = pc]
<1>1. /\ writers[w].pc = "relist" /\ writers[w].tid # 0
      /\ writers[w].kind \in {"materialize", "strip", "rewrite", "overwrite"}
      /\ UNCHANGED <<row, listed, disk, dropping, history, mishaps>>
  BY Known DEF Relist, At, catalog, counters, Sound, Fits
<1>2. /\ writers' = [writers EXCEPT ![w] = t] /\ old = ListFor(writers[w].tid)
      /\ pc = IF writers[w].kind = "overwrite" THEN "unlink" ELSE "write"
  BY DEF Relist, GoWith, Is
<1> HIDE DEF pc, old
<1>3. Keeps(t, writers[w]) /\ t.pc = pc /\ t.old = old /\ t.tid = writers[w].tid
  BY Known DEF Writer, Keeps
<1> HIDE DEF t
<1>4. t.pc = (IF t.kind = "overwrite" THEN "unlink" ELSE "write") /\ t.old = ListFor(t.tid)
  BY <1>2, <1>3 DEF Keeps
<1> QED BY <1>1, <1>2, <1>3, <1>4

\* Write: what it does to the caller.
LEMMA WriteDoes ==
    ASSUME TypeInv, NEW w \in Writers, Write(w)
    PROVE  /\ writers[w].pc = "write"
           /\ writers[w].tid = 0 => writers[w].kind \in Ingest \cup {"rewrite"}
           /\ UNCHANGED <<row, listed, dropping, mishaps>>
           /\ \/ /\ Return(w) /\ disk' = disk /\ writers[w].kind \in Ingest /\ writers[w].batch = {}
                 /\ history' = IF writers[w].kind = "overwrite" /\ writers[w].tid # 0
                               THEN [history EXCEPT !.stale = row.total] ELSE history
              \/ \E t : /\ writers' = [writers EXCEPT ![w] = t] /\ Keeps(t, writers[w])
                        /\ t.pc = IF t.tid = 0 THEN "create"
                                  ELSE IF t.kind \in Ingest THEN "meta" ELSE "swap"
                        /\ t.old = writers[w].old /\ t.tid = writers[w].tid
                        /\ t.total = writers[w].total
                        /\ disk' = disk \cup {[id |-> t.op, rows |-> t.rows]} /\ history' = history
<1> DEFINE rows == WrittenRows(w)
           pc == IF writers[w].tid = 0 THEN "create"
                 ELSE IF writers[w].kind \in Ingest THEN "meta" ELSE "swap"
           t == [writers[w] EXCEPT !.rows = rows, !.pc = pc]
<1>1. /\ writers[w].pc = "write"
      /\ writers[w].tid = 0 => writers[w].kind \in Ingest \cup {"rewrite"}
      /\ UNCHANGED <<row, listed, dropping, mishaps>>
  BY Known, TableStoreAssumption DEF Write, At, catalog, counters, Sound, Fits, Writer, Ingest, Reading
<1>2. CASE /\ Return(w) /\ disk' = disk /\ writers[w].kind \in Ingest /\ Brought(w) = {}
           /\ history' = IF writers[w].kind = "overwrite" /\ writers[w].tid # 0
                         THEN [history EXCEPT !.stale = row.total] ELSE history
  <2>1. writers[w].batch = {}
    BY <1>2 DEF Brought
  <2> QED BY <1>1, <1>2, <2>1
<1>3. CASE /\ disk' = disk \cup {[id |-> writers[w].op, rows |-> rows]} /\ GoWith(w, t)
           /\ history' = history
  <2>1. /\ writers' = [writers EXCEPT ![w] = t]
        /\ pc = IF writers[w].tid = 0 THEN "create"
                ELSE IF writers[w].kind \in Ingest THEN "meta" ELSE "swap"
    BY <1>3 DEF GoWith
  <2> HIDE DEF rows, pc
  <2>2. Keeps(t, writers[w]) /\ t.pc = pc /\ t.old = writers[w].old /\ t.tid = writers[w].tid
        /\ t.total = writers[w].total /\ t.rows = rows
    BY Known DEF Writer, Keeps
  <2> HIDE DEF t
  <2>3. /\ t.pc = IF t.tid = 0 THEN "create" ELSE IF t.kind \in Ingest THEN "meta" ELSE "swap"
        /\ disk' = disk \cup {[id |-> t.op, rows |-> t.rows]}
    BY <1>3, <2>1, <2>2 DEF Keeps
  <2> QED BY <1>1, <1>3, <2>1, <2>2, <2>3
<1> QED BY <1>2, <1>3 DEF Write, WrittenRows, Ingest, Is

\* Add: what it does to the caller.
LEMMA AddDoes ==
    ASSUME TypeInv, NEW w \in Writers, Add(w)
    PROVE  /\ writers[w].pc = "add" /\ writers[w].kind \in Ingest /\ writers[w].tid # 0
           /\ UNCHANGED <<row, disk, dropping, history, mishaps>>
           /\ \/ row.id # writers[w].tid /\ Return(w) /\ listed' = listed
              \/ /\ row.id = writers[w].tid /\ listed' = listed \cup {writers[w].op}
                 /\ \E t : /\ writers' = [writers EXCEPT ![w] = t] /\ Keeps(t, writers[w])
                           /\ t.pc = "clean" /\ t.old = {} /\ t.tid = writers[w].tid
<1> DEFINE t == [writers[w] EXCEPT !.old = {}, !.pc = "clean"]
<1>1. /\ writers[w].pc = "add" /\ writers[w].kind \in Ingest /\ writers[w].tid # 0
      /\ UNCHANGED <<row, disk, dropping, history, mishaps>>
  BY Known DEF Add, At, counters, Sound, Fits
<1>2. Keeps(t, writers[w]) /\ t.pc = "clean" /\ t.old = {} /\ t.tid = writers[w].tid
  BY Known DEF Writer, Keeps
<1> HIDE DEF t
<1> QED BY <1>1, <1>2 DEF Add, GoWith, t

\* What is left to show of a writer's step on a table that no deletion raced.
LEMMA UndroppedKept ==
    ASSUME RefInv, Undropped, NEW w \in Writers, NEW t, writers' = [writers EXCEPT ![w] = t],
           writers[w].pc # "idle", dropping' = dropping,
           row'.id = row.id \/ row.id = 0,
           t.tid # 0 => row'.id = t.tid,
           \A i \in Ids(disk) : i \in writers[w].old \/ i \in Ids(disk'),
           Written(t) => t.op \in Ids(disk'),
           ~history'.torn => listed' \subseteq Ids(disk')
    PROVE  Undropped'
<1>1. writers'[w] = t /\ \A o \in Writers : o # w => writers'[o] = writers[o]
  BY DEF RefInv, TypeInv, WritersSound
<1>2. ~dropping'
  BY DEF Undropped
<1>3. \A o \in Writers : writers'[o].tid # 0 => row'.id = writers'[o].tid
  BY <1>1 DEF Undropped
<1>4. \A o \in Writers : Written(writers'[o]) => writers'[o].op \in Ids(disk')
  <2> SUFFICES ASSUME NEW o \in Writers, Written(writers'[o]) PROVE writers'[o].op \in Ids(disk')
    OBVIOUS
  <2>1. CASE o # w
    <3>1. writers[o].op \in Ids(disk) /\ Unlisted(writers[o])
      BY <1>1, <2>1 DEF Undropped, Written
    <3>2. writers[o].op \notin writers[w].old
      BY <3>1 DEF RefInv, NotKnown
    <3> QED BY <1>1, <2>1, <3>1, <3>2
  <2> QED BY <1>1, <2>1
<1> QED BY <1>2, <1>3, <1>4 DEF Undropped

\* A caller that returns keeps it so.
LEMMA UndroppedReturned ==
    ASSUME RefInv, Undropped, NEW w \in Writers, Return(w), writers[w].pc # "idle", row' = row,
           disk' = disk, listed' = listed, dropping' = dropping, history'.torn = history.torn
    PROVE  Undropped'
<1>1. writers' = [writers EXCEPT ![w] = Idle] /\ Idle.tid = 0 /\ ~Written(Idle)
  BY DEF Return, Idle, Written, Unlisted, Unwritten
<1>2. ~history'.torn => listed' \subseteq Ids(disk')
  BY DEF Undropped
<1> QED BY <1>1, <1>2, UndroppedKept

\* A caller that moves on keeps it so.
LEMMA UndroppedMoved ==
    ASSUME RefInv, Undropped, NEW w \in Writers, NEW t, writers' = [writers EXCEPT ![w] = t],
           writers[w].pc # "idle", row'.id = row.id \/ row.id = 0,
           disk' = disk, listed' = listed, dropping' = dropping, history'.torn = history.torn,
           t.tid # 0 => row'.id = t.tid,
           Written(t) => Written(writers[w]) /\ t.op = writers[w].op
    PROVE  Undropped'
<1>1. ~history'.torn => listed' \subseteq Ids(disk')
  BY DEF Undropped
<1>2. Written(t) => t.op \in Ids(disk')
  BY DEF Undropped
<1> QED BY <1>1, <1>2, UndroppedKept

\* The ids on disk with one more file.
LEMMA NewFile == \A d, i, rows : Ids(d \cup {[id |-> i, rows |-> rows]}) = Ids(d) \cup {i}
<1> TAKE d, i, rows
<1> DEFINE f == [id |-> i, rows |-> rows]
<1>1. f.id = i
  OBVIOUS
<1> HIDE DEF f
<1>2. Ids(d \cup {f}) = Ids(d) \cup {i}
  BY <1>1 DEF Ids
<1> QED BY <1>2 DEF f

\* The writers' steps before the file is written.
LEMMA UndroppedReads ==
    ASSUME RefInv, Undropped, NEW w \in Writers,
           \/ Lookup(w) \/ CreateMeta(w) \/ List(w) \/ Read(w) \/ Check(w) \/ Relist(w)
    PROVE  Undropped'
<1>0. TypeInv /\ (writers[w].tid # 0 => row.id = writers[w].tid)
  BY DEF RefInv, Undropped
<1>1. CASE Lookup(w)
  <2>1. CASE Return(w)
    BY <1>0, <1>1, <2>1, LookupDoes, UndroppedReturned
  <2>2. CASE ~Return(w)
    <3>1. PICK t : /\ writers' = [writers EXCEPT ![w] = t] /\ t.tid = row.id
                   /\ \/ t.pc = "create" /\ t.kind = "merge"
                      \/ t.pc \in {"list", "relist", "write"}
      BY <1>0, <1>1, <2>2, LookupDoes
    <3>2. ~Written(t)
      BY <3>1 DEF Written, Unlisted, Unwritten
    <3> QED BY <1>0, <1>1, <3>1, <3>2, LookupDoes, UndroppedMoved
  <2> QED BY <2>1, <2>2
<1>2. CASE CreateMeta(w)
  <2>0. writers[w].pc = "createMeta" /\ disk' = disk /\ listed' = listed /\ dropping' = dropping /\ history' = history
    BY <1>2 DEF CreateMeta, At
  <2>1. CASE row.id = writers[w].tid
    <3>1. row'.id = row.id
      BY <1>0, <1>2, <2>1, BumpedIs DEF CreateMeta
    <3>2. PICK t : writers' = [writers EXCEPT ![w] = t] /\ t.pc = "list" /\ t.tid = writers[w].tid
      BY <1>0, <1>2, <2>1, GoDoes DEF CreateMeta
    <3>3. ~Written(t)
      BY <3>2 DEF Written, Unlisted, Unwritten
    <3> QED BY <1>0, <2>0, <3>1, <3>2, <3>3, UndroppedMoved
  <2>2. CASE row.id # writers[w].tid
    BY <1>2, <2>0, <2>2, UndroppedReturned DEF CreateMeta
  <2> QED BY <2>1, <2>2
<1>3. CASE List(w)
  <2>1. CASE Return(w)
    BY <1>0, <1>3, <2>1, ListDoes, UndroppedReturned
  <2>2. CASE ~Return(w)
    <3>1. PICK t : /\ writers' = [writers EXCEPT ![w] = t] /\ t.tid = writers[w].tid
                   /\ t.pc = "read"
      BY <1>0, <1>3, <2>2, ListDoes
    <3>2. ~Written(t)
      BY <3>1 DEF Written, Unlisted, Unwritten
    <3> QED BY <1>0, <1>3, <3>1, <3>2, ListDoes, UndroppedMoved
  <2> QED BY <2>1, <2>2
<1>4. CASE Read(w)
  <2>1. CASE Return(w)
    BY <1>0, <1>4, <2>1, ReadDoes, UndroppedReturned
  <2>2. CASE ~Return(w)
    <3>1. PICK t : /\ writers' = [writers EXCEPT ![w] = t] /\ t.tid = writers[w].tid
                   /\ t.pc \in {"write", "check"}
      BY <1>0, <1>4, <2>2, ReadDoes
    <3>2. ~Written(t)
      BY <3>1 DEF Written, Unlisted, Unwritten
    <3> QED BY <1>0, <1>4, <3>1, <3>2, ReadDoes, UndroppedMoved
  <2> QED BY <2>1, <2>2
<1>5. CASE Check(w)
  <2>1. CASE Return(w)
    BY <1>0, <1>5, <2>1, CheckDoes, UndroppedReturned
  <2>2. CASE ~Return(w)
    <3>1. PICK t : /\ writers' = [writers EXCEPT ![w] = t] /\ t.tid \in {writers[w].tid, row.id}
                   /\ t.pc \in {"lookup", "relist"}
      BY <1>0, <1>5, <2>2, CheckDoes
    <3>2. ~Written(t)
      BY <3>1 DEF Written, Unlisted, Unwritten
    <3> QED BY <1>0, <1>5, <3>1, <3>2, CheckDoes, UndroppedMoved
  <2> QED BY <2>1, <2>2
<1>6. CASE Relist(w)
  <2>1. PICK t : /\ writers' = [writers EXCEPT ![w] = t] /\ t.tid = writers[w].tid
                 /\ t.pc \in {"unlink", "write"}
    BY <1>0, <1>6, RelistDoes
  <2>2. ~Written(t)
    BY <2>1 DEF Written, Unlisted, Unwritten
  <2> QED BY ZenonT(30), <1>0, <1>6, <2>1, <2>2, RelistDoes, UndroppedMoved
<1> QED BY <1>1, <1>2, <1>3, <1>4, <1>5, <1>6

\* ... the steps that make a row, write the file and take files away,
LEMMA UndroppedFiles ==
    ASSUME RefInv, Undropped, NEW w \in Writers,
           \/ Create(w) \/ Unlink(w) \/ Unlist(w) \/ Write(w) \/ Clean(w)
    PROVE  Undropped'
<1>0. /\ TypeInv /\ Fits(writers[w]) /\ (writers[w].tid # 0 => row.id = writers[w].tid)
      /\ Good(writers[w], disk, listed, nextOp)
      /\ (~history.torn => listed \subseteq Ids(disk))
  BY Here DEF Undropped
<1>1. CASE Create(w)
  <2>1. CASE row # NoRow
    BY <1>0, <1>1, <2>1, CreateDoes, UndroppedReturned
  <2>2. CASE row = NoRow
    <3>1. row.id = 0
      BY <2>2 DEF NoRow
    <3>2. PICK t : /\ writers' = [writers EXCEPT ![w] = t] /\ Keeps(t, writers[w]) /\ t.tid = writers[w].op
                   /\ \/ t.pc = "createMeta" /\ t.kind = "merge"
                      \/ t.pc = "swap" /\ t.kind = "rewrite"
                      \/ t.pc = "meta" /\ t.kind \in Ingest
      BY <1>0, <1>1, <2>2, CreateDoes
    <3>3. row'.id = t.tid /\ writers[w].pc = "create"
      BY <1>0, <1>1, <2>2, <3>2, CreateDoes
    <3>4. Written(t) => Written(writers[w]) /\ t.op = writers[w].op
      BY <3>2, <3>3 DEF Written, Unlisted, Unwritten, Keeps, Ingest
    <3> QED BY <1>0, <1>1, <3>1, <3>2, <3>3, <3>4, CreateDoes, UndroppedMoved
  <2> QED BY <2>1, <2>2
<1>2. CASE Unlink(w)
  <2>1. PICK t : writers' = [writers EXCEPT ![w] = t] /\ t.pc = "unlist" /\ t.tid = writers[w].tid
    BY <1>0, <1>2, GoDoes DEF Unlink
  <2>2. ~Written(t)
    BY <2>1 DEF Written, Unlisted, Unwritten
  <2>3. \A i \in Ids(disk) : i \in writers[w].old \/ i \in Ids(disk')
    BY <1>2 DEF Unlink, Ids
  <2>4. history'.torn = TRUE
    BY <1>0, <1>2 DEF Unlink, TypeInv, TypeOK, History
  <2> QED BY <1>0, <1>2, <2>1, <2>2, <2>3, <2>4, UndroppedKept DEF Unlink, At, catalog
<1>3. CASE Unlist(w)
  <2>1. PICK t : writers' = [writers EXCEPT ![w] = t] /\ t.pc = "write" /\ t.tid = writers[w].tid
    BY <1>0, <1>3, GoDoes DEF Unlist
  <2>2. ~Written(t)
    BY <2>1 DEF Written, Unlisted, Unwritten
  <2>3. listed' = {}
    BY <1>0, <1>3 DEF Unlist, At, Fits
  <2> QED BY <1>0, <1>3, <2>1, <2>2, <2>3, UndroppedKept DEF Unlist, At
<1>4. CASE Write(w)
  <2>1. CASE disk' = disk /\ Return(w)
    BY <1>0, <1>4, <2>1, OnlyStale, WriteDoes, UndroppedReturned
  <2>2. CASE ~(disk' = disk /\ Return(w))
    <3>1. PICK t : /\ writers' = [writers EXCEPT ![w] = t] /\ t.tid = writers[w].tid
                   /\ disk' = disk \cup {[id |-> t.op, rows |-> t.rows]}
      BY <1>0, <1>4, <2>2, WriteDoes
    <3>2. Ids(disk') = Ids(disk) \cup {t.op}
      BY <3>1, NewFile
    <3>3. ~history'.torn => listed' \subseteq Ids(disk')
      BY <1>0, <1>4, <3>2, OnlyStale, WriteDoes
    <3> QED BY ZenonT(30), <1>0, <1>4, <3>1, <3>2, <3>3, WriteDoes, UndroppedKept
  <2> QED BY <2>1, <2>2
<1>5. CASE Clean(w)
  <2>1. /\ writers' = [writers EXCEPT ![w] = Idle] /\ Idle.tid = 0 /\ ~Written(Idle)
        /\ writers[w].pc = "clean"
    BY <1>5 DEF Clean, At, Return, Idle, Written, Unlisted, Unwritten
  <2>2. \A i \in Ids(disk) : i \in writers[w].old \/ i \in Ids(disk')
    BY <1>5 DEF Clean, Ids
  <2>3. writers[w].old \cap listed = {}
    BY <1>0, <2>1 DEF Good, Replaced
  <2>4. ~history'.torn => listed' \subseteq Ids(disk')
    BY <1>0, <1>5, <2>2, <2>3 DEF Clean, catalog
  <2> QED BY <1>0, <1>5, <2>1, <2>2, <2>4, UndroppedKept DEF Clean, catalog
<1> QED BY <1>1, <1>2, <1>3, <1>4, <1>5

\* ... and the steps that list the file.
LEMMA UndroppedLists ==
    ASSUME RefInv, Undropped, NEW w \in Writers, Swap(w) \/ Meta(w) \/ Add(w) \/ Fail(w)
    PROVE  Undropped'
<1>0. /\ TypeInv /\ Fits(writers[w]) /\ (writers[w].tid # 0 => row.id = writers[w].tid)
      /\ (Written(writers[w]) => writers[w].op \in Ids(disk))
      /\ (~history.torn => listed \subseteq Ids(disk))
  BY Here DEF Undropped
<1>1. CASE Swap(w)
  <2>1. writers[w].pc = "swap" /\ row.id = writers[w].tid /\ Written(writers[w])
    BY <1>0, <1>1 DEF Swap, At, Fits, Written, Unlisted, Unwritten
  <2>2. PICK t : writers' = [writers EXCEPT ![w] = t] /\ t.pc = "meta" /\ t.tid = writers[w].tid
                 /\ t.kind = writers[w].kind
    BY <1>0, <1>1, <2>1, GoDoes DEF Swap, Keeps
  <2>3. ~Written(t)
    BY <1>0, <2>1, <2>2 DEF Fits, Written, Unlisted, Unwritten
  <2>4. listed' = {writers[w].op} /\ row' = row /\ disk' = disk /\ dropping' = dropping /\ history' = history
    BY <1>1, <2>1 DEF Swap
  <2> QED BY <1>0, <2>1, <2>2, <2>3, <2>4, UndroppedKept
<1>2. CASE Meta(w)
  <2>1. /\ writers[w].pc = "meta" /\ row.id = writers[w].tid
        /\ disk' = disk /\ listed' = listed /\ dropping' = dropping /\ history'.torn = history.torn
    BY <1>0, <1>2, OnlyStale DEF Meta, At, Fits
  <2>2. row'.id = row.id
    BY <1>0, <1>2, <2>1, BumpedIs DEF Meta
  <2>3. PICK t : /\ writers' = [writers EXCEPT ![w] = t] /\ t.tid = writers[w].tid /\ Keeps(t, writers[w])
                 /\ t.pc = IF writers[w].kind \in Ingest THEN "add" ELSE "clean"
    BY <1>0, <1>2, <2>1, GoDoes DEF Meta, Ingest
  <2>4. Written(t) => Written(writers[w]) /\ t.op = writers[w].op
    BY <2>1, <2>3 DEF Written, Unlisted, Unwritten, Keeps
  <2> QED BY <1>0, <2>1, <2>2, <2>3, <2>4, UndroppedMoved
<1>3. CASE Add(w)
  <2>1. writers[w].pc = "add" /\ row.id = writers[w].tid /\ Written(writers[w])
    BY <1>0, <1>3 DEF Add, At, Fits, Written, Unlisted, Unwritten
  <2>2. PICK t : writers' = [writers EXCEPT ![w] = t] /\ t.pc = "clean" /\ t.tid = writers[w].tid
    BY <1>0, <1>3, <2>1, AddDoes
  <2>3. ~Written(t)
    BY <2>2 DEF Written, Unlisted, Unwritten
  <2>4. /\ listed' = listed \cup {writers[w].op}
        /\ row' = row /\ disk' = disk /\ dropping' = dropping /\ history' = history
    BY <1>3, <2>1 DEF Add
  <2> QED BY <1>0, <2>1, <2>2, <2>3, <2>4, UndroppedKept
<1>4. CASE Fail(w)
  <2>1. history'.torn = history.torn
    BY <1>0, <1>4 DEF Fail, TypeInv, TypeOK, History
  <2> QED BY <1>4, <2>1, UndroppedReturned DEF Fail, catalog
<1> QED BY <1>1, <1>2, <1>3, <1>4

\* It holds at the start.
LEMMA InitDisk == Init => DiskInv
<1> SUFFICES ASSUME Init PROVE DiskInv
  OBVIOUS
<1>1. RefInv
  BY InitRefines
<1>2. \A w \in Writers : writers[w] = Idle /\ Idle.tid = 0 /\ ~Written(Idle)
  BY DEF Init, Idle, Written, Unlisted, Unwritten
<1>3. listed \subseteq Ids(disk)
  <2>1. CASE listed = {}
    BY <2>1
  <2>2. CASE listed # {}
    <3>1. PICK rows : listed = {1} /\ disk = {} \cup {[id |-> 1, rows |-> rows]}
      BY <2>2 DEF Init
    <3>2. Ids(disk) = Ids({}) \cup {1}
      BY <3>1, NewFile
    <3> QED BY <3>1, <3>2
  <2> QED BY <2>1, <2>2
<1>4. ~dropping
  BY DEF Init
<1> QED BY <1>1, <1>2, <1>3, <1>4 DEF DiskInv, Undropped

\* Every step keeps it.
LEMMA StepDisk == DiskInv /\ [Next]_vars => DiskInv'
<1> SUFFICES ASSUME DiskInv, [Next]_vars PROVE DiskInv'
  OBVIOUS
<1>0. RefInv /\ RefInv' /\ TypeInv
  BY StepRefInv DEF DiskInv, RefInv
<1> SUFFICES ASSUME ~history'.dropped PROVE Undropped'
  BY <1>0 DEF DiskInv
<1>1. ASSUME NEW w \in Writers, NEW k \in Kinds, NEW b \in {{}} \cup Batches, Begin(w, k, b)
      PROVE  Undropped'
  <2>1. history'.dropped = (history.dropped \/ dropping) /\ history'.torn = history.torn
    BY <1>0, <1>1 DEF Begin, TypeInv, TypeOK, History
  <2>2. Undropped /\ ~dropping
    BY <2>1 DEF DiskInv
  <2> DEFINE t == [Idle EXCEPT !.pc = IF k = "strip" THEN "list" ELSE "lookup",
                               !.kind = k, !.op = nextOp, !.batch = b, !.tries = 1]
  <2>3. writers' = [writers EXCEPT ![w] = t] /\ UNCHANGED <<row, listed, disk, dropping>>
    BY <1>1 DEF Begin, GoWith, catalog
  <2>4. t.tid = 0 /\ t.pc \in {"list", "lookup"}
    BY DEF Idle
  <2> HIDE DEF t
  <2>5. ~Written(t)
    BY <2>4 DEF Written, Unlisted, Unwritten
  <2> QED BY <1>0, <2>1, <2>2, <2>3, <2>4, <2>5 DEF Undropped, TypeInv, WritersSound
<1>2. ASSUME NEW w \in Writers,
             \/ Lookup(w) \/ Create(w) \/ CreateMeta(w) \/ List(w) \/ Read(w) \/ Check(w)
             \/ Relist(w) \/ Unlink(w) \/ Unlist(w) \/ Write(w) \/ Swap(w) \/ Meta(w) \/ Add(w)
             \/ Clean(w) \/ Fail(w)
      PROVE  Undropped'
  <2>1. history'.dropped = history.dropped
    BY <1>0, <1>2 DEF Lookup, Create, CreateMeta, List, Read, Check, Relist, Unlink, Unlist, Write, Swap,
       Meta, Add, Clean, Fail, TypeInv, TypeOK, History
  <2>2. Undropped
    BY <2>1 DEF DiskInv
  <2> QED BY <1>0, <1>2, <2>2, UndroppedReads, UndroppedFiles, UndroppedLists
<1>3. CASE DeleteRow
  <2>1. history'.dropped = (history.dropped \/ Busy # {}) /\ history'.torn = history.torn
    BY <1>0, <1>3 DEF DeleteRow, TypeInv, TypeOK, History
  <2>2. \A w \in Writers : writers[w].pc = "idle"
    BY <2>1 DEF Busy
  <2>3. \A w \in Writers : writers[w].tid = 0 /\ ~Written(writers[w])
    BY <1>0, <2>2, Known DEF Sound, Fits, Idle, Written, Unlisted, Unwritten
  <2> QED BY <1>3, <2>2, <2>3 DEF DeleteRow, Undropped
<1>4. CASE RemoveDir
  <2>1. Undropped /\ dropping /\ history' = history
    BY <1>4 DEF RemoveDir, DiskInv
  <2>2. \A w \in Writers : ~Written(writers[w])
    BY <2>1 DEF Undropped, Written, Unlisted, Unwritten
  <2> QED BY <1>4, <2>1, <2>2 DEF RemoveDir, Undropped, catalog
<1>5. CASE IndexLookup \/ IndexList \/ IndexStore
  BY <1>5 DEF IndexLookup, IndexList, IndexStore, catalog, DiskInv, Undropped
<1>6. CASE Crash
  <2>1. \A w \in Writers : writers'[w] = Idle /\ Idle.tid = 0 /\ ~Written(Idle)
    BY <1>6 DEF Crash, Idle, Written, Unlisted, Unwritten
  <2> QED BY <1>6, <2>1 DEF Crash, catalog, DiskInv, Undropped
<1>7. CASE UNCHANGED vars
  BY <1>7 DEF vars, catalog, DiskInv, Undropped
<1> QED BY <1>1, <1>2, <1>3, <1>4, <1>5, <1>6, <1>7 DEF Next

(* ListedOnDisk always holds: what the catalog lists can be opened, unless *)
(* an overwriting ingest is halfway or a deletion raced a writer.          *)
THEOREM ListedFilesExist == Spec => []ListedOnDisk
<1>1. DiskInv => ListedOnDisk
  BY DEF DiskInv, Undropped, ListedOnDisk
<1> QED BY <1>1, InitDisk, StepDisk, PTL DEF Spec

\* What is known of the one operation that runs.
LEMMA Alone ==
    ASSUME ExactInv, Sequential, NEW w \in Writers, writers[w].pc # "idle"
    PROVE  /\ RefInv /\ TypeInv /\ Undropped /\ Sound(writers[w]) /\ Fits(writers[w])
           /\ Good(writers[w], disk, listed, nextOp)
           /\ Stage(writers[w]) /\ BeforeFile(writers[w]) /\ WithFile(writers[w]) /\ AfterFile(writers[w])
           /\ ~history.dropped /\ ~dropping /\ (writers[w].tid # 0 => row.id = writers[w].tid)
           /\ \A o \in Writers : o # w => writers[o].pc = "idle"
<1>1. RefInv /\ OneByOne /\ Undropped
  BY DEF ExactInv, DiskInv, OneByOne
<1> QED BY <1>1, Here DEF OneByOne, Undropped, Stage

\* What is left to show of its step, and of its return.
LEMMA OneStep ==
    ASSUME ExactInv, Sequential, NEW w \in Writers, NEW t, writers' = [writers EXCEPT ![w] = t],
           writers[w].pc # "idle", dropping' = dropping, history'.dropped = history.dropped,
           BeforeFile(t)', WithFile(t)', AfterFile(t)', t.pc # "idle"
    PROVE  OneByOne'
<1>1. /\ TypeInv /\ ~history.dropped /\ ~dropping
      /\ \A o \in Writers : o # w => writers[o].pc = "idle"
  BY Alone
<1>2. writers'[w] = t /\ \A o \in Writers : o # w => writers'[o] = writers[o]
  BY <1>1 DEF TypeInv, WritersSound
<1>3. \A o \in Writers : writers'[o].pc # "idle" => o = w
  BY <1>1, <1>2
<1>4. Stage(t)'
  BY DEF Stage
<1> HIDE DEF Stage
<1>5. \A o \in Writers : writers'[o].pc # "idle" => Stage(writers[o])'
  <2> SUFFICES ASSUME NEW o \in Writers, writers'[o].pc # "idle" PROVE Stage(writers[o])'
    OBVIOUS
  <2>1. o = w /\ writers'[o] = t
    BY <1>2, <1>3
  <2> QED BY <1>4, <2>1 DEF Stage, BeforeFile, WithFile, AfterFile, Untouched, Written, Unlisted, Unwritten
<1> QED BY <1>1, <1>2, <1>3, <1>5 DEF OneByOne

\* The operation ends.
LEMMA OneReturned ==
    ASSUME ExactInv, Sequential, NEW w \in Writers, Return(w),
           writers[w].pc # "idle", dropping' = dropping, history'.dropped = history.dropped, Exact'
    PROVE  OneByOne'
<1>1. /\ TypeInv /\ ~history.dropped /\ ~dropping
      /\ \A o \in Writers : o # w => writers[o].pc = "idle"
  BY Alone
<1>2. \A o \in Writers : writers'[o].pc = "idle"
  BY <1>1 DEF TypeInv, WritersSound, Return, Idle
<1> QED BY <1>1, <1>2 DEF OneByOne

\* Exactness is a matter of row, list and disk.
LEMMA ExactStays ==
    Exact /\ UNCHANGED <<row, listed, disk>> /\ history'.stale = history.stale => Exact'
BY SameData DEF Exact

\* No files, no ids and no rows.
LEMMA NoFiles == /\ Ids({}) = {}
                 /\ \A d : Ids(d) = {} => d = {}
                 /\ \A d : RowsAt(d, {}) = {}
                 /\ \A i : RowsAt({}, i) = {}
BY DEF Ids, RowsAt

\* The steps before the file is written.
LEMMA OneReads ==
    ASSUME ExactInv, Sequential, NEW w \in Writers,
           \/ Lookup(w) \/ List(w) \/ Read(w) \/ Check(w) \/ Relist(w)
    PROVE  OneByOne'
<1>0. /\ writers[w].pc # "idle" /\ writers[w].pc \in {"lookup", "list", "read", "check", "relist"}
      /\ UNCHANGED <<row, listed, disk, dropping, history>>
  BY DEF Lookup, List, Read, Check, Relist, At, catalog
<1>1. /\ TypeInv /\ RowHasId /\ Fits(writers[w]) /\ BeforeFile(writers[w]) /\ Exact /\ Exact'
      /\ (writers[w].tid # 0 => row.id = writers[w].tid)
  BY <1>0, Alone, ExactStays DEF BeforeFile, Untouched, TypeInv
<1>2. CASE Return(w)
  BY <1>0, <1>1, <1>2, OneReturned
<1>3. ASSUME NEW t, writers' = [writers EXCEPT ![w] = t], ~Written(t), t.pc \in Steps,
             t.pc \notin {"idle", "swap", "meta", "add", "clean"},
             t.pc = "create" => t.kind = "merge", BeforeFile(t)'
      PROVE  OneByOne'
  <2>1. WithFile(t)' /\ AfterFile(t)'
    BY <1>3 DEF WithFile, AfterFile
  <2> QED BY <1>0, <1>3, <2>1, OneStep
<1>4. CASE Lookup(w) /\ ~Return(w)
  <2>1. PICK t : /\ writers' = [writers EXCEPT ![w] = t] /\ Keeps(t, writers[w])
                 /\ t.old = writers[w].old /\ t.tid = row.id
                 /\ \/ t.pc = "create" /\ t.kind = "merge" /\ row = NoRow
                    \/ t.pc = "list" /\ t.kind \in Reading /\ row # NoRow
                    \/ t.pc = "relist" /\ t.kind \in {"rewrite", "overwrite"} /\ row # NoRow
                    \/ t.pc = "write" /\ t.kind = "append" /\ t.total = row.total
                    \/ t.pc = "write" /\ t.kind \in {"rewrite", "overwrite"} /\ row = NoRow
    BY <1>1, <1>4, LookupDoes
  <2>2. row = NoRow => disk = {} /\ listed = {} /\ row.id = 0
    BY <1>1, NoFiles DEF Exact, NoRow
  <2>3. row.id = 0 => row = NoRow
    BY <1>1 DEF RowHasId
  <2>4. BeforeFile(t)'
    BY <1>0, <1>1, <1>4, <2>1, <2>2, <2>3 DEF BeforeFile, Keeps, Ingest, Reading, Lookup, At
  <2> QED BY <1>3, <2>1, <2>4 DEF Written, Unlisted, Unwritten, Steps
<1>5. CASE List(w) /\ ~Return(w)
  <2>1. PICK t : /\ writers' = [writers EXCEPT ![w] = t] /\ Keeps(t, writers[w])
                 /\ t.pc = "read" /\ t.tid = writers[w].tid
                 /\ t.old = ListFor(IF t.kind = "merge" THEN t.tid ELSE row.id)
                 /\ t.kind \in Reading
    BY <1>1, <1>5, ListDoes DEF Keeps
  <2>2. t.kind = "merge" => t.old = listed
    BY <1>0, <1>1, <1>5, <2>1 DEF Fits, ListFor, Keeps, List, At
  <2>3. BeforeFile(t)'
    BY <1>0, <1>1, <2>1, <2>2 DEF BeforeFile, Keeps, Reading
  <2> QED BY <1>3, <2>1, <2>3 DEF Written, Unlisted, Unwritten, Steps
<1>6. CASE Read(w) /\ ~Return(w)
  <2>1. PICK t : /\ writers' = [writers EXCEPT ![w] = t] /\ Keeps(t, writers[w])
                 /\ t.pc = IF t.kind = "merge" THEN "write" ELSE "check"
                 /\ t.old = writers[w].old /\ t.tid = writers[w].tid
                 /\ t.kind \in Reading /\ writers[w].pc = "read"
    BY <1>1, <1>6, ReadDoes DEF Keeps
  <2>2. t.kind = "merge" => t.old = listed /\ t.tid # 0
    BY <1>1, <2>1 DEF Fits, BeforeFile, Keeps
  <2>3. BeforeFile(t)'
    BY <1>0, <1>1, <2>1, <2>2 DEF BeforeFile, Keeps, Reading
  <2> QED BY <1>3, <2>1, <2>3 DEF Written, Unlisted, Unwritten, Steps
<1>7. CASE Check(w) /\ ~Return(w)
  <2>1. PICK t : /\ writers' = [writers EXCEPT ![w] = t] /\ Keeps(t, writers[w])
                 /\ t.pc \in {"lookup", "relist"} /\ t.kind \in Revising
    BY <1>1, <1>7, CheckDoes DEF Keeps
  <2>2. BeforeFile(t)'
    BY <1>0, <1>1, <2>1 DEF BeforeFile, Revising
  <2> QED BY <1>3, <2>1, <2>2 DEF Written, Unlisted, Unwritten, Steps
<1>8. CASE Relist(w)
  <2>1. PICK t : /\ writers' = [writers EXCEPT ![w] = t] /\ Keeps(t, writers[w])
                 /\ t.pc = IF t.kind = "overwrite" THEN "unlink" ELSE "write"
                 /\ t.old = ListFor(t.tid) /\ t.tid = writers[w].tid
                 /\ t.kind \in {"materialize", "strip", "rewrite", "overwrite"} /\ t.tid # 0
    BY <1>1, <1>8, RelistDoes DEF Keeps
  <2>2. t.old = listed
    BY <1>1, <2>1 DEF ListFor
  <2>3. BeforeFile(t)'
    BY <1>0, <1>1, <2>1, <2>2 DEF BeforeFile, Keeps
  <2> QED BY <1>3, <2>1, <2>3 DEF Written, Unlisted, Unwritten, Steps
<1> QED BY <1>2, <1>4, <1>5, <1>6, <1>7, <1>8

\* Nothing listed or nothing on disk: no data.
LEMMA NoData == ASSUME listed = {} \/ disk = {} PROVE Data = {} /\ Cardinality(Data) = 0
BY NoFiles, DataIs, FS_EmptySet

\* The steps that make the table's row.
LEMMA OneCreates ==
    ASSUME ExactInv, Sequential, NEW w \in Writers, Create(w) \/ CreateMeta(w)
    PROVE  OneByOne'
<1>0. /\ writers[w].pc # "idle" /\ writers[w].pc \in {"create", "createMeta"}
      /\ UNCHANGED <<listed, disk, dropping, history>> /\ Data' = Data
  BY SameData DEF Create, CreateMeta, At
<1>1. /\ TypeInv /\ RowHasId /\ Fits(writers[w]) /\ BeforeFile(writers[w]) /\ WithFile(writers[w])
      /\ (writers[w].tid # 0 => row.id = writers[w].tid)
  BY <1>0, Alone DEF TypeInv
<1>2. CASE Create(w)
  <2>1. row = NoRow /\ writers[w].pc = "create"
    BY <1>1, <1>2 DEF BeforeFile, Create, At
  <2>2. row'.id = writers[w].op /\ row'.total = 0 /\ row' # NoRow
    BY <1>1, <1>2, <2>1, CreateDoes
  <2>3. PICK t : /\ writers' = [writers EXCEPT ![w] = t] /\ Keeps(t, writers[w])
                 /\ t.old = writers[w].old /\ t.tid = writers[w].op
                 /\ t.rows = writers[w].rows /\ t.total = writers[w].total
                 /\ \/ t.pc = "createMeta" /\ t.kind = "merge"
                    \/ t.pc = "swap" /\ t.kind = "rewrite"
                    \/ t.pc = "meta" /\ t.kind \in Ingest
    BY <1>1, <1>2, <2>1, CreateDoes
  <2>4. CASE t.pc = "createMeta" /\ t.kind = "merge"
    <3>1. Exact /\ listed = {} /\ history.stale = 0
      <4>1. Exact /\ listed = {} /\ row.total = 0 /\ history.stale \in Nat
        BY <1>1, <2>1, <2>3, <2>4 DEF BeforeFile, Untouched, Keeps, Exact, NoRow, TypeInv, TypeOK, History
      <4> QED BY <4>1, NoData DEF Exact
    <3>2. Exact'
      BY <1>0, <2>2, <3>1, NoData DEF Exact
    <3>3. BeforeFile(t)' /\ WithFile(t)' /\ AfterFile(t)'
      BY <1>0, <2>4, <3>1, <3>2 DEF BeforeFile, WithFile, AfterFile, Written, Unwritten, Unlisted
    <3> QED BY <1>0, <2>3, <2>4, <3>3, OneStep
  <2>5. CASE t.pc # "createMeta"
    <3>1. Written(writers[w]) /\ Written(t) /\ ~Untouched(t) /\ listed = {}
      BY <1>1, <2>1, <2>3, <2>5 DEF WithFile, Keeps, Written, Unwritten, Unlisted, Untouched, Ingest
    <3>2. BeforeFile(t)'
      BY <1>1, <2>3, <2>5, <3>1 DEF BeforeFile, Keeps
    <3>3. WithFile(t)'
      BY <1>0, <1>1, <2>1, <2>3, <2>5, <3>1 DEF WithFile, Keeps, Ingest, Written, Unlisted, Unwritten
    <3>4. AfterFile(t)'
      BY <2>3, <2>5 DEF AfterFile
    <3> QED BY <1>0, <2>3, <2>5, <3>2, <3>3, <3>4, OneStep
  <2> QED BY <2>3, <2>4, <2>5
<1>3. CASE CreateMeta(w)
  <2>1. /\ writers[w].pc = "createMeta" /\ row.id = writers[w].tid /\ Exact /\ listed = {}
        /\ history.stale = 0
    BY <1>1, <1>3 DEF CreateMeta, At, Fits, BeforeFile, Untouched
  <2>2. row'.total = 0
    BY <1>1, <1>3, <2>1, BumpedIs DEF CreateMeta
  <2>3. Exact'
    BY <1>0, <2>1, <2>2, NoData DEF Exact
  <2>4. PICK t : writers' = [writers EXCEPT ![w] = t] /\ Keeps(t, writers[w]) /\ t.pc = "list"
    BY <1>1, <1>3, <2>1, GoDoes DEF CreateMeta
  <2>5. BeforeFile(t)' /\ WithFile(t)' /\ AfterFile(t)'
    BY <1>1, <2>3, <2>4 DEF BeforeFile, WithFile, AfterFile, Written, Unwritten, Unlisted, Keeps
  <2> QED BY <1>0, <2>4, <2>5, OneStep
<1> QED BY <1>2, <1>3

\* An overwriting ingest empties the table.
LEMMA OneEmpties ==
    ASSUME ExactInv, Sequential, NEW w \in Writers, Unlink(w) \/ Unlist(w)
    PROVE  OneByOne'
<1>0. /\ writers[w].pc # "idle" /\ writers[w].pc \in {"unlink", "unlist"}
      /\ UNCHANGED <<row, dropping>>
  BY DEF Unlink, Unlist, At, catalog
<1>1. /\ TypeInv /\ Fits(writers[w]) /\ BeforeFile(writers[w])
      /\ (writers[w].tid # 0 => row.id = writers[w].tid)
  BY <1>0, Alone
<1>2. history'.dropped = history.dropped /\ history'.stale = history.stale
  BY <1>1 DEF Unlink, Unlist, TypeInv, TypeOK, History
<1>3. CASE Unlink(w)
  <2>1. writers[w].old = listed /\ Ids(disk) = listed /\ disk' = {f \in disk : f.id \notin writers[w].old}
    BY <1>1, <1>3 DEF Unlink, At, BeforeFile, Untouched, Exact
  <2>2. disk' = {}
    BY <2>1 DEF Ids
  <2>3. PICK t : writers' = [writers EXCEPT ![w] = t] /\ Keeps(t, writers[w]) /\ t.pc = "unlist"
    BY <1>1, <1>3, GoDoes DEF Unlink
  <2>4. BeforeFile(t)' /\ WithFile(t)' /\ AfterFile(t)'
    BY <1>1, <2>2, <2>3 DEF BeforeFile, Untouched, WithFile, AfterFile, Written, Unwritten, Unlisted, Keeps
  <2> QED BY <1>0, <1>2, <2>3, <2>4, OneStep
<1>4. CASE Unlist(w)
  <2>1. disk' = {} /\ listed' = {} /\ writers[w].kind = "overwrite" /\ writers[w].tid # 0
    BY <1>1, <1>4 DEF Unlist, At, BeforeFile, Fits
  <2>2. PICK t : /\ writers' = [writers EXCEPT ![w] = t] /\ Keeps(t, writers[w]) /\ t.pc = "write"
                 /\ t.tid = writers[w].tid
    BY <1>1, <1>4, GoDoes DEF Unlist
  <2>3. BeforeFile(t)' /\ WithFile(t)' /\ AfterFile(t)'
    BY <1>1, <2>1, <2>2 DEF BeforeFile, Untouched, WithFile, AfterFile, Written, Unwritten, Unlisted, Keeps, Ingest
  <2> QED BY <1>0, <1>2, <2>2, <2>3, OneStep
<1> QED BY <1>3, <1>4

\* The file of the operation alone is written,
LEMMA OneWrites == ASSUME ExactInv, Sequential, NEW w \in Writers, Write(w) PROVE OneByOne'
<1>0. writers[w].pc = "write" /\ UNCHANGED <<row, listed, dropping>>
  BY DEF Write, At, catalog
<1>1. /\ TypeInv /\ RefInv /\ Fits(writers[w]) /\ BeforeFile(writers[w])
      /\ Good(writers[w], disk, listed, nextOp)
  BY <1>0, Alone
<1>2. Data' = Data
  BY <1>1, WriteKeepsData
<1>3. Ids(disk) = listed /\ (writers[w].kind # "overwrite" => Exact)
  BY <1>0, <1>1, NoFiles DEF BeforeFile, Untouched, Exact
<1>d. history'.dropped = history.dropped
  BY <1>1, WriteDoes DEF TypeInv, TypeOK, History
<1>4. CASE /\ Return(w) /\ disk' = disk /\ writers[w].kind \in Ingest /\ writers[w].batch = {}
           /\ history' = IF writers[w].kind = "overwrite" /\ writers[w].tid # 0
                         THEN [history EXCEPT !.stale = row.total] ELSE history
  <2>1. CASE writers[w].kind = "overwrite" /\ writers[w].tid # 0
    <3>1. disk = {} /\ listed = {}
      BY <1>0, <1>1, <2>1 DEF BeforeFile
    <3>2. history'.stale = row.total /\ row.total \in Nat
      BY <1>1, <1>4, <2>1 DEF TypeInv, TypeOK, History
    <3>3. Cardinality(Data') = 0
      BY <1>2, <3>1, NoData
    <3>4. Ids(disk') = listed' /\ row' = row /\ listed' = {}
      BY <1>0, <1>3, <1>4, <3>1
    <3>5. Exact'
      BY <3>2, <3>3, <3>4 DEF Exact
    <3> QED BY <1>0, <1>d, <1>4, <3>5, OneReturned
  <2>2. CASE ~(writers[w].kind = "overwrite" /\ writers[w].tid # 0)
    <3>1. Exact
      BY <1>0, <1>1, <1>4, <2>2 DEF BeforeFile, Untouched, Ingest
    <3>2. Exact'
      BY <1>0, <1>4, <2>2, <3>1, ExactStays
    <3> QED BY <1>0, <1>d, <1>4, <3>2, OneReturned
  <2> QED BY <2>1, <2>2
<1>5. ASSUME NEW t, writers' = [writers EXCEPT ![w] = t], Keeps(t, writers[w]),
             t.pc = IF t.tid = 0 THEN "create" ELSE IF t.kind \in Ingest THEN "meta" ELSE "swap",
             t.old = writers[w].old, t.tid = writers[w].tid, t.total = writers[w].total,
             disk' = disk \cup {[id |-> t.op, rows |-> t.rows]},
             t.tid = 0 => t.kind \in Ingest \cup {"rewrite"}, history' = history
      PROVE  OneByOne'
  <2>1. Ids(disk') = listed \cup {t.op}
    BY <1>3, <1>5, NewFile
  <2>2. \A r \in Data : r.val # t.op
    <3>1. Unseen(writers[w].op, disk)
      BY <1>0, <1>1 DEF Good, Fresh, Unwritten
    <3> QED BY <1>5, <3>1, DataIs DEF Unseen, RowsAt, Keeps
  <2>3. t.tid = 0 => row = NoRow /\ listed = {}
    <3>1. t.tid = 0 => row = NoRow /\ Exact
      BY <1>0, <1>1, <1>5 DEF BeforeFile, Untouched
    <3> QED BY <3>1 DEF Exact
  <2>4. BeforeFile(t)'
    BY <1>0, <1>1, <1>5, <2>3 DEF BeforeFile, Untouched, Keeps, Ingest
  <2>5. WithFile(t)'
    <3>1. t.pc = "create" => listed = {} /\ (t.kind = "rewrite" => t.old = {})
      BY <1>0, <1>1, <1>5, <2>3 DEF BeforeFile, Keeps
    <3>2. t.kind = "append" => t.total = Cardinality(Data) + history.stale
      BY <1>0, <1>1, <1>3, <1>5 DEF BeforeFile, Keeps, Exact
    <3>3. t.kind = "overwrite" => listed = {}
      BY <1>0, <1>1, <1>5 DEF BeforeFile, Keeps
    <3>4. t.pc = "swap" => t.old = listed
      BY <1>0, <1>1, <1>5 DEF BeforeFile, Keeps
    <3>5. t.pc # "add"
      BY <1>5
    <3> QED BY <1>0, <1>2, <1>5, <2>1, <2>2, <3>1, <3>2, <3>3, <3>4, <3>5 DEF WithFile
  <2>6. AfterFile(t)'
    BY <1>5 DEF AfterFile
  <2> QED BY <1>0, <1>5, <2>4, <2>5, <2>6, OneStep
<1>6. CASE \E t : /\ writers' = [writers EXCEPT ![w] = t] /\ Keeps(t, writers[w])
                  /\ t.pc = IF t.tid = 0 THEN "create" ELSE IF t.kind \in Ingest THEN "meta" ELSE "swap"
                  /\ t.old = writers[w].old /\ t.tid = writers[w].tid
                  /\ t.total = writers[w].total
                  /\ disk' = disk \cup {[id |-> t.op, rows |-> t.rows]} /\ history' = history
  <2>1. PICK t : /\ writers' = [writers EXCEPT ![w] = t] /\ Keeps(t, writers[w])
                 /\ t.pc = IF t.tid = 0 THEN "create" ELSE IF t.kind \in Ingest THEN "meta" ELSE "swap"
                 /\ t.old = writers[w].old /\ t.tid = writers[w].tid
                 /\ t.total = writers[w].total
                 /\ disk' = disk \cup {[id |-> t.op, rows |-> t.rows]} /\ history' = history
    BY <1>6
  <2>2. t.tid = 0 => t.kind \in Ingest \cup {"rewrite"}
    BY <1>1, <2>1, WriteDoes DEF Keeps
  <2> QED BY <1>5, <2>1, <2>2
<1> QED BY <1>1, <1>4, <1>6, WriteDoes

\* The file is listed, the row counted, and the replaced files go.
LEMMA OneSwaps == ASSUME ExactInv, Sequential, NEW w \in Writers, Swap(w) PROVE OneByOne'
<1>0. writers[w].pc = "swap" /\ UNCHANGED <<row, disk, dropping, history>>
  BY DEF Swap, At
<1>1. /\ TypeInv /\ RefInv /\ Fits(writers[w]) /\ BeforeFile(writers[w]) /\ WithFile(writers[w])
      /\ Good(writers[w], disk, listed, nextOp)
      /\ row.id = writers[w].tid /\ writers[w].kind \notin Ingest
  BY <1>0, Alone DEF Fits
<1>2. listed' = {writers[w].op} /\ Go(w, "meta")
  BY <1>1 DEF Swap
<1>3. PICK t : /\ writers' = [writers EXCEPT ![w] = t] /\ Keeps(t, writers[w]) /\ t.pc = "meta"
               /\ t.old = writers[w].old /\ t.rows = writers[w].rows
  BY <1>1, <1>2, GoDoes
<1>4. Written(writers[w]) /\ ~Written(t)
  BY <1>0, <1>1, <1>3 DEF Written, Unlisted, Unwritten, Keeps
<1>5. Ids(disk) = listed \cup {writers[w].op} /\ t.old = listed /\ writers[w].op \notin t.old
  BY <1>0, <1>1, <1>3, <1>4 DEF WithFile, Good, Fresh, Written
<1>6. Data' = t.rows
  <2>1. \A f \in disk : f.id = writers[w].op => f.rows = t.rows
    BY <1>1, <1>3, <1>4 DEF Good, OwnFile, Written
  <2>2. \E f \in disk : f.id = writers[w].op
    BY <1>5 DEF Ids
  <2> QED BY <1>0, <1>2, <2>1, <2>2, DataIsAgain DEF RowsAt
<1>7. BeforeFile(t)' /\ WithFile(t)' /\ AfterFile(t)'
  BY <1>0, <1>1, <1>2, <1>3, <1>4, <1>5, <1>6 DEF BeforeFile, Untouched, WithFile, AfterFile, Keeps
<1> QED BY <1>0, <1>3, <1>7, OneStep

\* its rows are counted,
LEMMA OneCounts == ASSUME ExactInv, Sequential, NEW w \in Writers, Meta(w) PROVE OneByOne'
<1> DEFINE total == Cardinality(writers[w].rows)
                      + (IF Is(w, "append") THEN writers[w].total ELSE 0)
<1>0. writers[w].pc = "meta" /\ UNCHANGED <<listed, disk, dropping>> /\ Data' = Data
  BY SameData DEF Meta, At
<1>1. /\ TypeInv /\ RefInv /\ Sound(writers[w]) /\ Fits(writers[w])
      /\ BeforeFile(writers[w]) /\ WithFile(writers[w]) /\ AfterFile(writers[w])
      /\ row.id = writers[w].tid /\ writers[w].tid # 0
  BY <1>0, Alone DEF Fits
<1>2. row' = Bumped(total) /\ Go(w, IF writers[w].kind \in Ingest THEN "add" ELSE "clean")
  BY <1>1 DEF Meta, Ingest
<1>3. row'.id # 0 /\ row'.total = total
  BY <1>1, <1>2, BumpedIs
<1>h. /\ history'.dropped = history.dropped /\ history.stale \in Nat
      /\ history'.stale = IF writers[w].kind = "append" THEN history.stale ELSE 0
  BY <1>1 DEF Meta, Is, TypeInv, TypeOK, History
<1>4. PICK t : /\ writers' = [writers EXCEPT ![w] = t] /\ Keeps(t, writers[w])
               /\ t.pc = (IF writers[w].kind \in Ingest THEN "add" ELSE "clean")
               /\ t.old = writers[w].old /\ t.rows = writers[w].rows
  BY <1>1, <1>2, GoDoes
<1>5. row' # NoRow
  BY <1>3 DEF NoRow
<1>6. Cardinality(t.rows) \in Nat /\ Cardinality(Data) \in Nat
  BY <1>1, <1>4, FS_CardinalityType, RowsKnown DEF Sound, Data
<1>7. CASE writers[w].kind \in Ingest
  <2>1. Written(writers[w]) /\ Written(t)
    BY <1>0, <1>4, <1>7 DEF Written, Unlisted, Unwritten, Keeps
  <2>2. row'.total = Cardinality(Data) + Cardinality(t.rows) + history'.stale
    <3>1. CASE writers[w].kind = "append"
      <4>1. writers[w].total = Cardinality(Data) + history.stale
        BY <1>0, <1>1, <2>1, <3>1 DEF WithFile
      <4> QED BY <1>3, <1>4, <1>6, <1>h, <3>1, <4>1 DEF Is
    <3>2. CASE writers[w].kind = "overwrite"
      <4>1. Cardinality(Data) = 0
        BY <1>1, <2>1, <3>2, NoData DEF WithFile
      <4> QED BY <1>3, <1>4, <1>6, <1>h, <3>2, <4>1 DEF Is
    <3> QED BY <1>7, <3>1, <3>2 DEF Ingest
  <2>3. BeforeFile(t)' /\ AfterFile(t)'
    BY <1>1, <1>4, <1>7 DEF BeforeFile, Untouched, AfterFile, Keeps, Ingest
  <2>4. WithFile(t)'
    BY <1>0, <1>1, <1>4, <1>7, <2>1, <2>2 DEF WithFile, Keeps
  <2> QED BY <1>0, <1>4, <1>h, <2>3, <2>4, OneStep
<1>8. CASE writers[w].kind \notin Ingest
  <2>1. ~Written(t)
    BY <1>4, <1>8 DEF Written, Unlisted, Unwritten
  <2>2. row'.total = Cardinality(Data) + history'.stale
    BY <1>0, <1>1, <1>3, <1>6, <1>h, <1>4, <1>8 DEF AfterFile, Is, Ingest
  <2>3. listed' = Ids(disk') \ t.old
    BY <1>0, <1>1, <1>4, <1>8 DEF AfterFile
  <2>4. BeforeFile(t)' /\ WithFile(t)'
    BY <1>1, <1>4, <1>8, <2>1 DEF BeforeFile, Untouched, WithFile, Keeps
  <2>5. AfterFile(t)'
    BY <1>0, <1>4, <1>5, <1>8, <2>2, <2>3 DEF AfterFile
  <2> QED BY <1>0, <1>4, <1>8, <1>h, <2>4, <2>5, OneStep
<1> QED BY <1>7, <1>8

\* an ingest lists it,
LEMMA OneAdds == ASSUME ExactInv, Sequential, NEW w \in Writers, Add(w) PROVE OneByOne'
<1>0. writers[w].pc = "add" /\ UNCHANGED <<row, disk, dropping, history>>
  BY DEF Add, At
<1>1. /\ TypeInv /\ RefInv /\ Sound(writers[w]) /\ Fits(writers[w])
      /\ Good(writers[w], disk, listed, nextOp)
      /\ BeforeFile(writers[w]) /\ WithFile(writers[w])
      /\ row.id = writers[w].tid /\ writers[w].tid # 0
      /\ writers[w].kind \in Ingest
  BY <1>0, Alone DEF Fits
<1>2. /\ listed' = listed \cup {writers[w].op} /\ row # NoRow
  BY <1>1 DEF Add, NoRow
<1>3. PICK t : /\ writers' = [writers EXCEPT ![w] = t] /\ Keeps(t, writers[w]) /\ t.pc = "clean" /\ t.old = {}
  BY <1>1, AddDoes
<1>4. Written(writers[w]) /\ ~Written(t)
  BY <1>0, <1>3 DEF Written, Unlisted, Unwritten
<1>5. Ids(disk) = listed \cup {writers[w].op} /\ \A r \in Data : r.val # writers[w].op
  BY <1>1, <1>4 DEF WithFile
<1>6. Data' = Data \cup writers[w].rows
  <2>1. \A f \in disk : f.id = writers[w].op => f.rows = writers[w].rows
    BY <1>1, <1>4 DEF Good, OwnFile, Written
  <2>2. \E f \in disk : f.id = writers[w].op
    BY <1>5 DEF Ids
  <2> QED BY <1>0, <1>2, <2>1, <2>2, DataIs, DataIsAgain DEF RowsAt
<1>7. Cardinality(Data') = Cardinality(Data) + Cardinality(writers[w].rows)
  <2>1. IsFiniteSet(Data) /\ IsFiniteSet(writers[w].rows)
    BY <1>1, RowsKnown DEF Sound, Data
  <2>2. \A r \in writers[w].rows : r.val = writers[w].op
    <3>1. writers[w].rows = BroughtBy(writers[w])
      BY <1>1, <1>4 DEF Good, Computed, Written, Ingest, Reading
    <3> QED BY <3>1 DEF BroughtBy
  <2>3. Data \cap writers[w].rows = {}
    BY <1>5, <2>2
  <2>4. Cardinality(Data \cap writers[w].rows) = 0
    BY <2>3, FS_EmptySet
  <2>5. Cardinality(Data) \in Nat /\ Cardinality(writers[w].rows) \in Nat
    BY <2>1, FS_CardinalityType
  <2>6. Cardinality(Data \cup writers[w].rows)
           = Cardinality(Data) + Cardinality(writers[w].rows) - Cardinality(Data \cap writers[w].rows)
    BY <2>1, FS_Union
  <2> QED BY <1>6, <2>4, <2>5, <2>6
<1>8. row.total = Cardinality(Data') + history.stale
  BY <1>0, <1>1, <1>7 DEF WithFile
<1>9. BeforeFile(t)' /\ WithFile(t)'
  BY <1>1, <1>3, <1>4 DEF BeforeFile, Untouched, WithFile, Keeps, Ingest
<1>10. AfterFile(t)'
  BY <1>0, <1>2, <1>3, <1>5, <1>8 DEF AfterFile
<1> QED BY <1>0, <1>3, <1>9, <1>10, OneStep

\* and the old files go.
LEMMA OneCleans == ASSUME ExactInv, Sequential, NEW w \in Writers, Clean(w) PROVE OneByOne'
<1>0. /\ writers[w].pc = "clean" /\ UNCHANGED <<row, listed, dropping, history>> /\ Return(w)
      /\ disk' = {f \in disk : f.id \notin writers[w].old}
  BY DEF Clean, At, catalog
<1>1. RefInv /\ AfterFile(writers[w])
  BY <1>0, Alone
<1>2. Ids(disk') = Ids(disk) \ writers[w].old
  BY <1>0 DEF Ids
<1>3. Data' = Data
  BY <1>1, CleanKeepsData
<1>4. Exact'
  BY <1>0, <1>1, <1>2, <1>3 DEF AfterFile, Exact
<1> QED BY <1>0, <1>4, OneReturned

\* An operation starts when nothing else runs; a deletion and its directory.
LEMMA OneBegins ==
    ASSUME ExactInv, Sequential, NEW w \in Writers, NEW k \in Kinds,
           NEW b \in {{}} \cup Batches, Begin(w, k, b), Sequential'
    PROVE  OneByOne'
<1>a. PICK t : t = [Idle EXCEPT !.pc = IF k = "strip" THEN "list" ELSE "lookup",
                               !.kind = k, !.op = nextOp, !.batch = b, !.tries = 1]
  OBVIOUS
<1>0. /\ RefInv /\ TypeInv /\ OneByOne
      /\ writers' = [writers EXCEPT ![w] = t] /\ UNCHANGED <<row, listed, disk, dropping>>
  BY <1>a DEF ExactInv, DiskInv, RefInv, Begin, GoWith, catalog
<1>1. /\ history'.overlap = (history.overlap \/ Busy # {} \/ dropping)
      /\ history'.dropped = (history.dropped \/ dropping) /\ history'.stale = history.stale
  BY <1>0 DEF Begin, TypeInv, TypeOK, History
<1>2. Busy = {} /\ ~dropping /\ ~history'.dropped
  BY <1>0, <1>1 DEF Sequential, OneByOne
<1>3. Exact /\ Exact'
  BY <1>0, <1>1, <1>2, ExactStays DEF OneByOne, Busy
<1>4. t.kind = k /\ t.pc = (IF k = "strip" THEN "list" ELSE "lookup") /\ t.old = {} /\ t.batch = b
  BY <1>a DEF Idle
<1> HIDE <1>a
<1>6. ~Written(t)
  BY <1>4 DEF Written, Unlisted, Unwritten
<1>7. BeforeFile(t)' /\ WithFile(t)' /\ AfterFile(t)'
  BY <1>3, <1>4, <1>6 DEF BeforeFile, WithFile, AfterFile
<1>8. writers'[w] = t /\ \A o \in Writers : o # w => writers'[o] = writers[o] /\ writers[o].pc = "idle"
  BY <1>0, <1>2 DEF TypeInv, WritersSound, Busy
<1>9. Stage(t)'
  BY <1>7 DEF Stage
<1>10. \A o \in Writers : writers'[o].pc # "idle" => Stage(writers[o])'
  <2> SUFFICES ASSUME NEW o \in Writers, writers'[o].pc # "idle" PROVE Stage(writers[o])'
    OBVIOUS
  <2>1. o = w /\ writers'[o] = t
    BY <1>8
  <2> QED BY <1>9, <2>1 DEF Stage, BeforeFile, WithFile, AfterFile, Untouched, Written, Unlisted, Unwritten
<1>11. t.pc # "idle"
  BY <1>4
<1> QED BY <1>0, <1>2, <1>8, <1>10, <1>11 DEF OneByOne

\* A deletion alone.
LEMMA OneDeletes ==
    ASSUME ExactInv, Sequential, DeleteRow \/ RemoveDir, Sequential'
    PROVE  OneByOne'
<1>0. TypeInv /\ OneByOne /\ Undropped /\ writers' = writers
  BY DEF ExactInv, DiskInv, RefInv, OneByOne, DeleteRow, RemoveDir
<1>1. CASE DeleteRow
  <2>1. /\ history'.overlap = (history.overlap \/ Busy # {})
        /\ history'.dropped = (history.dropped \/ Busy # {}) /\ history'.stale = 0
    BY <1>0, <1>1 DEF DeleteRow, TypeInv, TypeOK, History
  <2>2. Busy = {} /\ ~history'.dropped
    BY <1>0, <2>1 DEF Sequential, OneByOne
  <2> QED BY <1>0, <1>1, <2>1, <2>2 DEF DeleteRow, OneByOne, Busy
<1>2. CASE RemoveDir
  <2>1. /\ \A w \in Writers : writers[w].pc = "idle"
        /\ row' = NoRow /\ listed' = {} /\ disk' = {} /\ history' = history /\ history.stale = 0
    BY <1>0, <1>2 DEF RemoveDir, OneByOne, Undropped, catalog
  <2>2. Data' = {}
    BY <2>1, NoFiles, DataIsAgain
  <2>3. Exact'
    BY <2>1, <2>2, NoFiles, FS_EmptySet DEF Exact, NoRow
  <2> QED BY <1>0, <2>1, <2>3 DEF OneByOne
<1> QED BY <1>1, <1>2

\* It holds at the start.
LEMMA InitExact == Init => ExactInv
<1> SUFFICES ASSUME Init PROVE ExactInv
  OBVIOUS
<1>1. DiskInv
  BY InitDisk
<1>2. /\ (\A w \in Writers : writers[w].pc = "idle") /\ ~dropping /\ ~history.dropped
      /\ history.stale = 0
  BY DEF Init, Idle
<1>3. Exact
  <2>1. CASE row = NoRow /\ listed = {} /\ disk = {}
    BY <1>2, <2>1, NoFiles, NoData DEF Exact, NoRow
  <2>2. CASE ~(row = NoRow /\ listed = {} /\ disk = {})
    <3>1. /\ row = [id |-> 1, version |-> 3, total |-> Cardinality(FirstRows)]
          /\ listed = {1} /\ disk = {} \cup {[id |-> 1, rows |-> FirstRows]}
      BY <2>2 DEF Init, FirstRows
    <3>2. row.total = Cardinality(FirstRows) /\ row # NoRow
      BY <3>1 DEF NoRow
    <3>4. Data = FirstRows /\ Ids(disk) = listed
      <4> DEFINE f == [id |-> 1, rows |-> FirstRows]
      <4>1. f.id = 1 /\ f.rows = FirstRows /\ disk = {f}
        BY <3>1
      <4> HIDE DEF f
      <4>2. {g \in disk : g.id \in listed} = {f}
        BY <3>1, <4>1
      <4>3. Data = FirstRows
        BY <4>1, <4>2, DataIs DEF RowsAt
      <4>4. Ids(disk) = listed
        BY <3>1, <4>1 DEF Ids
      <4> QED BY <4>3, <4>4
    <3>5. Cardinality(FirstRows) \in Nat
      BY FirstRowsFinite, FS_CardinalityType
    <3> QED BY <1>2, <3>2, <3>4, <3>5 DEF Exact
  <2> QED BY <2>1, <2>2
<1> QED BY <1>1, <1>2, <1>3 DEF ExactInv, OneByOne

\* Every step keeps it.
LEMMA StepExact == ExactInv /\ [Next]_vars => ExactInv'
<1> SUFFICES ASSUME ExactInv, [Next]_vars, Sequential' PROVE OneByOne'
  BY StepDisk DEF ExactInv
<1>0. RefInv /\ TypeInv
  BY DEF ExactInv, DiskInv, RefInv
<1>1. ASSUME NEW w \in Writers, NEW k \in Kinds, NEW b \in {{}} \cup Batches, Begin(w, k, b)
      PROVE  OneByOne'
  <2>1. Sequential
    BY <1>0, <1>1 DEF Begin, Sequential, TypeInv, TypeOK, History
  <2> QED BY <1>1, <2>1, OneBegins
<1>2. ASSUME NEW w \in Writers,
             \/ Lookup(w) \/ Create(w) \/ CreateMeta(w) \/ List(w) \/ Read(w) \/ Check(w)
             \/ Relist(w) \/ Unlink(w) \/ Unlist(w) \/ Write(w) \/ Swap(w) \/ Meta(w) \/ Add(w)
             \/ Clean(w)
      PROVE  OneByOne'
  <2>1. Sequential
    BY <1>0, <1>2 DEF Lookup, Create, CreateMeta, List, Read, Check, Relist, Unlink, Unlist, Write, Swap,
       Meta, Add, Clean, Sequential, counters, TypeInv, TypeOK, History
  <2> QED BY <1>2, <2>1, OneReads, OneCreates, OneEmpties, OneWrites, OneSwaps, OneCounts, OneAdds, OneCleans
<1>3. ASSUME NEW w \in Writers, Fail(w) PROVE FALSE
  BY <1>0, <1>3 DEF Fail, Sequential, TypeInv, TypeOK
<1>4. CASE DeleteRow \/ RemoveDir
  <2>1. Sequential
    BY <1>0, <1>4 DEF DeleteRow, RemoveDir, Sequential, counters, TypeInv, TypeOK, History
  <2> QED BY <1>4, <2>1, OneDeletes
<1>5. CASE IndexLookup \/ IndexList \/ IndexStore \/ UNCHANGED vars
  <2>1. UNCHANGED <<row, listed, disk, writers, dropping, history, mishaps>>
    BY <1>5 DEF IndexLookup, IndexList, IndexStore, vars, catalog, counters
  <2>2. OneByOne /\ Data' = Data
    BY <2>1, SameData DEF ExactInv, Sequential
  <2> QED BY <2>1, <2>2 DEF OneByOne, Exact, Stage, BeforeFile, WithFile, AfterFile
<1>6. CASE Crash
  BY <1>0, <1>6 DEF Crash, Sequential, TypeInv, TypeOK
<1> QED BY <1>1, <1>2, <1>3, <1>4, <1>5, <1>6 DEF Next

(* CatalogSound always holds: the files on disk are those listed, and the  *)
(* total counts their rows and those an overwriting ingest of an empty file*)
(* took away before it returned (the next append adds to them).            *)
THEOREM CatalogHolds == Spec => []CatalogSound
<1>1. ExactInv => CatalogSound
  BY DEF ExactInv, DiskInv, Undropped, CatalogSound, ListedOnDisk, CatalogExact, Sequential, OneByOne,
         Exact, Busy
<1>2. ExactInv /\ [Next]_vars => ExactInv'
  BY StepExact
<1> QED BY <1>1, <1>2, InitExact, PTL DEF Spec

-----------------------------------------------------------------------------
\* Versions.  Somebody has changed the table's files and not moved its version.
Unbumped ==
    \/ history.ingested \/ history.unbumped
    \/ \E o \in Writers : writers[o].pc = "meta" /\ writers[o].tid = row.id

\* A version read from row id tells the files apart.
Current(id, version) == id = row.id /\ version = row.version /\ ~Unbumped

\* A version that was read is not ahead of the row's; a row that was given no
\* version has none.
NotAhead(id, version) == (id = row.id => version <= row.version) /\ (id = 0 => version < 0)

Comparing(t) == t.kind = "materialize" /\ t.pc \in {"list", "read", "check"}

\* Row ids: an operation that has not made its row has not used its number.
Unmade(t) == t.pc # "idle" /\ t.tid # t.op
BeforeRow(t) == t.pc \in {"lookup", "create"} \/ (t.pc # "idle" /\ t.kind \in Revising)
IdsInUse == {row.id, index.of, builder.of} \cup {writers[w].tid : w \in Writers}

IdsSound ==
    /\ \A i \in IdsInUse : i < nextOp
    /\ \A w \in Writers : Unmade(writers[w]) => writers[w].op \notin IdsInUse
    /\ \A w \in Writers : BeforeRow(writers[w]) => Unmade(writers[w])

\* Who keeps a version keeps the files, or the rows, that belong to it.
Knows(t) ==
    Comparing(t) =>
        /\ NotAhead(t.tid, t.version)
        /\ t.pc # "list" /\ Current(t.tid, t.version) => t.base = listed

BuilderKnows ==
    builder.pc # "idle" =>
        /\ NotAhead(builder.of, builder.version)
        /\ builder.pc = "read" /\ Current(builder.of, builder.version) => builder.base = listed

IndexKnows ==
    /\ NotAhead(index.of, index.version)
    /\ Current(index.of, index.version) /\ listed \subseteq Ids(disk) => index.rows = Data

VersionInv ==
    /\ RefInv
    /\ IdsSound
    /\ \A w \in Writers : writers[w].kind \in Ingest => history.ingested
    /\ \A w \in Writers : Knows(writers[w])
    /\ BuilderKnows
    /\ IndexKnows

\* What a step may do to a version that somebody has read.
Steady ==
    \A id \in IdsInUse, v \in Int : NotAhead(id, v) =>
        /\ NotAhead(id, v)'
        /\ Current(id, v)' =>
              /\ Current(id, v) /\ listed' = listed
              /\ listed \subseteq Ids(disk') => listed \subseteq Ids(disk) /\ Data' = Data

SameFiles == listed \subseteq Ids(disk') => listed \subseteq Ids(disk) /\ Data' = Data

\* A step that touches neither the row nor the list.
LEMMA SteadyAtRest ==
    ASSUME row' = row, listed' = listed, SameFiles, Unbumped => Unbumped'
    PROVE  Steady
BY DEF Steady, NotAhead, Current, SameFiles

\* The same, of a writer that was not waiting to bump this row's version.
LEMMA SteadyQuiet ==
    ASSUME TypeInv, NEW w \in Writers, NEW t, writers' = [writers EXCEPT ![w] = t],
           row' = row, listed' = listed, SameFiles,
           history.ingested => history'.ingested, history.unbumped => history'.unbumped,
           writers[w].pc # "meta" \/ writers[w].tid # row.id \/ history'.unbumped
    PROVE  Steady
<1>1. \A o \in Writers : o # w => writers'[o] = writers[o]
  BY DEF TypeInv, WritersSound
<1>2. Unbumped => Unbumped'
  BY <1>1 DEF Unbumped
<1> QED BY <1>2, SteadyAtRest

\* A step that leaves a bump outstanding.
LEMMA SteadyChanged ==
    ASSUME row' = row, Unbumped'
    PROVE  Steady
BY DEF Steady, NotAhead, Current

\* A bump: no version that was read is the row's any more.
LEMMA SteadyBump ==
    ASSUME TypeInv, NEW total, row' = Bumped(total)
    PROVE  Steady
<1>1. row.version \in Nat /\ row'.id = row.id /\ row'.version = row.version + 1
  BY DEF Bumped, TypeInv, TypeOK
<1> QED BY <1>1 DEF Steady, NotAhead, Current

\* A row nobody has read a version of.
LEMMA SteadyNew ==
    ASSUME row'.version = 0, row'.id \notin IdsInUse \/ row'.id = 0
    PROVE  Steady
BY DEF Steady, NotAhead, Current

\* A steady step leaves what is known true.
LEMMA WriterKnowsStill ==
    ASSUME VersionInv, Steady, NEW o \in Writers, writers'[o] = writers[o]
    PROVE  Knows(writers[o])'
<1> SUFFICES ASSUME Comparing(writers[o])
             PROVE  /\ NotAhead(writers[o].tid, writers[o].version)'
                    /\ writers'[o].pc # "list" /\ Current(writers[o].tid, writers[o].version)'
                          => writers'[o].base = listed'
  BY DEF Knows
<1>1. PICK i, z : i = writers[o].tid /\ z = writers[o].version
  OBVIOUS
<1>2. i \in IdsInUse /\ z \in Int
  BY <1>1, Here DEF IdsInUse, Writer, VersionInv
<1>3. NotAhead(i, z) /\ (writers[o].pc # "list" /\ Current(i, z) => writers[o].base = listed)
  BY <1>1 DEF VersionInv, Knows
<1>4. NotAhead(i, z)' /\ (Current(i, z)' => Current(i, z) /\ listed' = listed)
  BY <1>2, <1>3 DEF Steady
<1>5. writers'[o].tid = i /\ writers'[o].version = z
  BY <1>1
<1> QED BY <1>3, <1>4, <1>5 DEF NotAhead, Current, Unbumped

\* The same of the index build under way,
LEMMA BuilderKnowsStill ==
    ASSUME VersionInv, Steady, builder' = builder
    PROVE  BuilderKnows'
<1> SUFFICES ASSUME builder.pc # "idle"
             PROVE  /\ NotAhead(builder.of, builder.version)'
                    /\ builder.pc = "read" /\ Current(builder.of, builder.version)' => builder.base = listed'
  BY DEF BuilderKnows
<1>1. PICK i, z : i = builder.of /\ z = builder.version
  OBVIOUS
<1>2. i \in IdsInUse /\ z \in Int
  BY <1>1 DEF IdsInUse, VersionInv, RefInv, TypeInv, TypeOK
<1>3. NotAhead(i, z) /\ (builder.pc = "read" /\ Current(i, z) => builder.base = listed)
  BY <1>1 DEF VersionInv, BuilderKnows
<1>4. NotAhead(i, z)' /\ (Current(i, z)' => Current(i, z) /\ listed' = listed)
  BY <1>2, <1>3 DEF Steady
<1>5. builder'.of = i /\ builder'.version = z
  BY <1>1
<1> QED BY <1>3, <1>4, <1>5 DEF NotAhead, Current, Unbumped

\* and of the cached index.
LEMMA IndexKnowsStill ==
    ASSUME VersionInv, Steady, index' = index
    PROVE  IndexKnows'
<1>1. PICK i, z : i = index.of /\ z = index.version
  OBVIOUS
<1>2. i \in IdsInUse /\ z \in Int
  BY <1>1 DEF IdsInUse, VersionInv, RefInv, TypeInv, TypeOK
<1>3. NotAhead(i, z) /\ (Current(i, z) /\ listed \subseteq Ids(disk) => index.rows = Data)
  BY <1>1 DEF VersionInv, IndexKnows
<1>4. /\ NotAhead(i, z)'
      /\ Current(i, z)' => /\ Current(i, z) /\ listed' = listed
                           /\ listed \subseteq Ids(disk') => listed \subseteq Ids(disk) /\ Data' = Data
  BY <1>2, <1>3 DEF Steady
<1>5. index'.of = i /\ index'.version = z
  BY <1>1
<1> QED BY <1>1, <1>3, <1>4, <1>5 DEF NotAhead, Current, Unbumped, IndexKnows

\* What is left to show of a writer's step.
LEMMA VersionStep ==
    ASSUME VersionInv, RefInv', NEW w \in Writers, NEW t, writers' = [writers EXCEPT ![w] = t],
           writers[w].pc # "idle", t.pc # "idle" => t.op = writers[w].op,
           nextOp' = nextOp, index' = index, builder' = builder, history.ingested => history'.ingested,
           Steady,
           t.tid \in IdsInUse \/ t.tid = 0 \/ t.tid = writers[w].op,
           row'.id \in IdsInUse \/ row'.id = 0 \/ (row'.id = writers[w].op /\ t.tid = writers[w].op),
           Unmade(t) => Unmade(writers[w]), BeforeRow(t) => Unmade(t),
           t.kind \in Ingest => history'.ingested,
           Knows(t)'
    PROVE  VersionInv'
<1> DEFINE u == writers[w]
<1>0. /\ RefInv /\ TypeInv /\ Good(u, disk, listed, nextOp)
      /\ writers'[w] = t /\ \A o \in Writers : o # w => writers'[o] = writers[o]
      /\ 0 \in Nat /\ 0 < nextOp /\ u.op < nextOp /\ u.op # 0
  <2>1. RefInv /\ TypeInv /\ Good(u, disk, listed, nextOp) /\ Fits(u) /\ nextOp \in Nat /\ u.op \in Nat
    BY Here DEF VersionInv, RefInv, TypeInv, TypeOK, Writer
  <2> QED BY <2>1 DEF TypeInv, WritersSound, Good, Past, Fits
<1>1. \A i \in IdsInUse' : i \in IdsInUse \/ i = 0 \/ (i = u.op /\ t.tid = u.op)
  BY <1>0 DEF IdsInUse
<1>2. \A i \in IdsInUse' : i < nextOp'
  BY <1>0, <1>1 DEF VersionInv, IdsSound
<1>3. \A o \in Writers : Unmade(writers'[o]) => writers'[o].op \notin IdsInUse'
  <2> SUFFICES ASSUME NEW o \in Writers, Unmade(writers'[o]) PROVE writers'[o].op \notin IdsInUse'
    OBVIOUS
  <2>1. CASE o = w
    BY <1>0, <1>1, <2>1 DEF VersionInv, IdsSound, Unmade
  <2>2. CASE o # w
    <3>1. writers'[o] = writers[o] /\ writers[o].op \notin IdsInUse
      BY <1>0, <2>2 DEF VersionInv, IdsSound
    <3>2. writers[o].pc # "idle" /\ writers[o].op # 0 /\ writers[o].op # u.op
      BY <1>0, <2>2, <3>1, Here DEF Unmade, Fits, RefInv, Apart
    <3> QED BY <1>1, <3>1, <3>2
  <2> QED BY <2>1, <2>2
<1>4. \A o \in Writers : BeforeRow(writers'[o]) => Unmade(writers'[o])
  BY <1>0 DEF VersionInv, IdsSound
<1>5. \A o \in Writers : writers'[o].kind \in Ingest => history'.ingested
  BY <1>0 DEF VersionInv
<1>6. \A o \in Writers : Knows(writers[o])'
  <2> SUFFICES ASSUME NEW o \in Writers PROVE Knows(writers[o])'
    OBVIOUS
  <2>1. CASE o = w
    <3>1. writers'[o] = t
      BY <1>0, <2>1
    <3> QED BY <3>1 DEF Knows, NotAhead, Current, Unbumped
  <2>2. CASE o # w
    BY <1>0, <2>2, WriterKnowsStill
  <2> QED BY <2>1, <2>2
<1>7. IdsSound'
  BY <1>2, <1>3, <1>4 DEF IdsSound
<1> QED BY <1>5, <1>6, <1>7, BuilderKnowsStill, IndexKnowsStill DEF VersionInv

\* A caller returns.
LEMMA VersionReturns ==
    ASSUME VersionInv, RefInv', NEW w \in Writers, Return(w), writers[w].pc # "idle",
           row'.id = row.id, nextOp' = nextOp, index' = index, builder' = builder,
           history.ingested => history'.ingested, Steady
    PROVE  VersionInv'
<1>1. PICK t : t = Idle
  OBVIOUS
<1>2. writers' = [writers EXCEPT ![w] = t] /\ t.pc = "idle" /\ t.kind = "none" /\ t.tid = 0
  BY <1>1 DEF Return, Idle
<1>3. ~Unmade(t) /\ ~BeforeRow(t) /\ Knows(t)' /\ t.kind \notin Ingest /\ row'.id \in IdsInUse
  BY <1>2 DEF Unmade, BeforeRow, Comparing, Ingest, IdsInUse, Knows
<1> QED BY <1>2, <1>3, VersionStep

\* A caller moves on without a version to compare.
LEMMA VersionGoes ==
    ASSUME VersionInv, RefInv', NEW w \in Writers, NEW t, writers' = [writers EXCEPT ![w] = t],
           writers[w].pc # "idle", Keeps(t, writers[w]), t.pc # "lookup", t.tid = writers[w].tid,
           t.pc = "create" => t.tid = 0,
           t.kind # "materialize" \/ t.pc \notin {"list", "read", "check"},
           row'.id = row.id, nextOp' = nextOp, index' = index, builder' = builder,
           history.ingested => history'.ingested, Steady
    PROVE  VersionInv'
<1>1. t.tid \in IdsInUse /\ row'.id \in IdsInUse /\ Knows(t)'
  BY DEF IdsInUse, Comparing, Knows
<1>2. (Unmade(t) => Unmade(writers[w])) /\ (BeforeRow(t) => Unmade(t))
  <2>0. writers[w].op # 0
    BY Here DEF VersionInv, Fits
  <2>1. t.pc # "idle" /\ t.kind \in Revising => BeforeRow(writers[w])
    BY DEF Keeps, BeforeRow
  <2>2. t.pc # "idle" /\ t.kind \in Revising => writers[w].tid # writers[w].op
    BY <2>1 DEF VersionInv, IdsSound, Unmade
  <2> QED BY <2>0, <2>2 DEF Keeps, BeforeRow, Unmade
<1>3. t.kind \in Ingest => history'.ingested
  BY DEF Keeps, VersionInv
<1>4. t.op = writers[w].op
  BY DEF Keeps
<1> QED BY <1>1, <1>2, <1>3, <1>4, VersionStep

\* The steps of a writer that leave row, list and data alone.
LEMMA QuietHere ==
    ASSUME VersionInv, NEW w \in Writers, NEW t, writers' = [writers EXCEPT ![w] = t],
           row' = row, listed' = listed, disk' = disk, writers[w].pc # "meta",
           history'.ingested = history.ingested, history'.unbumped = history.unbumped
    PROVE  Steady
<1>1. SameFiles
  BY SameData DEF SameFiles
<1> QED BY <1>1, SteadyQuiet DEF VersionInv, RefInv

\* The versions, operation by operation.
LEMMA LookupVersions == ASSUME VersionInv, RefInv', NEW w \in Writers, Lookup(w) PROVE VersionInv'
<1>0. /\ writers[w].pc = "lookup" /\ TypeInv /\ row.id \in Nat /\ (row # NoRow => row.id # 0)
      /\ UNCHANGED <<row, listed, disk, history, nextOp, index, builder>> /\ row.version \in Nat
  BY DEF Lookup, At, VersionInv, RefInv, catalog, cache, counters, TypeInv, TypeOK, RowHasId
<1>1. CASE Return(w)
  <2>1. Steady
    BY <1>0, <1>1, QuietHere DEF Return
  <2> QED BY <1>0, <1>1, <2>1, VersionReturns
<1>2. CASE ~Return(w)
  <2>1. PICK t : /\ writers' = [writers EXCEPT ![w] = t] /\ Keeps(t, writers[w]) /\ t.tid = row.id
                 /\ t.pc \in {"create", "list", "relist", "write"}
                 /\ t.pc = "list" => row # NoRow
                 /\ t.kind = "materialize" => t.version = row.version
    BY <1>0, <1>2, LookupDoes
  <2>2. Steady
    BY <1>0, <2>1, QuietHere
  <2>3. Unmade(writers[w]) /\ writers[w].op \notin IdsInUse /\ row.id \in IdsInUse
    BY <1>0 DEF VersionInv, IdsSound, BeforeRow, IdsInUse
  <2>4. BeforeRow(t) => Unmade(t)
    BY <2>1, <2>3 DEF Keeps, Unmade
  <2>5. Knows(t)'
    BY <1>0, <2>1 DEF Knows, Comparing, NotAhead
  <2>6. t.kind \in Ingest => history'.ingested
    BY <1>0, <2>1 DEF VersionInv, Keeps
  <2> QED BY <1>0, <2>1, <2>2, <2>3, <2>4, <2>5, <2>6, VersionStep DEF Keeps
<1> QED BY <1>1, <1>2

\* Create: the versions.
LEMMA CreateVersions == ASSUME VersionInv, RefInv', NEW w \in Writers, Create(w) PROVE VersionInv'
<1>0. /\ writers[w].pc = "create" /\ TypeInv
      /\ UNCHANGED <<listed, disk, history, nextOp, index, builder>>
  BY DEF Create, At, VersionInv, RefInv, cache, counters
<1>1. CASE row' = row /\ Return(w)
  <2>1. Steady
    BY <1>0, <1>1, QuietHere DEF Return
  <2> QED BY <1>0, <1>1, <2>1, VersionReturns
<1>2. CASE ~(row' = row /\ Return(w))
  <2>1. row = NoRow /\ row'.id = writers[w].op
    BY <1>0, <1>2, CreateDoes
  <2>9. row'.version = 0
    BY <2>1 DEF Create, NoRow
  <2>2. PICK t : /\ writers' = [writers EXCEPT ![w] = t] /\ Keeps(t, writers[w]) /\ t.tid = writers[w].op
                 /\ t.pc \in {"createMeta", "swap", "meta"} /\ t.kind \notin Revising
    BY <1>0, <1>2, CreateDoes DEF Revising, Ingest
  <2>3. writers[w].op \notin IdsInUse /\ writers[w].op # 0
    BY <1>0, Here DEF VersionInv, IdsSound, BeforeRow, Fits
  <2>4. Steady
    BY <2>1, <2>3, <2>9, SteadyNew
  <2>5. ~Unmade(t) /\ ~BeforeRow(t) /\ Knows(t)'
    BY <2>2 DEF Unmade, BeforeRow, Comparing, Knows, Keeps, Revising
  <2>6. t.kind \in Ingest => history'.ingested
    BY <1>0, <2>2 DEF VersionInv, Keeps
  <2> QED BY <1>0, <2>1, <2>2, <2>4, <2>5, <2>6, VersionStep DEF Keeps
<1> QED BY <1>1, <1>2

\* CreateMeta: the versions.
LEMMA CreateMetaVersions == ASSUME VersionInv, RefInv', NEW w \in Writers, CreateMeta(w) PROVE VersionInv'
<1>0. /\ writers[w].pc = "createMeta" /\ TypeInv /\ writers[w].kind = "merge"
      /\ UNCHANGED <<listed, disk, history, nextOp, index, builder>>
  BY Here DEF CreateMeta, At, VersionInv, RefInv, cache, counters, Fits
<1>1. CASE row' = row /\ Return(w)
  <2>1. Steady
    BY <1>0, <1>1, QuietHere DEF Return
  <2> QED BY <1>0, <1>1, <2>1, VersionReturns
<1>2. CASE row' = Bumped(0) /\ Go(w, "list")
  <2>1. Steady
    BY <1>0, <1>2, SteadyBump
  <2>2. row'.id = row.id
    BY <1>0, <1>2, BumpedIs
  <2>3. PICK t : /\ writers' = [writers EXCEPT ![w] = t] /\ Keeps(t, writers[w]) /\ t.pc = "list"
                 /\ t.tid = writers[w].tid
    BY <1>0, <1>2, GoDoes
  <2>4. t.kind # "materialize"
    BY <1>0, <2>3 DEF Keeps
  <2> QED BY <1>0, <2>1, <2>2, <2>3, <2>4, VersionGoes
<1> QED BY <1>1, <1>2 DEF CreateMeta

\* List: the versions.
LEMMA ListVersions == ASSUME VersionInv, RefInv', NEW w \in Writers, List(w) PROVE VersionInv'
<1>0. /\ writers[w].pc = "list" /\ TypeInv
      /\ UNCHANGED <<row, listed, disk, history, nextOp, index, builder>>
  BY DEF List, At, VersionInv, RefInv, catalog, cache, counters
<1>1. CASE Return(w)
  <2>1. Steady
    BY <1>0, <1>1, QuietHere DEF Return
  <2> QED BY <1>0, <1>1, <2>1, VersionReturns
<1>2. CASE ~Return(w)
  <2>1. PICK t : /\ writers' = [writers EXCEPT ![w] = t] /\ Keeps(t, writers[w])
                 /\ t.pc = "read" /\ t.tid = writers[w].tid
                 /\ t.version = writers[w].version /\ t.base = t.old
                 /\ t.old = ListFor(IF t.kind = "merge" THEN t.tid ELSE row.id)
    BY <1>0, <1>2, ListDoes
  <2>2. Steady
    BY <1>0, <2>1, QuietHere
  <2>3. Comparing(t) => Comparing(writers[w]) /\ t.base = listed
    BY <1>0, <2>1 DEF Comparing, Keeps, ListFor
  <2>4. Knows(t)'
    BY <1>0, <2>1, <2>3 DEF VersionInv, Knows, NotAhead, Comparing
  <2>5. (Unmade(t) => Unmade(writers[w])) /\ (BeforeRow(t) => Unmade(t))
    BY <1>0, <2>1 DEF Unmade, BeforeRow, Keeps, VersionInv, IdsSound
  <2>6. t.kind \in Ingest => history'.ingested
    BY <1>0, <2>1 DEF VersionInv, Keeps
  <2>7. t.tid \in IdsInUse /\ row'.id \in IdsInUse
    BY <1>0, <2>1 DEF IdsInUse
  <2> QED BY <1>0, <2>1, <2>2, <2>4, <2>5, <2>6, <2>7, VersionStep DEF Keeps
<1> QED BY <1>1, <1>2

\* Read: the versions.
LEMMA ReadVersions == ASSUME VersionInv, RefInv', NEW w \in Writers, Read(w) PROVE VersionInv'
<1>a. TypeInv
  BY DEF VersionInv, RefInv
<1>0. /\ writers[w].pc = "read" /\ TypeInv /\ writers[w].kind \in Reading
      /\ UNCHANGED <<row, listed, disk, history, nextOp, index, builder>>
  <2>1. writers[w].kind \in Reading
    BY <1>a, ReadDoes
  <2> QED BY <1>a, <2>1 DEF Read, At, VersionInv, RefInv, catalog, cache, counters
<1>1. CASE Return(w)
  <2>1. Steady
    BY <1>0, <1>1, QuietHere DEF Return
  <2> QED BY <1>0, <1>1, <2>1, VersionReturns
<1>2. CASE ~Return(w)
  <2>1. PICK t : /\ writers' = [writers EXCEPT ![w] = t] /\ Keeps(t, writers[w])
                 /\ t.pc = IF t.kind = "merge" THEN "write" ELSE "check"
                 /\ t.tid = writers[w].tid
                 /\ t.version = writers[w].version /\ t.base = writers[w].base
    BY <1>0, <1>2, ReadDoes
  <2>2. Steady
    BY <1>0, <2>1, QuietHere
  <2>3. Comparing(t) => Comparing(writers[w])
    BY <1>0, <2>1 DEF Comparing, Keeps
  <2>4. Unbumped => Unbumped'
    <3>1. \A o \in Writers : o # w => writers'[o] = writers[o]
      BY <1>0, <2>1 DEF TypeInv, WritersSound
    <3> QED BY <1>0, <3>1 DEF Unbumped
  <2>5. Knows(t)'
    BY <1>0, <2>1, <2>3, <2>4 DEF VersionInv, Knows, NotAhead, Current
  <2>6. (Unmade(t) => Unmade(writers[w])) /\ (BeforeRow(t) => Unmade(t))
    BY <1>0, <2>1 DEF Unmade, BeforeRow, Keeps, VersionInv, IdsSound
  <2>7. t.kind \in Ingest => history'.ingested
    BY <1>0, <2>1 DEF VersionInv, Keeps
  <2>8. t.tid \in IdsInUse /\ row'.id \in IdsInUse
    BY <1>0, <2>1 DEF IdsInUse
  <2> QED BY <1>0, <2>1, <2>2, <2>5, <2>6, <2>7, <2>8, VersionStep DEF Keeps
<1> QED BY <1>1, <1>2

\* Check: the versions.
LEMMA CheckVersions == ASSUME VersionInv, RefInv', NEW w \in Writers, Check(w) PROVE VersionInv'
<1>a. TypeInv
  BY DEF VersionInv, RefInv
<1>0. /\ writers[w].pc = "check" /\ TypeInv /\ writers[w].kind \in Revising
      /\ UNCHANGED <<row, listed, disk, history, nextOp, index, builder>>
  <2>1. writers[w].kind \in Revising
    BY <1>a, CheckDoes
  <2> QED BY <1>a, <2>1 DEF Check, At, VersionInv, RefInv, catalog, cache, counters
<1>1. CASE Return(w)
  <2>1. Steady
    BY <1>0, <1>1, QuietHere DEF Return
  <2> QED BY <1>0, <1>1, <2>1, VersionReturns
<1>2. CASE ~Return(w)
  <2>1. PICK t : /\ writers' = [writers EXCEPT ![w] = t] /\ Keeps(t, writers[w])
                 /\ t.pc \in {"lookup", "relist"} /\ t.tid \in {writers[w].tid, row.id}
    BY <1>0, <1>2, CheckDoes
  <2>2. Steady
    BY <1>0, <2>1, QuietHere
  <2>3. Unmade(writers[w]) /\ writers[w].op \notin IdsInUse
    BY <1>0 DEF VersionInv, IdsSound, BeforeRow
  <2>4. Knows(t)'
    BY <2>1 DEF Knows, Comparing
  <2>5. t.tid \in IdsInUse /\ row'.id \in IdsInUse
    BY <1>0, <2>1 DEF IdsInUse
  <2>6. BeforeRow(t) => Unmade(t)
    BY <2>1, <2>3, <2>5 DEF Unmade, Keeps
  <2>7. t.kind \in Ingest => history'.ingested
    BY <1>0, <2>1 DEF VersionInv, Keeps
  <2> QED BY <1>0, <2>1, <2>2, <2>3, <2>4, <2>5, <2>6, <2>7, VersionStep DEF Keeps
<1> QED BY <1>1, <1>2

\* Relist: the versions.
LEMMA RelistVersions == ASSUME VersionInv, RefInv', NEW w \in Writers, Relist(w) PROVE VersionInv'
<1>0. /\ writers[w].pc = "relist" /\ TypeInv
      /\ UNCHANGED <<row, listed, disk, history, nextOp, index, builder>>
  BY DEF Relist, At, VersionInv, RefInv, catalog, cache, counters
<1>1. PICK t : /\ writers' = [writers EXCEPT ![w] = t] /\ Keeps(t, writers[w])
               /\ t.pc \in {"unlink", "write"} /\ t.tid = writers[w].tid
  BY <1>0, RelistDoes
<1>2. Steady
  BY <1>0, <1>1, QuietHere
<1> QED BY <1>0, <1>1, <1>2, VersionGoes

\* Unlink: the versions.
LEMMA UnlinkVersions == ASSUME VersionInv, RefInv', NEW w \in Writers, Unlink(w) PROVE VersionInv'
<1>0. /\ writers[w].pc = "unlink" /\ TypeInv /\ history \in History
      /\ UNCHANGED <<row, listed, nextOp, index, builder>>
      /\ disk' = {f \in disk : f.id \notin writers[w].old} /\ Go(w, "unlist")
  BY DEF Unlink, At, VersionInv, RefInv, catalog, cache, counters, TypeInv, TypeOK
<1>1. history'.ingested = history.ingested /\ history'.unbumped = history.unbumped
  BY <1>0 DEF Unlink, History
<1>2. PICK t : /\ writers' = [writers EXCEPT ![w] = t] /\ Keeps(t, writers[w]) /\ t.pc = "unlist"
               /\ t.tid = writers[w].tid
  BY <1>0, GoDoes
<1>3. SameFiles
  <2> SUFFICES ASSUME listed \subseteq Ids(disk') PROVE listed \subseteq Ids(disk) /\ Data' = Data
    BY DEF SameFiles
  <2>1. listed \cap writers[w].old = {} /\ listed \subseteq Ids(disk)
    BY <1>0 DEF Ids
  <2>2. RowsAt(disk', listed') = RowsAt(disk, listed)
    BY <1>0, <2>1 DEF RowsAt
  <2> QED BY <2>1, <2>2, DataIs, DataIsAgain
<1>4. Steady
  BY <1>0, <1>1, <1>2, <1>3, SteadyQuiet
<1> QED BY <1>0, <1>1, <1>2, <1>4, VersionGoes

\* Unlist: the versions.
LEMMA UnlistVersions == ASSUME VersionInv, RefInv', NEW w \in Writers, Unlist(w) PROVE VersionInv'
<1>0. /\ writers[w].pc = "unlist" /\ TypeInv /\ history \in History /\ writers[w].kind = "overwrite"
      /\ UNCHANGED <<row, nextOp, index, builder>> /\ Go(w, "write")
  BY Here DEF Unlist, At, VersionInv, RefInv, cache, counters, TypeInv, TypeOK, Fits
<1>1. history'.ingested
  BY <1>0 DEF Unlist, History, VersionInv, Ingest
<1>2. PICK t : /\ writers' = [writers EXCEPT ![w] = t] /\ Keeps(t, writers[w]) /\ t.pc = "write"
               /\ t.tid = writers[w].tid
  BY <1>0, GoDoes
<1>3. Steady
  BY <1>0, <1>1, SteadyChanged DEF Unbumped
<1> QED BY <1>0, <1>1, <1>2, <1>3, VersionGoes

\* Write: the versions.
LEMMA WriteVersions == ASSUME VersionInv, RefInv', NEW w \in Writers, Write(w) PROVE VersionInv'
<1>0. /\ writers[w].pc = "write" /\ TypeInv /\ RefInv
      /\ UNCHANGED <<row, listed, nextOp, index, builder>>
      /\ history'.ingested = history.ingested /\ history'.unbumped = history.unbumped
  BY OnlyStale DEF Write, At, VersionInv, RefInv, catalog, cache, counters
<1>1. CASE Return(w) /\ disk' = disk
  <2>1. Steady
    BY <1>0, <1>1, QuietHere DEF Return
  <2> QED BY <1>0, <1>1, <2>1, VersionReturns
<1>2. CASE ~(Return(w) /\ disk' = disk)
  <2>1. PICK t : /\ writers' = [writers EXCEPT ![w] = t] /\ Keeps(t, writers[w])
                 /\ t.pc = IF t.tid = 0 THEN "create"
                           ELSE IF t.kind \in Ingest THEN "meta" ELSE "swap"
                 /\ t.tid = writers[w].tid
                 /\ disk' = disk \cup {[id |-> t.op, rows |-> t.rows]}
    BY <1>0, <1>2, WriteDoes
  <2>2. SameFiles
    <3>1. t.op \notin listed
      BY <1>0, <2>1, Here DEF Keeps, Good, Fresh, Unlisted, Unwritten
    <3>2. Ids(disk') = Ids(disk) \cup {t.op}
      BY <2>1, NewFile
    <3> QED BY <1>0, <3>1, <3>2, WriteKeepsData DEF SameFiles
  <2>3. Steady
    BY <1>0, <2>1, <2>2, SteadyQuiet
  <2> QED BY <1>0, <2>1, <2>3, VersionGoes
<1> QED BY <1>1, <1>2

\* Swap: the versions.
LEMMA SwapVersions == ASSUME VersionInv, RefInv', NEW w \in Writers, Swap(w) PROVE VersionInv'
<1>0. /\ writers[w].pc = "swap" /\ TypeInv
      /\ UNCHANGED <<row, disk, history, nextOp, index, builder>>
  BY DEF Swap, At, VersionInv, RefInv, cache, counters
<1>1. CASE Return(w) /\ listed' = listed
  <2>1. Steady
    BY <1>0, <1>1, QuietHere DEF Return
  <2> QED BY <1>0, <1>1, <2>1, VersionReturns
<1>2. CASE row.id = writers[w].tid /\ Go(w, "meta")
  <2>1. PICK t : /\ writers' = [writers EXCEPT ![w] = t] /\ Keeps(t, writers[w]) /\ t.pc = "meta"
                 /\ t.tid = writers[w].tid
    BY <1>0, <1>2, GoDoes
  <2>2. writers'[w] = t
    BY <1>0, <2>1 DEF TypeInv, WritersSound
  <2>3. Steady
    BY <1>0, <1>2, <2>1, <2>2, SteadyChanged DEF Unbumped
  <2> QED BY <1>0, <2>1, <2>3, VersionGoes
<1> QED BY <1>1, <1>2 DEF Swap

\* Meta: the versions.
LEMMA MetaVersions == ASSUME VersionInv, RefInv', NEW w \in Writers, Meta(w) PROVE VersionInv'
<1>0. /\ writers[w].pc = "meta" /\ TypeInv
      /\ UNCHANGED <<listed, disk, nextOp, index, builder>>
      /\ history'.ingested = history.ingested /\ history'.unbumped = history.unbumped
  BY OnlyStale DEF Meta, At, VersionInv, RefInv, cache, counters
<1>1. /\ row'.id = row.id
      /\ ~Return(w) => \E pc \in {"add", "clean"} : Go(w, pc)
      /\ (\E total : row' = Bumped(total)) \/ (row.id # writers[w].tid /\ row' = row)
  BY <1>0, BumpedIs DEF Meta
<1>2. PICK t : \/ t = Idle /\ Return(w)
               \/ /\ Keeps(t, writers[w]) /\ t.pc \in {"add", "clean"} /\ t.tid = writers[w].tid
                  /\ writers' = [writers EXCEPT ![w] = t]
  BY <1>0, <1>1, GoDoes
<1>3. writers' = [writers EXCEPT ![w] = t]
  BY <1>2 DEF Return
<1>4. Steady
  <2>1. CASE \E total : row' = Bumped(total)
    BY <1>0, <2>1, SteadyBump
  <2>2. CASE row.id # writers[w].tid /\ row' = row
    <3>1. SameFiles
      BY <1>0, SameData DEF SameFiles
    <3> QED BY <1>0, <1>3, <2>2, <3>1, SteadyQuiet
  <2> QED BY <1>1, <2>1, <2>2
<1>5. CASE Return(w)
  BY <1>0, <1>1, <1>4, <1>5, VersionReturns
<1>6. CASE ~Return(w)
  BY <1>0, <1>1, <1>2, <1>4, <1>6, VersionGoes
<1> QED BY <1>5, <1>6

\* Add: the versions.
LEMMA AddVersions == ASSUME VersionInv, RefInv', NEW w \in Writers, Add(w) PROVE VersionInv'
<1>a. TypeInv
  BY DEF VersionInv, RefInv
<1>0. /\ writers[w].pc = "add" /\ TypeInv /\ writers[w].kind \in Ingest /\ history.ingested
      /\ UNCHANGED <<row, disk, history, nextOp, index, builder>>
  <2>1. writers[w].kind \in Ingest
    BY <1>a, AddDoes
  <2> QED BY <1>a, <2>1 DEF Add, At, VersionInv, RefInv, cache, counters
<1>1. Steady
  BY <1>0, SteadyChanged DEF Unbumped
<1>2. CASE Return(w)
  BY <1>0, <1>1, <1>2, VersionReturns
<1>3. CASE ~Return(w)
  <2>1. PICK t : /\ writers' = [writers EXCEPT ![w] = t] /\ Keeps(t, writers[w])
                 /\ t.pc = "clean" /\ t.tid = writers[w].tid
    BY <1>0, <1>3, AddDoes
  <2> QED BY <1>0, <1>1, <2>1, VersionGoes
<1> QED BY <1>2, <1>3

\* Clean: the versions.
LEMMA CleanVersions == ASSUME VersionInv, RefInv', NEW w \in Writers, Clean(w) PROVE VersionInv'
<1>0. /\ writers[w].pc = "clean" /\ TypeInv /\ RefInv /\ Return(w)
      /\ UNCHANGED <<row, listed, history, nextOp, index, builder>>
      /\ Ids(disk') \subseteq Ids(disk)
  BY DEF Clean, At, VersionInv, RefInv, catalog, cache, counters, Ids
<1>1. SameFiles
  BY <1>0, CleanKeepsData DEF SameFiles
<1>2. Steady
  BY <1>0, <1>1, SteadyQuiet DEF Return
<1> QED BY <1>0, <1>2, VersionReturns

\* Fail: the versions.
LEMMA FailVersions == ASSUME VersionInv, RefInv', NEW w \in Writers, Fail(w) PROVE VersionInv'
<1>0. /\ writers[w].pc # "idle" /\ TypeInv /\ Return(w) /\ history \in History
      /\ UNCHANGED <<row, listed, disk, nextOp, index, builder>>
  BY DEF Fail, VersionInv, RefInv, catalog, cache, counters, TypeInv, TypeOK
<1>1. /\ history'.ingested = history.ingested
      /\ history'.unbumped = (history.unbumped \/ writers[w].pc = "meta")
  BY <1>0 DEF Fail, History, At
<1>2. SameFiles
  BY <1>0, SameData DEF SameFiles
<1>3. Steady
  BY <1>0, <1>1, <1>2, SteadyQuiet DEF Return
<1> QED BY <1>0, <1>1, <1>3, VersionReturns

\* Begin: the versions.
LEMMA BeginVersions ==
    ASSUME VersionInv, RefInv', NEW w \in Writers, NEW k \in Kinds, NEW b \in {{}} \cup Batches,
           Begin(w, k, b)
    PROVE  VersionInv'
<1>0. PICK t : t = [Idle EXCEPT !.pc = IF k = "strip" THEN "list" ELSE "lookup",
                               !.kind = k, !.op = nextOp, !.batch = b, !.tries = 1]
  OBVIOUS
<1>1. /\ writers[w].pc = "idle" /\ TypeInv /\ history \in History /\ nextOp \in Nat /\ nextOp # 0
      /\ writers' = [writers EXCEPT ![w] = t] /\ nextOp' = nextOp + 1
      /\ UNCHANGED <<row, listed, disk, index, builder>>
  BY <1>0 DEF Begin, At, GoWith, VersionInv, RefInv, catalog, cache, TypeInv, TypeOK, RowHasId
<1>2. t.kind = k /\ t.pc = (IF k = "strip" THEN "list" ELSE "lookup") /\ t.op = nextOp /\ t.tid = 0
  BY <1>0 DEF Idle
<1> HIDE <1>0
<1>3. /\ history'.ingested = (history.ingested \/ k \in Ingest)
      /\ history'.unbumped = history.unbumped
  BY <1>1 DEF Begin, History, Ingest
<1>4. writers'[w] = t /\ \A o \in Writers : o # w => writers'[o] = writers[o]
  BY <1>1 DEF TypeInv, WritersSound
<1>5. Steady
  <2>1. SameFiles
    BY <1>1, SameData DEF SameFiles
  <2> QED BY <1>1, <1>3, <2>1, SteadyQuiet
<1>6. IdsInUse' \subseteq IdsInUse \cup {0}
  BY <1>1, <1>2, <1>4 DEF IdsInUse
<1>7. \A i \in IdsInUse' : i \in Nat /\ i < nextOp
  <2>1. \A i \in IdsInUse : i \in Nat
    BY <1>1 DEF IdsInUse, TypeInv, TypeOK, Writer
  <2> QED BY <1>1, <1>6, <2>1 DEF VersionInv, IdsSound
<1>8. IdsSound'
  <2>1. \A i \in IdsInUse' : i < nextOp'
    BY <1>1, <1>7
  <2>2. nextOp \notin IdsInUse'
    BY <1>1, <1>7
  <2>3. \A o \in Writers : Unmade(writers'[o]) => writers'[o].op \notin IdsInUse'
    <3> SUFFICES ASSUME NEW o \in Writers, Unmade(writers'[o]) PROVE writers'[o].op \notin IdsInUse'
      OBVIOUS
    <3>1. CASE o = w
      BY <1>2, <1>4, <2>2, <3>1
    <3>2. CASE o # w
      <4>1. writers'[o] = writers[o] /\ writers[o].op \notin IdsInUse
        BY <1>4, <3>2 DEF VersionInv, IdsSound
      <4>2. writers[o].op # 0
        BY <4>1, Here DEF VersionInv, Unmade, Fits
      <4> QED BY <1>6, <4>1, <4>2
    <3> QED BY <3>1, <3>2
  <2>4. \A o \in Writers : BeforeRow(writers'[o]) => Unmade(writers'[o])
    <3>1. Unmade(t)
      BY <1>1, <1>2 DEF Unmade
    <3> QED BY <1>4, <3>1 DEF VersionInv, IdsSound
  <2> QED BY <2>1, <2>3, <2>4 DEF IdsSound
<1>9. \A o \in Writers : writers'[o].kind \in Ingest => history'.ingested
  BY <1>2, <1>3, <1>4 DEF VersionInv
<1>10. \A o \in Writers : Knows(writers[o])'
  <2> SUFFICES ASSUME NEW o \in Writers PROVE Knows(writers[o])'
    OBVIOUS
  <2>1. CASE o = w
    <3>1. ~Comparing(writers'[o])
      BY <1>2, <1>4, <2>1 DEF Comparing
    <3> QED BY <3>1 DEF Knows, Comparing
  <2>2. CASE o # w
    BY <1>4, <1>5, <2>2, WriterKnowsStill
  <2> QED BY <2>1, <2>2
<1> QED BY <1>1, <1>5, <1>8, <1>9, <1>10, BuilderKnowsStill, IndexKnowsStill DEF VersionInv

\* A step of the index, of a deletion, or a crash: no writer takes on a version.
LEMMA OtherVersions ==
    ASSUME VersionInv, RefInv', nextOp' = nextOp, history.ingested => history'.ingested,
           Steady,
           writers' = writers \/ \A o \in Writers : writers'[o] = Idle,
           row'.id \in IdsInUse \/ row'.id = 0,
           index'.of \in IdsInUse \/ index'.of = 0, builder'.of \in IdsInUse \/ builder'.of = 0,
           BuilderKnows', IndexKnows'
    PROVE  VersionInv'
<1>1. \A o \in Writers : writers'[o] = writers[o] \/ writers'[o] = Idle
  OBVIOUS
<1>2. IdsInUse' \subseteq IdsInUse \cup {0}
  BY <1>1 DEF IdsInUse, Idle
<1>3. ~Unmade(Idle) /\ ~BeforeRow(Idle) /\ ~Comparing(Idle) /\ Idle.kind \notin Ingest
  BY DEF Unmade, BeforeRow, Comparing, Idle, Ingest
<1>4. nextOp \in Nat /\ nextOp # 0
  BY DEF VersionInv, RefInv, TypeInv, TypeOK, RowHasId
<1>5. \A i \in IdsInUse' : i < nextOp'
  BY <1>2, <1>4 DEF VersionInv, IdsSound
<1>6. ASSUME NEW o \in Writers PROVE Unmade(writers'[o]) => writers'[o].op \notin IdsInUse'
  <2> SUFFICES ASSUME Unmade(writers'[o]) PROVE writers'[o].op \notin IdsInUse'
    OBVIOUS
  <2>1. writers'[o] = writers[o] /\ writers[o].op \notin IdsInUse
    BY <1>1, <1>3 DEF VersionInv, IdsSound
  <2>2. writers[o].op # 0
    BY <2>1, Here DEF VersionInv, Unmade, Fits
  <2> QED BY <1>2, <2>1, <2>2
<1>7. \A o \in Writers : BeforeRow(writers'[o]) => Unmade(writers'[o])
  BY <1>1, <1>3 DEF VersionInv, IdsSound
<1>8. \A o \in Writers : writers'[o].kind \in Ingest => history'.ingested
  BY <1>1, <1>3 DEF VersionInv
<1>9. ASSUME NEW o \in Writers PROVE Knows(writers[o])'
  <2>1. CASE writers'[o] = writers[o]
    BY <2>1, WriterKnowsStill
  <2>2. CASE writers'[o] = Idle
    BY <1>3, <2>2 DEF Knows, Comparing
  <2> QED BY <1>1, <2>1, <2>2
<1>10. IdsSound'
  BY <1>5, <1>6, <1>7 DEF IdsSound
<1> QED BY <1>8, <1>9, <1>10 DEF VersionInv

\* delete_table: the row goes, and its versions with it.
LEMMA DeleteVersions == ASSUME VersionInv, RefInv', DeleteRow PROVE VersionInv'
<1>0. /\ UNCHANGED <<writers, index, builder, nextOp>> /\ row'.id = 0 /\ row'.version = 0
      /\ history \in History
  BY DEF DeleteRow, NoRow, cache, counters, VersionInv, RefInv, TypeInv, TypeOK
<1>1. history'.ingested = history.ingested
  BY <1>0 DEF DeleteRow, History
<1>2. Steady
  BY <1>0, SteadyNew
<1>3. index'.of \in IdsInUse /\ builder'.of \in IdsInUse
  BY <1>0 DEF IdsInUse
<1> QED BY <1>0, <1>1, <1>2, <1>3, BuilderKnowsStill, IndexKnowsStill, OtherVersions

\* The directory goes.
LEMMA RemoveVersions == ASSUME VersionInv, RefInv', RemoveDir PROVE VersionInv'
<1>0. UNCHANGED <<row, listed, writers, index, builder, nextOp, history>> /\ disk' = {}
  BY DEF RemoveDir, cache, counters, catalog
<1>1. SameFiles
  <2> SUFFICES ASSUME listed \subseteq Ids(disk') PROVE listed \subseteq Ids(disk) /\ Data' = Data
    BY DEF SameFiles
  <2>1. listed = {}
    BY <1>0, NoFiles
  <2>2. RowsAt(disk', listed') = RowsAt(disk, listed)
    BY <1>0, <2>1 DEF RowsAt
  <2> QED BY <2>1, <2>2, DataIs, DataIsAgain
<1>2. Steady
  BY <1>0, <1>1, SteadyAtRest DEF Unbumped
<1>3. index'.of \in IdsInUse /\ builder'.of \in IdsInUse /\ row'.id \in IdsInUse
  BY <1>0 DEF IdsInUse
<1> QED BY <1>0, <1>2, <1>3, BuilderKnowsStill, IndexKnowsStill, OtherVersions

\* A step of the index.
LEMMA SteadyIdle ==
    ASSUME UNCHANGED <<row, listed, disk, writers, history>>
    PROVE  Steady
BY SameData, SteadyAtRest DEF SameFiles, Unbumped

\* The index takes the version first and the files later.
LEMMA IndexVersions ==
    ASSUME VersionInv, RefInv', IndexLookup \/ IndexList \/ IndexStore
    PROVE  VersionInv'
<1>0. /\ UNCHANGED <<row, listed, disk, writers, nextOp, history>> /\ TypeInv
      /\ row.id \in Nat /\ row.version \in Nat /\ (row # NoRow => row.id # 0)
  BY DEF IndexLookup, IndexList, IndexStore, catalog, counters, VersionInv, RefInv, TypeInv, TypeOK, RowHasId
<1>1. Steady
  BY <1>0, SteadyIdle
<1>2. row'.id \in IdsInUse /\ index.of \in IdsInUse /\ builder.of \in IdsInUse /\ row.id \in IdsInUse
  BY <1>0 DEF IdsInUse
<1>3. CASE IndexLookup
  <2>1. /\ builder'.pc = "list" /\ builder'.version = row.version /\ builder'.of = row.id
        /\ index' = index /\ row # NoRow
    BY <1>3 DEF IndexLookup, NoBuild
  <2>2. BuilderKnows'
    BY <1>0, <2>1 DEF BuilderKnows, NotAhead
  <2> QED BY <1>0, <1>1, <1>2, <2>1, <2>2, IndexKnowsStill, OtherVersions
<1>4. CASE IndexList
  <2>1. /\ index' = index
        /\ \/ builder'.pc = "idle" /\ builder'.of = 0
           \/ /\ builder'.base = listed /\ builder'.of = builder.of /\ builder'.version = builder.version
              /\ builder.pc # "idle"
    BY <1>0, <1>4 DEF IndexList, NoBuild, TypeInv, TypeOK
  <2>2. BuilderKnows'
    BY <1>0, <2>1 DEF BuilderKnows, NotAhead, VersionInv
  <2> QED BY <1>0, <1>1, <1>2, <2>1, <2>2, IndexKnowsStill, OtherVersions
<1>5. CASE IndexStore
  <2>1. /\ builder'.pc = "idle" /\ builder'.of = 0 /\ builder.pc = "read"
        /\ \/ index' = index
           \/ /\ index'.of = builder.of /\ index'.version = builder.version
              /\ index'.rows = RowsOf(builder.base)
    BY <1>5 DEF IndexStore, NoBuild
  <2>2. BuilderKnows'
    BY <2>1 DEF BuilderKnows
  <2>3. NotAhead(builder.of, builder.version)
        /\ (Current(builder.of, builder.version) => builder.base = listed)
    BY <2>1 DEF VersionInv, BuilderKnows
  <2>4. CASE index' # index
    <3>1. Data' = Data /\ Data = RowsOf(listed)
      BY <1>0, SameData DEF Data
    <3>2. IndexKnows'
      BY <1>0, <2>1, <2>3, <2>4, <3>1 DEF IndexKnows, NotAhead, Current, Unbumped
    <3> QED BY <1>0, <1>1, <1>2, <2>1, <2>2, <2>4, <3>2, OtherVersions
  <2>5. CASE index' = index
    BY <1>0, <1>1, <1>2, <2>1, <2>2, <2>5, IndexKnowsStill, OtherVersions
  <2> QED BY <2>4, <2>5
<1> QED BY <1>3, <1>4, <1>5

\* Nothing is known of a row that was not there; no version is below zero.
LEMMA NothingKnown ==
    ASSUME index = NoIndex, builder = NoBuild, row.version \in Nat
    PROVE  BuilderKnows /\ IndexKnows
<1>1. index.version = -1 /\ index.of = 0 /\ builder.pc = "idle"
  BY DEF NoIndex, NoBuild
<1> QED BY <1>1 DEF BuilderKnows, IndexKnows, NotAhead, Current

\* After a crash nobody knows a version.
LEMMA CrashVersions == ASSUME VersionInv, RefInv', Crash PROVE VersionInv'
<1>0. /\ UNCHANGED <<row, listed, disk, nextOp, history>> /\ \A o \in Writers : writers'[o] = Idle
      /\ index' = NoIndex /\ builder' = NoBuild
  BY DEF Crash, catalog
<1>1. index'.of = 0 /\ builder'.of = 0 /\ row'.id \in IdsInUse
  BY <1>0 DEF NoIndex, NoBuild, IdsInUse
<1>2. row'.version \in Nat
  BY DEF RefInv, TypeInv, TypeOK
<1>3. BuilderKnows' /\ IndexKnows'
  <2>1. index'.version = -1 /\ builder'.pc = "idle"
    BY <1>0 DEF NoIndex, NoBuild
  <2> QED BY <1>1, <1>2, <2>1 DEF BuilderKnows, IndexKnows, NotAhead, Current
<1>4. \A o \in Writers : ~Unmade(writers'[o]) /\ ~BeforeRow(writers'[o]) /\ Knows(writers[o])'
                         /\ writers'[o].kind \notin Ingest /\ writers'[o].tid = 0
  BY <1>0 DEF Unmade, BeforeRow, Knows, Comparing, Idle, Ingest
<1>5. nextOp \in Nat /\ nextOp # 0
  BY DEF VersionInv, RefInv, TypeInv, TypeOK, RowHasId
<1>6. IdsInUse' \subseteq IdsInUse \cup {0}
  BY <1>1, <1>4 DEF IdsInUse
<1>7. IdsSound'
  BY <1>0, <1>4, <1>5, <1>6 DEF VersionInv, IdsSound
<1> QED BY <1>3, <1>4, <1>7 DEF VersionInv

\* Nobody knows a version at the start.
LEMMA InitVersions == Init => VersionInv
<1> SUFFICES ASSUME Init PROVE VersionInv
  OBVIOUS
<1>1. RefInv
  BY InitRefines
<1>2. \A o \in Writers : writers[o] = Idle
  BY DEF Init
<1>3. \A o \in Writers : ~Unmade(writers[o]) /\ ~BeforeRow(writers[o]) /\ ~Comparing(writers[o])
                         /\ writers[o].kind \notin Ingest /\ writers[o].tid = 0
  BY <1>2 DEF Unmade, BeforeRow, Comparing, Idle, Ingest
<1>4. row.id \in {0, 1} /\ index.of = 0 /\ builder.of = 0 /\ nextOp = 2
  <2>1. row = NoRow \/ \E n : row = [id |-> 1, version |-> 3, total |-> n]
    BY DEF Init
  <2>2. row.id \in {0, 1}
    BY <2>1 DEF NoRow
  <2> QED BY <2>2 DEF Init, NoIndex, NoBuild
<1>5. IdsInUse \subseteq {0, 1}
  BY <1>3, <1>4 DEF IdsInUse
<1>6. IdsSound
  BY <1>3, <1>4, <1>5 DEF IdsSound
<1>7. BuilderKnows /\ IndexKnows
  BY <1>1, NothingKnown DEF Init, RefInv, TypeInv, TypeOK
<1> QED BY <1>1, <1>3, <1>6, <1>7 DEF VersionInv, Knows

\* Every step keeps what is known true.
LEMMA StepVersions == VersionInv /\ [Next]_vars => VersionInv'
<1> SUFFICES ASSUME VersionInv, [Next]_vars PROVE VersionInv'
  OBVIOUS
<1>0. RefInv'
  BY StepRefInv DEF VersionInv
<1>1. CASE \E w \in Writers : \/ Lookup(w) \/ Create(w) \/ CreateMeta(w) \/ List(w) \/ Read(w) \/ Check(w)
                              \/ Relist(w) \/ Unlink(w) \/ Unlist(w) \/ Write(w) \/ Swap(w) \/ Meta(w)
                              \/ Add(w) \/ Clean(w) \/ Fail(w)
  BY <1>0, <1>1, LookupVersions, CreateVersions, CreateMetaVersions, ListVersions, ReadVersions, CheckVersions,
     RelistVersions, UnlinkVersions, UnlistVersions, WriteVersions, SwapVersions, MetaVersions, AddVersions,
     CleanVersions, FailVersions
<1>2. CASE \E w \in Writers, k \in Kinds, b \in {{}} \cup Batches : Begin(w, k, b)
  BY <1>0, <1>2, BeginVersions
<1>3. CASE DeleteRow \/ RemoveDir \/ IndexLookup \/ IndexList \/ IndexStore \/ Crash
  BY <1>0, <1>3, DeleteVersions, RemoveVersions, IndexVersions, CrashVersions
<1>4. CASE UNCHANGED vars
  <2>1. UNCHANGED <<row, listed, disk, writers, index, builder, nextOp, history>>
    BY <1>4 DEF vars, catalog, cache, counters
  <2>2. Steady
    BY <2>1, SteadyIdle
  <2>3. index'.of \in IdsInUse /\ builder'.of \in IdsInUse /\ row'.id \in IdsInUse
    BY <2>1 DEF IdsInUse
  <2> QED BY <1>0, <2>1, <2>2, <2>3, BuilderKnowsStill, IndexKnowsStill, OtherVersions
<1> QED BY <1>1, <1>2, <1>3, <1>4 DEF Next

\* Only the check itself lets a materialisation pass, and it compares.
LEMMA OnlyCheckPasses ==
    ASSUME TypeInv, [Next]_vars, NEW w \in Writers, Is(w, "materialize"), At(w, "check"),
           writers'[w].pc = "relist"
    PROVE  Check(w) /\ row' = row /\ row.version = writers[w].version
<1>0. /\ writers \in [Writers -> Writer] /\ writers[w].pc = "check" /\ writers[w].kind = "materialize"
      /\ writers'[w] # writers[w] /\ writers'[w] # Idle
  BY DEF TypeInv, WritersSound, Is, At, Idle
<1>1. ASSUME NEW o \in Writers,
             \/ Lookup(o) \/ Create(o) \/ CreateMeta(o) \/ List(o) \/ Read(o) \/ Check(o)
             \/ Relist(o) \/ Unlink(o) \/ Unlist(o) \/ Write(o) \/ Swap(o) \/ Meta(o)
             \/ Add(o) \/ Clean(o) \/ Fail(o)
      PROVE  Check(w)
  <2>1. o = w
    <3>1. \E t : writers' = [writers EXCEPT ![o] = t]
      BY <1>1 DEF Lookup, Create, CreateMeta, List, Read, Check, Relist, Unlink, Unlist, Write, Swap, Meta,
         Add, Clean, Fail, Go, GoWith, Return
    <3> QED BY <1>0, <3>1
  <2>2. ~Return(w)
    BY <1>0 DEF Return
  <2> QED BY <1>0, <1>1, <2>1, <2>2 DEF Lookup, Create, CreateMeta, List, Read, Relist, Unlink, Unlist, Write,
       Swap, Meta, Add, Clean, Fail, At
<1>2. ASSUME NEW o \in Writers, NEW k \in Kinds, NEW b \in {{}} \cup Batches, Begin(o, k, b) PROVE FALSE
  BY <1>0, <1>2 DEF Begin, GoWith, At
<1>3. CASE DeleteRow \/ RemoveDir \/ IndexLookup \/ IndexList \/ IndexStore \/ UNCHANGED vars
  BY <1>0, <1>3 DEF DeleteRow, RemoveDir, IndexLookup, IndexList, IndexStore, vars
<1>4. CASE Crash
  BY <1>0, <1>4 DEF Crash
<1>5. Check(w)
  BY <1>1, <1>2, <1>3, <1>4 DEF Next
<1>6. ~Return(w)
  BY <1>0 DEF Return
<1>7. ~Conflict(w)
  <2> SUFFICES ASSUME Conflict(w) PROVE FALSE
    OBVIOUS
  <2>1. writers' = [writers EXCEPT ![w] = [writers[w] EXCEPT !.pc = "lookup", !.tries = @ + 1]]
    BY <1>5, <1>6 DEF Check, GoWith
  <2>2. writers'[w].pc = "lookup"
    BY <1>0, <2>1 DEF Writer
  <2> QED BY <2>2
<1> QED BY <1>5, <1>7 DEF Check, Conflict, catalog

(* VersionSound: in every step and state, an equal version means the rows  *)
(* that were read with it, for replace_table_data's check and for the text *)
(* index, with the exceptions the property names.                          *)
THEOREM VersionsTell == Spec => VersionSound
<1>1. VersionInv /\ [Next]_vars => VersionInv'
  BY StepVersions
<1>2. VersionInv => IndexFresh
  <2> SUFFICES ASSUME VersionInv, index.version = row.version, index.of = row.id,
                      listed \subseteq Ids(disk), ~Unread
               PROVE  index.rows = Data
    BY DEF IndexFresh
  <2>1. ~Unbumped
    BY DEF Unread, Unbumped, At
  <2> QED BY <2>1 DEF VersionInv, IndexKnows, Current
<1>3. VersionInv /\ [Next]_vars => VersionCheckSound
  <2> SUFFICES ASSUME VersionInv, [Next]_vars, NEW w \in Writers, Is(w, "materialize"), At(w, "check"),
                      writers'[w].pc = "relist", ~(\E o \in Writers : At(o, "meta")),
                      writers[w].tid = row.id, ~history.ingested, ~history.unbumped
               PROVE  writers[w].base = listed
    BY DEF VersionCheckSound
  <2>1. row.version = writers[w].version
    BY OnlyCheckPasses DEF VersionInv, RefInv
  <2>2. Comparing(writers[w]) /\ Knows(writers[w])
    BY DEF Comparing, Is, At, VersionInv
  <2>3. ~Unbumped
    BY DEF Unbumped, At
  <2> QED BY <2>1, <2>2, <2>3 DEF Knows, Current, At
<1>4. VersionInv /\ VersionInv' /\ [Next]_vars => [VersionCheckSound /\ IndexFresh']_vars
  <2>1. VersionInv' => IndexFresh'
    BY <1>2, PTL
  <2> QED BY <1>3, <2>1
<1> QED BY <1>1, <1>4, InitVersions, PTL DEF Spec, VersionSound
=============================================================================
