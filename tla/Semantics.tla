-------------------------------- MODULE Semantics --------------------------------
(***************************************************************************)
(* The semantic rows of one source in the catalog: what producers declare  *)
(* about its tables, what people and agents edit above that, and what was  *)
(* recorded of the changes (brightflow-store/src/db/semantics.rs and its   *)
(* callers: the sync, the document import, the detector, the action bus).  *)
(*                                                                         *)
(* Producers is a sequence of [layer, name] in the order the catalog sorts *)
(* them; a producer is its index.  A declaration's dataset also carries    *)
(* `says`, the statement about each of its fields, and `tableSays`.        *)
(***************************************************************************)
EXTENDS Declarations

CONSTANTS Tables,       \* tables the source may have
          Producers,    \* who speaks, in catalog order
          Batches,      \* [Producers' indices -> sets of sequences of declarations]
          Detected,     \* [Tables -> the declaration the detector would make]
          Edits,        \* what a person or agent may say: <<column, field, value>>
          MaxTime,      \* the clock, in seconds
          MaxCommands   \* bound: syncs, imports, edits, resets, drops

VARIABLES tables,       \* the tables that exist
          columnRows,   \* column_semantics: [table, column, by, version, at, says]
          tableRows,    \* table_semantics: the same without a column
          relRows,      \* relationships: [name, from, to, by]
          metricRows,   \* metrics: [table, name, by]
          changes,      \* declaration_changes, oldest first
          job,          \* per producer, the declarations still to apply
          now,
          commands,
          landed,       \* history: the relationships declared since the table each starts
                        \* at was last declared: [by, rel, taken]
          last          \* history: what the last step was

stored == <<columnRows, tableRows, relRows, metricRows, changes, landed>>
vars   == <<tables, stored, job, now, commands, last>>

Actors     == DOMAIN Producers
LayerOf(p) == Producers[p].layer
Idle       == [todo |-> <<>>, retry |-> <<>>, import |-> FALSE]
Nothing    == [kind |-> "none"]

Init == /\ tables \in SUBSET Tables
        /\ columnRows = {} /\ tableRows = {} /\ relRows = {} /\ metricRows = {}
        /\ changes = <<>> /\ landed = {}
        /\ job = [p \in Actors |-> Idle]
        /\ now = 0 /\ commands = 0 /\ last = Nothing

Counted == commands < MaxCommands /\ commands' = commands + 1

\* The rows as the readers get them: by layer and producer, as spelt.
InOrder(rows) ==
  LET sorted == SortSeq(SetToSeq(rows), LAMBDA r, q : r.by < q.by)
  IN  [i \in DOMAIN sorted |->
        [layer |-> LayerOf(sorted[i].by), producer |-> sorted[i].by,
         at |-> sorted[i].at, says |-> sorted[i].says]]

ColumnOpinions(rows, t, c) == InOrder({r \in rows : r.table = t /\ r.column = c})
TableOpinions(rows, t)     == InOrder({r \in rows : r.table = t})
Described(t)               == {r.column : r \in {q \in columnRows : q.table = t}}

-----------------------------------------------------------------------------
(* apply_declaration: one transaction.                                     *)

Mine(rows, t, p)   == {r \in rows : r.table = t /\ r.by = p}
ColumnsSaid(rows)  == [c \in {r.column : r \in rows} |->
                        (CHOOSE r \in rows : r.column = c).says]
TableSaid(rows)    == IF rows = {} THEN Silent(TableFields) ELSE (CHOOSE r \in rows : TRUE).says

NewColumns(t, decl, p, v) ==
  UNION {{[table |-> t, column |-> c, by |-> p, version |-> v, at |-> now,
           says |-> ds.says[c]] : c \in FieldsOf(ds)} : ds \in decl.dataset}

NewTable(t, decl, p, v) ==
  {[table |-> t, by |-> p, version |-> v, at |-> now, says |-> ds.tableSays] :
     ds \in {d \in decl.dataset : ~ Empty(d.tableSays)}}

\* Both ends must exist; the others are skipped.
Landing(decl)    == SelectSeq(decl.relationships, LAMBDA r : {r.from, r.to} \subseteq tables)
Skips(decl)      == Len(Landing(decl)) < Len(decl.relationships)

\* Insert or replace, by name and producer.
UpsertRelationship(rows, r, p) ==
  {q \in rows : ~ (q.name = r.name /\ q.by = p)}
    \cup {[name |-> r.name, from |-> r.from, to |-> r.to, by |-> p]}

\* Faulty variant of NewRelationships: the producer's earlier rows stay.
NewRelationshipsAdded(t, decl, p) ==
  FoldLeft(LAMBDA rows, r : UpsertRelationship(rows, r, p), relRows, Landing(decl))

NewRelationships(t, decl, p) ==
  FoldLeft(LAMBDA rows, r : UpsertRelationship(rows, r, p),
           {q \in relRows : ~ (q.from = t /\ q.by = p)}, Landing(decl))

NewMetrics(t, decl, p) ==
  {[table |-> t, name |-> m.name, by |-> p] : m \in {n \in Range(decl.metrics) : n.structured}}

Recorded(t, decl, p, v) ==
  LET was  == Mine(columnRows, t, p)
      wasT == Mine(tableRows, t, p)
      diff == DiffDeclarations(ColumnsSaid(was), ColumnsSaid(NewColumns(t, decl, p, v)),
                               TableSaid(wasT), TableSaid(NewTable(t, decl, p, v)))
      from == IF was # {} THEN (CHOOSE r \in was : TRUE).version
              ELSE IF wasT # {} THEN (CHOOSE r \in wasT : TRUE).version ELSE None
  IN  IF was \cup wasT = {} \/ diff = {} THEN changes
      ELSE Append(changes, [table |-> t, by |-> p, from |-> from, to |-> v, diff |-> diff])

\* History: a declaration of a table ends what its producer declared to start
\* there; a name used again is taken from whoever used it before.
Landed(t, decl, p) ==
  LET new     == Landing(decl)
      again(l) == l.by = p /\ \E r \in Range(new) : r.name = l.rel.name
  IN  {[l EXCEPT !.taken = @ \/ again(l)] :
         l \in {k \in landed : ~ (k.rel.from = t /\ k.by = p)}}
        \cup {[by |-> p, rel |-> new[i],
               taken |-> \E k \in DOMAIN new : k > i /\ new[k].name = new[i].name] :
                i \in DOMAIN new}

Applies(decl) == DeclarationOk(decl) /\ decl.name \in tables

\* Faulty variant of Rewritten: every row of the table makes way.
RewrittenAll(rows, t, p, new) == {r \in rows : r.table # t} \cup new

Rewritten(rows, t, p, new) == (rows \ Mine(rows, t, p)) \cup new

Apply(decl, p, v) ==
  LET t == decl.name
  IN  /\ columnRows' = Rewritten(columnRows, t, p, NewColumns(t, decl, p, v))
      /\ tableRows' = Rewritten(tableRows, t, p, NewTable(t, decl, p, v))
      /\ relRows' = NewRelationships(t, decl, p)
      /\ metricRows' = Rewritten(metricRows, t, p, NewMetrics(t, decl, p))
      /\ changes' = Recorded(t, decl, p, v)
      /\ landed' = Landed(t, decl, p)
      /\ last' = [kind |-> "declare", table |-> t, by |-> p]

-----------------------------------------------------------------------------
(* Who applies.  A sync and an import work through their declarations one  *)
(* transaction at a time; the version is that of the batch.                *)

\* A sync declares the tables it merged; an import takes a whole document,
\* checked as a whole before the first table is written.
Begin(p, batch, import) ==
  /\ Counted
  /\ job[p] = Idle
  /\ job' = [job EXCEPT ![p] = [todo |-> batch, retry |-> <<>>, import |-> import]]
  /\ last' = Nothing
  /\ UNCHANGED <<tables, stored, now>>

BeginSync   == \E p \in Actors : /\ Producers[p].name = "connector"
                                 /\ \E b \in Batches[p] : Begin(p, b, FALSE)
BeginImport == \E p \in Actors : /\ Producers[p].name = "document"
                                 /\ \E b \in Batches[p] : Begin(p, b, TRUE)

\* The second pass takes what the first could not join up.
Remaining(j, retry) ==
  IF Len(j.todo) = 1
    THEN IF j.import THEN Idle ELSE [j EXCEPT !.todo = retry, !.retry = <<>>]
    ELSE [j EXCEPT !.todo = Tail(j.todo), !.retry = retry]

ApplyNext(p) ==
  LET j == job[p]
      decl == Head(j.todo)
  IN  /\ j.todo # <<>>
      /\ IF Applies(decl)
           THEN /\ Apply(decl, p, decl.version)
                /\ job' = [job EXCEPT ![p] =
                             Remaining(j, IF Skips(decl) /\ ~ decl.retried
                                            THEN Append(j.retry, [decl EXCEPT !.retried = TRUE])
                                            ELSE j.retry)]
           ELSE \* an unknown table or a malformed declaration is passed over
                /\ job' = [job EXCEPT ![p] = Remaining(j, j.retry)]
                /\ last' = Nothing
                /\ UNCHANGED stored
      /\ UNCHANGED <<tables, now, commands>>

\* Only a table nobody said anything about gets the detector's guess.
Detect(t) ==
  /\ t \in tables
  /\ Described(t) = {}
  /\ \E p \in Actors : LayerOf(p) = "detected" /\ Apply(Detected[t], p, None)
  /\ UNCHANGED <<tables, job, now, commands>>

\* An edit rewrites the actor's own row with one field changed.
Edited(t, c, p, f, value) ==
  LET was  == {r \in Mine(columnRows, t, p) : r.column = c}
      says == IF was = {} THEN Silent(ColumnFields) ELSE (CHOOSE r \in was : TRUE).says
  IN  (columnRows \ was)
        \cup {[table |-> t, column |-> c, by |-> p, version |-> None, at |-> now,
               says |-> [says EXCEPT ![f] = value]]}

Edit(t, p) ==
  /\ Counted
  /\ t \in tables
  /\ LayerOf(p) \in {"user", "agent"}
  /\ \E e \in Edits :
       /\ columnRows' = Edited(t, e[1], p, e[2], e[3])
       /\ last' = [kind |-> "edit", table |-> t, by |-> p, column |-> e[1], field |-> e[2],
                   value |-> e[3]]
  /\ UNCHANGED <<tables, tableRows, relRows, metricRows, changes, landed, job, now>>

\* "Reset to declared".
Reset(t) ==
  /\ Counted
  /\ \E c \in Described(t) :
       /\ columnRows' = {r \in columnRows : ~ (r.table = t /\ r.column = c
                                               /\ LayerOf(r.by) \in {"user", "agent"})}
       /\ last' = [kind |-> "reset", table |-> t, column |-> c]
  /\ UNCHANGED <<tables, tableRows, relRows, metricRows, changes, landed, job, now>>

CreateTable(t) ==
  /\ t \notin tables
  /\ tables' = tables \cup {t}
  /\ last' = Nothing
  /\ UNCHANGED <<stored, job, now, commands>>

\* The rows go with their table, the relationships with either end.
DropTable(t) ==
  /\ Counted
  /\ t \in tables
  /\ tables' = tables \ {t}
  /\ columnRows' = {r \in columnRows : r.table # t}
  /\ tableRows' = {r \in tableRows : r.table # t}
  /\ relRows' = {r \in relRows : t \notin {r.from, r.to}}
  /\ metricRows' = {r \in metricRows : r.table # t}
  /\ changes' = SelectSeq(changes, LAMBDA ch : ch.table # t)
  /\ landed' = {l \in landed : t \notin {l.rel.from, l.rel.to}}
  /\ last' = Nothing
  /\ UNCHANGED <<job, now>>

Tick == now < MaxTime /\ now' = now + 1 /\ last' = Nothing
        /\ UNCHANGED <<tables, stored, job, commands>>

Next == \/ BeginSync \/ BeginImport \/ Tick
        \/ \E p \in Actors : ApplyNext(p) \/ (\E t \in Tables : Edit(t, p))
        \/ \E t \in Tables : Detect(t) \/ Reset(t) \/ CreateTable(t) \/ DropTable(t)

Spec == Init /\ [][Next]_vars

-----------------------------------------------------------------------------
(* Properties                                                              *)

\* What may answer for a field: a statement no other statement about that
\* field outranks or postdates within its layer.
Strongest(rows, f) ==
  {r.says[f] : r \in {q \in rows :
     /\ q.says[f] # None
     /\ \A s \in rows : s.says[f] # None =>
          \/ Rank(LayerOf(q.by)) < Rank(LayerOf(s.by))
          \/ LayerOf(q.by) = LayerOf(s.by) /\ q.at >= s.at}}

Shown(rows, t, c) == ResolveColumn(
  [i \in DOMAIN ColumnOpinions(rows, t, c) |->
     [column |-> c] @@ ColumnOpinions(rows, t, c)[i]], c).says

Answers(value, strongest) ==
  IF strongest = {} THEN value = None
  ELSE value \in {IF v = Cleared THEN None ELSE v : v \in strongest}

\* Field by field every reader gets what the strongest layer says of it, the
\* latest within the layer, and an emptied text hides what is below it
\* (resolve_columns, resolve_table).
ResolvesStrongest ==
  \A t \in tables :
    /\ \A c \in Described(t) :
         LET rows  == {r \in columnRows : r.table = t /\ r.column = c}
             shown == Shown(columnRows, t, c)
         IN  \A f \in ColumnFields : Answers(shown[f], Strongest(rows, f))
    /\ LET rows  == {r \in tableRows : r.table = t}
           shown == ResolveTable(TableOpinions(tableRows, t)).says
       IN  \A f \in TableFields : Answers(shown[f], Strongest(rows, f))

\* A declaration never disturbs what someone else said: the columns, tables,
\* relationships and metrics of other producers stay, and what a stronger
\* layer states keeps showing, however often and in whatever versions a
\* connector declares (apply_declaration).
DeclarationsKeepEdits ==
  last'.kind = "declare" =>
       LET t == last'.table
           p == last'.by
       IN  /\ {r \in columnRows : r.by # p} = {r \in columnRows' : r.by # p}
           /\ {r \in tableRows : r.by # p} = {r \in tableRows' : r.by # p}
           /\ {r \in relRows : r.by # p} = {r \in relRows' : r.by # p}
           /\ {r \in metricRows : r.by # p} = {r \in metricRows' : r.by # p}
           /\ \A r \in columnRows : \A f \in ColumnFields :
                r.table = t /\ r.says[f] # None /\ Rank(LayerOf(r.by)) < Rank(LayerOf(p)) =>
                  Shown(columnRows', t, r.column)[f] = Shown(columnRows, t, r.column)[f]

\* The recorded change carries the columns of the previous declaration over
\* into the new one, for every field it covers; nothing is recorded when they
\* agree.  Relationships and metrics leave no record.
Patched(was, diff) ==
  LET of(c)   == {ch \in diff : ch.column = c}
      gone    == {c \in DOMAIN was : \E ch \in of(c) : ch.field = "column" /\ ch.to = None}
      arrived == {ch.column : ch \in {d \in diff : d.field = "column" /\ d.from = None}}
  IN  [kept |-> [c \in (DOMAIN was) \ gone |->
                  [f \in DiffedColumn |->
                     IF \E ch \in of(c) : ch.field = f
                       THEN (CHOOSE ch \in of(c) : ch.field = f).to ELSE was[c][f]]],
       arrived |-> arrived]

ChangesExplain ==
  last'.kind = "declare" =>
       LET t    == last'.table
           p    == last'.by
           was  == ColumnsSaid(Mine(columnRows, t, p))
           is   == ColumnsSaid(Mine(columnRows', t, p))
           new  == SubSeq(changes', Len(changes) + 1, Len(changes'))
           diff == UNION {new[i].diff : i \in DOMAIN new}
           told == Patched(was, diff)
       IN  Mine(columnRows, t, p) # {} =>
             /\ DOMAIN told.kept \cup told.arrived = DOMAIN is
             /\ \A c \in DOMAIN told.kept : \A f \in DiffedColumn : told.kept[c][f] = is[c][f]

\* A declaration changes what its producer says, nothing else, and its recorded
\* change says exactly how the columns changed.
DeclarationsSound == [][DeclarationsKeepEdits /\ ChangesExplain]_vars

\* The relationships on record are those declared since the table each starts
\* at was last declared by its producer, no earlier one left and none lost, with
\* one exception: of the relationships of one producer that share a name, in two
\* tables or in one declaration, only the last is on record, and the table that
\* had the name before has lost its own (apply_declaration, ON CONFLICT by
\* source, name, layer and producer).
RelationshipsAsDeclared ==
  relRows = {[name |-> l.rel.name, from |-> l.rel.from, to |-> l.rel.to, by |-> l.by] :
               l \in {k \in landed : ~ k.taken}}

=============================================================================
