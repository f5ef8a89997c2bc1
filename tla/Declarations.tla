------------------------------ MODULE Declarations ------------------------------
(***************************************************************************)
(* What can be said about tables: declarations and opinions, how opinions  *)
(* of several layers resolve to one answer per field, what a declaration   *)
(* changed, when one is well formed, and how the short hand-written form   *)
(* is read.  Pure definitions (crate brightflow-types); the store that     *)
(* keeps the opinions is module Semantics.                                 *)
(*                                                                         *)
(* A statement is a function from field names to values; None is "no       *)
(* opinion".  Custom extensions of other vendors and column expressions    *)
(* are carried through unchanged by the code and left out here.            *)
(***************************************************************************)
EXTENDS Naturals, Sequences, FiniteSets, SequencesExt

CONSTANT None          \* no opinion, no value

Cleared == ""          \* an empty text: stated, and resolves to nothing

Precedence == <<"user", "agent", "declared", "detected">>
Rank(l)    == CHOOSE i \in 1..4 : Precedence[i] = l

ColumnTexts  == {"label", "description"}
ColumnFields == ColumnTexts \cup {"datatype", "isTime", "role", "isKpi", "polarity", "aiContext"}
TableTexts   == {"displayName", "description"}
TableFields  == TableTexts \cup {"granularity", "periods", "doc", "aiContext"}
Texts        == ColumnTexts \cup TableTexts

Silent(fields) == [f \in fields |-> None]
Empty(says)    == \A f \in DOMAIN says : says[f] = None

-----------------------------------------------------------------------------
(* Resolution.  An opinion is [layer, producer, at, says] and more; the    *)
(* store hands the opinions over ordered by the spelling of their layer    *)
(* and producer, and the sort that follows is stable.                      *)

Before(o, p) == \/ Rank(o.layer) < Rank(p.layer)
                \/ /\ o.layer = p.layer
                   /\ o.at > p.at

\* Faulty variant of PrecedenceOrder: recency decides before the layer does.
PrecedenceOrderRecent(opinions) ==
  LET newer(i, j) == \/ opinions[i].at > opinions[j].at
                     \/ /\ opinions[i].at = opinions[j].at
                        /\ i < j
  IN  [k \in DOMAIN opinions |->
        opinions[SortSeq([i \in DOMAIN opinions |-> i], newer)[k]]]

PrecedenceOrder(opinions) ==
  LET inOrder(i, j) == \/ Before(opinions[i], opinions[j])
                       \/ /\ ~ Before(opinions[j], opinions[i])
                          /\ i < j
  IN  [k \in DOMAIN opinions |->
        opinions[SortSeq([i \in DOMAIN opinions |-> i], inOrder)[k]]]

FirstValue(ordered, field) ==
  LET stating == SelectSeq(ordered, LAMBDA o : o.says[field] # None)
  IN  IF stating = <<>> THEN None ELSE Head(stating).says[field]

FirstText(ordered, field) ==
  LET first == FirstValue(ordered, field) IN IF first = Cleared THEN None ELSE first

ResolvedBy(ordered) ==
  LET stating == SelectSeq(ordered, LAMBDA o : ~ Empty(o.says))
  IN  IF stating = <<>> THEN None ELSE <<Head(stating).layer, Head(stating).producer>>

Resolve(opinions, fields) ==
  LET ordered == PrecedenceOrder(opinions)
  IN  [says |-> [f \in fields |-> IF f \in Texts THEN FirstText(ordered, f)
                                                 ELSE FirstValue(ordered, f)],
       by |-> ResolvedBy(ordered)]

ResolveColumn(opinions, column) ==
  Resolve(SelectSeq(opinions, LAMBDA o : o.column = column), ColumnFields)

ResolveTable(opinions) == Resolve(opinions, TableFields)

-----------------------------------------------------------------------------
(* What a re-declaration changed.                                          *)

DiffedColumn == ColumnFields \ {"aiContext"}
DiffedTable  == TableFields \ {"doc", "aiContext"}

Changed(column, fields, from, to) ==
  {[column |-> column, field |-> f, from |-> from[f], to |-> to[f]] :
     f \in {g \in fields : from[g] # to[g]}}

\* Columns are functions from the declared names to what is said of each.
DiffColumn(prev, next, c) ==
  CASE c \notin DOMAIN prev ->
         {[column |-> c, field |-> "column", from |-> None, to |-> "declared"]}
    [] c \notin DOMAIN next ->
         {[column |-> c, field |-> "column", from |-> "declared", to |-> None]}
    [] OTHER -> Changed(c, DiffedColumn, prev[c], next[c])

DiffDeclarations(prevColumns, nextColumns, prevTable, nextTable) ==
  UNION {DiffColumn(prevColumns, nextColumns, c) : c \in DOMAIN prevColumns \cup DOMAIN nextColumns}
    \cup Changed(None, DiffedTable, prevTable, nextTable)

-----------------------------------------------------------------------------
(* Well-formedness.  A dataset is [name, fields, keys] with its fields a   *)
(* sequence of names; a relationship [name, from, to, fromColumns,         *)
(* toColumns]; a metric [name, dataset, column, structured].               *)

Duplicated(names) == \E i, j \in DOMAIN names : i # j /\ names[i] = names[j]
Named(things)     == [i \in DOMAIN things |-> things[i].name]
FieldsOf(ds)      == Range(ds.fields)

DatasetOk(ds) == /\ ~ Duplicated(ds.fields)
                 /\ FieldsOf(ds) # {} => ds.keys \subseteq FieldsOf(ds)

RelationshipArity(rel) == /\ rel.fromColumns # <<>>
                          /\ Len(rel.fromColumns) = Len(rel.toColumns)

\* A dataset that declares no fields cannot be checked.
Known(ds, columns) == FieldsOf(ds) # {} => Range(columns) \subseteq FieldsOf(ds)

MetricOk(ds, metric) == metric.column # "*" => Known(ds, <<metric.column>>)

RelationshipsOk(model) ==
  /\ ~ Duplicated(Named(model.relationships))
  /\ \A rel \in Range(model.relationships) :
       /\ RelationshipArity(rel)
       /\ \E ds \in Range(model.datasets) : ds.name = rel.from
       /\ \E ds \in Range(model.datasets) : ds.name = rel.to
       /\ \A ds \in Range(model.datasets) : /\ ds.name = rel.from => Known(ds, rel.fromColumns)
                                            /\ ds.name = rel.to => Known(ds, rel.toColumns)

MetricsOk(model) ==
  /\ ~ Duplicated(Named(model.metrics))
  /\ \A m \in Range(model.metrics), ds \in Range(model.datasets) :
       m.structured /\ m.dataset = ds.name => MetricOk(ds, m)

ModelOk(model) == /\ ~ Duplicated(Named(model.datasets))
                  /\ \A ds \in Range(model.datasets) : DatasetOk(ds)
                  /\ RelationshipsOk(model)
                  /\ MetricsOk(model)

ContractVersion == 1

\* A declaration is checked against itself only.
DeclarationOk(decl) ==
  /\ decl.contract <= ContractVersion
  /\ \A ds \in decl.dataset :
       /\ DatasetOk(ds)
       /\ \A rel \in Range(decl.relationships) :
            RelationshipArity(rel) /\ (rel.from = ds.name => Known(ds, rel.fromColumns))
       /\ \A m \in Range(decl.metrics) :
            m.structured /\ m.dataset = ds.name => MetricOk(ds, m)

\* Faulty variant of DeclarationsOf: relationships are filed under their one side.
DeclarationsOfTarget(model) ==
  [i \in DOMAIN model.datasets |->
    LET ds == model.datasets[i]
    IN  [contract |-> ContractVersion, name |-> ds.name, dataset |-> {ds},
         relationships |-> SelectSeq(model.relationships, LAMBDA r : r.to = ds.name),
         metrics |-> SelectSeq(model.metrics, LAMBDA m : m.structured /\ m.dataset = ds.name)]]

\* One declaration per dataset, with the relationships that start there and
\* the structured metrics over it.
DeclarationsOf(model) ==
  [i \in DOMAIN model.datasets |->
    LET ds == model.datasets[i]
    IN  [contract |-> ContractVersion, name |-> ds.name, dataset |-> {ds},
         relationships |-> SelectSeq(model.relationships, LAMBDA r : r.from = ds.name),
         metrics |-> SelectSeq(model.metrics, LAMBDA m : m.structured /\ m.dataset = ds.name)]]

\* A model that passes the checks as a whole falls apart into declarations
\* that pass theirs, and nothing structured gets lost on the way: an import
\* that validated its document is not stopped halfway by one of its tables.
ImportHolds(model) ==
  ModelOk(model) =>
    LET decls == DeclarationsOf(model)
    IN  /\ \A d \in Range(decls) : DeclarationOk(d)
        /\ \A r \in Range(model.relationships) :
             \E d \in Range(decls) : d.name = r.from /\ r \in Range(d.relationships)
        /\ \A m \in Range(model.metrics) :
             m.structured /\ m.dataset \in Range(Named(model.datasets)) =>
               Cardinality({d \in Range(decls) : m \in Range(d.metrics)}) = 1

-----------------------------------------------------------------------------
(* Reading the short form.  What is absent is None; the Brightflow         *)
(* extension may stand under its own key or among the custom extensions,   *)
(* where the strict form keeps it.  A reading is {} when it is refused.    *)

Or(a, b)          == IF a # None THEN a ELSE b
NameOf(de, key)   == Or(de.name, key)
ExtensionOf(de)   == Or(de.brightflow, de.extension)
Rendered(expr)    == <<"SELECT", expr>>

\* dimension is None, "unset" (a dimension that does not say), "yes" or "no".
DimensionOf(de) == IF de.dimension \in {None, "unset"} /\ de.isTime # None THEN de.isTime
                                                                       ELSE de.dimension

ReadField(de, key) ==
  {[name |-> n, expression |-> Or(de.expression, n), dimension |-> DimensionOf(de),
    extension |-> ExtensionOf(de)] : n \in {NameOf(de, key)} \ {None}}

\* hint is the declaring table of an endpoint, None elsewhere.
ReadRelationship(de, key, hint) ==
  {[name |-> Or(NameOf(de, key), <<f, de.to>>), from |-> f, to |-> de.to] :
     f \in {Or(de.from, hint)} \ {None}}

\* A structured expression takes the place of the extension's own.
ReadMetric(de, key) ==
  LET own == ExtensionOf(de)
      ext == IF de.expression.kind = "structured" THEN de.expression.expr ELSE own
      sql == CASE de.expression.kind = "structured" -> Rendered(de.expression.expr)
               [] de.expression.kind = "text"       -> de.expression.text
               [] OTHER -> IF de.brightflow = None THEN None ELSE Rendered(de.brightflow)
  IN  {[name |-> n, expression |-> [kind |-> "text", text |-> sql], extension |-> ext] :
         n \in IF sql = None THEN {} ELSE {NameOf(de, key)} \ {None}}

\* An endpoint's metric speaks of the endpoint's table unless it names one.
QualifyMetric(metric, table) ==
  IF metric.extension = None \/ metric.extension.dataset # None THEN metric
  ELSE LET expr == [metric.extension EXCEPT !.dataset = table]
       IN  [metric EXCEPT !.expression = [kind |-> "text", text |-> Rendered(expr)],
                          !.extension = expr]

\* What is written out: the strict form, in which nothing is short.
StrictField(f)  == [name |-> f.name, expression |-> f.expression, dimension |-> f.dimension,
                    isTime |-> None, brightflow |-> None, extension |-> f.extension]
StrictMetric(m) == [name |-> m.name, expression |-> m.expression, brightflow |-> None,
                    extension |-> m.extension]

\* Reading what was written gives back what was read, for fields and metrics
\* alike: a document survives any number of exports and imports.
FieldReadsBack(de, key) ==
  \A f \in ReadField(de, key) : ReadField(StrictField(f), None) = {f}

\* The same for relationships, on an endpoint or on their own.
RelationshipReadsBack(de, key, hint) ==
  \A r \in ReadRelationship(de, key, hint) : ReadRelationship(r, None, None) = {r}

\* The same for metrics; and a metric given in structured form executes what
\* its text says, on the endpoint's own table when it names none.
MetricReadsBack(de, key, table) ==
  \A m \in ReadMetric(de, key) :
    LET q == QualifyMetric(m, table)
    IN  /\ ReadMetric(StrictMetric(q), None) = {q}
        /\ de.expression.kind = "structured" =>
             /\ q.extension # None
             /\ q.extension.dataset # None
             /\ q.expression.text = Rendered(q.extension)

=============================================================================
