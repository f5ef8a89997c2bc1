------------------------------ MODULE Queries -------------------------------
(* The operations language and the two ways a chain of it is run: a query     *)
(* from Explore (the last Limit is taken out and applied at the end, so that  *)
(* the rows can be counted) and a model build (every operation in its place). *)
(*                                                                            *)
(* A frame is [cols, types, rows]: the columns in order, a type for each and  *)
(* a sequence of rows, functions from the columns to values or None. Polars   *)
(* promises no order for the groups of a group_by nor for the ties of a sort, *)
(* so running an operation gives the set of frames it may produce; a frame    *)
(* with no columns, Failed, is a chain that names a column the frame has not. *)
(* Times are half days: moment t falls in the calendar day t \div 2.          *)
EXTENDS Integers, Sequences, FiniteSets, SequencesExt, FiniteSetsExt, Functions

CONSTANTS None,    \* a null cell, and an absent option
          Count    \* the output column of a group's count

RecipeVersion == 1

Failed == [cols |-> <<>>, types |-> <<>>, rows |-> <<>>]

Has(frame, column) == column \in ToSet(frame.cols)

Height(frame) == Len(frame.rows)

(* Operations are records with a field "type". What one reads by name: a     *)
(* count over "*" reads nothing.                                              *)
Reads(op) ==
    CASE op.type = "filter" -> {op.column}
      [] op.type = "select" -> ToSet(op.columns)
      [] op.type = "groupBy" -> {op.by} \cup (IF op.of = None THEN {} ELSE {op.of})
      [] op.type = "pivot" -> {op.index, op.columns, op.values}
      [] op.type = "sort" -> {op.by}
      [] op.type = "limit" -> {}
      [] op.type = "withColumns" -> {derived.of : derived \in ToSet(op.columns)}

Reshapes(op) == op.type \in {"groupBy", "pivot"}

(* What the chain up to and including its i-th operation has been given: the *)
(* input's columns and every derived name; a Select takes nothing away.       *)
Known(input, ops, i) ==
    input \cup UNION { {derived.name : derived \in ToSet(ops[j].columns)} :
                         j \in {k \in 1..i : ops[k].type = "withColumns"} }

Reshaped(ops, i) == \E j \in 1..i : Reshapes(ops[j])

Validates(version, input, ops) ==
    /\ version <= RecipeVersion
    /\ Len(ops) > 0
    /\ \A i \in 1..Len(ops) :
         ~Reshaped(ops, i - 1) => Reads(ops[i]) \subseteq Known(input, ops, i - 1)

-----------------------------------------------------------------------------
(* Filters. A literal is [kind, at]: a number, or a text that is exactly a    *)
(* date ("day", ten characters), a time of day to the minute or the second    *)
(* ("moment"), or neither ("word"). Against a temporal column a text is       *)
(* parsed, non-strict: what does not parse is null and compares with nothing. *)
DayOf(moment) == moment \div 2

Comparable(type, cell, literal) ==
    IF cell = None THEN <<None, None>>
    ELSE CASE type = "date" ->
                <<cell, IF literal.kind = "day" THEN literal.at ELSE None>>
           [] type = "datetime" /\ literal.kind = "day" -> <<DayOf(cell), literal.at>>
           [] type = "datetime" /\ literal.kind # "day" ->
                <<cell, IF literal.kind = "moment" THEN literal.at ELSE None>>
           [] OTHER -> <<cell, literal.at>>

Keeps(type, op, cell, literal) ==
    LET pair == Comparable(type, cell, literal) IN
    CASE op = "isNull" -> cell = None
      [] op = "isNotNull" -> cell # None
      [] op = "in" -> cell # None /\ cell \in literal.of
      [] OTHER ->
           /\ None \notin {pair[1], pair[2]}
           /\ CASE op = "eq" -> pair[1] = pair[2]
                [] op = "ne" -> pair[1] # pair[2]
                [] op = "gt" -> pair[1] > pair[2]
                [] op = "gte" -> pair[1] >= pair[2]
                [] op = "lt" -> pair[1] < pair[2]
                [] op = "lte" -> pair[1] <= pair[2]

TypeIn(frame, column) == frame.types[column]

Filtered(frame, op) ==
    [frame EXCEPT !.rows =
        SelectSeq(frame.rows,
                  LAMBDA row : Keeps(TypeIn(frame, op.column), op.op,
                                     row[op.column], op.value))]

-----------------------------------------------------------------------------
(* The other operations.                                                      *)
Narrowed(frame, columns) ==
    [cols |-> columns,
     types |-> Restrict(frame.types, ToSet(columns)),
     rows |-> [i \in 1..Height(frame) |-> Restrict(frame.rows[i], ToSet(columns))]]

(* Every order of a set, as sequences.                                        *)
Orders(S) == SetToSeqs(S)

Grouped(frame, op) ==
    LET keys == {frame.rows[i][op.by] : i \in 1..Height(frame)}
        members(key) == {i \in 1..Height(frame) : frame.rows[i][op.by] = key}
        counted(key) == IF op.of = None THEN Cardinality(members(key))
                        ELSE Cardinality({i \in members(key) : frame.rows[i][op.of] # None})
        row(key) == [c \in {op.by, Count} |-> IF c = op.by THEN key ELSE counted(key)]
    IN { [cols |-> <<op.by, Count>>,
          types |-> [c \in {op.by, Count} |->
                        IF c = op.by THEN TypeIn(frame, op.by) ELSE "number"],
          rows |-> [i \in 1..Len(keyOrder) |-> row(keyOrder[i])]] : keyOrder \in Orders(keys) }

(* Rows by the index column, one new column for each value of the column      *)
(* field, both in order of appearance; a cell is the count of its rows.       *)
Pivoted(frame, op) ==
    LET firstOf(column) ==
            SelectSeq([i \in 1..Height(frame) |-> i],
                LAMBDA i : \A j \in 1..(i - 1) :
                               frame.rows[j][column] # frame.rows[i][column])
        leads == firstOf(op.index)
        spread == firstOf(op.columns)
        new == [i \in 1..Len(spread) |-> <<op.columns, frame.rows[spread[i]][op.columns]>>]
        cell(lead, value) ==
            LET inCell == {i \in 1..Height(frame) :
                             /\ frame.rows[i][op.index] = frame.rows[lead][op.index]
                             /\ frame.rows[i][op.columns] = value}
            IN IF inCell = {} THEN None
               ELSE Cardinality({i \in inCell : frame.rows[i][op.values] # None})
        columns == <<op.index>> \o new
    IN [cols |-> columns,
        types |-> [c \in ToSet(columns) |->
                     IF c = op.index THEN TypeIn(frame, op.index) ELSE "number"],
        rows |-> [k \in 1..Len(leads) |->
                    [c \in ToSet(columns) |->
                       IF c = op.index THEN frame.rows[leads[k]][op.index]
                       ELSE cell(leads[k], c[2])]]]

(* Nulls come first in both directions; ties come in any order.               *)
NotAfter(a, b, descending) ==
    \/ a = None
    \/ /\ None \notin {a, b}
       /\ IF descending THEN a >= b ELSE a <= b

Sorted(frame, op) ==
    { [frame EXCEPT !.rows = [i \in 1..Height(frame) |-> frame.rows[order[i]]]] :
        order \in { o \in Orders(1..Height(frame)) :
                      \A i \in 1..(Height(frame) - 1) :
                        NotAfter(frame.rows[o[i]][op.by], frame.rows[o[i + 1]][op.by],
                                 op.descending) } }

Limited(frame, n) == [frame EXCEPT !.rows = SubSeq(@, 1, IF n < Len(@) THEN n ELSE Len(@))]

(* The calendar day of a time column; a text that is no date is null, and a  *)
(* number has no period. All are computed from the frame as it came in.       *)
PeriodOf(type, cell) == IF cell = None \/ type = "text" THEN None
                        ELSE IF type = "datetime" THEN DayOf(cell) ELSE cell

Extended(frame, derivedColumns) ==
    LET names == {derived.name : derived \in ToSet(derivedColumns)}
        source(name) == (CHOOSE d \in ToSet(derivedColumns) : d.name = name).of
        fresh == SelectSeq(derivedColumns, LAMBDA d : ~Has(frame, d.name))
    IN [cols |-> frame.cols \o [i \in 1..Len(fresh) |-> fresh[i].name],
        types |-> [c \in ToSet(frame.cols) \cup names |->
                     IF c \in names THEN "text" ELSE frame.types[c]],
        rows |-> [i \in 1..Height(frame) |->
                    [c \in ToSet(frame.cols) \cup names |->
                       IF c \in names
                       THEN PeriodOf(TypeIn(frame, source(c)), frame.rows[i][source(c)])
                       ELSE frame.rows[i][c]]]]

(* apply_operation. The empty In list is the constant false and reads no      *)
(* column; everything else fails on a column the frame does not have, and a   *)
(* period of a number is an invalid query.                                    *)
Readable(frame, op) ==
    \/ op.type = "filter" /\ op.op = "in" /\ op.value.of = {}
    \/ /\ \A c \in Reads(op) : Has(frame, c)
       /\ op.type = "withColumns" =>
            \A d \in ToSet(op.columns) : TypeIn(frame, d.of) # "number"

ApplyOperation(frame, op) ==
    IF frame = Failed \/ ~Readable(frame, op) THEN {Failed}
    ELSE CASE op.type = "filter" ->
                {IF Has(frame, op.column) THEN Filtered(frame, op) ELSE Limited(frame, 0)}
           [] op.type = "select" -> {Narrowed(frame, op.columns)}
           [] op.type = "groupBy" -> Grouped(frame, op)
           [] op.type = "pivot" -> {Pivoted(frame, op)}
           [] op.type = "sort" -> Sorted(frame, op)
           [] op.type = "limit" -> {Limited(frame, op.n)}
           [] op.type = "withColumns" -> {Extended(frame, op.columns)}

Applied(frames, op) == UNION {ApplyOperation(frame, op) : frame \in frames}

RunChain(data, ops) == FoldLeft(Applied, {data}, ops)

(* execute_query as it would be if the rows were counted after the limit.     *)
RespondsAfterLimit(frame, n) ==
    [rows |-> Limited(frame, n).rows, rowCount |-> Height(Limited(frame, n)),
     totalRows |-> Height(Limited(frame, n))]

(* The answer to a query: the last Limit of the chain, wherever it stood, is  *)
(* applied at the end, and the rows before it are counted.                    *)
Responds(frame, n) ==
    [rows |-> Limited(frame, n).rows, rowCount |-> Height(Limited(frame, n)),
     totalRows |-> Height(frame)]

ExecuteQuery(data, ops) ==
    LET limits == SelectSeq(ops, LAMBDA op : op.type = "limit")
        others == SelectSeq(ops, LAMBDA op : op.type # "limit")
        frames == RunChain(data, others) \ {Failed}
    IN { IF limits = <<>>
         THEN [rows |-> frame.rows, rowCount |-> Height(frame), totalRows |-> Height(frame)]
         ELSE Responds(frame, Last(limits).n) : frame \in frames }

-----------------------------------------------------------------------------
(* Properties.                                                                *)

(* Every limit but the last forgotten, and that one moved to the end.         *)
LimitMoved(ops) ==
    LET LimitAt(i) == ops[i].type = "limit"
        moved      == {i \in 1..Len(ops) : LimitAt(i) /\ \A j \in (i + 1)..Len(ops) : ~LimitAt(j)}
    IN SelectSeq(ops, LAMBDA op : op.type # "limit") \o [i \in 1..Cardinality(moved) |-> ops[Max(moved)]]

(* A query shows the rows a build of the same chain would write, out of as    *)
(* many as the chain has without its limits, as long as there is one limit at *)
(* most and nothing after it filters, sorts, groups or pivots. Otherwise it   *)
(* shows what a build of another chain would write, in which the last limit   *)
(* stands at the end and the earlier ones are gone: a filter or a sort after  *)
(* a limit sees every row in a query and only the limited rows in a build     *)
(* (executor.rs:39-78 against executor.rs:28-37).                             *)
QueryPages(data, ops) ==
    LET shown == ExecuteQuery(data, ops)
        limits == {i \in 1..Len(ops) : ops[i].type = "limit"}
        rowwise == \A i \in limits : \A j \in (i + 1)..Len(ops) :
                      ops[j].type \in {"select", "withColumns"}
        written(chain) == {frame.rows : frame \in RunChain(data, chain) \ {Failed}}
    IN /\ {answer.rows : answer \in shown} =
             written(IF Cardinality(limits) <= 1 /\ rowwise THEN ops ELSE LimitMoved(ops))
       /\ {answer.totalRows : answer \in shown} =
             {Len(rows) : rows \in written(SelectSeq(ops, LAMBDA op : op.type # "limit"))}

(* A recipe that passes validate names no unknown column, in any operation    *)
(* before its first reshape and in that reshape, unless an earlier Select     *)
(* dropped the column; and one refused for an unknown column does not run     *)
(* (ops.rs:147-174 against executor.rs:98-130). A period of a number and an   *)
(* empty In are the executor's own business, so the recipes have neither.     *)
ValidatedNames(data, ops) ==
    LET input == ToSet(data.cols)
        until == IF \E i \in 1..Len(ops) : Reshapes(ops[i])
                 THEN Min({i \in 1..Len(ops) : Reshapes(ops[i])}) ELSE Len(ops)
        dropped == \E i, j \in 1..until :
                     /\ i < j /\ ops[i].type = "select"
                     /\ ~(Reads(ops[j]) \subseteq ToSet(ops[i].columns))
        plain == \A i \in 1..Len(ops) :
                   /\ (ops[i].type = "filter") => (ops[i].op # "in")
                   /\ ops[i].type = "withColumns" =>
                        \A d \in ToSet(ops[i].columns) :
                            Has(data, d.of) => TypeIn(data, d.of) # "number"
        fails == Failed \in RunChain(data, SubSeq(ops, 1, until))
    IN (plain /\ Len(ops) > 0 /\ ~dropped) =>
         (Validates(RecipeVersion, input, ops) <=> ~fails)

(* "Before the day" and "on or after the day" split the rows that have a time *)
(* in two, whatever type the column is held in (executor.rs:205-262).         *)
DaySplitsTime(data, column, day) ==
    LET literal == [kind |-> "day", at |-> day, of |-> {}]
        kept(op) == {i \in 1..Height(data) :
                        Keeps(TypeIn(data, column), op, data.rows[i][column], literal)}
        dated == {i \in 1..Height(data) : data.rows[i][column] # None}
    IN TypeIn(data, column) \in {"date", "datetime"} =>
         /\ kept("lt") \cup kept("gte") = dated
         /\ kept("lt") \cap kept("gte") = {}
         /\ kept("eq") = kept("lte") \cap kept("gte")
=============================================================================
