----------------------------- MODULE Candidates -----------------------------
(***************************************************************************)
(* The derived series of the analysis engine (analysis/candidates.rs): the *)
(* columns the engine pulls out of a table, the per-period totals of the   *)
(* whole table and of every slice, and the enumeration of series under a   *)
(* budget.  A row is [period, at, number]: its period or None, the value   *)
(* of each dimension (Blank for a null) and of each measure (None for a    *)
(* null).  Periods and values are integers ordered as their labels are; a  *)
(* share or a mean is the pair <<part, whole>>, a gap (NaN) when the whole *)
(* is zero.                                                                *)
(*                                                                         *)
(* Hash maps yield their keys in any order; `order` says in which: of the  *)
(* measures, of the dimensions when their slices are laid out (dims), when *)
(* they are ranked and when they are paired, and of the value pairs        *)
(* (cells) of two dimensions.                                              *)
(***************************************************************************)
EXTENDS Integers, Sequences, FiniteSets, FiniteSetsExt, SequencesExt

CONSTANTS None, Dims, Measures,
          Text(_)       \* the text of a value, a sequence of words and separators

Blank == 0

\* ------------------------------------------------------------ the columns

\* The numbers of a column: nulls are dropped, so what follows moves up.
NumericOf(rows, m) ==
    SelectSeq([i \in DOMAIN rows |-> rows[i].number[m]], LAMBDA v : v # None)

\* What the passes read as row i's number (nothing past the end).
NumberAt(rows, m, i) ==
    LET column == NumericOf(rows, m)
    IN  IF i \in DOMAIN column THEN column[i] ELSE 0

PeriodsOf(rows) ==
    SetToSortSeq({rows[i].period : i \in DOMAIN rows} \ {None}, <)

\* ------------------------------------------------- aggregates of a slice

SliceAgg(rows, members) ==
    LET periods == PeriodsOf(rows)
        In(p)   == {i \in members : rows[i].period = periods[p]}
    IN  [counts |-> [p \in DOMAIN periods |-> Cardinality(In(p))],
         sums   |-> [m \in Measures |->
                        [p \in DOMAIN periods |->
                            MapThenSumSet(LAMBDA i : NumberAt(rows, m, i), In(p))]]]

TotalRows(agg) == MapThenSumSet(LAMBDA p : agg.counts[p], DOMAIN agg.counts)

Holding(rows, d, v) == {i \in DOMAIN rows : rows[i].at[d] = v}

\* The most frequent values of a dimension in order, ties by name; rows
\* without a period count here.
TopValues(rows, d, budget) ==
    LET Rows(v) == Cardinality(Holding(rows, d, v))
        ranked  == SetToSortSeq({rows[i].at[d] : i \in DOMAIN rows} \ {Blank},
                        LAMBDA v, w : Rows(v) > Rows(w) \/ (Rows(v) = Rows(w) /\ v < w))
    IN  SubSeq(ranked, 1, Min({Len(ranked), budget.topValues}))

Index(rows, budget) ==
    LET top == [d \in Dims |-> TopValues(rows, d, budget)]
    IN  [periods |-> PeriodsOf(rows),
         total   |-> SliceAgg(rows, DOMAIN rows),
         top     |-> top,
         slices  |-> [d \in Dims |->
                        [v \in Range(top[d]) |-> SliceAgg(rows, Holding(rows, d, v))]]]

\* Two dimensions' top values together: only the rows are counted.
PairAgg(rows, d, e, v, w) ==
    [SliceAgg(rows, Holding(rows, d, v) \cap Holding(rows, e, w))
        EXCEPT !.sums = [m \in {} |-> <<>>]]

\* ------------------------------------------------------------ the series

Frame(measure, aggregation, filters, derivations, values, agg) ==
    [measure |-> measure, aggregation |-> aggregation, filters |-> filters,
     derivations |-> derivations, values |-> values, impact |-> TotalRows(agg)]

Joined(parts, separator) ==
    IF parts = <<>> THEN <<>>
    ELSE FoldLeft(LAMBDA text, part : text \o <<separator>> \o part, Head(parts), Tail(parts))

\* What keys a story from run to run: the text of its recipe, without its
\* values and without the granularity, which is one for a report.  The code
\* keeps a hash of the text.
Fingerprint(detector, frame) ==
    LET filters == [i \in DOMAIN frame.filters |->
                       <<frame.filters[i].column, "=">> \o Text(frame.filters[i].value)]
        derived == [i \in DOMAIN frame.derivations |-> <<frame.derivations[i]>>]
    IN  Joined(<< <<detector>>, <<frame.measure>>, <<frame.aggregation>>,
                  Joined(derived, ","), Joined(filters, ",") >>, "|")

Plain(n) == [p \in DOMAIN n |-> <<n[p], 1>>]

ForEach(s, Of(_)) == FlattenSeq([i \in DOMAIN s |-> Of(s[i])])

BaseSeries(agg, filters, order) ==
    <<Frame("rows", "count", filters, <<>>, Plain(agg.counts), agg)>>
    \o ForEach(order.measures, LAMBDA m :
         <<Frame(m, "sum", filters, <<>>, Plain(agg.sums[m]), agg),
           Frame(m, "mean", filters, <<>>,
                 [p \in DOMAIN agg.counts |-> <<agg.sums[m][p], agg.counts[p]>>], agg)>>)

Gap == <<0, 0>>

Minus(x, y) == IF x[2] = 0 \/ y[2] = 0 THEN Gap ELSE <<x[1] * y[2] - y[1] * x[2], x[2] * y[2]>>

Size(n) == IF n < 0 THEN -n ELSE n

\* The change in percent of the size of where it started.
Percent(x, y) ==
    IF x[2] = 0 \/ y[2] = 0 \/ y[1] = 0 THEN Gap
    ELSE <<100 * Minus(x, y)[1] * y[2], Minus(x, y)[2] * Size(y[1])>>

Derived(base, name, values) ==
    [base EXCEPT !.derivations = Append(@, name), !.values = values]

\* Change and percent change, one point shorter; nothing under four points.
WithDerivations(base) ==
    LET n == Len(base.values)
    IN  IF n < 4 THEN <<>>
        ELSE <<Derived(base, "delta", [p \in 1 .. n - 1 |-> Minus(base.values[p + 1], base.values[p])]),
               Derived(base, "pct", [p \in 1 .. n - 1 |-> Percent(base.values[p + 1], base.values[p])])>>

\* A slice over the whole table, per period; a mean has no share.
ShareOfTotal(base, index) ==
    IF base.aggregation = "mean" THEN <<>>
    ELSE LET whole == IF base.measure = "rows" THEN index.total.counts
                      ELSE index.total.sums[base.measure]
         IN  <<Derived(base, "share", [p \in DOMAIN base.values |-> <<base.values[p][1], whole[p]>>])>>

Filter(d, v) == <<[column |-> d, value |-> v]>>

Impactful(agg, index, budget) ==
    TotalRows(agg) * 100 >= budget.minImpact * TotalRows(index.total)

ImpactfulValues(d, index, budget) ==
    SelectSeq(index.top[d], LAMBDA v : Impactful(index.slices[d][v], index, budget))

\* The whole table first, each series after what derives from it.
TableSeries(index, order) ==
    ForEach(BaseSeries(index.total, <<>>, order), LAMBDA base : WithDerivations(base) \o <<base>>)

\* Then each slice that covers enough rows.
SliceSeries(index, order, budget) ==
    ForEach(order.dims, LAMBDA d : ForEach(ImpactfulValues(d, index, budget), LAMBDA v :
        ForEach(BaseSeries(index.slices[d][v], Filter(d, v), order), LAMBDA base :
            ShareOfTotal(base, index) \o WithDerivations(base) \o <<base>>)))

\* Each top value's volume rank among its siblings, where there are three.
RankSeries(index, order, budget) ==
    LET Rank(d, v, p) == 1 + Cardinality({w \in Range(index.top[d]) \ {v} :
                                             index.slices[d][w].counts[p] > index.slices[d][v].counts[p]})
    IN  ForEach(SelectSeq(order.ranked, LAMBDA d : Len(index.top[d]) >= 3), LAMBDA d :
            ForEach(ImpactfulValues(d, index, budget), LAMBDA v :
                <<Frame("rows", "count", Filter(d, v), <<"rank">>,
                        [p \in DOMAIN index.periods |-> <<Rank(d, v, p), 1>>], index.slices[d][v])>>))

\* Two filters: the series of one pair of dimensions.  A pair of values no row
\* is in has no aggregate at all.
PairSeries(rows, index, d, e, order, budget) ==
    LET cells == SelectSeq(order.cells, LAMBDA c :
                    /\ c[1] \in Range(index.top[d]) /\ c[2] \in Range(index.top[e])
                    /\ Holding(rows, d, c[1]) \cap Holding(rows, e, c[2]) # {})
    IN  ForEach(cells, LAMBDA c :
            LET agg  == PairAgg(rows, d, e, c[1], c[2])
                base == Frame("rows", "count", Filter(d, c[1]) \o Filter(e, c[2]),
                              <<>>, Plain(agg.counts), agg)
            IN  IF TotalRows(agg) > 0 /\ Impactful(agg, index, budget)
                  THEN WithDerivations(base) \o <<base>> ELSE <<>>)

\* The pairs of dimensions, in the order they are paired.
DimPairs(paired) ==
    ForEach([i \in DOMAIN paired |-> i], LAMBDA i :
        [j \in 1 .. Len(paired) - i |-> <<paired[i], paired[i + j]>>])

\* Faulty variant of Budgeted: one more than allowed is kept.
BudgetedLate(tried, budget) ==
    LET kept == Min({Len(tried), budget.maxSeries + 1})
    IN  [series |-> SubSeq(tried, 1, kept), dropped |-> Len(tried) - kept]

\* The budget on their number: what is tried past it is dropped and counted.
Budgeted(tried, budget) ==
    LET kept == Min({Len(tried), budget.maxSeries})
    IN  [series |-> SubSeq(tried, 1, kept), dropped |-> Len(tried) - kept]

\* Once the budget is used up a pair of dimensions is not even tried, nor
\* counted.
Enumeration(rows, index, order, budget) ==
    LET single == TableSeries(index, order) \o SliceSeries(index, order, budget)
                    \o RankSeries(index, order, budget)
        Try(series, pair) ==
            IF Len(series) >= budget.maxSeries THEN series
            ELSE series \o PairSeries(rows, index, pair[1], pair[2], order, budget)
    IN  IF Len(index.periods) < 3 \/ TotalRows(index.total) = 0 THEN Budgeted(<<>>, budget)
        ELSE Budgeted(FoldLeft(Try, single, DimPairs(order.paired)), budget)

\* ------------------------------------------------------------ properties

\* Pruning a slice prunes its children soundly, and the budget takes the deepest
\* series first: a pair's series never counts more rows in a period than either
\* of the slices it refines, and each of those is itself among the series.
PairsRefineTheirSlices(series) ==
    \A pair \in series :
        (Len(pair.filters) = 2 /\ pair.derivations = <<>>) =>
            \A k \in 1 .. 2 :
                \E slice \in series :
                    /\ slice.measure = "rows" /\ slice.derivations = <<>>
                    /\ slice.filters = <<pair.filters[k]>>
                    /\ slice.impact >= pair.impact
                    /\ \A p \in DOMAIN pair.values : slice.values[p][1] >= pair.values[p][1]

\* There are never more series than the budget allows, what it leaves out is
\* what comes last, and a set that is not full is what an ample budget gives.
\* A full one may lack pairs that the count of the dropped says nothing of.
WithinBudget(enumeration, ample, budget) ==
    /\ Len(enumeration.series) <= budget.maxSeries
    /\ Len(enumeration.series) < budget.maxSeries => enumeration = ample
    /\ IsPrefix(enumeration.series, ample.series)

\* No separator of the fingerprint occurs in its values.
Plainly(frame) ==
    \A k \in DOMAIN frame.filters : Range(Text(frame.filters[k].value)) \cap {",", "=", "|"} = {}

\* No two series of a report share a recipe, and a fingerprint names one of
\* them, as long as no value is spelt with a separator: "x,d2=x" in d1 reads as
\* x in d1 and x in d2.
OneSeriesPerRecipe(series) ==
    LET plain == {s \in Range(series) : Plainly(s)}
    IN  /\ Cardinality({[s EXCEPT !.values = <<>>, !.impact = 0] : s \in Range(series)}) = Len(series)
        /\ Cardinality({Fingerprint("any", s) : s \in plain}) = Cardinality(plain)

\* The parts of a dimension never exceed the whole: per period the shares of
\* its slices add up to at most one.
SharesWithinTheWhole(series, index) ==
    \A d \in Dims, p \in DOMAIN index.periods :
        LET shares == {s \in series : /\ s.measure = "rows" /\ s.derivations = <<"share">>
                                      /\ s.filters[1].column = d}
        IN  MapThenSumSet(LAMBDA s : s.values[p][1], shares) <= index.total.counts[p]

SeriesSound(rows, order, budget) ==
    \A index \in {Index(rows, budget)} :
    \A ample \in {Enumeration(rows, index, order, [budget EXCEPT !.maxSeries = 20000])} :
    \A found \in {Enumeration(rows, index, order, budget)} :
        /\ PairsRefineTheirSlices(Range(found.series))
        /\ WithinBudget(found, ample, budget)
        /\ OneSeriesPerRecipe(found.series)
        /\ SharesWithinTheWhole(Range(found.series), index)

\* Stated of the code and refuted: a slice's sum is the sum of its own rows
\* (candidates.rs: "measure column, per-period sums").  It fails where a column
\* has a null: what follows it in the column is read for the row before.
SumsAreOfTheirRows(rows) ==
    \A d \in Dims, m \in Measures, p \in DOMAIN PeriodsOf(rows) :
        \A v \in {rows[i].at[d] : i \in DOMAIN rows} :
            SliceAgg(rows, Holding(rows, d, v)).sums[m][p]
                = MapThenSumSet(LAMBDA i : IF rows[i].number[m] = None THEN 0 ELSE rows[i].number[m],
                                {i \in Holding(rows, d, v) : rows[i].period = PeriodsOf(rows)[p]})

\* Stated of the code and refuted: a recurring story keeps its fingerprint from
\* run to run, whatever order the map yields the dimensions in (candidates.rs,
\* fingerprint). The order of two filters is the map's.
StoriesRecur(rows, order, again, budget) ==
    LET Prints(o) == {Fingerprint("any", s) :
                        s \in Range(Enumeration(rows, Index(rows, budget), o, budget).series)}
    IN  Prints(order) = Prints(again)

\* Stated of the code and refuted: a fingerprint names one story whatever the
\* values are called (candidates.rs, fingerprint). Separators are not escaped.
StoriesTellApart(rows, order, budget) ==
    LET series == Enumeration(rows, Index(rows, budget), order, budget).series
    IN  Cardinality({Fingerprint("any", s) : s \in Range(series)}) = Len(series)
=============================================================================
