----------------------------- MODULE Detectors -----------------------------
(***************************************************************************)
(* What the detectors compute from the values (brightflow-engine           *)
(* analysis/): which slices drove a change, where a level shifted, which   *)
(* columns moved together, how concentrated a measure is, who came and     *)
(* went, and which segment a difference is laid on.  Values are whole      *)
(* numbers; ratios and means are compared by cross-multiplication.         *)
(*                                                                         *)
(* A row is [period, segment, number]; the blank segment is Blank.         *)
(***************************************************************************)
EXTENDS Integers, Sequences, FiniteSets, FiniteSetsExt, SequencesExt

CONSTANTS None, Blank

Abs(n) == IF n < 0 THEN -n ELSE n
Total(values) == FoldLeft(LAMBDA acc, v : acc + v, 0, values)
Numbers(rows, keep(_)) ==
    LET kept == SelectSeq(rows, keep) IN [i \in DOMAIN kept |-> kept[i].number]
SegmentsOf(rows) == {rows[i].segment : i \in DOMAIN rows}

\* -------------------------------------------------------- drivers of a change

\* A slice is [dimension, value, prev, curr], the sums of two periods.
Delta(slice) == slice.curr - slice.prev

Gross(slices) == Total([i \in DOMAIN slices |-> Abs(Delta(slices[i]))])

\* The net is under a quarter of what the slices moved.
Offsetting(slices, net) == Gross(slices) > 0 /\ 4 * Abs(net) < Gross(slices)

\* What a slice's contribution is a share of.
Reference(slices, net) == IF Offsetting(slices, net) THEN Gross(slices) ELSE Abs(net)

Ranked(slices) ==
    SortSeq(SelectSeq(slices, LAMBDA s : Delta(s) # 0),
            LAMBDA x, y : Abs(Delta(x)) > Abs(Delta(y)))

\* Down the ranking, so many in all and so many of one dimension.
SelectDiverse(ranked, maxDrivers, maxPerDimension) ==
    FoldLeft(LAMBDA out, s :
        LET seen == Len(SelectSeq(out, LAMBDA o : o.dimension = s.dimension))
        IN  IF Len(out) >= maxDrivers \/ seen >= maxPerDimension THEN out ELSE Append(out, s),
        <<>>, ranked)

\* The latest two periods, the whole table's sums with the slices'.
DecomposeLatestDelta(slices, prev, curr, maxDrivers, maxPerDimension) ==
    IF prev = 0 /\ curr = 0 THEN None
    ELSE [net        |-> curr - prev,
          offsetting |-> Offsetting(slices, curr - prev),
          reference  |-> Reference(slices, curr - prev),
          drivers    |-> SelectDiverse(Ranked(slices), maxDrivers, maxPerDimension)]

\* -------------------------------------------------------------- a level shift

\* The running sum of the deviations from the mean, times the length, and
\* where it is farthest from nothing first.
Cusum(values) ==
    [i \in DOMAIN values |->
        Len(values) * Total(SubSeq(values, 1, i)) - i * Total(values)]
Peak(values) ==
    LET c == Cusum(values)
    IN  CHOOSE i \in DOMAIN c :
            /\ \A j \in DOMAIN c : Abs(c[j]) <= Abs(c[i])
            /\ \A j \in 1 .. i - 1 : Abs(c[j]) < Abs(c[i])

\* The last point before the shift, if it is two points in from the start,
\* two from the end, and by three twentieths of the level before.
ChangePoint(values) ==
    LET n == Len(values)
        k == Peak(values)
        before == Total(SubSeq(values, 1, k))
        after  == Total(SubSeq(values, k + 1, n))
        flat   == \A i \in DOMAIN values : values[i] = values[1]
    IN  IF n < 6 \/ flat THEN None
        ELSE IF k < 3 \/ k > n - 2 THEN None
        ELSE IF 20 * Abs(after * k - before * (n - k)) < 3 * Abs(before) * (n - k) THEN None
        ELSE k

\* The mean rank at either end, over a third of the series but two to four.
RankWindow(n) == IF n \div 3 < 2 THEN 2 ELSE IF n \div 3 > 4 THEN 4 ELSE n \div 3
RankAt(ranks, first) ==
    LET w == RankWindow(Len(ranks))
        rounded == (2 * Total(SubSeq(ranks, first, first + w - 1)) + w) \div (2 * w)
    IN  IF rounded < 1 THEN 1 ELSE rounded
RankChange(ranks, minJump) ==
    LET n    == Len(ranks)
        from == RankAt(ranks, 1)
        to   == RankAt(ranks, n - RankWindow(n) + 1)
    IN  IF n < 6 THEN None
        ELSE IF Abs(to - from) < minJump THEN None ELSE [from |-> from, to |-> to]

\* The last point against the points before it: nothing under four, nothing
\* against a flat history.  Squares stand for the deviation.
LastPointOut(values, threshold) ==
    LET h == SubSeq(values, 1, Len(values) - 1)
        n == Len(h)
        off == n * values[Len(values)] - Total(h)
        spread == Total([i \in DOMAIN h |-> (n * h[i] - Total(h)) * (n * h[i] - Total(h))])
    IN  /\ Len(values) >= 4 /\ spread > 0
        /\ off * off * (n - 1) > threshold * threshold * spread

\* ---------------------------------------------------------- columns together

\* Rows of one column by period, and the mean of each, <<sum, count>>.
PeriodMeans(rows) ==
    [p \in {rows[i].period : i \in DOMAIN rows} \ {None} |->
        LET ns == Numbers(rows, LAMBDA r : r.period = p) IN <<Total(ns), Len(ns)>>]

\* Outliers of a column: its level in a period, given as whole numbers,
\* against all its periods, three at least.
Outliers(levels, threshold) ==
    LET n == Cardinality(DOMAIN levels)
        sum == MapThenSumSet(LAMBDA p : levels[p], DOMAIN levels)
        dev(p) == n * levels[p] - sum
        spread == MapThenSumSet(LAMBDA p : dev(p) * dev(p), DOMAIN levels)
    IN  IF n < 3 \/ spread = 0 THEN {}
        ELSE {<<p, IF dev(p) > 0 THEN "spike" ELSE "dip">> :
                p \in {q \in DOMAIN levels : dev(q) * dev(q) * (n - 1) > threshold * threshold * spread}}

\* Two columns or more, out in the same period and the same way.
Clusters(levelsOf, threshold) ==
    LET out == [c \in DOMAIN levelsOf |-> Outliers(levelsOf[c], threshold)]
        keys == UNION {out[c] : c \in DOMAIN out}
        members(key) == {c \in DOMAIN out : key \in out[c]}
    IN  {[period |-> key[1], direction |-> key[2], columns |-> members(key)] :
            key \in {k \in keys : Cardinality(members(k)) >= 2}}

CommonValues(rows, period) ==
    LET here == SelectSeq(rows, LAMBDA r : r.period = period /\ r.segment # Blank)
        count(v) == Len(SelectSeq(here, LAMBDA r : r.segment = v))
    IN  {v \in SegmentsOf(here) : 2 * count(v) > Len(here)}

\* ------------------------------------------------------ shares and segments

\* Positive values only; concentrated by the squares of the shares or by the
\* three largest of them.
Concentration(rows) ==
    LET held == SelectSeq(rows, LAMBDA r : r.number > 0)
        sums == [s \in SegmentsOf(held) |-> Total(Numbers(held, LAMBDA r : r.segment = s))]
        all  == Total(Numbers(held, LAMBDA r : TRUE))
        desc == SortSeq(SetToSeq(DOMAIN sums), LAMBDA x, y : sums[x] > sums[y])
        three == Total([i \in 1 .. (IF Len(desc) < 3 THEN Len(desc) ELSE 3) |-> sums[desc[i]]])
        squares == MapThenSumSet(LAMBDA s : sums[s] * sums[s], DOMAIN sums)
    IN  IF held = <<>> THEN None
        ELSE IF 4 * squares < all * all /\ 10 * three < 6 * all THEN None
        ELSE [leader |-> desc[1], share |-> <<sums[desc[1]], all>>, segments |-> Cardinality(DOMAIN sums)]

\* Who came and went between two periods; blanks are nobody.
MembershipChange(rows, prev, curr) ==
    LET in(p) == {rows[i].segment : i \in {j \in DOMAIN rows : rows[j].period = p}} \ {Blank}
        added == in(curr) \ in(prev)
        removed == in(prev) \ in(curr)
    IN  IF in(prev) = {} \/ in(curr) = {} \/ (added = {} /\ removed = {}) THEN None
        ELSE [added |-> added, removed |-> removed, size |-> Cardinality(in(prev))]

\* The rows of two periods, five at least of each, and how far apart their
\* distributions are: the largest gap of the shares at or below a value.
DistributionShift(rows, prev, curr, percent) ==
    LET ns(p) == Numbers(rows, LAMBDA r : r.period = p)
        below(s, v) == Len(SelectSeq(s, LAMBDA n : n <= v))
        x == ns(prev)
        y == ns(curr)
        gaps == {Abs(below(x, v) * Len(y) - below(y, v) * Len(x)) : v \in Range(x) \cup Range(y)}
    IN  Len(x) >= 5 /\ Len(y) >= 5 /\ 100 * Max(gaps) >= percent * Len(x) * Len(y)

Largest(contribution) ==
    {s \in DOMAIN contribution : \A o \in DOMAIN contribution : Abs(contribution[o]) <= Abs(contribution[s])}

\* The segment whose mean, weighed by its rows, is farthest from the table's:
\* of those with two rows and two others, in an order nobody chose.
AttributeSegment(rows) ==
    LET n == Len(rows)
        all == Total(Numbers(rows, LAMBDA r : TRUE))
        of(s) == Numbers(rows, LAMBDA r : r.segment = s)
        tested == {s \in SegmentsOf(rows) : Len(of(s)) >= 2 /\ n - Len(of(s)) >= 2}
        contribution == [s \in tested |-> n * Total(of(s)) - Len(of(s)) * all]
    IN  IF n < 3 THEN {} ELSE {s \in Largest(contribution) : contribution[s] # 0}

\* The segment whose change into a period is the largest part of the change;
\* one without a past, or with a past of nothing, has no part.
AttributePeriodSegment(rows, period) ==
    LET into == Numbers(rows, LAMBDA r : r.period = period)
        past == Numbers(rows, LAMBDA r : r.period \notin {period, None})
        now(s) == Numbers(rows, LAMBDA r : r.period = period /\ r.segment = s)
        old(s) == Numbers(rows, LAMBDA r : r.period \notin {period, None} /\ r.segment = s)
        tested == {s \in SegmentsOf(rows) : now(s) # <<>> /\ old(s) # <<>> /\ Total(old(s)) # 0}
        \* (mean now - mean before) * rows now, over one denominator
        common == FoldSet(LAMBDA s, acc : acc * Len(old(s)), 1, tested)
        contribution == [s \in tested |->
            (common \div Len(old(s))) * (Total(now(s)) * Len(old(s)) - Len(now(s)) * Total(old(s)))]
    IN  IF \/ Len(rows) < 3 \/ into = <<>> \/ past = <<>>
           \/ Total(into) * Len(past) = Total(past) * Len(into)
        THEN {} ELSE Largest(contribution)

\* ------------------------------------------------------------ properties

\* The drivers shown are the biggest movers: one that is left out is no bigger
\* than any shown, unless its dimension already has its share of bigger ones;
\* and room is not left while movers are left out (analysis/drivers.rs).
BiggestMoversShown(slices, prev, curr, maxDrivers, maxPerDimension) ==
    LET change == DecomposeLatestDelta(slices, prev, curr, maxDrivers, maxPerDimension)
        shown == IF change = None THEN <<>> ELSE change.drivers
        of(d, size) == {i \in DOMAIN shown : shown[i].dimension = d /\ Abs(Delta(shown[i])) >= size}
    IN  \A i \in DOMAIN slices :
            LET size == Abs(Delta(slices[i]))
            IN  (change # None /\ size # 0 /\ slices[i] \notin Range(shown)) =>
                    \/ Cardinality(of(slices[i].dimension, size)) = maxPerDimension
                    \/ Cardinality({j \in DOMAIN shown : Abs(Delta(shown[j])) >= size}) = maxDrivers

\* "Segments moved hard in opposite directions" (analysis/drivers.rs): where
\* the slices of every dimension cover the table, the story is a cancellation
\* only if one dimension has both directions.  The gross sums the dimensions,
\* so this holds up to four of them.
OffsettingIsCancellation(slices, net) ==
    LET dims == {slices[i].dimension : i \in DOMAIN slices}
        of(d) == SelectSeq(slices, LAMBDA s : s.dimension = d)
        covers(d) == Total([i \in DOMAIN of(d) |-> Delta(of(d)[i])]) = net
    IN  (/\ Cardinality(dims) <= 4
         /\ \A d \in dims : covers(d)
         /\ Offsetting(slices, net)) =>
            \E i, j \in DOMAIN slices :
                /\ slices[i].dimension = slices[j].dimension
                /\ Delta(slices[i]) > 0 /\ Delta(slices[j]) < 0

\* A clean step is found where it is, and nowhere else, whichever way it goes.
CleanStepFound(n, k, low, high) ==
    LET step == [i \in 1 .. n |-> IF i <= k THEN low ELSE high]
    IN  ChangePoint(step) =
            IF n >= 6 /\ k \in 3 .. n - 2 /\ 20 * Abs(high - low) >= 3 * Abs(low) THEN k ELSE None

\* Read backwards, a slice's history makes the same move the other way.
RankMoveReadsBack(ranks, minJump) ==
    LET there == RankChange(ranks, minJump)
        back  == RankChange(Reverse(ranks), minJump)
    IN  IF there = None THEN back = None ELSE back = [from |-> there.to, to |-> there.from]

\* Who came and went accounts for the members there are.
MembersAddUp(rows, prev, curr) ==
    LET there == MembershipChange(rows, prev, curr)
        back  == MembershipChange(rows, curr, prev)
    IN  there # None =>
            /\ back.added = there.removed /\ back.removed = there.added
            /\ back.size = there.size + Cardinality(there.added) - Cardinality(there.removed)

\* Two distributions are apart or they are not, whichever came first, and two
\* that are apart do not have the same values in another order.
ShiftHasNoDirection(rows, prev, curr, percent) ==
    LET shifted == DistributionShift(rows, prev, curr, percent)
        held(p, v) == Len(SelectSeq(rows, LAMBDA r : r.period = p /\ r.number = v))
    IN  /\ shifted <=> DistributionShift(rows, curr, prev, percent)
        /\ shifted => \E i \in DOMAIN rows : held(prev, rows[i].number) # held(curr, rows[i].number)

\* A last point reported in a history of ten points at most is beyond all of
\* them, at the threshold of three deviations.
LastPointIsExtreme(values) ==
    LastPointOut(values, 3) /\ Len(values) <= 11 =>
        \/ \A i \in 1 .. Len(values) - 1 : values[i] < values[Len(values)]
        \/ \A i \in 1 .. Len(values) - 1 : values[i] > values[Len(values)]

\* Columns that are a cluster are all at their highest together, or all at
\* their lowest, and of few periods none is in two clusters.
ClusterMovedTogether(rowsOf, threshold) ==
    LET means  == [c \in DOMAIN rowsOf |-> PeriodMeans(rowsOf[c])]
        levels == [c \in DOMAIN rowsOf |-> [p \in DOMAIN means[c] |-> means[c][p][1]]]
        found  == Clusters(levels, threshold)
    IN  /\ \A k, l \in found : k # l => k.columns \cap l.columns = {}
        /\ \A k \in found : \A c \in k.columns : \A p \in DOMAIN levels[c] \ {k.period} :
             IF k.direction = "spike" THEN levels[c][p] < levels[c][k.period]
                                      ELSE levels[c][p] > levels[c][k.period]

\* Where one segment alone moved, and has a past to move from, it is the one
\* the change is laid on.
OnlyMoverIsBlamed(rows, period, mover) ==
    LET past(s) == Numbers(rows, LAMBDA r : r.period # period /\ r.segment = s)
        now(s)  == Numbers(rows, LAMBDA r : r.period = period /\ r.segment = s)
        moved(s) == Total(now(s)) * Len(past(s)) # Total(past(s)) * Len(now(s))
        blamed == AttributePeriodSegment(rows, period)
    IN  (/\ \A s \in SegmentsOf(rows) : past(s) # <<>> /\ now(s) # <<>> /\ (moved(s) <=> s = mover)
         /\ Total(past(mover)) # 0) => blamed \subseteq {mover}

\* A cluster names at most one value of a dimension as what its rows share.
OneCommonValue(rows, period) == Cardinality(CommonValues(rows, period)) <= 1

\* An even spread over six segments or more is not a concentration.
EvenIsNotConcentrated(rows) ==
    LET c == Concentration(rows)
    IN  (c # None /\ c.segments >= 6) => c.share[1] * c.segments > c.share[2]
=============================================================================
