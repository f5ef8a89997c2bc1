------------------------------- MODULE Reports -------------------------------
(***************************************************************************)
(* How the engine's reports walk a table (brightflow-engine                *)
(* analysis/engine/): which detector runs on what, which findings become   *)
(* roots, what is queued under them and how deep, and what the drivers     *)
(* report builds.                                                          *)
(*                                                                         *)
(* A schema is [measures, dims, timed, periods].  What the data make of a  *)
(* detector is an input: hits[<<detector, measure, dimension>>] is the     *)
(* breakdown of its finding; a key that is missing found nothing.          *)
(***************************************************************************)
EXTENDS Findings

\* What a detector finds on a measure (and dimension), as a node's analysis.
KindOf(detector) ==
    CASE detector \in {"raw_anomaly", "history_anomaly", "last_point"} -> "anomaly"
      [] detector \in {"trend_legacy", "trend"}                        -> "trend"
      [] detector \in {"period_comparison", "drivers"}                 -> "period_comparison"
      [] OTHER                                                         -> detector

Finding(kind, m, d) == [kind |-> kind, measure |-> m, dimension |-> d, value |-> None, up |-> TRUE]

Step(d) == [column |-> d, value |-> "some"]

Hit(hits, detector, m, d) == <<detector, m, d>> \in DOMAIN hits

\* A legacy arm: nothing without a hit, nothing below the floor.
Arm(tree, hits, detector, m, scope) ==
    IF ~Hit(hits, detector, m, scope) THEN tree
    ELSE AddScoredRoot(tree, Finding(KindOf(detector), m, scope), hits[<<detector, m, scope>>],
                       detector, scope)

Grown(before, after) == Len(after.nodes) > Len(before.nodes)

\* ------------------------------------------- review without a time column

AnomalyTask(m) == [what |-> "anomalies", measure |-> m, dim |-> None, parent |-> None, depth |-> 0]
SegmentTask(m, d, parent, depth) ==
    [what |-> "segment", measure |-> m, dim |-> d, parent |-> parent, depth |-> depth]
CorrelationTask(m, parent, depth) ==
    [what |-> "correlations", measure |-> m, dim |-> None, parent |-> parent, depth |-> depth]

AttributionTasks(schema, m, parent) ==
    [i \in DOMAIN schema.dims |-> SegmentTask(m, schema.dims[i], parent, 1)]

DetectAnomalies(schema, hits, s, task) ==
    LET tree == Arm(s.tree, hits, "raw_anomaly", task.measure, None)
    IN  [s EXCEPT !.first = @ + 1, !.tree = tree,
                  !.queue = IF Grown(s.tree, tree)
                            THEN @ \o AttributionTasks(schema, task.measure, Len(tree.nodes))
                            ELSE @]

AttributedChildBare(tree, hits, task) ==
    LET b == hits[<<"segment", task.measure, task.dim>>]
        id == Len(tree.nodes) + 1
    IN  IF ~Hit(hits, "segment", task.measure, task.dim) \/ ~PassesFloor(b) THEN tree
        ELSE AddChild(tree, task.parent, Finding("segment", task.measure, task.dim), b)

\* A child that passes the floor takes its parent's filters and its own.
AttributedChild(tree, hits, task) ==
    LET b == hits[<<"segment", task.measure, task.dim>>]
        id == Len(tree.nodes) + 1
    IN  IF ~Hit(hits, "segment", task.measure, task.dim) \/ ~PassesFloor(b) THEN tree
        ELSE SetFilterChain(AddChild(tree, task.parent, Finding("segment", task.measure, task.dim), b), id,
                            Append(tree.nodes[task.parent].chain, Step(task.dim)))

AttributeSegment(hits, s, task) ==
    LET tree == AttributedChild(s.tree, hits, task)
    IN  [s EXCEPT !.deeper = @ + 1, !.tree = tree,
                  !.queue = IF Grown(s.tree, tree)
                            THEN Append(@, CorrelationTask(task.measure, Len(tree.nodes), task.depth + 1))
                            ELSE @]

\* Every other measure that correlates becomes a child.
SearchCorrelations(schema, hits, s, task) ==
    LET others == SelectSeq(schema.measures, LAMBDA m :
                      /\ m # task.measure /\ Hit(hits, "correlation", task.measure, m)
                      /\ PassesFloor(hits[<<"correlation", task.measure, m>>]))
    IN  [s EXCEPT !.deeper = @ + 1,
                  !.tree = FoldSeq(LAMBDA m, tree :
                               AddChild(tree, task.parent, Finding("correlation", task.measure, None),
                                        hits[<<"correlation", task.measure, m>>]), @, others)]

\* One turn of the loop; tasks at the depth limit are dropped uncounted.
Turn(schema, hits, maxDepth, s) ==
    LET task == Head(s.queue)
        rest == [s EXCEPT !.queue = Tail(@)]
    IN  CASE task.what = "anomalies" -> DetectAnomalies(schema, hits, rest, task)
          [] task.what # "anomalies" /\ task.depth >= maxDepth -> rest
          [] task.what = "segment" /\ task.depth < maxDepth -> AttributeSegment(hits, rest, task)
          [] OTHER -> SearchCorrelations(schema, hits, rest, task)

\* Bound on the turns: every measure, its dimensions, and a correlation each.
Drained(schema, hits, maxDepth, start) ==
    LET turns == Len(schema.measures) * (1 + 4 * Len(schema.dims)) + 2
        after[n \in 0 .. turns] ==
            IF n = 0 THEN start
            ELSE LET s == after[n - 1]
                 IN  IF s.queue = <<>> THEN s ELSE Turn(schema, hits, maxDepth, s)
    IN  after[turns]

Started(tree, queue) == [tree |-> tree, queue |-> queue, first |-> 0, deeper |-> 0]

Review(schema, hits, maxDepth) ==
    Drained(schema, hits, maxDepth,
            Started(EmptyTree, [i \in DOMAIN schema.measures |-> AnomalyTask(schema.measures[i])]))

\* -------------------------------------------- review between two periods

\* The latest period against the one before, measure by measure.
ComparisonPass(schema, hits, s) ==
    FoldSeq(LAMBDA m, t :
        LET tree == Arm(t.tree, hits, "period_comparison", m, None)
        IN  [t EXCEPT !.first = @ + 1, !.tree = tree,
                      !.queue = IF Grown(t.tree, tree)
                                THEN @ \o AttributionTasks(schema, m, Len(tree.nodes)) ELSE @],
        s, schema.measures)

\* The latest period against all of them, the row counts with the measures;
\* nothing under four periods.
HistoryPass(schema, hits, s) ==
    FoldSeq(LAMBDA m, t :
        LET tree == Arm(t.tree, hits, "history_anomaly", m, None)
        IN  IF schema.periods < 4 THEN t
            ELSE [t EXCEPT !.first = @ + 1, !.tree = tree,
                           !.queue = IF Grown(t.tree, tree) /\ m # "rows"
                                     THEN @ \o AttributionTasks(schema, m, Len(tree.nodes)) ELSE @],
        s, Append(schema.measures, "rows"))

\* Attribution between periods ends at the segment: no correlations follow.
CadenceReview(schema, hits, maxDepth) ==
    IF ~schema.timed THEN Review(schema, hits, maxDepth)
    ELSE IF schema.periods < 2 THEN Started(EmptyTree, <<>>)
    ELSE LET s == HistoryPass(schema, hits, ComparisonPass(schema, hits, Started(EmptyTree, <<>>)))
         IN  FoldSeq(LAMBDA task, t :
                 IF task.depth >= maxDepth THEN t
                 ELSE [t EXCEPT !.deeper = @ + 1, !.tree = AttributedChild(@, hits, task)],
                 [s EXCEPT !.queue = <<>>], s.queue)

\* ----------------------------------------------------------------- trends

\* Detectors of the derived series, by what a series is like: a rank series
\* has its own, the others need enough points without a gap inside.
IsRank(frame) == "rank" \in Range(frame.derivations)
RankChangeOn(frame) == IsRank(frame) /\ frame.points >= 6
Finite(frame) == ~IsRank(frame) /\ ~frame.gaps /\ frame.points >= 4
TrendOn(frame) == Finite(frame)
LastPointOn(frame) == Finite(frame)
ChangePointOn(frame) == Finite(frame) /\ frame.points >= 6

FrameDetectors(frame) ==
    {detector \in {"rank_change", "trend", "last_point", "change_point"} :
        CASE detector = "rank_change"  -> RankChangeOn(frame)
          [] detector = "trend"        -> TrendOn(frame)
          [] detector = "last_point"   -> LastPointOn(frame)
          [] detector = "change_point" -> ChangePointOn(frame)}

FrameDepth(frame) == 1 + Len(frame.filters) + Len(frame.derivations)

\* A bare aggregate has to be surer than a slice or a derivation.
FramePasses(frame, b) ==
    b.significance >= IF FrameDepth(frame) <= 1 THEN 8 ELSE MinSignificance

FrameStory(detector, frame) ==
    <<detector, frame.measure, frame.aggregation, frame.derivations, frame.filters>>

\* A derived finding is named by its whole recipe, not by its column.
DisplayName(frame) == <<frame.measure, frame.aggregation, frame.filters, frame.derivations>>

FrameFinding(detector, frame) ==
    [kind |-> KindOf(detector),
     measure |-> IF detector = "rank_change" THEN <<frame.measure>> ELSE DisplayName(frame),
     dimension |-> IF frame.filters = <<>> THEN None ELSE frame.filters[1].column,
     value |-> IF frame.filters = <<>> THEN None ELSE frame.filters[1].value, up |-> TRUE]

AddFrameRoot(tree, frame, detector, b) ==
    LET id == Len(tree.nodes) + 1
        at == SetInsightMeta(AddRoot(tree, FrameFinding(detector, frame), b), id,
                             FrameDepth(frame), FrameStory(detector, frame))
    IN  IF frame.filters = <<>> THEN at ELSE SetFilterChain(at, id, frame.filters)

DerivedPass(frames, hits, tree) ==
    LET found == {<<frame, detector>> \in frames \X {"trend", "last_point", "change_point", "rank_change"} :
                     /\ detector \in FrameDetectors(frame)
                     /\ FrameStory(detector, frame) \in DOMAIN hits
                     /\ FramePasses(frame, hits[FrameStory(detector, frame)])}
    IN  FoldSet(LAMBDA fd, t : AddFrameRoot(t, fd[1], fd[2], hits[FrameStory(fd[2], fd[1])]), tree, found)

\* The dominance of a dimension's leading value, one per (measure, dimension).
Dominance(tree, hits, m, d) ==
    IF ~Hit(hits, "top_dominance", m, d) THEN tree
    ELSE AddFrameRoot(tree, [measure |-> m, aggregation |-> IF m = "rows" THEN "count" ELSE "sum",
                             filters |-> <<Step(d)>>, derivations |-> <<"share">>],
                      "top_dominance", hits[<<"top_dominance", m, d>>])

DominancePass(schema, measures, hits, tree) ==
    FoldSeq(LAMBDA d, t : FoldSeq(LAMBDA m, u : Dominance(u, hits, m, d), t, <<"rows">> \o measures),
            tree, schema.dims)

\* What the derived series do not cover, an arm each.  Where the schema has
\* no time, only the raw trend and the concentrations run; two of the arms
\* compare the latest two periods.
TrendArm(schema, hits, tree, m) ==
    IF schema.timed THEN tree ELSE Arm(tree, hits, "trend_legacy", m, None)
SeasonalityArm(schema, hits, tree, m) ==
    IF ~schema.timed THEN tree ELSE Arm(tree, hits, "seasonality", m, None)
ForecastDeviationArm(schema, hits, tree, m) ==
    IF ~schema.timed THEN tree ELSE Arm(tree, hits, "forecast_deviation", m, None)
DistributionShiftArm(schema, hits, tree, m) ==
    IF ~schema.timed \/ schema.periods < 2 THEN tree ELSE Arm(tree, hits, "distribution_shift", m, None)
MembershipChangeArm(schema, hits, tree, d) ==
    IF schema.periods < 2 THEN tree ELSE Arm(tree, hits, "membership_change", "rows", d)
OutlierClustersArm(schema, hits, tree) ==
    Arm(tree, hits, "outlier_cluster", schema.measures, None)
ConcentrationArm(hits, tree, m, d) == Arm(tree, hits, "concentration", m, d)

MeasureArms(schema, hits, tree) ==
    FoldSeq(LAMBDA m, t :
        LET shift == DistributionShiftArm(schema, hits,
                         ForecastDeviationArm(schema, hits,
                             SeasonalityArm(schema, hits, TrendArm(schema, hits, t, m), m), m), m)
        IN  FoldSeq(LAMBDA d, u : ConcentrationArm(hits, u, m, d), shift, schema.dims),
        tree, schema.measures)

Trends(schema, frames, hits) ==
    LET derived == IF schema.timed
                   THEN DominancePass(schema, schema.measures, hits, DerivedPass(frames, hits, EmptyTree))
                   ELSE EmptyTree
        queued  == MeasureArms(schema, hits, derived)
        arms    == Len(schema.measures) * ((IF schema.timed THEN 3 ELSE 1) + Len(schema.dims))
    IN  IF ~schema.timed
        THEN [Started(queued, <<>>) EXCEPT !.first = arms]
        ELSE [Started(FoldSeq(LAMBDA d, t : MembershipChangeArm(schema, hits, t, d),
                              OutlierClustersArm(schema, hits, queued), schema.dims), <<>>)
                 EXCEPT !.first = arms + 1 + Len(schema.dims) + Cardinality(frames)]

\* ---------------------------------------------------------------- drivers

\* A measure's root and its ranked drivers; the floor is the derived pass's.
DriverRoot(schema, hits, tree, m) ==
    LET found == {d \in Range(schema.dims) : Hit(hits, "driver", m, d)}
        b     == hits[<<"drivers", m, None>>]
        root  == Len(tree.nodes) + 1
        at    == SetInsightMeta(AddRoot(tree, Finding("period_comparison", m, None), b), root, 1,
                                <<"drivers", m, None>>)
        Child(d, t) ==
            LET id == Len(t.nodes) + 1
            IN  SetFilterChain(
                    SetInsightMeta(AddChild(t, root, Finding("segment", m, d), hits[<<"driver", m, d>>]),
                                   id, 2, <<"drivers", m, d>>),
                    id, <<Step(d)>>)
    IN  IF \/ found = {} \/ ~Hit(hits, "drivers", m, None) \/ b.significance < MinSignificance
        THEN tree ELSE FoldSet(Child, at, found)

\* The KPIs among the measures, or all of them.
DriverMeasures(schema, kpis) ==
    LET flagged == SelectSeq(schema.measures, LAMBDA m : m \in kpis)
    IN  IF flagged = <<>> THEN schema.measures ELSE flagged

\* Composition by dimension: the leaders, then the concentration of each measure.
CompositionPass(schema, measures, hits, tree) ==
    FoldSeq(LAMBDA d, t :
        FoldSeq(LAMBDA m, u : ConcentrationArm(hits, u, m, d),
                FoldSeq(LAMBDA m, u : Dominance(u, hits, m, d), t, <<"rows">> \o measures),
                measures),
        tree, schema.dims)

Drivers(schema, kpis, hits) ==
    LET measures == DriverMeasures(schema, kpis)
        moved == IF schema.timed /\ schema.periods >= 2
                 THEN FoldSeq(LAMBDA m, t : DriverRoot(schema, hits, t, m), EmptyTree, measures)
                 ELSE EmptyTree
    IN  [tree |-> CompositionPass(schema, measures, hits, moved), queue |-> <<>>]

\* ------------------------------------------------------------ properties

\* Every root carries a fingerprint, so that novelty, dismissals and pins
\* reach it, and no two roots of a report share one (engine/meta.rs).
EveryRootHasItsStory(s) ==
    /\ \A id \in Range(s.tree.roots) : s.tree.nodes[id].fingerprint # None
    /\ \A x, y \in Range(s.tree.roots) :
          s.tree.nodes[x].fingerprint = s.tree.nodes[y].fingerprint => x = y

\* A drill path narrows: a child opens in Explore with its parent's filters
\* and at most its own besides, and a segment never loses its own.
ChildrenNarrow(s) ==
    \A id \in DOMAIN s.tree.nodes :
        LET node == s.tree.nodes[id]
        IN  node.parent # None =>
                /\ IsPrefix(s.tree.nodes[node.parent].chain, node.chain)
                /\ (node.a.kind = "segment" =>
                       node.chain # <<>> /\ Last(node.chain).column = node.a.dimension)

\* The drill stops where it was told to, and leaves no task behind.
StopsAtDepth(s, maxDepth) ==
    /\ s.queue = <<>>
    /\ \A id \in DOMAIN s.tree.nodes :
          s.tree.nodes[id].depth <= IF maxDepth < 1 THEN 1 ELSE maxDepth

ReportsSound(schema, frames, kpis, hits, maxDepth) ==
    /\ \A s \in {Review(schema, hits, maxDepth), CadenceReview(schema, hits, maxDepth)} :
          EveryRootHasItsStory(s) /\ ChildrenNarrow(s) /\ StopsAtDepth(s, maxDepth)
    /\ EveryRootHasItsStory(Trends(schema, frames, hits))
    /\ EveryRootHasItsStory(Drivers(schema, kpis, hits)) /\ ChildrenNarrow(Drivers(schema, kpis, hits))
=============================================================================
