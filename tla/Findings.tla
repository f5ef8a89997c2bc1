------------------------------ MODULE Findings ------------------------------
(***************************************************************************)
(* A report's tree of findings (brightflow-engine analysis/): what a       *)
(* finding is about and which way it points, how it is scored against the  *)
(* declared semantics and its history, how restatements are grouped and    *)
(* the roots picked for diversity.                                         *)
(*                                                                         *)
(* A finding is [kind, measure, dimension, value, up]; a node adds its     *)
(* scores, parent, children, depth, filter chain, fingerprint, rank and    *)
(* sentiment.  Significance, the root of the impact and novelty are whole  *)
(* tenths, so that a total is a whole number of 1/TotalScale.              *)
(***************************************************************************)
EXTENDS Integers, Sequences, FiniteSets, FiniteSetsExt, SequencesExt

CONSTANT None

\* ----------------------------------------------------- kinds of findings

Performance == {"anomaly", "forecast_deviation"}
Changing == {"trend", "seasonality", "period_comparison", "period_anomaly", "outlier_cluster",
             "distribution_shift", "change_point", "rank_change", "membership_change"}
RootCause == {"segment", "correlation"}
Composition == {"concentration", "top_dominance"}
Kinds == Performance \cup Changing \cup RootCause \cup Composition

\* Which way a finding points, if it points anywhere.
DirectionOf(a) ==
    IF a.kind \in {"top_dominance", "concentration", "correlation", "distribution_shift",
                   "membership_change", "seasonality"}
    THEN None ELSE a.up

\* The measure a finding is about.
MeasureOf(a) == IF a.kind = "membership_change" THEN a.dimension ELSE a.measure

\* The dimension it slices on: its own, or the first of its filters.
DimensionOf(node) ==
    IF node.a.kind \in {"segment", "concentration", "membership_change", "rank_change", "top_dominance"}
    THEN node.a.dimension
    ELSE IF node.chain = <<>> THEN None ELSE node.chain[1].column

\* What groups restatements of one story; None is never grouped.
StoryKey(a) ==
    CASE a.kind \in {"correlation", "outlier_cluster", "membership_change"} -> None
      [] a.kind = "rank_change"   -> <<"rank", a.dimension, a.value>>
      [] a.kind = "top_dominance" -> <<"dominance", a.dimension, a.value>>
      [] OTHER                    -> <<"column", a.measure>>

\* --------------------------------------------------------------- scoring

MinEffect == 5          \* in hundredths of impact
MinSignificance == 5    \* in tenths
TotalScale == 10 * 10 * 20 * 2 * 4

PassesFloor(b) == b.weight * b.weight >= MinEffect /\ b.significance >= MinSignificance

\* Bad news: down on a measure that should rise, up on one that should fall.
PolarityBoost(ctx, a) ==
    IF /\ DirectionOf(a) # None
       /\ MeasureOf(a) \in DOMAIN ctx.polarity
       /\ ctx.polarity[MeasureOf(a)] = IF a.up THEN "lowerIsBetter" ELSE "higherIsBetter"
    THEN 5 ELSE 4

KpiBoost(ctx, a) ==
    IF a.kind # "membership_change" /\ MeasureOf(a) \in ctx.kpis THEN 3 ELSE 2

Score(ctx, a, significance, weight) ==
    [significance |-> significance, weight |-> weight, novelty |-> 10,
     kpi |-> KpiBoost(ctx, a), polarity |-> PolarityBoost(ctx, a)]

\* Both real and large; a fully known story loses half.
Total(b) == b.significance * b.weight * (10 + b.novelty) * b.kpi * b.polarity

Sentiment(polarity, a) ==
    IF MeasureOf(a) \notin DOMAIN polarity \/ DirectionOf(a) = None THEN None
    ELSE CASE polarity[MeasureOf(a)] = "higherIsBetter" -> IF a.up THEN "good" ELSE "bad"
           [] polarity[MeasureOf(a)] = "lowerIsBetter"  -> IF a.up THEN "bad" ELSE "good"
           [] OTHER -> None

\* -------------------------------------------------------------- the tree

EmptyTree == [nodes |-> <<>>, roots |-> <<>>]

Node(a, b) ==
    [a |-> a, breakdown |-> b, score |-> Total(b), parent |-> None, children |-> <<>>,
     depth |-> 1, chain |-> <<>>, fingerprint |-> None, rank |-> None, sentiment |-> None]

AddRoot(tree, a, b) ==
    [nodes |-> Append(tree.nodes, Node(a, b)),
     roots |-> Append(tree.roots, Len(tree.nodes) + 1)]

\* A child starts from its parent's filters, one level deeper.
AddChild(tree, parent, a, b) ==
    LET id == Len(tree.nodes) + 1
    IN  [tree EXCEPT
           !.nodes = Append([@ EXCEPT ![parent].children = Append(@, id)],
                            [Node(a, b) EXCEPT !.parent = parent,
                                               !.depth = tree.nodes[parent].depth + 1,
                                               !.chain = tree.nodes[parent].chain])]

SetInsightMeta(tree, id, depth, fingerprint) ==
    [tree EXCEPT !.nodes[id].depth = depth, !.nodes[id].fingerprint = fingerprint]

SetFilterChain(tree, id, chain) == [tree EXCEPT !.nodes[id].chain = chain]

\* A legacy detector's root, when it passes the floor: its recipe has at most
\* the wildcard filter on the dimension it is scoped to.
AddScoredRoot(tree, a, b, detector, dimension) ==
    IF ~PassesFloor(b) THEN tree
    ELSE SetInsightMeta(AddRoot(tree, a, b), Len(tree.nodes) + 1,
                        IF dimension = None THEN 1 ELSE 2,
                        <<detector, a.measure, dimension>>)

\* ----------------------------------------------------- restatements, picks

\* A child survives only where it outscores its parent by a fifth.
Superior(tree, parent, child) ==
    \/ tree.nodes[parent].score <= 0
    \/ 10 * tree.nodes[child].score >= 12 * tree.nodes[parent].score

LatticeCollapse(tree) ==
    [tree EXCEPT !.nodes = [id \in DOMAIN @ |->
        [@[id] EXCEPT !.children = SelectSeq(@, LAMBDA c : Superior(tree, id, c))]]]

ByScore(tree, ids) == SortSeq(ids, LAMBDA x, y : tree.nodes[x].score > tree.nodes[y].score)

KeyOf(tree, id) == StoryKey(tree.nodes[id].a)

\* The roots that tell one story, the best of them and the rest.
Story(tree, key) == SelectSeq(tree.roots, LAMBDA id : KeyOf(tree, id) = key)
Dominant(tree, key) ==
    LET ids == Story(tree, key)
    IN  ids[CHOOSE i \in DOMAIN ids :
              /\ \A j \in DOMAIN ids : tree.nodes[ids[j]].score <= tree.nodes[ids[i]].score
              /\ \A j \in 1 .. i - 1 : tree.nodes[ids[j]].score < tree.nodes[ids[i]].score]

Absorbed(tree, key) == SelectSeq(Story(tree, key), LAMBDA id : id # Dominant(tree, key))
\* The dominant root takes the others as children; the roots that remain are
\* in order of score.
StoryGroup(tree) ==
    LET keys == {KeyOf(tree, id) : id \in Range(tree.roots)} \ {None}
        leads == {Dominant(tree, key) : key \in keys}
        stay(id) == KeyOf(tree, id) = None \/ id \in leads
        taken(id) == IF id \in leads THEN Absorbed(tree, KeyOf(tree, id)) ELSE <<>>
    IN  [nodes |-> [id \in DOMAIN tree.nodes |->
                      [tree.nodes[id] EXCEPT
                         !.children = @ \o taken(id),
                         !.parent = IF \E key \in keys : id \in Range(Absorbed(tree, key))
                                    THEN Dominant(tree, KeyOf(tree, id)) ELSE @]],
         roots |-> ByScore(tree, SelectSeq(tree.roots, stay))]

Dedup(tree) == StoryGroup(LatticeCollapse(tree))

\* What a picked root costs another: 3/5 for the same measure, 4/5 for the
\* same kind, 4/5 for the same dimension.
Penalty(s, t) ==
    (IF MeasureOf(s.a) = MeasureOf(t.a) THEN 3 ELSE 5)
        * (IF s.a.kind = t.a.kind THEN 4 ELSE 5)
        * (IF DimensionOf(s) # None /\ DimensionOf(s) = DimensionOf(t) THEN 4 ELSE 5)

Adjusted(tree, picked, id) ==
    FoldSeq(LAMBDA s, acc : acc * Penalty(tree.nodes[s], tree.nodes[id]), tree.nodes[id].score, picked)

\* Greedily the best after the penalties, the earliest of equals.
Pick(tree, picked) ==
    LET left == SelectSeq(tree.roots, LAMBDA id : id \notin Range(picked))
        best == CHOOSE i \in DOMAIN left :
                  /\ \A j \in DOMAIN left : Adjusted(tree, picked, left[j]) <= Adjusted(tree, picked, left[i])
                  /\ \A j \in 1 .. i - 1 : Adjusted(tree, picked, left[j]) < Adjusted(tree, picked, left[i])
    IN  left[best]

SelectTop(tree, maxResults) ==
    LET n == IF Len(tree.roots) < maxResults THEN Len(tree.roots) ELSE maxResults
        picks[k \in 0 .. n] ==
            IF k = 0 THEN <<>> ELSE Append(picks[k - 1], Pick(tree, picks[k - 1]))
    IN  [nodes |-> [id \in DOMAIN tree.nodes |->
                      IF id \in Range(picks[n])
                      THEN [tree.nodes[id] EXCEPT !.rank = CHOOSE r \in 1 .. n : picks[n][r] = id]
                      ELSE tree.nodes[id]],
         roots |-> picks[n]]

\* --------------------------------------------------------------- novelty

\* Tenths left after so many showings, the last of them `recent` or long ago
\* enough for the story to be new again.
Novelty(shown, recent) ==
    IF ~recent THEN 10 ELSE CASE shown = 0 -> 10 [] shown = 1 -> 5 [] shown = 2 -> 2 [] OTHER -> 1

\* Direction and the decile of the score the node has now.
ValueSignature(node) ==
    LET decile == (10 * node.score) \div TotalScale
    IN  <<DirectionOf(node.a), IF decile > 10 THEN 10 ELSE decile>>

\* Rows of history by fingerprint: [shown, recent, sig].
Decayed(node, history) ==
    IF \/ node.fingerprint = None \/ node.fingerprint \notin DOMAIN history
       \/ ValueSignature(node) # history[node.fingerprint].sig
    THEN node
    ELSE LET row == history[node.fingerprint]
             b   == [node.breakdown EXCEPT !.novelty = Novelty(row.shown, row.recent)]
         IN  [node EXCEPT !.breakdown = b, !.score = Total(b)]

ApplyNovelty(tree, history) ==
    [tree EXCEPT !.nodes = [id \in DOMAIN @ |->
        IF id \in Range(tree.roots) THEN Decayed(@[id], history) ELSE @[id]]]

\* ------------------------------------------------------------ properties

\* Grouping and picking lose no story: with room for all, every root is still
\* a root or hangs under a root of its story that scores at least as high; no
\* two roots tell one story; ranks run along the roots from the best score.
StoriesKept(tree, maxResults) ==
    LET end   == SelectTop(Dedup(tree), maxResults)
        roots == Range(end.roots)
    IN  /\ (maxResults >= Len(tree.roots)) =>
              \A id \in Range(tree.roots) :
                  \/ id \in roots
                  \/ \E lead \in roots :
                        /\ id \in Range(end.nodes[lead].children)
                        /\ end.nodes[id].parent = lead
                        /\ KeyOf(tree, lead) = KeyOf(tree, id)
                        /\ tree.nodes[lead].score >= tree.nodes[id].score
        /\ \A x, y \in roots : x # y => KeyOf(tree, x) = None \/ KeyOf(tree, x) # KeyOf(tree, y)
        /\ \A i \in DOMAIN end.roots : end.nodes[end.roots[i]].rank = i
        /\ \A id \in Range(tree.roots) :
              end.roots # <<>> => end.nodes[end.roots[1]].score >= tree.nodes[id].score

\* What ranks a finding up as bad news is what tags it as bad news, so that
\* the two cannot disagree (polarity.rs).
BoostIsBadNews(ctx, a) ==
    (PolarityBoost(ctx, a) = 5) <=> (Sentiment(ctx.polarity, a) = "bad")
=============================================================================
