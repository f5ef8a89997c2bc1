----------------------------- MODULE MCFunctions ----------------------------
(* The computations that keep no state, each asked small questions: an input  *)
(* is grown a piece at a time and the answers are judged at every size. The   *)
(* questions are independent: the first step picks one.                       *)
EXTENDS Integers, Sequences, FiniteSets, FiniteSetsExt, TLC

CONSTANTS None, Count, A, B, T, P

\* "sv-SE" is a region of "sv", and only "hello" is long enough to detect.
MCSubtag(tag) == IF tag = "sv-SE" THEN "sv" ELSE tag
MCDetected(texts) == IF \E i \in DOMAIN texts : texts[i] = "hello" THEN "en" ELSE ""

\* The capital I with a dot becomes an i and a combining dot.
MCLower(c) == IF c = "I" THEN <<"i", "dot">> ELSE <<c>>

\* The second value is spelt with the separators of a fingerprint.
MCText(v) == CASE v = 1 -> <<"x">> [] v = 2 -> <<"x", ",", "d2", "=", "x">> [] v = 3 -> <<"y">>

Series    == INSTANCE Candidates WITH Dims <- {"d1", "d2"}, Measures <- {"m"}, Text <- MCText
Tree      == INSTANCE Novelty
Table     == INSTANCE Columns
Detecting == INSTANCE Detectors WITH Blank <- "Blank"
Query     == INSTANCE Queries
Ticket    == INSTANCE Tickets WITH Subtag <- MCSubtag, Detected <- MCDetected
Subject   == INSTANCE Mentions
Events    == INSTANCE EventAnalytics
Ossie     == INSTANCE Declarations
Marking   == INSTANCE Highlights WITH Lower <- MCLower, Alphanumeric <- {"i", "x"}
Page      == INSTANCE Activity WITH PerKind <- 1, DefaultLimit <- 2, MaxLimit <- 3

VARIABLE input

Asked(question) == input[1] = question
Unasked         == Asked("nothing")
Start(question) == input' = question

Init == input = <<"nothing">>

-----------------------------------------------------------------------------
(* Series: four rows of two dimensions, the second of which may be blank,     *)
(* under an ample budget, one that ends among the slices or the pairs, and    *)
(* one that ranks use up; two orders of what hash maps yield.                 *)
SeriesRow(period, a, b) ==
    [period |-> period, at |-> ("d1" :> a @@ "d2" :> b), number |-> ("m" :> 1)]
SeriesBudgets == {[topValues |-> 2, minImpact |-> 30, maxSeries |-> 100],
                  [topValues |-> 2, minImpact |-> 30, maxSeries |-> 32],
                  [topValues |-> 3, minImpact |-> 25, maxSeries |-> 56]}
SeriesCells  == [i \in 1..9 |-> <<(i + 2) \div 3, 1 + (i % 3)>>]
SeriesOrder(dims, cells) ==
    [measures |-> <<"m">>, dims |-> dims, ranked |-> dims, paired |-> dims, cells |-> cells]
SeriesOrders == {SeriesOrder(<<"d1", "d2">>, SeriesCells),
                 SeriesOrder(<<"d2", "d1">>, Series!Reverse(SeriesCells))}

AskSeries == Unasked /\ Start(<<"series", <<>>>>)
NextRow ==
    /\ Asked("series") /\ Len(input[2]) < 4
    /\ \E a \in 1..3, b \in 0..2 :
         input' = [input EXCEPT ![2] = Append(@, SeriesRow(Len(@) + 1, a, b))]

SeriesRight ==
    Asked("series") /\ Len(input[2]) = 4 =>
        \A budget \in SeriesBudgets, order \in SeriesOrders :
            Series!SeriesSound(input[2], order, budget)

-----------------------------------------------------------------------------
(* Reports: which detectors find something, over which columns; and single    *)
(* stories of three strengths competing for the places of the report.         *)
Frames == {[measure |-> "m1", aggregation |-> "sum", filters |-> f, derivations |-> <<>>,
            points |-> 6, gaps |-> FALSE] : f \in {<<>>, <<[column |-> "d1", value |-> "x"]>>}}
Schemas == [measures : {<<"m1", "m2">>}, dims : {<<"d1">>, <<"d1", "d2">>},
            timed : BOOLEAN, periods : {1, 2, 4}]
Arms == {"anomaly", "segment", "correlation", "drivers", "concentration", "trend", "comparison"}
Hit(significance) ==
    [significance |-> significance, weight |-> 10, novelty |-> 10, kpi |-> 2, polarity |-> 4]
Keys(schema, arm) ==
    LET M == Tree!Range(schema.measures)  D == Tree!Range(schema.dims) IN
    CASE arm = "anomaly"       -> ({"raw_anomaly"} \X M \X {None})
                                  \cup ({"history_anomaly"} \X (M \cup {"rows"}) \X {None})
      [] arm = "comparison"    -> {"period_comparison"} \X M \X {None}
      [] arm = "segment"       -> {"segment"} \X M \X D
      [] arm = "correlation"   -> {"correlation"} \X M \X M
      [] arm = "drivers"       -> ({"drivers"} \X M \X {None}) \cup ({"driver"} \X M \X D)
      [] arm = "concentration" -> {"concentration", "top_dominance"} \X (M \cup {"rows"}) \X D
      [] arm = "trend"         -> ({"trend_legacy", "seasonality"} \X M \X {None})
                                  \cup ({"outlier_cluster"} \X {schema.measures} \X {None})
                                  \cup {Tree!FrameStory(s, f) : s \in {"trend", "last_point"}, f \in Frames}
Hits(schema, arms) == [k \in UNION {Keys(schema, a) : a \in arms} |-> Hit(9)]

Stories == {[kind |-> k, measure |-> m, dimension |-> "d", value |-> "v", up |-> TRUE] :
              k \in {"trend", "rank_change", "correlation"}, m \in {"m1", "m2"}}
Rooted(found) == Tree!FoldSeq(LAMBDA x, t : Tree!AddRoot(t, x[1], x[2]), Tree!EmptyTree, found)

AskReport == Unasked /\ \E s \in Schemas, depth \in {0, 2}, kpis \in {{}, {"m1"}} : Start(<<"report", s, {}, depth, kpis>>)
Finds == Asked("report") /\ \E a \in Arms : input' = [input EXCEPT ![3] = @ \cup {a}]
AskStories == Unasked /\ Start(<<"stories", <<>>>>)
NextStory ==
    /\ Asked("stories") /\ Len(input[2]) < 3
    /\ \E s \in Stories, strength \in {5, 10} :
         input' = [input EXCEPT ![2] = Append(@, <<s, Hit(strength)>>)]

\* One story reported, developed and left alone for a while.
AskNovelty == Unasked /\ \E strength \in {3, 5, 8, 10} : Start(<<"novelty", strength, None>>)
StoryShown == /\ Asked("novelty") /\ (input[3] # None => input[3].shown < 3)
              /\ input' = [input EXCEPT ![3] = Tree!Recorded(input[2], @)]
StoryDevelops == /\ Asked("novelty")
                 /\ \E strength \in {3, 5, 8, 10} : input' = [input EXCEPT ![2] = strength]
StoryRests == Asked("novelty") /\ input[3] # None /\ input' = [input EXCEPT ![3].recent = FALSE]

Polarities == [kpis |-> {}, metrics |-> {}, polarity |-> "m1" :> "lowerIsBetter"]

ReportsRight ==
    /\ Asked("report") =>
         Tree!ReportsSound(input[2], Frames, input[5], Hits(input[2], input[3]), input[4])
    /\ Asked("stories") => \A n \in 1..3 : Tree!StoriesKept(Rooted(input[2]), n)
    /\ Asked("stories") => \A i \in DOMAIN input[2] : Tree!BoostIsBadNews(Polarities, input[2][i][1])
    /\ Asked("novelty") => Tree!SeenStoryYields(input[2], input[3])

-----------------------------------------------------------------------------
(* Columns: two columns with what may be said of them, and days around the    *)
(* turn of leap years and common ones.                                        *)
ColumnsNamed(name) ==
    {c \in [name : {name}, dtype : {"temporal", "number", "string", "categorical", "other"},
            few : BOOLEAN, named : BOOLEAN, mentions : BOOLEAN] :
        (c.named => c.mentions) /\ (c.few => c.dtype = "number")}
RolesFor(name) ==
    {<<>>} \cup {<<[name |-> name, role |-> r, isKpi |-> FALSE, polarity |-> None]>> :
                   r \in {None, "measure", "dimension", "time", "entity", "ignored"}}
Granularities == {"day", "week", "month", "quarter", "year"}

AskColumns == Unasked /\ Start(<<"columns", <<>>, <<>>>>)
NextColumn ==
    /\ Asked("columns") /\ Len(input[2]) < 2
    /\ LET name == <<"a", "b">>[Len(input[2]) + 1] IN
       \E c \in ColumnsNamed(name), rows \in RolesFor(name) :
          input' = <<"columns", Append(input[2], c), input[3] \o rows>>
AskSlashDate == Unasked /\ \E first, second \in 0..32 : Start(<<"slash date", first, second>>)
AskDay == Unasked /\ \E y \in 1999..2027, shift \in -10..10 : Start(<<"day", Table!NewYear(y) + shift>>)

ColumnsRight ==
    /\ Asked("columns") => /\ Table!DetectedLayerIsTheDetection(input[2])
                           /\ Table!StatedRolesStand(input[2], input[3])
    /\ Asked("slash date") => \A y \in {2023, 2024} : Table!OneReadingStands(input[2], input[3], y)
    /\ Asked("day") => /\ Table!OneDayHoweverHeld(input[2])
                       /\ \A days \in {1, 7, 40}, g \in Granularities :
                            Table!LabelsFollowTime(input[2], input[2] + days, g)

-----------------------------------------------------------------------------
(* Detectors: changes of the slices of two dimensions, a level that steps     *)
(* once, the values of a period and the weights of segments; and the          *)
(* histories a change is read from.                                           *)
Slice(dimension, value, change) ==
    [dimension |-> dimension, value |-> value, prev |-> 5, curr |-> 5 + change]
Slices(f) == <<Slice("d1", "a", f[1]), Slice("d1", "b", f[2]), Slice("d1", "c", f[3]),
               Slice("d2", "a", f[4]), Slice("d2", "b", f[5])>>
Cell(period, segment, number) == [period |-> period, segment |-> segment, number |-> number]

AskDrivers == Unasked /\ \E changes \in [1..3 -> -2..2] : Start(<<"drivers", changes>>)
NextChange == /\ Asked("drivers") /\ Len(input[2]) < 5
              /\ \E change \in -2..2 : input' = [input EXCEPT ![2] = Append(@, change)]
AskStep == Unasked /\ \E n \in 5..8, k \in 1..7, low \in {2, 10, 14, 20}, high \in {2, 10, 11, 12, 20} :
             k < n /\ Start(<<"step", n, k, low, high>>)
AskValues == Unasked /\ \E s \in [1..4 -> {"Blank", "x", "y"}] : Start(<<"values", s>>)
AskWeights == Unasked /\ \E s \in [1..6 -> 1..2] : Start(<<"weights", s>>)
AskRanks == Unasked /\ \E r \in [1..6 -> 1..3] : Start(<<"ranks", r>>)
AskShift == Unasked /\ \E s \in [1..10 -> 1..2] : Start(<<"shift", s>>)
AskLastPoint == Unasked /\ \E s \in [1..5 -> {0, 1, 4, 9}] : Start(<<"last point", s>>)
AskClusters == Unasked /\ \E at \in [1..2 -> 1..7], level \in [1..2 -> {0, 5, 9}] : Start(<<"clusters", at, level>>)
AskMover == Unasked /\ \E old, now \in [1..3 -> 0..2] : Start(<<"mover", old, now>>)

DetectorsRight ==
    /\ Asked("drivers") /\ Len(input[2]) = 5 =>
         /\ Detecting!BiggestMoversShown(Slices(input[2]), 5, 5 + input[2][1], 3, 2)
         /\ Detecting!OffsettingIsCancellation(Slices(input[2]), input[2][4] + input[2][5])
    /\ Asked("step") => Detecting!CleanStepFound(input[2], input[3], input[4], input[5])
    /\ Asked("values") =>
         LET half(i) == IF i > 2 THEN 2 ELSE 1 IN
         /\ Detecting!OneCommonValue([i \in 1..4 |-> Cell(1, input[2][i], 1)], 1)
         /\ Detecting!MembersAddUp([i \in 1..4 |-> Cell(half(i), input[2][i], 1)], 1, 2)
    /\ Asked("ranks") => \A jump \in 1..2 : Detecting!RankMoveReadsBack(input[2], jump)
    /\ Asked("shift") =>
         Detecting!ShiftHasNoDirection([i \in 1..10 |-> Cell(i % 2, "x", input[2][i])], 0, 1, 20)
    /\ Asked("last point") => Detecting!LastPointIsExtreme(input[2])
    /\ Asked("clusters") =>
         Detecting!ClusterMovedTogether(
            [c \in 1..2 |-> [p \in 1..7 |-> Cell(p, "x", IF p = input[2][c] THEN input[3][c] ELSE 5 + (p % 2))]], 2)
    /\ Asked("mover") =>
         \A s \in 1..3 :
            Detecting!OnlyMoverIsBlamed([i \in 1..3 |-> Cell(1, i, input[2][i])]
                                            \o [i \in 1..3 |-> Cell(2, i, input[3][i])], 2, s)
    /\ Asked("weights") => Detecting!EvenIsNotConcentrated([i \in 1..6 |-> Cell(1, i, input[2][i])])

-----------------------------------------------------------------------------
(* Queries: a small frame and a chain of operations grown one at a time, in   *)
(* which a limit may stand anywhere.                                          *)
Frame(type, rows) ==
    [cols |-> <<A, T>>, types |-> (A :> "number") @@ (T :> type), rows |-> rows]
Literal(kind, at) == [kind |-> kind, at |-> at, of |-> {}]
Operations ==
    {[type |-> "filter", column |-> A, op |-> "gt", value |-> Literal("number", 1)],
     [type |-> "filter", column |-> T, op |-> "lte", value |-> Literal("day", 1)],
     [type |-> "select", columns |-> <<A>>],
     [type |-> "groupBy", by |-> T, of |-> None],
     [type |-> "groupBy", by |-> A, of |-> B],
     [type |-> "pivot", index |-> A, columns |-> T, values |-> A],
     [type |-> "sort", by |-> A, descending |-> TRUE],
     [type |-> "sort", by |-> Count, descending |-> FALSE],
     [type |-> "limit", n |-> 0],
     [type |-> "limit", n |-> 1],
     [type |-> "withColumns", columns |-> <<[name |-> P, of |-> T]>>]}

AskQuery == Unasked /\ \E type \in {"date", "datetime"}, n \in {0, 2} :
    \E a \in [1..n -> {1, 2}], t \in [1..n -> {None, 1}] :
       Start(<<"query", Frame(type, [i \in 1..n |-> (A :> a[i]) @@ (T :> t[i])]), <<>>>>)
NextOperation == /\ Asked("query") /\ Len(input[3]) < 3
                 /\ \E op \in Operations : input' = [input EXCEPT ![3] = Append(@, op)]
AskOneDay == Unasked /\ \E type \in {"date", "datetime"}, t \in [1..3 -> {None} \cup 0..3], day \in 0..1 :
    Start(<<"one day", Frame(type, [i \in 1..3 |-> (A :> i) @@ (T :> t[i])]), day>>)

PagesRight ==
    /\ Asked("query") => /\ Query!QueryPages(input[2], input[3])
                         /\ Query!ValidatedNames(input[2], input[3])
    /\ Asked("one day") => Query!DaySplitsTime(input[2], T, input[3])

-----------------------------------------------------------------------------
(* Jobs: one row after the other into the five tables, pages of every size.   *)
JobRow(id, start, status, named) ==
    [id |-> id, start |-> start, finish |-> IF status = "running" THEN None ELSE start + 1,
     took |-> 0, status |-> status, error |-> FALSE, named |-> named]
JobRows(kind, id) ==
    IF kind = "insight_run"
    THEN {[JobRow(id, 0, "completed", TRUE) EXCEPT !.finish = end, !.took = t] : end \in 0..1, t \in 0..1}
    ELSE {JobRow(id, start, status, named) : start \in 0..1, status \in {"running", "completed"},
             named \in IF kind = "agent_run" THEN {TRUE} ELSE BOOLEAN}

AskJobs == Unasked /\ Start(<<"jobs", [kind \in Page!Kind |-> {}], 1>>)
NextJob ==
    /\ Asked("jobs") /\ input[3] <= 3
    /\ \E kind \in Page!Kind : \E row \in JobRows(kind, input[3]) :
         input' = [input EXCEPT ![2][kind] = @ \cup {row}, ![3] = @ + 1]
AskScope ==
    Unasked /\ \E kind \in {"describe_table", "propose_subcategories"}, parent \in {"0", "7"},
       source \in {<<"s">>, <<"connector", "s">>, <<"connector", "s", "7">>}, table \in {"t", "7"} :
         Start(<<"scope", kind, source, table, parent>>)

ActivityRight ==
    /\ Asked("jobs") => \A asked \in {None} \cup 0..4 :
         Page!NewestShown(input[2], asked) /\ Page!PageInOrder(input[2], asked)
    /\ Asked("scope") => Page!ScopeReadsBack(input[2], input[3], input[4], input[5])

-----------------------------------------------------------------------------
(* Highlights: a text written a character at a time, one or two terms.        *)
Terms == {<<"i">>, <<"i", "dot">>, <<"i", "i">>, <<"x", "i">>, <<>>}
AskHighlights == Unasked /\ \E terms \in SUBSET Terms, wholeWord \in BOOLEAN :
    Cardinality(terms) <= 2 /\ Start(<<"highlights", <<>>, terms, wholeWord>>)
NextCharacter ==
    /\ Asked("highlights") /\ Len(input[2]) < 4
    /\ \E c \in {"i", "I", "x", " "} : input' = [input EXCEPT ![2] = Append(@, c)]

HighlightsRight ==
    Asked("highlights") => Marking!HighlightsSound(input[2], input[3], input[4], 1, 2)

-----------------------------------------------------------------------------
(* Tickets: a vocabulary with names, an answer to judge, another vocabulary,  *)
(* two rows, a table to materialise into, or rows and cells to report on.     *)
Entry(id, parent) == [id |-> id, parent |-> parent, description |-> "d"]
Categories == {<<>>, <<Entry(1, 0)>>, <<Entry(2, 0), Entry(1, 0)>>}
Subcategories(parents) ==
    {<<>>} \cup {<<Entry(3, p)>> : p \in parents}
           \cup {<<Entry(4, q), Entry(3, p)>> : p \in parents, q \in parents}
Spec1(categories, subcategories, text, language) ==
    [text |-> text, language |-> language, provider |-> "p",
     categories |-> categories, subcategories |-> subcategories]
Specs == UNION {{Spec1(c, s, <<"body">>, None) : s \in Subcategories({0} \cup {c[i].id : i \in DOMAIN c})} :
                  c \in Categories}
NamesOf == {1 :> <<"a", 0>> @@ 2 :> <<"b", 0>> @@ 3 :> <<"x", 0>> @@ 4 :> fourth :
              fourth \in {<<"x", 1>>, <<"y", 0>>, <<"a", 0>>}}
TicketAnswers ==
    [summary : {None, 20}, category : {None, <<"a", 1>>, <<"b", 0>>, <<"other", 1>>, <<"z", 0>>},
     subcategory : {None, <<"x", 0>>, <<"y", 0>>, <<"other", 0>>}, sentiment : {"mixed", "angry"}]
TicketRow == [body : {None, "hello", "hm"}, lang : {None, "sv-SE", "sv"}]
CellsOf == {None} \cup {[summary |-> 1, category |-> c, subcategory |-> s, sentiment |-> "mixed"] :
                          c \in {0, 1}, s \in {0, 3}}

AskTicket == Unasked /\ \E spec \in Specs, names \in NamesOf : Start(<<"ticket", spec, names>>)
AnswerTicket == /\ Asked("ticket") /\ \E a \in TicketAnswers : input' = <<"answer", input[2], input[3], a>>
OtherSpec == /\ Asked("ticket") /\ \E spec \in Specs : input' = <<"key", input[2], input[3], spec>>
AskRows == Unasked /\ \E text \in {<<"body">>, <<"body", "lang">>}, language \in {None, "lang"} :
    \E rows \in [1..2 -> TicketRow] : Start(<<"rows", Spec1(<<>>, <<>>, text, language), rows>>)
AskMaterialise ==
    Unasked /\ \E older \in {<<>>, <<"summary", "language">>, <<"sentiment_polarity", "f__status">>,
                  <<"category", "sentiment_strength">>},
       columns \in {<<"body">>, <<"id", "body">>, <<"summary", "body">>, <<"body", "sentiment_strength">>} :
    Start(<<"columns kept", columns, older>>)
AskHealth ==
    Unasked /\ \E rows \in [1..3 -> {"hello", "hm", None}] :
    \E cells \in {f \in [1..3 -> CellsOf] : \A i, j \in 1..3 : rows[i] = rows[j] => f[i] = f[j]} :
    Start(<<"health", Spec1(<<Entry(1, 0)>>, <<Entry(3, 1)>>, <<"body">>, None), rows, cells>>)

TicketsRight ==
    /\ Asked("answer") => Ticket!OfferedIsAccepted(input[2], input[3], input[4])
    /\ Asked("key") => Ticket!KeyTracksDefinitions(input[2], input[4], input[3], 1 :> <<"q", 0>>)
    /\ Asked("rows") => Ticket!EqualRowsAskTheSame(input[2], <<>>, "context", input[3])
    /\ Asked("columns kept") =>
         Ticket!RematerialisedOnce(Spec1(<<>>, <<>>, <<"body">>, None), input[2], input[3], "f")
    /\ Asked("health") =>
         LET rendered == [i \in 1..3 |-> Ticket!Rendered(input[2], [body |-> input[3][i]])]
             names == 1 :> <<"a", 0>> @@ 3 :> <<"x", 0>>
         IN  Ticket!ReportsAddUp(input[2], names, rendered, input[4],
                Ticket!InputHash(rendered[1]) :> 5 @@ Ticket!InputHash(rendered[3]) :> 7)

-----------------------------------------------------------------------------
(* Mentions: three vocabulary rows and what two answers say of subjects.      *)
Name(word, spelling) == <<word, spelling, "short">>
Word(id, kind, name, aliases) ==
    [id |-> id, kind |-> kind, parent |-> 0, name |-> Name(name, 0), description |-> "d",
     aliases |-> aliases]
Vocabularies ==
    {<<Word(1, "product", "a", <<>>), Word(2, kind, name, aliases), Word(3, "feedback_category", "f", <<>>)>> :
        kind \in {"product", "competitor"}, name \in {"b", "a"},
        aliases \in {<<>>, <<Name("x", 0)>>, <<Name("a", 1)>>}}
Said(type, subject, summary, category, incidental, sentiment) ==
    [type |-> type, subject |-> subject, summary |-> summary, category |-> category,
     incidental |-> incidental, sentiment |-> sentiment]
Sayings ==
    {Said("product", s, None, None, TRUE, "negative") :
        s \in {None, Name("a", 1), Name("x", 0), Name("x", 1), <<"x", 0, "long">>}}
    \cup {Said("competitor", Name("x", 0), None, None, FALSE, "positive"),
          Said("feedback", None, None, Name("F", 0), TRUE, "mixed"),
          Said("feedback", None, <<"u", 0, "long">>, Name("f", 1), TRUE, "mixed"),
          Said("feedback", Name("x", 1), None, Name("other", 1), TRUE, "mixed")}

AskMentions == Unasked /\ \E rows \in Vocabularies : Start(<<"mentions", rows, <<>>>>)
NextTicket == /\ Asked("mentions") /\ Len(input[3]) < 2
              /\ input' = [input EXCEPT ![3] = Append(@, <<>>)]
NextMention == /\ Asked("mentions") /\ input[3] # <<>> /\ Len(input[3][Len(input[3])]) < 3 - Len(input[3])
               /\ \E m \in Sayings : input' = [input EXCEPT ![3][Len(input[3])] = Append(@, m)]

MentionsRight ==
    Asked("mentions") =>
        LET answers == Append(input[3], None) IN
        /\ Subject!FourViewsAgree(input[2], answers)
        /\ \A target \in {1, 2} : Subject!MappingMovesItsMentions(input[2], answers, target, Name("x", 0))

-----------------------------------------------------------------------------
(* Events: at the turn of 2026, whose first week has begun in December.       *)
NewYear2026 == Table!NewYear(2026)
At(day, second) == (NewYear2026 + day) * Events!Day + second
Url(host) == [host |-> host, path |-> "/", utm |-> ""]
Referrer(ip) == IF ip = "p" THEN None ELSE Url([name |-> "g", has |-> {"google."}])
Request(at, ip, saltAge) ==
    [source |-> "s", ip |-> ip, ua |-> [browser |-> "b", mobile |-> ip = "p"], at |-> at,
     salt |-> Events!DayAt(at) - saltAge, session |-> <<ip, Events!DayAt(at)>>]
Raw(ip, name, user) ==
    [name |-> name, url |-> Url([name |-> "site", has |-> {}]), referrer |-> Referrer(ip),
     user |-> user, width |-> 500]
Event(at, ip, saltAge, name, user)   == Events!ProcessEvent(Request(at, ip, saltAge), Raw(ip, name, user))
Tracked(at, ip, saltAge, name, user) == Events!ProcessTrackEvent(Request(at, ip, saltAge), Raw(ip, name, user))
EventNames == {"pageview", "buy"}
Happened(question) ==
    CASE question = "dashboards" ->
           {Event(at, ip, 0, name, user) : at \in {At(0, -1), At(0, 0), At(0, 40)}, ip \in {"p", "q"},
                                           name \in EventNames, user \in {None, "u"}}
           \cup {Tracked(At(0, 0), "p", 1, "buy", None)}
      [] question = "funnel" ->
           {Event(At(0, second), "p", 0, name, "u") : second \in {0, 40, 41}, name \in EventNames}
           \cup {Event(At(0, 40), ip, 0, name, None) : ip \in {"p", "q"}, name \in EventNames}
      [] question = "retention" ->
           {Event(at, "p", 0, name, "u") : at \in {At(-3, 5), At(-1, 5), At(0, 0), At(31, 0)}, name \in EventNames}
           \cup {Event(at, "p", 0, name, "v") : at \in {At(-1, 5), At(31, 0)}, name \in EventNames}
MaxHappened(question) == CASE question = "dashboards" -> 2 [] question = "funnel" -> 4
                           [] question = "retention" -> 3
Winter == <<At(-3, 0), At(40, 0)>>

AskDashboards == Unasked /\ \E range \in {<<At(0, -1), At(0, 40)>>, Events!ResolveDates(At(0, 50), "30d", None, None)} :
    Start(<<"dashboards", {}, range>>)
AskFunnel == Unasked /\ \E steps \in {<<"pageview", "buy">>, <<"pageview", "pageview", "buy">>}, window \in {40, 86400} :
    Start(<<"funnel", {}, Winter, steps, window>>)
AskRetention == Unasked /\ \E type \in {"week", "month"}, n \in {1, 3}, return \in EventNames :
    Start(<<"retention", {}, Winter, "pageview", return, type, n>>)
NextEvent ==
    /\ input[1] \in {"dashboards", "funnel", "retention"}
    /\ Cardinality(input[2]) < MaxHappened(input[1])
    /\ \E e \in Happened(input[1]) : input' = [input EXCEPT ![2] = @ \cup {e}]

\* The dashboards, funnels and retention tables of product_analytics/queries.rs
\* agree with each other about the events they were computed from.
EventsAnswered ==
    /\ Asked("dashboards") => Events!DashboardsAgree(input[2], input[3])
    /\ Asked("funnel") => Events!FunnelCountsChains(input[2], input[3], input[4], input[5])
    /\ Asked("retention") =>
         Events!RetentionByCalendar(input[2], input[3], input[4], input[5], input[6], input[7])

\* Stated of the code and refuted (product_analytics/queries.rs:3-5), where a
\* visitor is known under a user id from some event on only.
ConvertersCounted ==
    Asked("funnel") => Events!ConvertersCounted(input[2], input[3], input[4], input[5])

-----------------------------------------------------------------------------
(* The interchange format: a model of one or two tables grown to a            *)
(* relationship and a metric, and a field or a metric in its short form.      *)
Dataset(name) == [name : {name}, fields : {<<>>, <<"a">>, <<"a", "b">>}, keys : {{}, {"c"}}]
Relationships == [name : {"r"}, from : {"t", "u", "z"}, to : {"t", "u"},
                  fromColumns : {<<>>, <<"a">>, <<"c">>}, toColumns : {<<"a">>, <<"a", "b">>}]
Metrics == [name : {"m"}, dataset : {"t", "u", "z"}, column : {"a", "c", "*"}, structured : BOOLEAN]
ShortFields == [name : {None, "n"}, expression : {None, "e"}, dimension : {None, "unset", "yes", "no"},
                isTime : {None, "yes", "no"}, brightflow : {None, "x"}, extension : {None, "y"}]
Structured(table) == [dataset |-> table, aggregation |-> "sum"]
Expressions == {[kind |-> "structured", expr |-> Structured(table)] : table \in {None, "t", "u"}}
               \cup {[kind |-> "text", text |-> A], [kind |-> "none"]}
ShortMetrics == [name : {None, "m"}, expression : Expressions,
                 brightflow : {None, Structured("t"), Structured(None)},
                 extension : {None, Structured("u")}]

AskImport == Unasked /\ \E t \in Dataset("t") :
    Start(<<"import", [datasets |-> <<t>>, relationships |-> <<>>, metrics |-> <<>>]>>)
SecondDataset == /\ Asked("import") /\ Len(input[2].datasets) = 1
                 /\ \E u \in Dataset("u") : input' = [input EXCEPT ![2].datasets = Append(@, u)]
AddRelationship == /\ Asked("import") /\ input[2].relationships = <<>>
                   /\ \E r \in Relationships : input' = [input EXCEPT ![2].relationships = <<r>>]
AddMetric == /\ Asked("import") /\ input[2].metrics = <<>>
             /\ \E m \in Metrics : input' = [input EXCEPT ![2].metrics = <<m>>]
AskDeclared == Unasked /\ \E de \in [name : {None, "r"}, from : {None, "t"}, to : {"u"}], key, hint \in {None, "k"} :
    Start(<<"relationship", de, key, hint>>)
AskField == Unasked /\ \E de \in ShortFields, key \in {None, "k"} : Start(<<"field", de, key>>)
AskMetric == Unasked /\ \E de \in ShortMetrics, key \in {None, "k"} : Start(<<"metric", de, key>>)

\* An imported semantic model holds what the document said, wherever the short
\* forms of types/semantic.rs allow a thing to be said twice.
ImportSound ==
    /\ Asked("import") => Ossie!ImportHolds(input[2])
    /\ Asked("relationship") => Ossie!RelationshipReadsBack(input[2], input[3], input[4])
    /\ Asked("field") => Ossie!FieldReadsBack(input[2], input[3])
    /\ Asked("metric") => Ossie!MetricReadsBack(input[2], input[3], "t")

-----------------------------------------------------------------------------
(* What the run checks. *)

\* The engine reads a table right: every column gets the one role its detection
\* and the roles on record leave it, a date means one day however it is held
\* (columns.rs, period.rs), and every series is counted from the rows that belong
\* to it and only within the budget, under names that collide only where a value is
\* spelt with their separators (candidates.rs).
SeriesSound == SeriesRight /\ ColumnsRight

\* What is found is what stands in the report: each detector sees the change it
\* is for and no other (drivers.rs, trend.rs, concentration.rs), every story of
\* the tree has a parent that holds it and a place earned by its strength
\* (tree.rs, review.rs), and one that people know makes room (history.rs).
ReportsSound == ReportsRight /\ DetectorsRight

\* A page is the page of what was asked: a query's rows after all its operations
\* but the limits, of which the last is applied at the end and no other
\* (executor.rs, ops.rs), so that a chain with a limit before a filter, a sort, a
\* group or a pivot does not show what a build of it writes; and the newest jobs of five tables in one order that
\* never puts one before itself (jobs/mod.rs), each under the scope it was
\* started for (agent/handlers.rs).
QueriesSound == PagesRight /\ ActivityRight

\* What is asked of a model and read back from it is about the rows it came
\* from: equal rows share an answer and unequal ones never (ticket_classify.rs),
\* the views of the mentions agree (mentions), and what a text is marked with
\* are the terms that occur in it (highlight.rs).
TextSound == TicketsRight /\ MentionsRight /\ HighlightsRight

-----------------------------------------------------------------------------
Next ==
    \/ AskSeries \/ NextRow
    \/ AskReport \/ Finds \/ AskStories \/ NextStory
    \/ AskNovelty \/ StoryShown \/ StoryDevelops \/ StoryRests
    \/ AskColumns \/ NextColumn \/ AskSlashDate \/ AskDay
    \/ AskDrivers \/ NextChange \/ AskStep \/ AskValues \/ AskWeights
    \/ AskRanks \/ AskShift \/ AskLastPoint \/ AskClusters \/ AskMover
    \/ AskQuery \/ NextOperation \/ AskOneDay
    \/ AskJobs \/ NextJob \/ AskScope
    \/ AskHighlights \/ NextCharacter
    \/ AskTicket \/ AnswerTicket \/ OtherSpec \/ AskRows \/ AskMaterialise \/ AskHealth
    \/ AskMentions \/ NextTicket \/ NextMention
    \/ AskDashboards \/ AskFunnel \/ AskRetention \/ NextEvent
    \/ AskImport \/ SecondDataset \/ AddRelationship \/ AddMetric \/ AskDeclared \/ AskField \/ AskMetric

Spec == Init /\ [][Next]_input
=============================================================================
