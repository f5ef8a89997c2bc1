-------------------------- MODULE EventAnalytics ---------------------------
(* What is made of web and product events: the enriched event a browser's or  *)
(* a server's payload becomes, and the dashboards, funnels and retention      *)
(* tables that are computed from the stored ones.                             *)
(*                                                                            *)
(* Moments are seconds, counted from day 0 of the calendar of Columns, and a  *)
(* bare date in a bound is the moment it sorts at, its midnight. A payload is *)
(* [name, url, referrer, user, width]; a url is None (absent, malformed) or   *)
(* [host, path, utm]; a host carries the known patterns found in it; a        *)
(* request adds [source, ip, ua, salt, at, session]: the day its salt is of,  *)
(* the moment it is stamped with and the session the buffer gave it. An       *)
(* ordering that polars leaves open (the ties of a sort) is a set of answers. *)
EXTENDS Integers, Sequences, FiniteSets, SequencesExt, FiniteSetsExt

CONSTANT None

Calendar == INSTANCE Columns

Day == 86400

DayAt(moment) == moment \div Day

-----------------------------------------------------------------------------
(* The enriched event. *)

\* First match in the order of the list: "t.co" comes after the sites whose
\* names contain it, and a host that merely contains a pattern matches too.
ReferrerSources ==
    << <<"google.", "Google">>, <<"bing.com", "Bing">>, <<"duckduckgo.com", "DuckDuckGo">>,
       <<"yahoo.", "Yahoo">>, <<"yandex.", "Yandex">>, <<"baidu.com", "Baidu">>,
       <<"facebook.com", "Facebook">>, <<"fb.com", "Facebook">>,
       <<"instagram.com", "Instagram">>, <<"twitter.com", "Twitter">>,
       <<"x.com", "Twitter">>, <<"t.co", "Twitter">>, <<"linkedin.com", "LinkedIn">>,
       <<"reddit.com", "Reddit">>, <<"youtube.com", "YouTube">>,
       <<"pinterest.com", "Pinterest">>, <<"tiktok.com", "TikTok">>,
       <<"github.com", "GitHub">>, <<"news.ycombinator.com", "Hacker News">> >>

NoHost == [name |-> "", has |-> {}]

\* A url that does not parse keeps its whole text as the path.
ParseUrl(url) ==
    IF url = None THEN [host |-> NoHost, path |-> None, utm |-> ""]
    ELSE [host |-> url.host, path |-> url.path, utm |-> url.utm]

ClassifyReferrer(referrer, current) ==
    LET host == ParseUrl(referrer).host
        known == {i \in DOMAIN ReferrerSources : ReferrerSources[i][1] \in host.has}
    IN  IF referrer = None \/ host.name = current THEN "Direct"
        ELSE IF known # {} THEN ReferrerSources[Min(known)][2]
        ELSE host.name

ClassifyDevice(mobile, width) ==
    IF width # None /\ width <= 575 THEN "Mobile"
    ELSE IF mobile THEN (IF width = None THEN "Mobile" ELSE "Tablet")
    ELSE "Desktop"

ClassifyScreenSize(width) ==
    IF width = None THEN ""
    ELSE IF width <= 575 THEN "Small"
    ELSE IF width <= 991 THEN "Medium" ELSE "Large"

ComputeVisitorId(request) == <<request.salt, request.source, request.ip, request.ua>>

Enriched(request, raw, referrer, width) ==
    LET parsed == ParseUrl(raw.url) IN
    [at |-> request.at, visitor |-> ComputeVisitorId(request), session |-> request.session,
     user |-> IF raw.user = None THEN "" ELSE raw.user, name |-> raw.name,
     pathname |-> parsed.path, utm_source |-> parsed.utm, referrer_source |-> referrer,
     browser |-> request.ua.browser, country |-> request.ip,
     device |-> ClassifyDevice(request.ua.mobile, width),
     screen |-> ClassifyScreenSize(width)]

ProcessEvent(request, raw) ==
    Enriched(request, raw, ClassifyReferrer(raw.referrer, ParseUrl(raw.url).host.name), raw.width)

\* A server's event has neither a referrer nor a screen.
ProcessTrackEvent(request, raw) == Enriched(request, raw, "", None)

-----------------------------------------------------------------------------
(* The range a question is about. *)

MonthStart(day) ==
    CHOOSE d \in (day - 30)..day :
        /\ Calendar!MonthOf(d) = Calendar!MonthOf(day)
        /\ Calendar!MonthOf(d - 1) # Calendar!MonthOf(day)

ResolveDates(now, period, start, end) ==
    LET today == DayAt(now)
        first == CASE period = "today" -> today
                   [] period = "7d"    -> today - 7
                   [] period = "month" -> MonthStart(today)
                   [] period = "12m"   -> today - 365
                   [] OTHER            -> today - 30
    IN  IF start # None /\ end # None THEN <<start, end>>
        ELSE <<first * Day, today * Day + Day - 1>>

InRange(events, range) == {e \in events : range[1] <= e.at /\ e.at < range[2]}

-----------------------------------------------------------------------------
(* Dashboards. An answer in rows is cut at a limit after it is sorted. *)

Top(rows, field, limit) ==
    { SubSeq(s, 1, Min({limit, Len(s)})) :
        s \in {t \in SetToSeqs(rows) : \A i, j \in DOMAIN t : i < j => t[i][field] >= t[j][field]} }

Visitors(events) == Cardinality({e.visitor : e \in events})

QueryStats(events, range) ==
    LET rows == InRange(events, range)
        sessions == {e.session : e \in rows}
        views(s) == {e \in rows : e.session = s /\ e.name = "pageview"}
    IN  [visitors |-> Visitors(rows), pageviews |-> Cardinality(rows),
         bounces |-> Cardinality({s \in sessions : Cardinality(views(s)) = 1}),
         sessions |-> Cardinality(sessions)]

QueryTimeseries(events, range) ==
    LET rows == InRange(events, range)
        point(day) == LET on == {e \in rows : DayAt(e.at) = day}
                      IN  [date |-> day, visitors |-> Visitors(on), pageviews |-> Cardinality(on)]
    IN  SetToSortSeq({point(DayAt(e.at)) : e \in rows}, LAMBDA a, b : a.date < b.date)

QueryBreakdown(events, range, dimension, limit) ==
    LET rows == InRange(events, range)
        row(value) == LET of == {e \in rows : e[dimension] = value}
                      IN  [name |-> value, visitors |-> Visitors(of), pageviews |-> Cardinality(of)]
    IN  Top({row(e[dimension]) : e \in rows}, "visitors", limit)

BreakdownLimit == 20
Breakdowns == {"pathname", "referrer_source", "utm_source", "browser", "country"}

-----------------------------------------------------------------------------
(* People. *)

UserOrVisitor(e) == IF e.user # "" THEN <<e.user>> ELSE e.visitor

EventListLimit == 50
TimelineLimit == 200

QueryEventList(events, range) ==
    LET rows == InRange(events, range)
        row(name) == LET of == {e \in rows : e.name = name}
                     IN  [name |-> name, count |-> Cardinality(of),
                          unique_users |-> Cardinality({UserOrVisitor(e) : e \in of})]
    IN  Top({row(e.name) : e \in rows}, "count", EventListLimit)

\* The timeline is of every stored event, newest first.
QueryUserTimeline(events, person) ==
    Top({e \in events : UserOrVisitor(e) = person}, "at", TimelineLimit)

\* The ways the events of one person may come out of the sort by time.
Orders(events) ==
    {s \in SetToSeqs(events) : \A i, j \in DOMAIN s : i < j => s[i].at <= s[j].at}

Takes(walk, e, steps, window) ==
    LET next == Len(walk) + 1 IN
    /\ next <= Len(steps) /\ e.name = steps[next]
    /\ next > 1 => e.at - walk[1].at <= window

\* What one person's events match, taken greedily.
Walk(order, steps, window) ==
    FoldLeft(LAMBDA walk, e : IF Takes(walk, e, steps, window) THEN Append(walk, e) ELSE walk,
             <<>>, order)

FunnelRows(events, range, steps) ==
    {e \in InRange(events, range) : e.name \in ToSet(steps)}

\* An answer for each way ties come out: how many people took each step.
QueryFunnel(events, range, steps, window) ==
    LET rows == FunnelRows(events, range, steps)
        people == {UserOrVisitor(e) : e \in rows}
        of(p) == {e \in rows : UserOrVisitor(e) = p}
        walks == { f \in [people -> 0..Len(steps)] :
                     \A p \in people : \E order \in Orders(of(p)) :
                        f[p] = Len(Walk(order, steps, window)) }
    IN  { [k \in DOMAIN steps |-> Cardinality({p \in people : f[p] >= k})] : f \in walks }

Rate(part, whole) == IF whole = 0 THEN <<0, 1>> ELSE <<part, whole>>

\* What is shown of a step, as fractions: of the first step, and lost since
\* the one before.
StepResults(counts) ==
    [k \in DOMAIN counts |->
        [count |-> counts[k], conversion |-> Rate(counts[k], counts[1]),
         dropoff |-> IF k = 1 THEN <<0, 1>> ELSE Rate(counts[k - 1] - counts[k], counts[k - 1])]]

-----------------------------------------------------------------------------
(* Retention. A period's key is its year and its number in it, and keys sort  *)
(* as their text does.                                                        *)
KeyBefore(a, b) == a[1] < b[1] \/ (a[1] = b[1] /\ a[2] < b[2])

PeriodKey(day, type) ==
    IF type = "week" THEN <<Calendar!IsoYear(day), Calendar!IsoWeek(day)>>
    ELSE <<Calendar!YearOf(day), Calendar!MonthOf(day)>>

TsToPeriodKey(moment, type) == PeriodKey(DayAt(moment), type)

\* offset_period_key that adds to the number and leaves the year alone.
OffsetPeriodKeyWithin(key, offset, type) == <<key[1], key[2] + offset>>

OffsetPeriodKey(key, offset, type) ==
    IF type = "week"
    THEN PeriodKey(Calendar!Monday(Calendar!NewYear(key[1]) + 3) + 7 * (key[2] - 1 + offset), "week")
    ELSE LET months == 12 * key[1] + key[2] - 1 + offset
         IN  <<months \div 12, (months % 12) + 1>>

QueryRetention(events, range, cohort_event, return_event, type, num_periods) ==
    LET rows == InRange(events, range)
        cohortRows == {e \in rows : e.name = cohort_event}
        people == {UserOrVisitor(e) : e \in cohortRows}
        first == [p \in people |-> Min({e.at : e \in {r \in cohortRows : UserOrVisitor(r) = p}})]
        cohort == [p \in people |-> TsToPeriodKey(first[p], type)]
        active == [p \in people |-> {TsToPeriodKey(e.at, type) :
                      e \in {r \in rows : r.name = return_event /\ UserOrVisitor(r) = p}}]
        keys == SetToSortSeq({cohort[p] : p \in people}, KeyBefore)
        shown == SubSeq(keys, Max({1, Len(keys) - num_periods + 1}), Len(keys))
        row(key) ==
            LET users == {p \in people : cohort[p] = key} IN
            [cohort |-> key, cohort_size |-> Cardinality(users),
             periods |-> [offset \in 0..(num_periods - 1) |->
                LET back == {p \in users : OffsetPeriodKey(key, offset, type) \in active[p]}
                IN  Rate(Cardinality(back), Cardinality(users))]]
    IN  [i \in DOMAIN shown |-> row(shown[i])]

-----------------------------------------------------------------------------
(* The dashboards of a range agree with each other: every point of the series *)
(* is what the summary says of that day alone, every breakdown and the event  *)
(* list account for every event once, nobody's timeline misses one, and no    *)
(* more sessions bounce than there are. A visitor id lives one day, so the    *)
(* days' visitors add up to the summary's, unless a request got its salt      *)
(* before midnight and its stamp after (web_analytics/queries.rs,             *)
(* product_analytics/queries.rs, ingest/process.rs).                          *)
DashboardsAgree(events, range) ==
    LET rows == InRange(events, range)
        stats == QueryStats(events, range)
        series == QueryTimeseries(events, range)
        total(points, field) == FoldLeft(LAMBDA acc, p : acc + p[field], 0, points)
    IN  /\ total(series, "pageviews") = stats.pageviews
        /\ total(series, "visitors") >= stats.visitors
        /\ (\A e \in rows : e.visitor[1] = DayAt(e.at)) => total(series, "visitors") = stats.visitors
        /\ \A i \in DOMAIN series :
             LET day == series[i].date
                 alone == QueryStats(events, <<Max({range[1], day * Day}), Min({range[2], (day + 1) * Day})>>)
             IN  series[i].visitors = alone.visitors /\ series[i].pageviews = alone.pageviews
        /\ stats.bounces <= stats.sessions
        /\ \A dimension \in Breakdowns :
             \A answer \in QueryBreakdown(events, range, dimension, BreakdownLimit) :
                total(answer, "pageviews") = stats.pageviews
        /\ \A answer \in QueryEventList(events, range) : total(answer, "count") = stats.pageviews
        /\ \A e \in events : \A timeline \in QueryUserTimeline(events, UserOrVisitor(e)) :
                e \in ToSet(timeline)

(* Taking steps greedily loses nobody: a person counts for a step exactly     *)
(* when their events hold a chain of the steps so far, in order, that begins  *)
(* with their first event of the first step and ends within the window of it. *)
(* So the counts never rise from a step to the next, and the subtraction of   *)
(* the drop-off, of unsigned numbers, never goes below zero                   *)
(* (product_analytics/queries.rs query_funnel).                               *)
FunnelCountsChains(events, range, steps, window) ==
    LET rows == FunnelRows(events, range, steps)
        people == {UserOrVisitor(e) : e \in rows}
        chain(order, k) ==
            \E f \in [1..k -> DOMAIN order] :
                /\ \A i \in 1..k : order[f[i]].name = steps[i]
                /\ \A i, j \in 1..k : i < j => f[i] < f[j]
                /\ \A i \in 1..(f[1] - 1) : order[i].name # steps[1]
                /\ order[f[k]].at - order[f[1]].at <= window
    IN  /\ \A p \in people : \A order \in Orders({e \in rows : UserOrVisitor(e) = p}) :
             \A k \in DOMAIN steps : (Len(Walk(order, steps, window)) >= k) <=> chain(order, k)
        /\ \A counts \in QueryFunnel(events, range, steps, window) :
             \A k \in DOMAIN steps :
                /\ k > 1 => counts[k] <= counts[k - 1]
                /\ StepResults(counts)[k].dropoff[1] >= 0

(* Retention is by calendar distance: the share shown n periods after a       *)
(* cohort's is of those of its people who did the return event in a week or   *)
(* month that begins n weeks or months after the one of their first cohort    *)
(* event, whatever year either lies in; the cohorts come in the order of      *)
(* time, the newest kept, and with one event for both everybody is there in   *)
(* the first period (product_analytics/queries.rs query_retention).           *)
RetentionByCalendar(events, range, cohort_event, return_event, type, num_periods) ==
    LET rows == InRange(events, range)
        answer == QueryRetention(events, range, cohort_event, return_event, type, num_periods)
        period(moment) == LET day == DayAt(moment) IN
                          IF type = "week" THEN Calendar!Monday(day) \div 7
                          ELSE 12 * Calendar!YearOf(day) + Calendar!MonthOf(day)
        did(p, event) == {e.at : e \in {r \in rows : r.name = event /\ UserOrVisitor(r) = p}}
        people == {UserOrVisitor(e) : e \in {r \in rows : r.name = cohort_event}}
        began == [p \in people |-> period(Min(did(p, cohort_event)))]
        periods == SetToSortSeq({began[p] : p \in people}, <)
        kept == Min({num_periods, Len(periods)})
    IN  /\ Len(answer) = kept
        /\ \A i \in 1..kept :
             LET users == {p \in people : began[p] = periods[Len(periods) - kept + i]} IN
             /\ answer[i].cohort_size = Cardinality(users)
             /\ \A n \in 0..(num_periods - 1) :
                  answer[i].periods[n] =
                      <<Cardinality({p \in users :
                            \E at \in did(p, return_event) : period(at) = began[p] + n}),
                        Cardinality(users)>>
             /\ cohort_event = return_event /\ num_periods > 0 =>
                  answer[i].periods[0][1] = answer[i].cohort_size

(* Stated of the code and refuted (product_analytics/queries.rs:3-5): a       *)
(* visitor who is known under a user id from some event on counts as that     *)
(* user before it too, so a funnel they complete within the window has them   *)
(* in its last step.                                                          *)
ConvertersCounted(events, range, steps, window) ==
    \A e \in InRange(events, range) :
        LET mine == {r \in FunnelRows(events, range, steps) :
                        /\ r.visitor = e.visitor
                        /\ r.user = e.user \/ (r.user = "" /\ r.at < e.at)}
            converts == \A order \in Orders(mine) : Len(Walk(order, steps, window)) = Len(steps)
        IN  e.user # "" /\ converts =>
                \A counts \in QueryFunnel(events, range, steps, window) : counts[Len(steps)] >= 1
=============================================================================
