------------------------------ MODULE Columns ------------------------------
(***************************************************************************)
(* What a report takes the columns of a table for (brightflow-engine       *)
(* data/schema.rs, data/merge.rs) and which period it puts a row in        *)
(* (analysis/period.rs).                                                   *)
(*                                                                         *)
(* A column is [name, dtype, few, named, mentions]: `few` says it has few  *)
(* distinct values, `named` that its name is one of the three names of a   *)
(* time axis, `mentions` that the name has "date" or "time" in it.  Days   *)
(* are counted from Monday 30 December 1968 (day 1); 1 January 1970 is     *)
(* day EpochDay.                                                           *)
(***************************************************************************)
EXTENDS Integers, Sequences, FiniteSets, SequencesExt

CONSTANT None

\* ------------------------------------------------------------- detection

DetectColumn(c) ==
    CASE c.dtype = "temporal"                -> "time"
      [] c.dtype = "number" /\ c.few         -> "dimension"
      [] c.dtype = "number" /\ ~c.few        -> "measure"
      [] c.dtype = "string" /\ c.named       -> "timeByName"
      [] c.dtype = "string" /\ ~c.named      -> "dimension"
      [] c.dtype = "categorical"             -> "dimension"
      [] OTHER                               -> "unplaced"

EmptySchema ==
    [measures |-> <<>>, kpis |-> <<>>, dimensions |-> <<>>, times |-> <<>>, axis |-> None,
     entities |-> <<>>, polarity |-> {}, granularity |-> "month"]

Axis(schema, name) == IF schema.axis = None THEN name ELSE schema.axis

PlaceDetected(schema, name, detected) ==
    CASE detected = "time"       -> [schema EXCEPT !.times = Append(@, name), !.axis = Axis(schema, name)]
      [] detected = "measure"    -> [schema EXCEPT !.measures = Append(@, name)]
      [] detected = "dimension"  -> [schema EXCEPT !.dimensions = Append(@, name)]
      [] detected = "timeByName" -> [schema EXCEPT !.dimensions = Append(@, name), !.axis = Axis(schema, name)]
      [] OTHER                   -> schema

\* The last resort for an axis: the first column, if its name mentions time.
FirstColumnAxis(columns) ==
    IF columns # <<>> /\ columns[1].mentions THEN columns[1].name ELSE None

Settled(schema, columns) == [schema EXCEPT !.axis = IF @ = None THEN FirstColumnAxis(columns) ELSE @]

DetectSchema(columns) ==
    Settled(FoldLeft(LAMBDA s, c : PlaceDetected(s, c.name, DetectColumn(c)), EmptySchema, columns), columns)

\* What the detector declares of a table: a role for every column.
DetectedRole(schema, name) ==
    IF name = schema.axis \/ name \in Range(schema.times) THEN "time"
    ELSE IF name \in Range(schema.measures) THEN "measure"
    ELSE IF name \in Range(schema.dimensions) THEN "dimension" ELSE "ignored"

DetectedDeclaration(columns) ==
    LET schema == DetectSchema(columns)
    IN  [i \in DOMAIN columns |->
            LET role == DetectedRole(schema, columns[i].name)
            IN  [name |-> columns[i].name, role |-> role, isKpi |-> FALSE, polarity |-> None,
                 isTime |-> role = "time" /\ columns[i].dtype # "temporal"]]

\* ----------------------------------------------------------------- merge

\* A stated role places the column, a roleless one is detected.  The first
\* stated time column takes the axis even from one placed earlier.
Placed(s, c, row) ==
    LET role == IF row = None THEN None ELSE row.role
        kpi(schema) == IF row # None /\ row.isKpi THEN [schema EXCEPT !.kpis = Append(@, c.name)] ELSE schema
        said == IF row = None \/ row.polarity \in {None, "neutral"} THEN s
                ELSE [s EXCEPT !.schema.polarity = @ \cup {<<c.name, row.polarity>>}]
        detected == DetectColumn(c)
    IN  CASE role = "measure"   -> [said EXCEPT !.schema = kpi([@ EXCEPT !.measures = Append(@, c.name)])]
          [] role = "dimension" -> [said EXCEPT !.schema.dimensions = Append(@, c.name)]
          [] role = "time"      -> [said EXCEPT !.schema.times = Append(@, c.name),
                                                !.schema.axis = IF said.stated THEN @ ELSE c.name,
                                                !.stated = TRUE]
          [] role = "entity"    -> [said EXCEPT !.schema.entities = Append(@, c.name)]
          [] role = "ignored"   -> said
          [] role = None        ->
                [said EXCEPT !.schema = IF detected = "measure"
                                        THEN kpi(PlaceDetected(@, c.name, detected))
                                        ELSE PlaceDetected(@, c.name, detected)]

\* A declared metric makes its column a measure, and a KPI's a KPI; its
\* polarity applies where the column has none.
WithMetric(schema, metric, names) ==
    LET added(list) == IF metric.column \in Range(list) THEN list ELSE Append(list, metric.column)
    IN  IF metric.column \notin names THEN schema
        ELSE [schema EXCEPT
                !.measures = added(@),
                !.kpis     = IF metric.isKpi THEN added(@) ELSE @,
                !.polarity = IF \/ metric.polarity \in {None, "neutral"}
                                \/ \E p \in @ : p[1] = metric.column
                             THEN @ ELSE @ \cup {<<metric.column, metric.polarity>>}]

BuildSchema(columns, rows, granularity, metrics) ==
    LET RowOf(name) ==
            IF \E i \in DOMAIN rows : rows[i].name = name
            THEN rows[CHOOSE i \in DOMAIN rows : rows[i].name = name] ELSE None
        placed == FoldLeft(LAMBDA s, c : Placed(s, c, RowOf(c.name)),
                           [schema |-> EmptySchema, stated |-> FALSE], columns).schema
        settled == Settled(placed, columns)
        dated == IF granularity = None THEN settled ELSE [settled EXCEPT !.granularity = granularity]
    IN  IF rows = <<>> /\ granularity = None /\ metrics = <<>> THEN DetectSchema(columns)
        ELSE FoldLeft(LAMBDA s, m : WithMetric(s, m, {columns[i].name : i \in DOMAIN columns}), dated, metrics)

\* --------------------------------------------------------------- periods

LeapYear(y) == y % 4 = 0

\* The day 1 January of a year is; 1969 begins on Wednesday, day 3.  Every
\* fourth year from 1972 on is a leap year until 2100.
NewYear(y) == 3 + 365 * (y - 1969) + (y - 1969) \div 4
EpochDay == NewYear(1970)

YearOf(day) ==
    CHOOSE y \in 1969 + (day - 3) \div 366 .. 1969 + (day - 3) \div 365 :
        NewYear(y) <= day /\ day < NewYear(y + 1)
DayOfYear(day) == day - NewYear(YearOf(day))

MonthLengths(y) == <<31, IF LeapYear(y) THEN 29 ELSE 28, 31, 30, 31, 30, 31, 31, 30, 31, 30, 31>>
MonthStarts(y) ==
    [m \in 1 .. 12 |-> FoldLeft(LAMBDA acc, l : acc + l, 0, SubSeq(MonthLengths(y), 1, m - 1))]
MonthOf(day) ==
    CHOOSE m \in 1 .. 12 :
        /\ MonthStarts(YearOf(day))[m] <= DayOfYear(day)
        /\ m = 12 \/ DayOfYear(day) < MonthStarts(YearOf(day))[m + 1]

\* A week belongs to the year its Thursday is in.
Monday(day) == day - ((day - 1) % 7)
IsoWeek(day) == DayOfYear(Monday(day) + 3) \div 7 + 1
IsoYear(day) == YearOf(Monday(day) + 3)

WeekYear(day) == IsoYear(day)

\* The label of a day's period.  Labels are text of one width per
\* granularity, so their order is the order of these numbers.
FormatPeriod(day, granularity) ==
    CASE granularity = "day"     -> day
      [] granularity = "week"    -> WeekYear(day) * 100 + IsoWeek(day)
      [] granularity = "month"   -> YearOf(day) * 100 + MonthOf(day)
      [] granularity = "quarter" -> YearOf(day) * 10 + (MonthOf(day) - 1) \div 3 + 1
      [] granularity = "year"    -> YearOf(day)

\* How a column may hold a day, counted in days of its own unit since 1970:
\* ticks of a datetime, or a number that is seconds unless it is past 2100.
Divisor(unit) == CASE unit = "ms" -> 1000 [] unit = "us" -> 1000000

Past2100 == 47482

DayHeld(dtype, value) ==
    CASE dtype = "date"   -> value + EpochDay
      [] dtype = "number" -> (IF value > Past2100 THEN value \div 1000 ELSE value) + EpochDay
      [] OTHER            -> value \div Divisor(dtype) + EpochDay

DateOf(day, month, year) ==
    IF month \in 1 .. 12 /\ day \in 1 .. MonthLengths(year)[month]
    THEN NewYear(year) + MonthStarts(year)[month] + day - 1 ELSE None

\* A slash date that can be read both ways is day first.
SlashDate(first, second, year) ==
    IF DateOf(first, second, year) # None THEN DateOf(first, second, year)
    ELSE DateOf(second, first, year)

\* ------------------------------------------------------------ properties

\* "Values where the day exceeds 12 are unambiguous and land correctly either
\* way" (analysis/period.rs): in the month that is named, on a day of that number.
OneReadingStands(first, second, year) ==
    LET read == SlashDate(first, second, year)
    IN  first > 12 \/ second > 12 =>
            /\ read = SlashDate(second, first, year)
            /\ read # None =>
                 /\ YearOf(read) = year
                 /\ MonthOf(read) \in {first, second}
                 /\ DayOfYear(read) - MonthStarts(year)[MonthOf(read)] + 1 \in {first, second}

\* "A table that has been detected is never re-detected" (data/merge.rs): the
\* detected layer's own rows build the schema that detection builds, but for
\* an axis chosen by its name, which detection alone also leaves where its
\* type put it.
DetectedLayerIsTheDetection(columns) ==
    LET bare  == DetectSchema(columns)
        again == BuildSchema(columns, DetectedDeclaration(columns), None, <<>>)
        besides(list) == SelectSeq(list, LAMBDA n : n # bare.axis)
    IN  /\ again.axis = bare.axis
        /\ besides(again.measures) = besides(bare.measures)
        /\ besides(again.dimensions) = besides(bare.dimensions)
        /\ besides(again.times) = besides(bare.times)
        /\ \A list \in {again.measures, again.dimensions} : bare.axis \notin Range(list)

\* A column is analysed as one thing: stated roles are kept, whatever the
\* detector would say, and only a metric makes a second use of a column.
StatedRolesStand(columns, rows) ==
    LET s == BuildSchema(columns, rows, None, <<>>)
        where(role) == CASE role = "measure" -> Range(s.measures) [] role = "dimension" -> Range(s.dimensions)
                         [] role = "time" -> Range(s.times) [] role = "entity" -> Range(s.entities)
        Roles == {"measure", "dimension", "time", "entity"}
    IN  \A i \in DOMAIN rows :
            (rows[i].name \in {columns[j].name : j \in DOMAIN columns} /\ rows[i].role # None) =>
                /\ \A role \in Roles : (rows[i].name \in where(role)) <=> (role = rows[i].role)
                /\ (rows[i].role = "time") => \E j \in DOMAIN rows : rows[j].role = "time" /\ s.axis = rows[j].name

\* Periods are compared and sorted as text: their order is the order of time,
\* and two days share a label only in one period.
LabelsFollowTime(day, later, granularity) ==
    /\ (day <= later) => FormatPeriod(day, granularity) <= FormatPeriod(later, granularity)
    /\ (granularity = "week") =>
          ((FormatPeriod(day, granularity) = FormatPeriod(later, granularity)) <=> (Monday(day) = Monday(later)))

\* A day is the same day however the column holds it.  (A number of
\* milliseconds is told from seconds only after the first weeks of 1970.)
OneDayHoweverHeld(day) ==
    LET since == day - EpochDay
    IN  /\ DayHeld("date", since) = day
        /\ DayHeld("ms", since * 1000) = day
        /\ since \in 0 .. Past2100 => DayHeld("number", since) = day
        /\ since * 1000 > Past2100 => DayHeld("number", since * 1000) = day
=============================================================================
