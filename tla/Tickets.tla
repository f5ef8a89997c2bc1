------------------------------ MODULE Tickets ------------------------------
(***************************************************************************)
(* What a ticket function makes of a table (brightflow-engine enrichment/  *)
(* ticket_classify.rs and function.rs, brightflow-api enrichment/runner.rs,*)
(* validate.rs and health.rs): the request a row sends, the identity its   *)
(* answer is cached under, the answer checked against the vocabulary, the  *)
(* columns written and the numbers read back from them.                    *)
(*                                                                         *)
(* A name is <<word, spelling>>; two spellings of a word are equal when    *)
(* case is ignored.  A hash is the value it is taken of.  A summary is its *)
(* number of words.                                                        *)
(***************************************************************************)
EXTENDS Integers, Sequences, FiniteSets, SequencesExt, FiniteSetsExt

CONSTANTS None,
          Subtag(_),    \* primary subtag of a language tag, "" for none
          Detected(_)   \* language of the text values, "" when unsure

SummaryMaxWords == 15
Sentiments == {"neutral", "mixed", "positive", "negative"}
Other == <<"other", 0>>
SameName(a, b) == a[1] = b[1]
IsOther(name) == name[1] = "other"

\* The name an entry has now, or its number once it is deleted.
NameOf(names, id) ==
    CASE id = 0            -> Other
      [] id \in DOMAIN names -> names[id]
      [] OTHER             -> <<"#", id>>

ById(entries) == SortSeq(entries, LAMBDA x, y : x.id < y.id)
ByParent(entries) ==
    SortSeq(entries, LAMBDA x, y : x.parent < y.parent \/ (x.parent = y.parent /\ x.id < y.id))
ChildrenOf(entries, parent) == SelectSeq(ById(entries), LAMBDA e : e.parent = parent)

\* --------------------------------------------------- what the model is asked

Lines(entries, names, under) ==
    [i \in DOMAIN entries |-> [name        |-> NameOf(names, entries[i].id),
                               description |-> entries[i].description,
                               under       |-> under]]

\* Each category with its subcategories, then other with those that have none.
SystemPrompt(spec, names) ==
    LET roots == ById(spec.categories)
    IN  FlattenSeq([i \in DOMAIN roots |->
            Lines(<<roots[i]>>, names, None)
                \o Lines(ChildrenOf(spec.subcategories, roots[i].id), names, roots[i].id)])
        \o <<[name |-> Other, description |-> None, under |-> None]>>
        \o Lines(ChildrenOf(spec.subcategories, 0), names, 0)

\* The names the forced tool's schema lists.
ToolSchema(spec, names) ==
    [category    |-> {NameOf(names, e.id) : e \in Range(spec.categories)} \union {Other},
     subcategory |-> {NameOf(names, e.id) : e \in Range(spec.subcategories)} \union {Other},
     sentiment   |-> Sentiments]

\* The prompt rendered with no names, so that a rename cannot reach the key.
SpecHashNamed(spec, names) ==
    [text |-> spec.text, language |-> spec.language, provider |-> spec.provider,
     fingerprint |-> SystemPrompt(spec, names),
     categories |-> ByParent(spec.categories), subcategories |-> ByParent(spec.subcategories)]
SpecHash(spec, names) == SpecHashNamed(spec, <<>>)

VocabularyMatches(spec, other) ==
    /\ ByParent(spec.categories) = ByParent(other.categories)
    /\ ByParent(spec.subcategories) = ByParent(other.subcategories)

InputColumns(spec) ==
    Range(spec.text) \union (IF spec.language = None THEN {} ELSE {spec.language})

AsString(value) == IF value = None THEN "" ELSE value

\* A row's inputs, its nulls empty, with the language they are in.
Rendered(spec, row) ==
    [c \in InputColumns(spec) \union {"__language"} |->
        IF c # "__language" THEN AsString(row[c])
        ELSE IF spec.language # None THEN Subtag(AsString(row[spec.language]))
        ELSE Detected([i \in DOMAIN spec.text |-> AsString(row[spec.text[i]])])]

InputHash(rendered) == rendered

UserPrompt(spec, rendered) ==
    LET filled == SelectSeq(spec.text, LAMBDA c : rendered[c] # "")
    IN  [language |-> IF rendered["__language"] = "" THEN None ELSE rendered["__language"],
         parts    |-> [i \in DOMAIN filled |-> <<filled[i], rendered[filled[i]]>>],
         rejected |-> None]

Messages(spec, names, context, row) ==
    <<[role |-> "system", content |-> <<SystemPrompt(spec, names), context>>],
      [role |-> "user",   content |-> UserPrompt(spec, Rendered(spec, row))]>>

\* The one re-ask: the same turns, what was wrong said at the end of the user's.
ReaskMessages(original, error) ==
    LET last == Len(original)
    IN  IF last > 0 /\ original[last].role = "user"
        THEN [original EXCEPT ![last].content.rejected = error]
        ELSE Append(original, [role |-> "user", content |-> error])

\* ------------------------------------------------------ what it may answer

FindEntry(entries, names, wanted) ==
    LET found == {i \in DOMAIN entries : /\ entries[i].id \in DOMAIN names
                                         /\ SameName(names[entries[i].id], wanted)}
    IN  IF found = {} THEN None ELSE entries[Min(found)].id

ResolveLevel(entries, names, wanted) ==
    CASE wanted = None   -> None
      [] IsOther(wanted) -> 0
      [] OTHER           -> FindEntry(entries, names, wanted)

\* The subcategories an answer may choose from under its category.
ChoosableOfAll(spec, category) == spec.subcategories
Choosable(spec, category) == SelectSeq(spec.subcategories, LAMBDA s : s.parent = category)

\* A cell of ids, or None for an answer that is sent back.
Validate(spec, names, answer) ==
    LET category    == ResolveLevel(spec.categories, names, answer.category)
        subcategory == ResolveLevel(Choosable(spec, category), names, answer.subcategory)
    IN  IF answer.summary \in {None, 0} \/ category = None \/ subcategory = None
           \/ answer.sentiment \notin Sentiments
        THEN None
        ELSE [summary |-> Min({answer.summary, SummaryMaxWords}), category |-> category,
              subcategory |-> subcategory, sentiment |-> answer.sentiment]

DisplayValue(cell, names) ==
    [cell EXCEPT !.category = NameOf(names, cell.category),
                 !.subcategory = NameOf(names, cell.subcategory)]

\* --------------------------------------------------------- what is written

OutputColumns == <<"summary", "language", "category", "subcategory", "sentiment">>
RetiredColumns == <<"sentiment_polarity", "sentiment_strength">>
StatusColumn(function) == function \o "__status"

\* A function is accepted for a table that has its inputs and none of its outputs.
ValidateSpec(spec, columns) ==
    /\ spec.text # <<>>
    /\ InputColumns(spec) \subseteq Range(columns)
    /\ spec.provider # ""
    /\ Range(OutputColumns) \cap Range(columns) = {}

\* One row of the output columns; the language is written whatever the model did.
BuildColumns(rendered, cell, names) ==
    LET shown == IF cell = None THEN None ELSE DisplayValue(cell, names)
    IN  [language    |-> IF rendered["__language"] = "" THEN None ELSE rendered["__language"],
         summary     |-> IF cell = None THEN None ELSE cell.summary,
         category    |-> IF cell = None THEN None ELSE shown.category,
         subcategory |-> IF cell = None THEN None ELSE shown.subcategory,
         sentiment   |-> IF cell = None THEN None ELSE cell.sentiment]

DropStale(columns, stale) == SelectSeq(columns, LAMBDA c : c \notin Range(stale))

\* The table's columns after the function wrote its own.
Materialised(columns, function) ==
    DropStale(columns, OutputColumns \o RetiredColumns \o <<StatusColumn(function)>>)
        \o OutputColumns \o <<StatusColumn(function)>>

\* The columns whose meaning the function declares, with their roles.
DeclaredColumns(function) ==
    [c \in Range(OutputColumns) \union {StatusColumn(function)} |->
        IF c \in {"summary", StatusColumn(function)} THEN "ignored" ELSE "dimension"]

\* ------------------------------------------------------ what is read back

CountValues(values) ==
    [v \in Range(values) \ {None} |-> Cardinality({i \in DOMAIN values : values[i] = v})]

\* A level's counts, its defined entries at zero when no row has them.
WithDefined(counts, defined) ==
    [v \in DOMAIN counts \union defined |-> IF v \in DOMAIN counts THEN counts[v] ELSE 0]

BalanceMax == 40    \* percent
BalanceMin == 2
MinRowsPerEntry == 5

\* A level's health; a share of its rows is kept as the number of them.
Health(counts) ==
    LET rows    == SumFunction(counts)
        entries == {v \in DOMAIN counts : ~IsOther(v)}
    IN  [rows       |-> rows,
         entries    |-> Cardinality(entries),
         other      |-> SumFunctionOnSet(counts, DOMAIN counts \ entries),
         largest    |-> Max({counts[v] : v \in entries} \union {0}),
         unbalanced |-> {v \in entries : /\ rows > 0
                                         /\ \/ 100 * counts[v] < BalanceMin * rows
                                            \/ 100 * counts[v] > BalanceMax * rows},
         tooSmall   |-> {v \in entries : counts[v] \in 1..(MinRowsPerEntry - 1)}]

NamesUnder(entries, names, parent) ==
    {NameOf(names, e.id) : e \in {x \in Range(entries) : x.parent = parent}}

\* The parent a shown category stands for: its entry, other's root, or none
\* when the name shown is not (or no longer) an entry's.
ParentIds(spec, names, category) ==
    IF IsOther(category) THEN {0}
    ELSE {e.id : e \in {x \in Range(spec.categories) : NameOf(names, x.id) = category}}

\* The two levels of the vocabulary, judged by the columns a run wrote.
VocabularyHealth(spec, names, columns) ==
    LET category == [i \in DOMAIN columns |-> columns[i].category]
        Under(c) == [i \in DOMAIN columns |->
                        IF category[i] = c THEN columns[i].subcategory ELSE None]
    IN  [level  |-> Health(WithDefined(CountValues(category),
                                       NamesUnder(spec.categories, names, 0))),
         parent |-> [c \in DOMAIN CountValues(category) |->
                        Health(WithDefined(CountValues(Under(c)),
                            UNION {NamesUnder(spec.subcategories, names, p) :
                                       p \in ParentIds(spec, names, c)}))]]

\* The row-grain summary of the same columns.
TicketSummary(columns) ==
    LET category == [i \in DOMAIN columns |-> columns[i].category]
    IN  [classified |-> Len(SelectSeq(category, LAMBDA c : c # None)),
         categories |-> [c \in DOMAIN CountValues(category) |->
             [rows |-> CountValues(category)[c],
              subcategories |-> CountValues([i \in DOMAIN columns |->
                  IF category[i] = c THEN columns[i].subcategory ELSE None])]],
         sentiment  |-> CountValues([i \in DOMAIN columns |-> columns[i].sentiment]),
         languages  |-> CountValues([i \in DOMAIN columns |-> columns[i].language])]

\* Tokens per language: rows counted each, a cell where its first row is.
UsageByLanguage(rendered, tableLanguage, tokens) ==
    LET language == [i \in DOMAIN rendered |->
            IF rendered[i]["__language"] # "" THEN rendered[i]["__language"]
            ELSE IF tableLanguage[i] # None THEN tableLanguage[i] ELSE "unknown"]
        First(i) == \A j \in 1..(i - 1) : InputHash(rendered[j]) # InputHash(rendered[i])
    IN  [l \in Range(language) |->
            LET mine  == {i \in DOMAIN rendered : language[i] = l}
                cells == {i \in mine : First(i) /\ InputHash(rendered[i]) \in DOMAIN tokens}
            IN  [rows   |-> Cardinality(mine),
                 cells  |-> Cardinality(cells),
                 tokens |-> FoldSet(LAMBDA i, acc : acc + tokens[InputHash(rendered[i])],
                                    0, cells)]]

\* ------------------------------------------------------------- properties

\* No two entries the model chooses between have names that differ in case only.
NamesApart(spec, names) ==
    \A e, f \in Range(spec.categories) \union Range(spec.subcategories) :
        e # f /\ e.parent = f.parent => ~SameName(NameOf(names, e.id), NameOf(names, f.id))

(* Whatever the prompt offers under a category is accepted and shown again  *)
(* under that category, even where two categories have a subcategory of one *)
(* name; whatever is accepted was offered; and the schema forces the names  *)
(* the prompt explains.                                                     *)
OfferedIsAccepted(spec, names, answer) ==
    LET offered == Range(SystemPrompt(spec, names))
        cell    == Validate(spec, names, answer)
        shown   == DisplayValue(cell, names)
        schema  == ToolSchema(spec, names)
    IN  /\ schema.category \union schema.subcategory = {o.name : o \in offered}
        /\ cell # None =>
            /\ \E o \in offered : o.under = None /\ o.name = shown.category
            /\ \/ cell.subcategory = 0
               \/ \E o \in offered : o.under = cell.category /\ o.name = shown.subcategory
        /\ NamesApart(spec, names) =>
            \A o \in {x \in offered : x.under # None} :
                LET said == [answer EXCEPT !.summary = 1, !.sentiment = "mixed",
                                           !.category = NameOf(names, o.under),
                                           !.subcategory = o.name]
                IN  /\ Validate(spec, names, said) # None
                    /\ DisplayValue(Validate(spec, names, said), names).subcategory = o.name
                    /\ Validate(spec, names, said).category = o.under

(* A cached answer is found again exactly while the definitions stand: a    *)
(* rename or another order of the entries does not move the key, and every  *)
(* other edit of the vocabulary does; the check that writes a new version   *)
(* of the function agrees.                                                  *)
KeyTracksDefinitions(spec, other, names, renamed) ==
    /\ SpecHash(spec, names) = SpecHash(spec, renamed)
    /\ VocabularyMatches(spec, other) <=>
         SpecHash(spec, names) = SpecHash([other EXCEPT !.text = spec.text], renamed)

(* Rows that share a cache key send the same request, and the one re-ask    *)
(* keeps the turns of the request it repeats.                               *)
EqualRowsAskTheSame(spec, names, context, rows) ==
    \A r, s \in Range(rows) :
        LET asked == Messages(spec, names, context, r)
            again == ReaskMessages(asked, "error")
        IN  /\ InputHash(Rendered(spec, r)) = InputHash(Rendered(spec, s)) =>
                 asked = Messages(spec, names, context, s)
            /\ [i \in DOMAIN asked |-> asked[i].role] = [i \in DOMAIN again |-> again[i].role]
            /\ again # asked

(* Writing a function's columns again replaces them and nothing else: each  *)
(* once, no column of an older shape beside them, the table's own columns in*)
(* their order, and a meaning declared for each column written.             *)
RematerialisedOnce(spec, columns, older, function) ==
    LET own   == columns \o SelectSeq(older, LAMBDA c : c \notin Range(columns))
        once  == Materialised(own, function)
        twice == Materialised(once, function)
    IN  ValidateSpec(spec, columns) /\ Range(columns) \cap Range(RetiredColumns) = {} =>
          /\ twice = once
          /\ IsInjective(once)
          /\ Range(RetiredColumns) \cap Range(once) = {}
          /\ SubSeq(once, 1, Len(columns)) = columns
          /\ DOMAIN DeclaredColumns(function) = Range(once) \ Range(columns)

(* The reports read from the columns agree: every classified row is counted *)
(* once at its category and once under it, the health of a level adds up    *)
(* with the row counts, an entry no row fell in is reported, and a cell     *)
(* shared by rows is paid for once.                                         *)
ReportsAddUp(spec, names, rendered, cells, tokens) ==
    LET columns == [i \in DOMAIN rendered |-> BuildColumns(rendered[i], cells[i], names)]
        health  == VocabularyHealth(spec, names, columns)
        summary == TicketSummary(columns)
        usage   == UsageByLanguage(rendered, [i \in DOMAIN rendered |-> None], tokens)
        Sum(f(_), S) == FoldSet(LAMBDA x, acc : acc + f(x), 0, S)
    IN  /\ health.level.rows = summary.classified
        /\ Sum(LAMBDA c : health.parent[c].rows, DOMAIN health.parent) = summary.classified
        /\ \A c \in DOMAIN summary.categories :
             SumFunction(summary.categories[c].subcategories) = summary.categories[c].rows
        /\ summary.classified > 0 =>
             \A e \in Range(spec.categories) :
                 (\A i \in DOMAIN cells : cells[i] # None => cells[i].category # e.id)
                     => NameOf(names, e.id) \in health.level.unbalanced
        /\ Sum(LAMBDA l : usage[l].rows, DOMAIN usage) = Len(rendered)
        /\ Sum(LAMBDA l : usage[l].tokens, DOMAIN usage) =
             SumFunctionOnSet(tokens, DOMAIN tokens \cap {InputHash(r) : r \in Range(rendered)})
====
