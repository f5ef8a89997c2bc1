------------------------------ MODULE Mentions ------------------------------
(***************************************************************************)
(* Mention extraction (brightflow-engine enrichment/mentions.rs,           *)
(* brightflow-api enrichment/vocab.rs, runner.rs and mentions_api.rs): the *)
(* vocabulary a run snapshots, the answer checked into mention cells, and  *)
(* the four things built from the cells, the child table, the flags on the *)
(* parent row, the queue of unresolved subjects and the summary per        *)
(* subject.                                                                *)
(*                                                                         *)
(* A name or surface is <<word, spelling, length>>: two spellings of a word*)
(* are one surface when case is ignored, a "long" surface is cut when      *)
(* stored.  A vocabulary row is [id, kind, parent, name, description,      *)
(* aliases].                                                               *)
(***************************************************************************)
EXTENDS Integers, Sequences, FiniteSets, SequencesExt, FiniteSetsExt

CONSTANT None

MentionTypes == {"product", "competitor", "pricing", "service", "feedback"}
Sentiments == {"neutral", "mixed", "positive", "negative"}
MaxMentions == 50
Other == <<"other", 0, "short">>
IsOther(name) == name[1] = "other"

\* What is compared of a surface, and what is stored of it.
Folded(surface) == <<surface[1], surface[3]>>
NormalizePhrase(surface) == <<surface[1], surface[2], "short">>

NameOf(names, id) ==
    CASE id = 0              -> Other
      [] id \in DOMAIN names -> names[id]
      [] OTHER               -> <<"#", id, "short">>

\* ----------------------------------------------------- the run's vocabulary

ImportedKinds == {"product", "competitor"}

\* The first entry that registers a surface keeps it.
Add(resolver, surface, id) ==
    [s \in DOMAIN resolver \union {Folded(surface)} |->
        IF s \in DOMAIN resolver THEN resolver[s] ELSE id]

Resolve(resolver, surface) ==
    IF Folded(surface) \in DOMAIN resolver THEN resolver[Folded(surface)] ELSE None

ResolverOf(rows) ==
    FoldLeft(LAMBDA r, row : IF row.kind \notin ImportedKinds THEN r
                ELSE FoldLeft(LAMBDA acc, s : Add(acc, s, row.id), r, <<row.name>> \o row.aliases),
             <<>>, rows)

NamesOf(rows) ==
    [id \in {row.id : row \in Range(rows)} |->
        (CHOOSE row \in Range(rows) : row.id = id).name]

LoadExtract(rows) ==
    [feedback |-> SelectSeq(rows, LAMBDA row : row.kind = "feedback_category"),
     products |-> SelectSeq(rows, LAMBDA row : row.kind = "product"),
     competitors |-> SelectSeq(rows, LAMBDA row : row.kind = "competitor"),
     names    |-> NamesOf(rows),
     resolver |-> ResolverOf(rows)]

\* A level as the prompt lists it: roots by id, each with its children.
Level(entries, names) ==
    LET by == SortSeq(entries, LAMBDA x, y : x.id < y.id)
        roots == SelectSeq(by, LAMBDA e : e.parent = 0)
        Line(e) == <<NameOf(names, e.id), e.description>>
    IN  FlattenSeq([i \in DOMAIN roots |->
            LET children == SelectSeq(by, LAMBDA e : e.parent = roots[i].id)
            IN  <<Line(roots[i])>> \o [j \in DOMAIN children |-> Line(children[j])]])

SystemPrompt(vocabulary, names) ==
    <<Level(vocabulary.products, names), Level(vocabulary.competitors, names),
      Append(Level(vocabulary.feedback, names), <<Other, None>>)>>

\* The identity answers are cached under holds no names.
ExtractHash(vocabulary) ==
    LET Snapshot(entries) ==
            {[id |-> e.id, parent |-> e.parent, description |-> e.description] :
                 e \in Range(entries)}
    IN  [prompt |-> SystemPrompt(vocabulary, <<>>),
         products |-> Snapshot(vocabulary.products),
         competitors |-> Snapshot(vocabulary.competitors),
         feedback |-> Snapshot(vocabulary.feedback)]

\* ---------------------------------------------------- the answer it accepts

FeedbackCategory(vocabulary, said) ==
    IF said = None \/ IsOther(said) THEN 0
    ELSE LET found == {i \in DOMAIN vocabulary.feedback :
                          LET id == vocabulary.feedback[i].id
                          IN  id \in DOMAIN vocabulary.names
                              /\ vocabulary.names[id][1] = said[1]}
         IN  IF found = {} THEN None ELSE vocabulary.feedback[Min(found)].id

\* A mention of the answer is sent back when any part of it is not usable.
Rejected(vocabulary, m) ==
    \/ m.type \notin MentionTypes
    \/ m.sentiment \notin Sentiments
    \/ m.type \in ImportedKinds /\ m.subject = None
    \/ m.type = "feedback" /\ (m.summary = None \/ FeedbackCategory(vocabulary, m.category) = None)

Mention(vocabulary, m) ==
    LET id == IF m.subject = None THEN None ELSE Resolve(vocabulary.resolver, m.subject)
        isFeedback == m.type = "feedback"
    IN  [type       |-> m.type,
         subjectId  |-> id,
         surface    |-> IF m.subject = None \/ id # None THEN None ELSE NormalizePhrase(m.subject),
         summary    |-> IF isFeedback THEN NormalizePhrase(m.summary) ELSE None,
         category   |-> IF isFeedback THEN FeedbackCategory(vocabulary, m.category) ELSE None,
         incidental |-> m.incidental,
         sentiment  |-> m.sentiment]

\* A cell is the sequence of a ticket's mentions, None while it has no answer.
Validate(vocabulary, answer) ==
    IF Len(answer) > MaxMentions \/ \E i \in DOMAIN answer : Rejected(vocabulary, answer[i])
    THEN None
    ELSE [i \in DOMAIN answer |-> Mention(vocabulary, answer[i])]

\* A surface the vocabulary has come to know is resolved without a call.
Known(resolver, m) ==
    IF m.subjectId # None \/ m.surface = None \/ Resolve(resolver, m.surface) = None THEN m
    ELSE [m EXCEPT !.subjectId = Resolve(resolver, m.surface), !.surface = None]

ExtractCells(values, resolver) ==
    [i \in DOMAIN values |->
        IF values[i] = None THEN None
        ELSE [j \in DOMAIN values[i] |-> Known(resolver, values[i][j])]]

\* ---------------------------------------------------- what is built of them

\* One row per mention, ticket by ticket.
BuildMentionRows(tickets, cells, names) ==
    FlattenSeq([i \in DOMAIN cells |->
        IF cells[i] = None THEN <<>>
        ELSE [j \in DOMAIN cells[i] |->
                 [ticket |-> tickets[i], idx |-> j - 1, mention |-> cells[i][j],
                  subject |-> IF cells[i][j].subjectId = None THEN None
                              ELSE NameOf(names, cells[i][j].subjectId)]]])

\* The flags of a parent row; none of them is false for a ticket not extracted.
DeriveTicketFlags(cells) ==
    [i \in DOMAIN cells |->
        IF cells[i] = None THEN None
        ELSE [feedback   |-> \E m \in Range(cells[i]) : m.type = "feedback",
              incidental |-> \E m \in Range(cells[i]) : m.type = "feedback" /\ m.incidental,
              competitor |-> \E m \in Range(cells[i]) : m.type = "competitor",
              count      |-> Len(cells[i])]]

Unresolved(m) == m.subjectId = None /\ m.surface # None

\* How often each surface was named, for the review queue.
UnresolvedSurfaces(cells) ==
    LET all == FlattenSeq(SelectSeq(cells, LAMBDA c : c # None))
    IN  [key \in {<<m.type, m.surface>> : m \in {x \in Range(all) : Unresolved(x)}} |->
            Cardinality({i \in DOMAIN all :
                Unresolved(all[i]) /\ <<all[i].type, all[i].surface>> = key})]

\* The headline numbers of each subject, an unresolved one under its surface.
SummarizeMentions(rows) ==
    LET Named(r) == r.subject # None \/ r.mention.surface # None
        Key(r) == <<r.mention.type,
                    IF r.subject # None THEN r.subject ELSE r.mention.surface,
                    r.mention.subjectId # None>>
        Of(key) == {i \in DOMAIN rows : Named(rows[i]) /\ Key(rows[i]) = key}
        Tally(key, is(_)) == Cardinality({i \in Of(key) : is(rows[i].mention)})
    IN  [key \in {Key(r) : r \in {x \in Range(rows) : Named(x)}} |->
            [mentions   |-> Cardinality(Of(key)),
             distinct   |-> Cardinality({rows[i].ticket : i \in Of(key)}),
             negative   |-> Tally(key, LAMBDA m : m.sentiment = "negative"),
             positive   |-> Tally(key, LAMBDA m : m.sentiment = "positive"),
             incidental |-> Tally(key, LAMBDA m : m.incidental)]]

\* The child table follows the run: replaced whole, first made by a mention.
WriteChildTable(child, rows) == IF child = None /\ rows = <<>> THEN None ELSE rows

MentionSummary(child) ==
    IF child = None THEN [total |-> 0, subjects |-> <<>>]
    ELSE [total |-> Len(child), subjects |-> SummarizeMentions(child)]

\* ------------------------------------------------------------- properties

(* The flags on a ticket, the rows of the child table, the queue and the    *)
(* summary are built in four places from the same cells and say the same:   *)
(* a ticket counts its rows, a queued surface counts the rows that carry it *)
(* over all tickets, and the summary's unresolved subjects are the queue's. *)
FourViewsAgree(rows, answers) ==
    LET vocabulary == LoadExtract(rows)
        cells   == ExtractCells([i \in DOMAIN answers |->
                       IF answers[i] = None THEN None ELSE Validate(vocabulary, answers[i])],
                       vocabulary.resolver)
        child   == BuildMentionRows([i \in DOMAIN cells |-> i], cells, vocabulary.names)
        flags   == DeriveTicketFlags(cells)
        queue   == UnresolvedSurfaces(cells)
        summary == MentionSummary(WriteChildTable(None, child)).subjects
        Of(i)   == SelectSeq(child, LAMBDA r : r.ticket = i)
    IN  /\ \A i \in DOMAIN flags :
             IF flags[i] = None THEN Of(i) = <<>>
             ELSE /\ flags[i].count = Len(Of(i))
                  /\ flags[i].competitor <=> \E r \in Range(Of(i)) : r.mention.type = "competitor"
                  /\ flags[i].incidental => flags[i].feedback
        /\ {<<k[1], k[2]>> : k \in {x \in DOMAIN summary : ~x[3]}} = DOMAIN queue
        /\ \A k \in DOMAIN queue : summary[<<k[1], k[2], FALSE>>].mentions = queue[k]
        /\ \A k \in DOMAIN summary : summary[k].distinct <= summary[k].mentions

(* Mapping a queued surface gives the entry as a further alias and resolves *)
(* at the next run, without a call: exactly the unresolved mentions spelled *)
(* that way in any case become the entry's, the surface leaves the queue,   *)
(* resolved mentions keep their entry, and the cache keys stay.             *)
MappingMovesItsMentions(rows, answers, target, surface) ==
    LET before  == LoadExtract(rows)
        mapped  == [i \in DOMAIN rows |->
                       IF rows[i].id # target THEN rows[i]
                       ELSE [rows[i] EXCEPT !.aliases = Append(@, surface)]]
        after   == LoadExtract(mapped)
        stored  == [i \in DOMAIN answers |->
                       IF answers[i] = None THEN None ELSE Validate(before, answers[i])]
        old     == ExtractCells(stored, before.resolver)
        new     == ExtractCells(stored, after.resolver)
        queue   == UnresolvedSurfaces(old)
        isQueued == \E k \in DOMAIN queue : k[2] = surface
        Left(k) == Folded(k[2]) # Folded(surface)
    IN  isQueued =>
          /\ ExtractHash(after) = ExtractHash(before)
          /\ UnresolvedSurfaces(new) = [k \in {x \in DOMAIN queue : Left(x)} |-> queue[k]]
          /\ \A i \in DOMAIN old : old[i] # None =>
               \A j \in DOMAIN old[i] :
                 new[i][j].subjectId = IF Unresolved(old[i][j])
                                          /\ Folded(old[i][j].surface) = Folded(surface)
                                       THEN target ELSE old[i][j].subjectId
          /\ [i \in DOMAIN new |-> new[i] = None] = [i \in DOMAIN old |-> old[i] = None]

=============================================================================
