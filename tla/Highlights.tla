------------------------------ MODULE Highlights ------------------------------
(***************************************************************************)
(* What a text search marks in the texts it shows (textexplore). Terms are *)
(* matched in the lowered text, where one character may have become        *)
(* several; what is marked are whole characters of the original. Texts are *)
(* sequences of characters, a range is <<first, one past the last>>.       *)
(***************************************************************************)
EXTENDS Integers, Sequences, FiniteSets, FiniteSetsExt, SequencesExt, TLC

CONSTANTS
    Lower(_),     \* what a character becomes in lower case, a sequence
    Alphanumeric  \* the lowered characters that make words

LoweredText(original) == FlattenSeq([i \in DOMAIN original |-> Lower(original[i])])

\* For each lowered character the original one it comes from.
Origins(original) ==
    FlattenSeq([i \in DOMAIN original |-> [j \in DOMAIN Lower(original[i]) |-> i]])

\* A match that covers only part of what one character became covers it all.
ToOriginal(original, range) ==
    LET from == Origins(original)
        At(p) == IF p \in DOMAIN from THEN from[p] ELSE Len(original) + 1
        end == range[2]
    IN <<At(range[1]),
         IF end \in DOMAIN from /\ from[end - 1] = from[end] THEN from[end] + 1 ELSE At(end)>>

AtWordBoundary(hay, range) ==
    /\ range[1] > 1 => hay[range[1] - 1] \notin Alphanumeric
    /\ range[2] <= Len(hay) => hay[range[2]] \notin Alphanumeric

Occurrences(hay, needle, wholeWord) ==
    {r \in {<<p, p + Len(needle)>> : p \in 1..(Len(hay) - Len(needle) + 1)} :
        /\ needle # <<>> /\ SubSeq(hay, r[1], r[2] - 1) = needle
        /\ wholeWord => AtWordBoundary(hay, r)}

\* The filter: which texts a search finds.
ContainsTerm(hay, needle, wholeWord) ==
    (~wholeWord /\ needle = <<>>) \/ Occurrences(hay, needle, wholeWord) # {}

\* Ranges come sorted; one that overlaps or touches the last is joined to it.
Merged(ranges, r) ==
    IF ranges # <<>> /\ r[1] <= Last(ranges)[2]
    THEN [ranges EXCEPT ![Len(ranges)][2] = IF @ < r[2] THEN r[2] ELSE @]
    ELSE Append(ranges, r)

MatchRanges(original, terms, wholeWord) ==
    LET raw == {ToOriginal(original, r) :
                   r \in UNION {Occurrences(LoweredText(original), t, wholeWord) : t \in terms}}
        Before(a, b) == a[1] < b[1] \/ (a[1] = b[1] /\ a[2] < b[2])
    IN FoldLeft(Merged, <<>>,
                SortSeq(SetToSeq({r \in raw : r[2] > r[1]}), Before))

Run(text, hl) == [t |-> text, hl |-> hl]
PlainRun(text) == IF text = <<>> THEN <<>> ELSE <<Run(text, FALSE)>>

RunsFromRanges(original, ranges) ==
    LET Step(acc, r) ==
            <<acc[1] \o PlainRun(SubSeq(original, acc[2], r[1] - 1))
                     \o <<Run(SubSeq(original, r[1], r[2] - 1), TRUE)>>, r[2]>>
        all == FoldLeft(Step, <<<<>>, 1>>, ranges)
    IN all[1] \o PlainRun(SubSeq(original, all[2], Len(original)))

HighlightRuns(original, terms, wholeWord) ==
    RunsFromRanges(original, MatchRanges(original, terms, wholeWord))

\* The part of a body around its first match, with so many characters of context
\* on each side, or its head when nothing matches.
Window(body, terms, wholeWord, context, head) ==
    LET ranges == MatchRanges(body, terms, wholeWord) IN
    IF ranges = <<>> THEN <<1, Min({head, Len(body)}) + 1>>
    ELSE <<Max({1, ranges[1][1] - context}), Min({ranges[1][2] + context, Len(body) + 1})>>

\* Runs of a snippet, and whether it is cut on the left and on the right. Only
\* the part that is shown is searched again.
SnippetRuns(body, terms, wholeWord, context, head) ==
    LET w == Window(body, terms, wholeWord, context, head)
        part == SubSeq(body, w[1], w[2] - 1)
    IN [runs |-> IF MatchRanges(body, terms, wholeWord) = <<>> THEN PlainRun(part)
                 ELSE HighlightRuns(part, terms, wholeWord),
        left |-> w[1] > 1, right |-> w[2] <= Len(body)]

-----------------------------------------------------------------------------
Text(runs) == FlattenSeq([i \in DOMAIN runs |-> runs[i].t])
Marks(runs) == FlattenSeq([i \in DOMAIN runs |-> [j \in DOMAIN runs[i].t |-> runs[i].hl]])

\* The runs put together are the text, none is empty, marked and plain ones
\* alternate, and a character is marked exactly if some of what it became in
\* lower case lies in an occurrence of a term (highlight.rs:36-57, 103-136).
CharactersMarked(original, terms, wholeWord) ==
    LET runs == HighlightRuns(original, terms, wholeWord)
        from == Origins(original)
    IN /\ Text(runs) = original
       /\ \A i \in DOMAIN runs : runs[i].t # <<>> /\ (i > 1 => runs[i].hl # runs[i - 1].hl)
       /\ \A c \in DOMAIN original :
             Marks(runs)[c] <=>
                \E t \in terms : \E r \in Occurrences(LoweredText(original), t, wholeWord) :
                    \E p \in r[1]..(r[2] - 1) : from[p] = c

\* "match and highlight semantics agree by construction" (highlight.rs:91-92).
FilterAgrees(original, terms, wholeWord) ==
    (\E t \in terms : t # <<>> /\ ContainsTerm(LoweredText(original), t, wholeWord))
        <=> TRUE \in Range(Marks(HighlightRuns(original, terms, wholeWord)))

\* A snippet is a piece of the body with the body's first match in it, marked,
\* and, unless whole words are asked for, marks nothing the body does not. (A
\* word the window cuts may become a whole one.)
SnippetShowsMatch(body, terms, wholeWord, context, head) ==
    LET snippet == SnippetRuns(body, terms, wholeWord, context, head)
        w == Window(body, terms, wholeWord, context, head)
        ranges == MatchRanges(body, terms, wholeWord)
        whole == Marks(HighlightRuns(body, terms, wholeWord))
        part == Marks(snippet.runs)
    IN /\ Text(snippet.runs) = SubSeq(body, w[1], w[2] - 1)
       /\ ranges # <<>> => \A c \in ranges[1][1]..(ranges[1][2] - 1) : part[c - w[1] + 1]
       /\ ~wholeWord => \A i \in DOMAIN part : part[i] => whole[i + w[1] - 1]

HighlightsSound(original, terms, wholeWord, context, head) ==
    /\ CharactersMarked(original, terms, wholeWord)
    /\ FilterAgrees(original, terms, wholeWord)
    /\ SnippetShowsMatch(original, terms, wholeWord, context, head)
=============================================================================
