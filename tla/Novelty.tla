------------------------------- MODULE Novelty -------------------------------
(***************************************************************************)
(* One story across the reports people run: the history row that quiets    *)
(* it, read before a report and written after it.  A row says how often    *)
(* the story was shown, whether lately, and with what signature.           *)
(***************************************************************************)
EXTENDS Reports

Finding1 == [kind |-> "trend", measure |-> "revenue", dimension |-> None, value |-> None, up |-> TRUE]
Context == [kpis |-> {}, metrics |-> {}, polarity |-> [m \in {} |-> None]]
Story1 == "revenue trend"

\* The report's root once the history is applied.
Report(strength, row) ==
    LET fresh == SetInsightMeta(AddRoot(EmptyTree, Finding1, Score(Context, Finding1, strength, 10)),
                                1, 1, Story1)
    IN  ApplyNovelty(fresh, IF row = None THEN [f \in {} |-> None]
                            ELSE [f \in {Story1} |-> row]).nodes[1]

\* The row the shown root is recorded with: its signature is taken from the
\* tree as shown, and a changed signature starts the count again.
Recorded(strength, row) ==
    LET sig == ValueSignature(Report(strength, row))
    IN  [shown |-> IF row = None \/ row.sig # sig THEN 1 ELSE row.shown + 1,
         recent |-> TRUE, sig |-> sig]

-----------------------------------------------------------------------------
\* Having been seen never makes a story louder, and one that has not changed is
\* not shown at its full score twice in a row, whatever its history
\* (history.rs: "decay scores of stories the user has already seen").
SeenStoryYields(strength, row) ==
    LET full == Report(strength, None).score IN
    /\ Report(strength, row).score <= full
    /\ \/ Report(strength, row).score < full
       \/ Report(strength, Recorded(strength, row)).score < full

\* Stated of the code and refuted: an unchanged story that was just shown does
\* not come back louder. The quieted score is what is recorded, so the next
\* report takes the story for a changed one.
SeenStoryStaysQuiet(strength, row) ==
    Report(strength, Recorded(strength, row)).score <= Report(strength, row).score
=============================================================================
