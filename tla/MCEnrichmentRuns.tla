-------------------------- MODULE MCEnrichmentRuns --------------------------
EXTENDS EnrichmentRuns, TLC

CONSTANTS r1, r2, c1, c2, s1, s2, j1, j2

\* Two rows with different contents.
TwoRows == {r1, r2}

\* Two rows that share one cell.
SharedContent == (r1 :> c1) @@ (r2 :> c1)

\* With shared content the rows are alike, and so are the specs.
Symmetric == Permutations(Job) \cup Permutations(Row) \cup Permutations(RunSpec)
=============================================================================
