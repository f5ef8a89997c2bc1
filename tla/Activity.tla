------------------------------- MODULE Activity -------------------------------
(***************************************************************************)
(* The list of background jobs (api jobs/mod.rs): the newest rows of five  *)
(* tables with clocks of their own, merged into one page. A table is a set *)
(* of rows [id, start, finish, status, error, named]; an insight run's row *)
(* has "took" for a start. "named": what the row refers to still exists.   *)
(***************************************************************************)
EXTENDS Integers, Sequences, FiniteSets, FiniteSetsExt, SequencesExt, TLC

CONSTANTS
    None,
    PerKind,      \* PER_KIND, rows read of each table
    DefaultLimit,
    MaxLimit      \* the page sizes list_jobs falls back and clamps to

Kinds == <<"connector_sync", "enrichment_run", "agent_run", "insight_run", "model_build">>
Kind == Range(Kinds)

\* An insight run is recorded when it ends; the others when they start.
Started(kind, row) == IF kind = "insight_run" THEN row.finish - row.took ELSE row.start
Clock(kind, row) == IF kind = "insight_run" THEN row.finish ELSE row.start

\* Ties go to the greater id, or stay as they are stored.
GreaterIdFirst(kind) == kind \in {"enrichment_run", "insight_run", "model_build"}
Precedes(kind, r, q) ==
    \/ Clock(kind, r) > Clock(kind, q)
    \/ Clock(kind, r) = Clock(kind, q) /\ (IF GreaterIdFirst(kind) THEN r.id > q.id ELSE r.id < q.id)

Newest(kind, rows) ==
    LET Before(r, q) == Precedes(kind, r, q)
        sorted == SortSeq(SetToSeq(rows), Before)
    IN SubSeq(sorted, 1, Min({PerKind, Len(sorted)}))

Detail(kind, row) ==
    CASE kind = "insight_run" -> "findings"
      [] kind = "agent_run" -> "first line"
      [] row.error -> "error"
      [] row.status = "running" -> IF kind = "enrichment_run" THEN "progress" ELSE None
      [] OTHER -> "rows"

Job(kind, row, label) ==
    [kind |-> kind, id |-> row.id, label |-> label, detail |-> Detail(kind, row),
     status |-> IF kind = "insight_run" THEN "completed" ELSE row.status,
     start |-> Started(kind, row), finish |-> row.finish,
     cancellable |-> kind \in {"enrichment_run", "agent_run"} /\ row.status = "running"]

Jobs(kind, rows) ==
    [i \in DOMAIN Newest(kind, rows) |-> Job(kind, Newest(kind, rows)[i], kind)]

\* A sync whose connector is gone goes by the id of it.
SyncJobs(rows) ==
    LET read == Newest("connector_sync", rows)
    IN [i \in DOMAIN read |-> Job("connector_sync", read[i], IF read[i].named THEN "name" ELSE "id")]

\* The query joins the function and the table: rows without them are not read.
EnrichmentJobs(rows) == Jobs("enrichment_run", {r \in rows : r.named})

\* A build is looked up after it was read, and skipped when its model is gone.
ModelJobs(rows) ==
    LET read == SelectSeq(Newest("model_build", rows), LAMBDA r : r.named)
    IN [i \in DOMAIN read |-> Job("model_build", read[i], "table")]

\* Newest first; of one second, the running ones first; otherwise as they come.
SortJobs(jobs) ==
    LET Ahead(i, j) ==
            \/ jobs[i].start > jobs[j].start
            \/ /\ jobs[i].start = jobs[j].start
               /\ \/ jobs[i].status = "running" /\ jobs[j].status # "running"
                  \/ (jobs[i].status = "running") = (jobs[j].status = "running") /\ i < j
        order == SortSeq([i \in DOMAIN jobs |-> i], Ahead)
    IN [i \in DOMAIN jobs |-> jobs[order[i]]]

Limit(asked) == Max({1, Min({MaxLimit, IF asked = None THEN DefaultLimit ELSE asked})})

Collected(tables) ==
    SyncJobs(tables["connector_sync"]) \o EnrichmentJobs(tables["enrichment_run"])
        \o Jobs("agent_run", tables["agent_run"]) \o Jobs("insight_run", tables["insight_run"])
        \o ModelJobs(tables["model_build"])

Truncated(jobs, limit) == SubSeq(jobs, 1, Min({limit, Len(jobs)}))

ListJobs(tables, asked) == Truncated(SortJobs(Collected(tables)), Limit(asked))

(***************************************************************************)
(* The scope key of an agent run, in the segments its colons make: the     *)
(* kind, the source id, which may be several, the table, and a parent.     *)
(***************************************************************************)
ScopeKey(kind, source, table, parent) ==
    <<kind>> \o source \o <<table>> \o (IF kind = "propose_subcategories" THEN <<parent>> ELSE <<>>)

Digits(segment) == segment \in {"0", "7"}

AgentScope(kind, key) ==
    LET rest == Tail(key)
        cut == IF kind = "propose_subcategories" /\ Digits(Last(rest)) THEN Front(rest) ELSE rest
    IN IF key[1] # kind \/ Len(cut) < 2 THEN None
       ELSE [source |-> Front(cut), table |-> Last(cut)]

-----------------------------------------------------------------------------
\* A job that is not on the page is older than every one that is, or there are
\* more rows of its kind than are read and the page is longer than that, or it
\* is of one of the two kinds whose rows are picked by another measure than they
\* are shown by: insight runs, read by their end, and builds, read with those of
\* models that are gone.
NewestShown(tables, asked) ==
    LET page == ListJobs(tables, asked)
        On(kind, r) == \E i \in DOMAIN page : page[i].kind = kind /\ page[i].id = r.id
    IN \A kind \in Kind : \A r \in tables[kind] :
          \/ On(kind, r)
          \/ ~r.named /\ kind \in {"enrichment_run", "model_build"}
          \/ /\ Len(page) = Limit(asked)
             /\ \A i \in DOMAIN page : page[i].start >= Started(kind, r)
          \/ /\ Cardinality(tables[kind]) > PerKind
             /\ Limit(asked) > PerKind \/ kind \in {"insight_run", "model_build"}

\* The page is in order, and a running job never stands below a finished one of
\* its second.
PageInOrder(tables, asked) ==
    LET page == ListJobs(tables, asked) IN
    \A i, j \in DOMAIN page : i < j =>
        /\ page[i].start >= page[j].start
        /\ page[i].start = page[j].start /\ page[j].status = "running" => page[i].status = "running"

\* The list names the source and the table a run was started for.
ScopeReadsBack(kind, source, table, parent) ==
    AgentScope(kind, ScopeKey(kind, source, table, parent)) = [source |-> source, table |-> table]
=============================================================================
