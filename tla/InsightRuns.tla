----------------------------- MODULE InsightRuns -----------------------------
(***************************************************************************)
(* Insight runs over one table: people and agents ask for a report, the    *)
(* hook after a table write starts one by itself, curation hides and pins  *)
(* findings, and what was shown is written back by spawned tasks. The      *)
(* engine is a choice of findings (Reports models what it computes).      *)
(***************************************************************************)
EXTENDS Integers, Sequences, FiniteSets, SequencesExt

CONSTANTS
    Asker,        \* tasks of reports somebody asked for
    Hook,         \* tasks of post-sync runs
    Finding,      \* fingerprints
    ColumnOf,     \* the measure column of each finding
    Sig,          \* value signatures a finding may carry
    Keep,         \* INSIGHT_RUNS_KEEP
    Debounce,     \* DEBOUNCE_SECS
    MaxTime,      \* bound on the clock
    MaxRuns,      \* bound on reports begun
    MaxChanges,   \* bound on curation changes
    MaxFaults     \* bound on failing reads and writes

Task == Asker \cup Hook

VARIABLES
    clock,
    history,    \* insight_history: times shown and the last value signature
    mark,       \* insight_state: dismissed or pinned
    suppressed, \* insight_suppressions of kind "column"
    runs,       \* insight_runs, in order of id
    inflight,   \* AppState.insight_auto_inflight has the table
    task,
    writes,     \* spawned write-backs still to run
    spent,      \* what the bounds count
    seen        \* ghost: findings some report put before a person

vars == <<clock, history, mark, suppressed, runs, inflight, task, writes, spent, seen>>
curation == <<history, mark, suppressed, runs>>

Idle == [pc |-> "idle"]
Never == [count |-> 0]

Init ==
    /\ clock = 0 /\ spent = [runs |-> 0, changes |-> 0, faults |-> 0]
    /\ history = [x \in Finding |-> Never]
    /\ mark = [x \in Finding |-> "none"]
    /\ suppressed = {} /\ runs = <<>> /\ inflight = FALSE
    /\ task = [t \in Task |-> Idle]
    /\ writes = {} /\ seen = {}

Tick ==
    /\ clock < MaxTime /\ clock' = clock + 1
    /\ UNCHANGED <<curation, inflight, task, writes, spent, seen>>

\* What hides findings: their own dismissal, or the suppression of their column.
Hiding(marks, columns) == {x \in Finding : marks[x] = "dismissed"} \cup columns

\* A step that uses up a bound.
Spend(what, bound) == spent[what] < bound /\ spent' = [spent EXCEPT ![what] = @ + 1]
Fault(fails) == IF fails THEN Spend("faults", MaxFaults) ELSE UNCHANGED spent

\* A run from its first read on. "steady" is a ghost: the dismissals and the
\* suppressions that stood when the run began and have stood ever since.
NewRun(by) ==
    [pc |-> "history", by |-> by, steady |-> Hiding(mark, suppressed), degraded |-> FALSE,
     known |-> {}, marks |-> {}, hide |-> {}]

\* A person's request, or an agent run that builds its context from a report.
AskReport(t, by) ==
    /\ t \in Asker /\ task[t] = Idle /\ Spend("runs", MaxRuns)
    /\ task' = [task EXCEPT ![t] = NewRun(by)]
    /\ UNCHANGED <<clock, curation, inflight, writes, seen>>

(***************************************************************************)
(* The hook: the key is asked for and then inserted, two operations.       *)
(***************************************************************************)
PostSync(t) ==
    /\ t \in Hook /\ task[t] = Idle /\ ~inflight /\ Spend("runs", MaxRuns)
    /\ task' = [task EXCEPT ![t] = [pc |-> "insert"]]
    /\ UNCHANGED <<clock, curation, inflight, writes, seen>>

HookInsert(t) ==
    /\ task[t].pc = "insert"
    /\ inflight' = TRUE
    /\ task' = [task EXCEPT ![t] = [pc |-> "debounce"]]
    /\ UNCHANGED <<clock, curation, writes, spent, seen>>

LatestAuto == {i \in DOMAIN runs : runs[i].by = "post_sync"}
Debounced ==
    \E i \in LatestAuto : /\ \A j \in LatestAuto : runs[j].at <= runs[i].at
                          /\ clock - runs[i].at < Debounce

\* An unreadable last run lets the hook go on.
HookDebounce(t, fails) ==
    /\ task[t].pc = "debounce"
    /\ Fault(fails)
    /\ task' = [task EXCEPT ![t] = IF ~fails /\ Debounced THEN [pc |-> "leave"]
                                   ELSE NewRun("post_sync")]
    /\ UNCHANGED <<clock, curation, inflight, writes, seen>>

\* Faulty variant of HookLeave: the key is removed only by a run that worked.
HookLeaveHolding(t) ==
    /\ task[t].pc = "leave"
    /\ inflight' = ("answer" \notin DOMAIN task[t] /\ inflight)
    /\ task' = [task EXCEPT ![t] = Idle]
    /\ UNCHANGED <<clock, curation, writes, spent, seen>>

HookLeave(t) ==
    /\ task[t].pc = "leave"
    /\ inflight' = FALSE
    /\ task' = [task EXCEPT ![t] = Idle]
    /\ UNCHANGED <<clock, curation, writes, spent, seen>>

(***************************************************************************)
(* A run reads the history, the marks and the suppressions one after the   *)
(* other; a read that fails counts as nothing found.                       *)
(***************************************************************************)
Load(t, from, field, value, to, fails) ==
    /\ task[t].pc = from
    /\ Fault(fails)
    /\ LET r == task[t]
           loaded == [r EXCEPT ![field] = IF fails THEN {} ELSE value]
       IN task' = [task EXCEPT ![t] = [loaded EXCEPT !.pc = to, !.degraded = r.degraded \/ fails]]
    /\ UNCHANGED <<clock, curation, inflight, writes, seen>>

LoadHistory(t, fails) ==
    Load(t, "history", "known", {x \in Finding : history[x] # Never}, "marks", fails)
LoadMarks(t, fails) ==
    Load(t, "marks", "marks", {<<x, mark[x]>> : x \in Finding}, "suppressions", fails)
LoadSuppressions(t, fails) ==
    Load(t, "suppressions", "hide", suppressed, "engine", fails)

\* Dismissed and suppressed roots are dropped; the others are sorted by whether
\* they are pinned, then by rank.
Curated(r, roots) ==
    LET kept == {i \in DOMAIN roots : /\ <<roots[i], "dismissed">> \notin r.marks
                                      /\ ColumnOf[roots[i]] \notin r.hide}
        key == [i \in kept |-> IF <<roots[i], "pinned">> \in r.marks THEN i ELSE Len(roots) + i]
        order == CHOOSE q \in SetToSeqs(kept) : \A m, n \in DOMAIN q : m < n => key[q[m]] < key[q[n]]
    IN [n \in DOMAIN order |-> roots[order[n]]]

Shown(t, answer, sig) == [what |-> "shown", of |-> t, roots |-> Range(answer), sig |-> sig]
RunRow(t) == [what |-> "run", of |-> t, by |-> task[t].by]

\* The report comes back: the write-backs are spawned, nobody waits for them.
\* Every trigger but post_sync counts as a person looking.
Report(t, roots, sig) ==
    /\ task[t].pc = "engine"
    /\ LET r == task[t]
           answer == Curated(r, roots)
       IN /\ writes' = writes \cup {RunRow(t)}
                           \cup {w \in {Shown(t, answer, sig)} : r.by # "post_sync" /\ answer # <<>>}
          /\ seen' = IF r.by = "person" THEN seen \cup Range(answer) ELSE seen
          /\ task' = [task EXCEPT ![t] = [pc |-> "leave", answer |-> answer, marks |-> r.marks,
                                          steady |-> r.steady, degraded |-> r.degraded]]
    /\ UNCHANGED <<clock, curation, inflight, spent>>

\* The engine fails: the request is answered with an error, the hook logs it.
ReportFails(t) ==
    /\ task[t].pc = "engine"
    /\ task' = [task EXCEPT ![t] = [pc |-> "leave"]]
    /\ UNCHANGED <<clock, curation, inflight, writes, spent, seen>>

AskerLeave(t) ==
    /\ t \in Asker /\ task[t].pc = "leave"
    /\ task' = [task EXCEPT ![t] = Idle]
    /\ UNCHANGED <<clock, curation, inflight, writes, spent, seen>>

(***************************************************************************)
(* The spawned write-backs.                                                *)
(***************************************************************************)
\* A changed signature starts the count again: the story is new.
Bumped(entry, sig) ==
    [count |-> IF entry # Never /\ entry.sig = sig THEN entry.count + 1 ELSE 1, sig |-> sig]

WriteShown(w) ==
    /\ w \in writes /\ w.what = "shown"
    /\ history' = [x \in Finding |-> IF x \in w.roots THEN Bumped(history[x], w.sig) ELSE history[x]]
    /\ writes' = writes \ {w}
    /\ UNCHANGED <<clock, mark, suppressed, runs, inflight, task, spent, seen>>

\* The row is inserted and the oldest beyond the cap are deleted.
Pruned(rows) == SubSeq(rows, IF Len(rows) > Keep THEN Len(rows) - Keep + 1 ELSE 1, Len(rows))

WriteRun(w) ==
    /\ w \in writes /\ w.what = "run"
    /\ runs' = Pruned(Append(runs, [by |-> w.by, at |-> clock]))
    /\ writes' = writes \ {w}
    /\ UNCHANGED <<clock, history, mark, suppressed, inflight, task, spent, seen>>

\* A write-back fails: it is logged.
LoseWrite(w) ==
    /\ w \in writes /\ Spend("faults", MaxFaults)
    /\ writes' = writes \ {w}
    /\ UNCHANGED <<clock, curation, inflight, task, seen>>

(***************************************************************************)
(* Curation, by the action bus and the history route.                      *)
(***************************************************************************)
StillHidden(hides) ==
    [t \in Task |-> IF "steady" \in DOMAIN task[t]
                    THEN [task[t] EXCEPT !.steady = @ \cap hides] ELSE task[t]]

\* One row per finding: a pin replaces a dismissal. Undo restores or deletes.
SetMark(x, m) ==
    /\ mark[x] # m
    /\ Spend("changes", MaxChanges)
    /\ mark' = [mark EXCEPT ![x] = m]
    /\ task' = StillHidden(Hiding(mark', suppressed))
    /\ UNCHANGED <<clock, history, suppressed, runs, inflight, writes, seen>>

Suppress(c) ==
    /\ c \notin suppressed
    /\ Spend("changes", MaxChanges)
    /\ suppressed' = suppressed \cup {c}
    /\ UNCHANGED <<clock, history, mark, runs, inflight, task, writes, seen>>

Unsuppress(c) ==
    /\ c \in suppressed
    /\ Spend("changes", MaxChanges)
    /\ suppressed' = suppressed \ {c}
    /\ task' = StillHidden(Hiding(mark, suppressed'))
    /\ UNCHANGED <<clock, history, mark, runs, inflight, writes, seen>>

ResetHistory ==
    /\ history # [x \in Finding |-> Never]
    /\ Spend("changes", MaxChanges)
    /\ history' = [x \in Finding |-> Never]
    /\ UNCHANGED <<clock, mark, suppressed, runs, inflight, task, writes, seen>>

\* A restart ends every task and forgets the key and the write-backs.
Restart ==
    /\ \E t \in Task : task[t] # Idle
    /\ task' = [t \in Task |-> Idle]
    /\ inflight' = FALSE /\ writes' = {}
    /\ UNCHANGED <<clock, curation, spent, seen>>

Roots == {s \in UNION {[1..n -> Finding] : n \in 0..Cardinality(Finding)} : IsInjective(s)}

RunStep(t) ==
    \/ \E by \in {"person", "agent"} : AskReport(t, by)
    \/ PostSync(t) \/ HookInsert(t) \/ (t \in Hook /\ HookLeave(t)) \/ AskerLeave(t)
    \/ \E fails \in BOOLEAN :
          HookDebounce(t, fails) \/ LoadHistory(t, fails) \/ LoadMarks(t, fails) \/ LoadSuppressions(t, fails)
    \/ \E roots \in Roots, sig \in Sig : Report(t, roots, sig)
    \/ ReportFails(t)

Next ==
    \/ Tick \/ ResetHistory \/ Restart
    \/ \E t \in Task : RunStep(t)
    \/ \E w \in writes : WriteShown(w) \/ WriteRun(w) \/ LoseWrite(w)
    \/ \E x \in Finding, m \in {"none", "dismissed", "pinned"} : SetMark(x, m)
    \/ \E c \in Range(ColumnOf) : Suppress(c) \/ Unsuppress(c)

Spec == Init /\ [][Next]_vars

-----------------------------------------------------------------------------
\* A report whose reads all worked leaves out every finding whose dismissal, or
\* whose column's suppression, stood when it began and ever since, and a finding
\* it saw pinned comes before every one it did not, however marks and
\* suppressions change while it runs (insights/handlers.rs).
AnswersCurated ==
    \A t \in Task : "answer" \in DOMAIN task[t] /\ ~task[t].degraded =>
        LET a == task[t].answer
            Pin(x) == <<x, "pinned">> \in task[t].marks
        IN /\ \A x \in Range(a) : {x, ColumnOf[x]} \cap task[t].steady = {}
           /\ \A i, j \in DOMAIN a : Pin(a[j]) /\ i < j => Pin(a[i])

\* While the table counts as having an automatic run in flight there is one:
\* a key left behind would end automatic reports for the table until a restart.
KeyIsHeld == inflight => \E t \in Hook : task[t] # Idle

\* Stated of the code and refuted (insights/auto.rs:14-16): "shown" means shown
\* to a human, that is, what novelty decays for, a person has seen.
ShownToAHuman == \A x \in Finding : history[x] # Never => x \in seen
=============================================================================
