------------------------------ MODULE MCServer ------------------------------
(* The parts of the server that share no state, small: an initial state picks *)
(* one of them and its steps are the only ones taken, so one run explores     *)
(* each part by itself: agent runs, insight runs, datasets, the live feed and *)
(* the login limiter.                                                         *)
EXTENDS LoginLimit, TLC

CONSTANTS
    \* agent runs
    Run, Parent, CallId, Summaries, MinSummaries, MaxIterations, MaxTokens, TurnTokens, MaxCalls,
    \* insight runs
    Asker, Hook, Finding, Column, ColumnOf, Sig, Keep, Debounce, MaxClock, MaxRuns, MaxChanges, MaxFaults,
    \* datasets
    Source, Uploads, Table, Client, MaxFiles, MaxQueries,
    \* the live feed
    Entry, Handler, FeedCapacity, BatchCap, MaxTicks, MaxBreaks

\* A task is a request or a hook, never both; a turn uses and a budget allows a
\* number of tokens; the feed's ring has a size; and a suppression names a column
\* where a mark names a finding, so the two are told apart by their kind.
ASSUME ServerAssumption ==
    /\ MaxTokens \in Nat /\ TurnTokens \subseteq Nat
    /\ Asker \cap Hook = {}
    /\ DOMAIN ColumnOf = Finding /\ Finding \cap {ColumnOf[x] : x \in Finding} = {}
    /\ FeedCapacity \in Nat

VARIABLES
    part,
    agentRow, agentTask, handles, agentLog, cancel,
    clock, history, mark, suppressed, runs, inflight, insightTask, writes, insightSpent, seen,
    configured, tables, named, disk, datasets, request, answers, past, written, used, queries,
    feedLog, handler, sent, socket, wire, client, fetches, breaks

Agents == INSTANCE AgentRuns WITH row <- agentRow, task <- agentTask, log <- agentLog

Insights == INSTANCE InsightRuns WITH
    MaxTime <- MaxClock,
    task <- insightTask, spent <- insightSpent

Data == INSTANCE Datasets

Feed == INSTANCE LiveFeed WITH Capacity <- FeedCapacity, log <- feedLog

agents == <<agentRow, agentTask, handles, agentLog, cancel>>
insights == <<clock, history, mark, suppressed, runs, inflight, insightTask, writes, insightSpent, seen>>
data == <<configured, tables, named, disk, datasets, request, answers, past, written, used, queries>>
feed == <<feedLog, handler, sent, socket, wire, client, fetches, breaks>>

StartAll ==
    /\ part \in {"agents", "insights", "data", "feed", "login"}
    /\ Agents!Init /\ Insights!Init /\ Data!Init /\ Feed!Init /\ Init
    /\ part # "data" => configured

Step ==
    \/ part = "agents" /\ Agents!Next /\ UNCHANGED <<insights, data, feed, vars>>
    \/ part = "insights" /\ Insights!Next /\ UNCHANGED <<agents, data, feed, vars>>
    \/ part = "data" /\ Data!Next /\ UNCHANGED <<agents, insights, feed, vars>>
    \/ part = "feed" /\ Feed!Next /\ UNCHANGED <<agents, insights, data, vars>>
    \/ part = "login" /\ Next /\ UNCHANGED <<agents, insights, data, feed>>

ServerSpec ==
    StartAll /\ [][Step /\ UNCHANGED part]_<<part, agents, insights, data, feed, vars>>

\* An agent run's row tells what its task did, and says "running" only while a
\* task works on it or a restart is about to fail it (agent/runner.rs, handlers.rs).
AgentRunsSound == Agents!RunAccounted /\ Agents!RunningIsWorkedOn

\* What an insight request answers is curated with the decisions of its time, and
\* a table counts as having an automatic run in flight only while one is
\* (insights/handlers.rs, auto.rs).
InsightRunsSound == Insights!AnswersCurated /\ Insights!KeyIsHeld

\* A query answers from the rows of one state of the table it names
\* (analytics/session.rs, executor.rs).
AnswersOneTable == Data!AnswersOneTable

\* A client of the live feed with nothing on its way accounts for every event
\* since it subscribed (analytics/handlers.rs, actions/events.rs).
NothingSkipped == Feed!NothingSkipped

MCColumnOf == [x \in Finding |-> Column]
Alike == Permutations(Finding) \cup Permutations(Hook)
=============================================================================
