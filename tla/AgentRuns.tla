------------------------------ MODULE AgentRuns ------------------------------
(***************************************************************************)
(* Agent runs: a request starts one, a task talks to the model turn by     *)
(* turn and sends each tool call through the action bus, people cancel it, *)
(* the process restarts. The bus is external here (ActionLog models it):   *)
(* it answers a request id it has seen with what it logged for it.         *)
(***************************************************************************)
EXTENDS Integers, Sequences, FiniteSets

CONSTANTS
    Run,            \* ids of agent_runs rows
    Parent,         \* categories a subcategory run may be asked for
    CallId,         \* ids the model gives its calls within a turn
    Summaries,      \* how many classified summaries the table may hold
    MinSummaries,   \* MIN_SUMMARIES_FOR_INDUCTION
    MaxIterations,  \* MAX_ITERATIONS
    MaxTokens,      \* MAX_TOTAL_TOKENS
    TurnTokens,     \* tokens one turn may cost
    MaxCalls        \* bound on calls in a turn

VARIABLES
    row,      \* agent_runs: status, scope, mode and what finish wrote
    task,     \* the spawned tasks
    handles,  \* AppState.agent_runs
    log,      \* action-log entries of agent runs, by request id
    cancel    \* the cancel request under way

vars == <<row, task, handles, log, cancel>>

NoRow == [status |-> "none"]
NoTask == [pc |-> "none"]
NoCancel == [pc |-> "idle"]

\* What a run may be about. A subcategory run has a parent in its scope, every
\* other kind works on the whole table.
InductionKinds ==
    {"propose_categories", "propose_subcategories", "propose_feedback_categories"}
Kinds == InductionKinds \cup {"triage_insights", "narrate_insights", "describe_table"}
ScopeOf(kind, parent) ==
    IF kind = "propose_subcategories" THEN <<kind, parent>> ELSE <<kind>>
Requests ==
    ((Kinds \ {"propose_subcategories"}) \X {0}) \cup ({"propose_subcategories"} \X Parent)

Init ==
    /\ row = [r \in Run |-> NoRow]
    /\ task = [r \in Run |-> NoTask]
    /\ handles = {} /\ log = {} /\ cancel = NoCancel

ActiveFor(scope) == {r \in Run : row[r].status = "running" /\ row[r].scope = scope}

\* Refused while a run of the scope is active; the row is inserted later.
StartCheck(r, kind, parent, mode) ==
    /\ row[r] = NoRow /\ task[r] = NoTask
    /\ ActiveFor(ScopeOf(kind, parent)) = {}
    /\ task' = [task EXCEPT ![r] = [pc |-> "insert", kind |-> kind, parent |-> parent, mode |-> mode]]
    /\ UNCHANGED <<row, handles, log, cancel>>

NewTask(kind, parent, mode) ==
    [pc |-> "context", kind |-> kind, parent |-> parent, auto |-> mode = "auto_apply",
     turn |-> 0, calls |-> <<>>, spent |-> 0, finished |-> FALSE,
     applied |-> 0, proposed |-> 0, failed |-> 0, dropped |-> 0]

StartInsert(r) ==
    /\ task[r].pc = "insert"
    /\ row' = [row EXCEPT ![r] = [status |-> "running", kept |-> FALSE,
                                  scope |-> ScopeOf(task[r].kind, task[r].parent)]]
    /\ task' = [task EXCEPT ![r] = NewTask(@.kind, @.parent, @.mode)]
    /\ UNCHANGED <<handles, log, cancel>>

KeepHandle(r) ==
    /\ row[r] # NoRow /\ ~row[r].kept
    /\ handles' = handles \cup {r}
    /\ row' = [row EXCEPT ![r].kept = TRUE]
    /\ UNCHANGED <<task, log, cancel>>

(***************************************************************************)
(* The context: an induction run needs enough classified summaries.        *)
(***************************************************************************)
Enough(kind, found) == kind \in InductionKinds => found >= MinSummaries

\* A subcategory run samples the summaries of its parent only; parent 0 is
\* "other", which has rows but no entry of its own.
BuildContext(r, found, parentGone) ==
    /\ task[r].pc = "context"
    /\ parentGone => task[r].kind = "propose_subcategories" /\ task[r].parent # 0
    /\ task' = [task EXCEPT ![r].pc =
                    IF Enough(task[r].kind, found) /\ ~parentGone THEN "ask" ELSE "failed"]
    /\ UNCHANGED <<row, handles, log, cancel>>

(***************************************************************************)
(* A turn: the model answers with text, which ends the run, or with calls. *)
(***************************************************************************)
\* The model is shown a kind's own tools and may call any: the action kind is
\* whatever name the call carries, with the run's table put in as its scope.
Offered(kind) ==
    CASE kind = "triage_insights" -> {"dismiss_insight"}
      [] kind \in InductionKinds -> {"define_taxonomy_category"}
      [] kind = "describe_table" -> {"create_model", "preview_model"}
      [] OTHER -> {}
ActionKinds == {"define_taxonomy_category", "rebuild_model"}
Undoable(kind) == kind # "rebuild_model"

\* A call carries an action, or is one of those that never reach the bus: the
\* preview, malformed arguments, done. A define names a level of its own.
Calls(kind) ==
    [id : CallId, tool : {"define_taxonomy_category"}, level : {0} \cup Parent]
        \cup [id : CallId, tool : ActionKinds \ {"define_taxonomy_category"}, level : {0}]
        \cup [id : {CHOOSE i \in CallId : TRUE}, level : {0},
              tool : {"malformed", "done"} \cup (Offered(kind) \cap {"preview_model"})]

WithinBudget(t) == t.turn < MaxIterations /\ t.spent <= MaxTokens

\* After a turn's calls: done, or out of budget, or another turn.
Continues(t) == ~t.finished /\ WithinBudget(t)

Ask(r, tokens, calls) ==
    /\ task[r].pc = "ask"
    /\ task' = [task EXCEPT ![r].spent = @ + tokens, ![r].calls = calls, ![r].turn = @ + 1,
                            ![r].pc = IF calls = <<>> THEN "completed" ELSE "act"]
    /\ UNCHANGED <<row, handles, log, cancel>>

ModelUnavailable(r) ==
    /\ task[r].pc = "ask"
    /\ task' = [task EXCEPT ![r].pc = "failed"]
    /\ UNCHANGED <<row, handles, log, cancel>>

\* Faulty variant of PinnedLevel: the level the model named is taken.
PinnedLevelAsked(t, asked) == asked

\* The level an induction run defines into is the run's, not the model's.
PinnedLevel(t, asked) ==
    CASE t.kind = "propose_subcategories" -> t.parent
      [] t.kind \in InductionKinds \ {"propose_subcategories"} -> 0
      [] OTHER -> asked

RequestId(r, t, call) == <<r, t.turn, call.id>>
Logged(req) == {e \in log : e.req = req}

Counted(t, status) ==
    CASE status = "applied" -> [t EXCEPT !.applied = @ + 1]
      [] status = "failed" -> [t EXCEPT !.failed = @ + 1]
      [] OTHER -> [t EXCEPT !.proposed = @ + 1]

\* The bus: a request id it has logged is answered, not executed again. When it
\* cannot log the action the model is told so and nothing is counted.
Dispatch(r, call, outcome) ==
    LET t == task[r]
        req == RequestId(r, t, call)
        old == Logged(req)
        rest == [t EXCEPT !.calls = Tail(@)]
    IN IF old # {}
       THEN /\ task' = [task EXCEPT ![r] = [Counted(rest, (CHOOSE e \in old : TRUE).status)
                                              EXCEPT !.dropped = @ + 1]]
            /\ UNCHANGED log
       ELSE IF outcome = "unavailable"
       THEN task' = [task EXCEPT ![r] = rest] /\ UNCHANGED log
       ELSE LET status == IF t.auto /\ Undoable(call.tool) THEN outcome ELSE "proposed"
            IN /\ log' = log \cup {[req |-> req, status |-> status, tool |-> call.tool,
                                    level |-> PinnedLevel(t, call.level)]}
               /\ task' = [task EXCEPT ![r] = Counted(rest, status)]

Act(r, outcome) ==
    /\ task[r].pc = "act" /\ task[r].calls # <<>>
    /\ LET call == Head(task[r].calls)
       IN IF call.tool \notin ActionKinds
          THEN /\ task' = [task EXCEPT ![r].calls = Tail(@),
                                       ![r].finished = @ \/ call.tool = "done"]
               /\ UNCHANGED log
          ELSE Dispatch(r, call, outcome)
    /\ UNCHANGED <<row, handles, cancel>>

EndTurn(r) ==
    /\ task[r].pc = "act" /\ task[r].calls = <<>>
    /\ task' = [task EXCEPT ![r].pc = IF Continues(task[r]) THEN "ask" ELSE "completed"]
    /\ UNCHANGED <<row, handles, log, cancel>>

Ending(pc) == pc \in {"completed", "failed"}

\* finish_agent_run writes its outcome over whatever the row says.
Finish(r) ==
    /\ Ending(task[r].pc)
    /\ row' = [row EXCEPT ![r] = [status |-> task[r].pc, kept |-> @.kept, scope |-> @.scope,
                                  counts |-> task[r].applied + task[r].proposed + task[r].failed,
                                  dropped |-> task[r].dropped, spent |-> task[r].spent,
                                  summarised |-> task[r].pc = "completed"]]
    /\ task' = [task EXCEPT ![r].pc = "over"]
    /\ UNCHANGED <<handles, log, cancel>>

\* The write fails: it is logged, and the row goes on saying "running".
FinishUnwritten(r) ==
    /\ Ending(task[r].pc)
    /\ row' = [row EXCEPT ![r] = [status |-> @.status, kept |-> @.kept, scope |-> @.scope,
                                  unwritten |-> TRUE]]
    /\ task' = [task EXCEPT ![r].pc = "over"]
    /\ UNCHANGED <<handles, log, cancel>>

DropHandle(r) ==
    /\ task[r].pc = "over"
    /\ handles' = handles \ {r}
    /\ task' = [task EXCEPT ![r] = NoTask]
    /\ UNCHANGED <<row, log, cancel>>

CancelRead(r) ==
    /\ cancel = NoCancel /\ row[r].status = "running"
    /\ cancel' = [pc |-> "abort", of |-> r]
    /\ UNCHANGED <<row, task, handles, log>>

CancelAbort ==
    /\ cancel.pc = "abort"
    /\ handles' = handles \ {cancel.of}
    /\ task' = IF cancel.of \in handles THEN [task EXCEPT ![cancel.of] = NoTask] ELSE task
    /\ cancel' = [cancel EXCEPT !.pc = "mark"]
    /\ UNCHANGED <<row, log>>

CancelMark ==
    /\ cancel.pc = "mark"
    /\ row' = [row EXCEPT ![cancel.of] = [status |-> "cancelled", kept |-> @.kept, scope |-> @.scope]]
    /\ cancel' = NoCancel
    /\ UNCHANGED <<task, handles, log>>

\* Boot fails the runs the last process left running.
FailStuck(rr) ==
    IF rr = NoRow THEN rr
    ELSE [rr EXCEPT !.kept = TRUE, !.status = IF @ = "running" THEN "failed" ELSE @]

Restart ==
    /\ \E r \in Run : task[r] # NoTask
    /\ row' = [r \in Run |-> FailStuck(row[r])]
    /\ task' = [r \in Run |-> NoTask]
    /\ handles' = {} /\ cancel' = NoCancel
    /\ UNCHANGED log

TurnsOf(kind) == UNION {[1..n -> Calls(kind)] : n \in 0..MaxCalls}

Step(r) ==
    \/ StartInsert(r) \/ KeepHandle(r) \/ EndTurn(r) \/ Finish(r) \/ FinishUnwritten(r)
    \/ DropHandle(r) \/ ModelUnavailable(r) \/ CancelRead(r)
    \/ \E found \in Summaries, gone \in BOOLEAN : BuildContext(r, found, gone)
    \/ \E outcome \in {"applied", "failed", "unavailable"} : Act(r, outcome)
    \/ /\ task[r].pc = "ask"
       /\ \E tokens \in TurnTokens, calls \in TurnsOf(task[r].kind) : Ask(r, tokens, calls)

Next ==
    \/ \E r \in Run, q \in Requests, mode \in {"propose", "auto_apply"} :
          StartCheck(r, q[1], q[2], mode)
    \/ \E r \in Run : Step(r)
    \/ CancelAbort \/ CancelMark \/ Restart

Spec == Init /\ [][Next]_vars

-----------------------------------------------------------------------------
EntriesOf(r) == {e \in log : e.req[1] = r}

\* A finished run's account is right: its summary counts each action it logged
\* once, plus the calls that were answered from the log because the model had
\* used their id before in that turn; an induction run wrote only into the
\* level it was started for; and it never went on to another turn once the
\* token budget was spent.
RunAccounted ==
    \A r \in Run :
        /\ "summarised" \in DOMAIN row[r] =>
              /\ row[r].counts = Cardinality(EntriesOf(r)) + row[r].dropped
              /\ \A t \in TurnTokens : (\A u \in TurnTokens : u <= t) => row[r].spent <= MaxTokens + t
        /\ row[r] # NoRow => \A e \in EntriesOf(r) :
              row[r].scope[1] \in InductionKinds =>
                  e.level = (IF Len(row[r].scope) = 2 THEN row[r].scope[2] ELSE 0)

\* A run that is marked running is worked on or about to be marked, unless the
\* write of its outcome failed: nothing else would ever end it, and it blocks
\* its scope until the next restart.
RunningIsWorkedOn ==
    \A r \in Run : row[r].status = "running" =>
        \/ task[r] # NoTask
        \/ cancel = [pc |-> "mark", of |-> r]
        \/ "unwritten" \in DOMAIN row[r]
=============================================================================
