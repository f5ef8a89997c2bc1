---------------------------- MODULE ModelBuilds ----------------------------
(***************************************************************************)
(* One model: a table rebuilt from another table, its input, by a recipe   *)
(* of which every version is kept.  The recipe is created, updated and     *)
(* deleted through the action bus, each with an undo; the output is built  *)
(* by these, by hand, and after every write to the input, be it a sync or  *)
(* an enrichment that rewrites the input under its lock.                   *)
(*                                                                         *)
(* A build reads the model and its recipe, waits for the lock of the       *)
(* output, and then reads the input and writes the output.  A write of a   *)
(* table is one step here: TableStore shows what it is made of.            *)
(*                                                                         *)
(* Contents are abstract: the input is the number of writes it had, a      *)
(* recipe the operation that brought it, the output the recipe and the     *)
(* input it was built from.                                                *)
(***************************************************************************)
EXTENDS Integers, FiniteSets

CONSTANTS
    Callers,   \* tasks at work at once
    MaxOps,    \* bound: operations ever started
    MaxWrites, \* bound: writes to the input
    MaxMishaps \* bound: steps that fail, tasks aborted, restarts

NoOne == "none"   \* the holder of a free lock

ASSUME ModelBuildsAssumption ==
    /\ MaxOps \in Nat /\ MaxWrites \in Nat /\ MaxMishaps \in Nat
    /\ NoOne \notin Callers

VARIABLES
    input,    \* the content of the input table
    table,    \* id of the output's `tables` row, 0 when there is none
    output,   \* the rows of the output: [recipe, from]
    model,    \* the `models` row: [id, current]; id 0 when there is none
    versions, \* model_versions: the recipe of each version, 0 where none
    builds,   \* model_builds: [id, status]
    locks,    \* materialize locks of the input and the output: holder or none
    callers,  \* each task's local state
    log,      \* the applied actions that can be undone
    history,  \* what has happened so far: see History
    nextOp, mishaps

rows     == <<table, output, model, versions, builds>>
counters == <<nextOp, mishaps>>
vars == <<input, rows, locks, callers, log, history, counters>>

----------------------------------------------------------------------------
(* As many as there are operations, so the bound is never met.             *)
Versions == 1..(MaxOps + 2)

NoModel  == [id |-> 0, current |-> 0]
NoRows   == [recipe |-> 0, from |-> 0]
NoRecipe == [v \in Versions |-> 0]

Kinds == {"create", "update", "delete", "rebuild", "sync", "enrich", "undo"}

(* What an undo needs: the kind of the action, the model it acted on, the  *)
(* version to go back to, the versions a deletion captured.                *)
Undo == [op : Nat, kind : {"create", "update", "delete"}, model : Nat, to : Nat,
         versions : [Versions -> Nat]]
NoUndo == [op |-> 0, kind |-> "create", model |-> 0, to |-> 0, versions |-> NoRecipe]

Steps == {"idle", "lockInput", "writeInput", "scope", "append", "capture", "drop",
          "create", "insert", "setVersion", "context", "lock", "row", "read", "write",
          "finish", "finishFailed", "done", "error"}

(* back: the version an update would fall back to; at: the version, recipe *)
(* and input a build works from; undo: the action being undone.            *)
Idle == [pc |-> "idle", kind |-> "sync", op |-> 0, back |-> 0, recipe |-> 0,
         from |-> 0, undo |-> NoUndo]
Caller == [pc : Steps, kind : Kinds, op : Nat, back : Nat, recipe : Nat, from : Nat,
           undo : Undo]

(* raced: a change of the model overlapped another operation.  failed: a   *)
(* build failed or was cut short.  behind: with its rows written already,  *)
(* in an undo that had set the version already, or with what should put a  *)
(* change right failing too.  torn: the undo of a deletion broke off, so   *)
(* the deletion stays on the log with its model back.  unrecorded: the end *)
(* of a build was not recorded.  stray: a table was created and its model  *)
(* not.                                                                    *)
History == [raced : BOOLEAN, failed : BOOLEAN, behind : BOOLEAN, torn : BOOLEAN,
            unrecorded : BOOLEAN, stray : BOOLEAN]

TypeOK ==
    /\ input \in Nat /\ table \in Nat
    /\ output \in [recipe : Nat, from : Nat]
    /\ model \in {NoModel} \cup [id : Nat \ {0}, current : Versions]
    /\ versions \in [Versions -> Nat]
    /\ builds \in SUBSET [id : Nat, status : {"running", "completed", "failed"}]
    /\ locks \in [{"input", "output"} -> Callers \cup {NoOne}]
    /\ callers \in [Callers -> Caller]
    /\ log \in SUBSET Undo
    /\ history \in History
    /\ nextOp \in Nat /\ mishaps \in Nat

(* Nothing but the input, or a model that was created and built.           *)
Init ==
    /\ input = 0
    /\ \/ /\ table = 0 /\ output = NoRows /\ model = NoModel /\ versions = NoRecipe
          /\ log = {}
       \/ /\ table = 1 /\ output = [recipe |-> 1, from |-> 0]
          /\ model = [id |-> 1, current |-> 1]
          /\ versions = [NoRecipe EXCEPT ![1] = 1]
          /\ log = {[NoUndo EXCEPT !.op = 1, !.model = 1]}
    /\ builds = {}
    /\ locks = [t \in {"input", "output"} |-> NoOne]
    /\ callers = [c \in Callers |-> Idle]
    /\ history = [raced |-> FALSE, failed |-> FALSE, behind |-> FALSE, torn |-> FALSE,
                  unrecorded |-> FALSE, stray |-> FALSE]
    /\ nextOp = 2 /\ mishaps = 0

----------------------------------------------------------------------------
At(c, pc)   == callers[c].pc = pc
Is(c, kind) == callers[c].kind = kind
Busy        == {c \in Callers : callers[c].pc # "idle"}
Restorers   == {c \in Busy : callers[c].kind = "undo" /\ callers[c].undo.kind = "delete"}
Writers     == {c \in Callers : callers[c].pc \in {"lockInput", "writeInput"}}
Exists      == model # NoModel

Go(c, pc)      == callers' = [callers EXCEPT ![c].pc = pc]
GoWith(c, rec) == callers' = [callers EXCEPT ![c] = rec]
Return(c)      == callers' = [callers EXCEPT ![c] = Idle]

(* The steps of a build on record, and all that a build is made of.        *)
Building   == {"read", "write", "finish", "finishFailed"}
BuildSteps == Building \cup {"context", "lock", "row", "error"}

Mishap == mishaps < MaxMishaps /\ mishaps' = mishaps + 1

(* A guard goes with the task that holds it.                               *)
Released(c) == [t \in DOMAIN locks |-> IF locks[t] = c THEN NoOne ELSE locks[t]]

(* Deleting the table deletes the model, its versions and its builds.      *)
TableGone ==
    /\ table' = 0 /\ output' = NoRows
    /\ model' = NoModel /\ versions' = NoRecipe /\ builds' = {}

Changes == {"create", "update", "delete", "undo"}

FirstStep(kind, undo) ==
    CASE kind = "create" -> "create"
      [] kind \in {"update", "rebuild", "delete"} -> "scope"
      [] kind = "sync"   -> "writeInput"
      [] kind = "enrich" -> "lockInput"
      [] kind = "undo"   -> CASE undo.kind = "create" -> "drop"
                              [] undo.kind = "update" -> "setVersion"
                              [] undo.kind = "delete" -> "create"

(* One task that is not at work is as good as another.                     *)
AnyFree == CHOOSE c \in Callers : At(c, "idle")

Start(c, kind, undo) ==
    /\ At(c, "idle") /\ c = AnyFree
    /\ nextOp < MaxOps + 2
    /\ kind \in {"sync", "enrich"} => input + Cardinality(Writers) < MaxWrites
    /\ IF kind = "undo" THEN undo \in log ELSE undo = NoUndo
    /\ GoWith(c, [Idle EXCEPT !.pc = FirstStep(kind, undo), !.kind = kind, !.op = nextOp,
                              !.undo = undo])
    /\ nextOp' = nextOp + 1
    /\ history' = [history EXCEPT !.raced =
                    @ \/ \E o \in Busy : kind \in Changes \/ callers[o].kind \in Changes]
    /\ UNCHANGED <<input, rows, locks, log, mishaps>>

----------------------------------------------------------------------------
(* The writes to the input that rebuild the model.  A materialisation      *)
(* holds the lock of its table until its dependents are rebuilt.           *)
LockInput(c) ==
    /\ At(c, "lockInput")
    /\ locks["input"] = NoOne
    /\ locks' = [locks EXCEPT !["input"] = c]
    /\ Go(c, "writeInput")
    /\ UNCHANGED <<input, rows, log, history, counters>>

WriteInput(c) ==
    /\ At(c, "writeInput")
    /\ input' = input + 1
    /\ Go(c, "context")
    /\ UNCHANGED <<rows, locks, log, history, counters>>

(* scoped_model, at the head of update, rebuild and delete.                *)
Scope(c) ==
    /\ At(c, "scope")
    /\ IF ~Exists THEN Return(c)
       ELSE GoWith(c, [callers[c] EXCEPT
                !.back = model.current,
                !.undo.model = model.id,
                !.pc = CASE Is(c, "update")  -> "append"
                         [] Is(c, "rebuild") -> "context"
                         [] Is(c, "delete")  -> "capture"])
    /\ UNCHANGED <<input, rows, locks, log, history, counters>>

(* Faulty variant of Append: it overwrites the version that is there.       *)
AppendOver(c) ==
    /\ At(c, "append")
    /\ model.current + 1 \in Versions
    /\ IF model.id # callers[c].undo.model
       THEN Return(c) /\ UNCHANGED <<model, versions>>
       ELSE /\ versions' = [versions EXCEPT ![model.current + 1] = callers[c].op]
            /\ model' = [model EXCEPT !.current = @ + 1]
            /\ Go(c, "context")
    /\ UNCHANGED <<input, table, output, builds, locks, log, history, counters>>

(* append_model_version, one transaction: the version after the current    *)
(* one, which must not be on record yet (PRIMARY KEY).                     *)
Append(c) ==
    /\ At(c, "append")
    /\ model.current + 1 \in Versions
    /\ IF model.id # callers[c].undo.model \/ versions[model.current + 1] # 0
       THEN Return(c) /\ UNCHANGED <<model, versions>>
       ELSE /\ versions' = [versions EXCEPT ![model.current + 1] = callers[c].op]
            /\ model' = [model EXCEPT !.current = @ + 1]
            /\ Go(c, "context")
    /\ UNCHANGED <<input, table, output, builds, locks, log, history, counters>>

(* A deletion keeps the versions for its undo, then drops the table.       *)
Capture(c) ==
    /\ At(c, "capture")
    /\ GoWith(c, [callers[c] EXCEPT
            !.pc = "drop",
            !.undo.versions = IF model.id = callers[c].undo.model THEN versions ELSE NoRecipe])
    /\ UNCHANGED <<input, rows, locks, log, history, counters>>

(* Undoing a creation drops the table of that model, if it is still there; *)
(* a deletion drops the table of that name.                                *)
Drop(c) ==
    LET gone == IF Is(c, "undo") THEN model.id # callers[c].undo.model ELSE table = 0 IN
    /\ At(c, "drop")
    /\ IF gone THEN UNCHANGED rows ELSE TableGone
    /\ IF gone /\ Is(c, "delete") THEN Return(c) ELSE Go(c, "done")
    /\ UNCHANGED <<input, locks, log, history, counters>>

(* A name that is taken is refused.                                        *)
Create(c) ==
    /\ At(c, "create")
    /\ IF table # 0 THEN Return(c) /\ UNCHANGED <<table, output>>
       ELSE /\ table' = callers[c].op /\ output' = NoRows
            /\ Go(c, "insert")
    /\ UNCHANGED <<input, model, versions, builds, locks, log, history, counters>>

(* The model and its first version, or all that a deletion captured.       *)
Insert(c) ==
    LET u == callers[c].undo IN
    /\ At(c, "insert")
    /\ IF table # callers[c].op THEN Return(c) /\ UNCHANGED <<model, versions>>
       ELSE /\ IF Is(c, "undo")
               THEN model' = [id |-> u.model, current |-> u.to] /\ versions' = u.versions
               ELSE /\ model' = [id |-> callers[c].op, current |-> 1]
                    /\ versions' = [NoRecipe EXCEPT ![1] = callers[c].op]
            /\ GoWith(c, [callers[c] EXCEPT !.pc = "context", !.undo.model = model'.id])
    /\ UNCHANGED <<input, table, output, builds, locks, log, history, counters>>

(* The model cannot be inserted: the table that was created stays.         *)
InsertFails(c) ==
    /\ At(c, "insert")
    /\ Mishap
    /\ locks' = Released(c)
    /\ Return(c)
    /\ history' = [history EXCEPT !.stray = TRUE]
    /\ UNCHANGED <<input, rows, log, nextOp>>

(* Undoing an update points the model at the version before it.            *)
SetVersion(c) ==
    LET u == callers[c].undo IN
    /\ At(c, "setVersion")
    /\ model' = IF model.id = u.model THEN [model EXCEPT !.current = u.to] ELSE model
    /\ Go(c, "context")
    /\ UNCHANGED <<input, table, output, versions, builds, locks, log, history, counters>>

----------------------------------------------------------------------------
(* rebuild: the model and its recipe are read first; rebuild_dependents    *)
(* takes whatever model the input has by now ...                           *)
Context(c) ==
    /\ At(c, "context")
    /\ IF ~Exists \/ (~Is(c, "sync") /\ ~Is(c, "enrich") /\ model.id # callers[c].undo.model)
       THEN Go(c, "error")
       ELSE GoWith(c, [callers[c] EXCEPT !.pc = "lock", !.recipe = versions[model.current],
                                         !.undo.model = model.id])
    /\ UNCHANGED <<input, rows, locks, log, history, counters>>

(* Faulty variant of Lock: it asks for the lock of the table it reads.      *)
LockTheInput(c) ==
    /\ At(c, "lock")
    /\ locks["input"] = NoOne
    /\ locks' = [locks EXCEPT !["input"] = c]
    /\ Go(c, "row")
    /\ UNCHANGED <<input, rows, log, history, counters>>

(* ... then the build waits for its turn ...                               *)
Lock(c) ==
    /\ At(c, "lock")
    /\ locks["output"] = NoOne
    /\ locks' = [locks EXCEPT !["output"] = c]
    /\ Go(c, "row")
    /\ UNCHANGED <<input, rows, log, history, counters>>

(* ... and goes on record; a model deleted by now refuses it.              *)
InsertBuild(c) ==
    /\ At(c, "row")
    /\ IF Exists /\ model.id = callers[c].undo.model
       THEN /\ builds' = builds \cup {[id |-> callers[c].op, status |-> "running"]}
            /\ Go(c, "read") /\ UNCHANGED locks
       ELSE /\ locks' = [locks EXCEPT !["output"] = NoOne]
            /\ Go(c, "error") /\ UNCHANGED builds
    /\ UNCHANGED <<input, table, output, model, versions, log, history, counters>>

ReadInput(c) ==
    /\ At(c, "read")
    /\ GoWith(c, [callers[c] EXCEPT !.pc = "write", !.from = input])
    /\ UNCHANGED <<input, rows, locks, log, history, counters>>

(* write_table goes by name: a table deleted meanwhile comes back.         *)
WriteOutput(c) ==
    /\ At(c, "write")
    /\ output' = [recipe |-> callers[c].recipe, from |-> callers[c].from]
    /\ table' = IF table = 0 THEN callers[c].op ELSE table
    /\ Go(c, "finish")
    /\ UNCHANGED <<input, model, versions, builds, locks, log, history, counters>>

(* A build that fails: with its rows written, or the version set, it       *)
(* leaves the output behind the model.                                     *)
Broken(c) ==
    [history EXCEPT !.failed = TRUE, !.behind = @ \/ At(c, "finish") \/ Is(c, "undo"),
                    !.torn = @ \/ c \in Restorers]

(* The chain, the write or the declaration after it fails.                 *)
BuildFails(c) ==
    /\ callers[c].pc \in {"read", "write", "finish"}
    /\ Mishap
    /\ Go(c, "finishFailed")
    /\ history' = Broken(c)
    /\ UNCHANGED <<input, rows, locks, log, nextOp>>

(* The model cannot be read, or the build not put on record.               *)
BuildRefused(c) ==
    /\ callers[c].pc \in {"context", "row"}
    /\ Mishap
    /\ locks' = [locks EXCEPT !["output"] = IF @ = c THEN NoOne ELSE @]
    /\ Go(c, "error")
    /\ history' = Broken(c)
    /\ UNCHANGED <<input, rows, log, nextOp>>

Recorded(c, status) ==
    {IF b.id = callers[c].op THEN [b EXCEPT !.status = status] ELSE b : b \in builds}

(* Faulty variant of Finish: a build that failed stays as it is.            *)
FinishCompleted(c) ==
    /\ callers[c].pc \in {"finish", "finishFailed"}
    /\ builds' = IF At(c, "finish") THEN Recorded(c, "completed") ELSE builds
    /\ locks' = [locks EXCEPT !["output"] = NoOne]
    /\ Go(c, IF At(c, "finish") THEN "done" ELSE "error")
    /\ UNCHANGED <<input, table, output, model, versions, log, history, counters>>

(* Either way the build's row is finished and the lock given back.         *)
Finish(c) ==
    /\ callers[c].pc \in {"finish", "finishFailed"}
    /\ builds' = Recorded(c, IF At(c, "finish") THEN "completed" ELSE "failed")
    /\ locks' = [locks EXCEPT !["output"] = NoOne]
    /\ Go(c, IF At(c, "finish") THEN "done" ELSE "error")
    /\ UNCHANGED <<input, table, output, model, versions, log, history, counters>>

(* ... unless that fails, which makes an error of a completed build too    *)
(* and leaves the row running.                                             *)
FinishFails(c) ==
    /\ \/ At(c, "finish") /\ Mishap
       \/ At(c, "finishFailed") /\ UNCHANGED mishaps
    /\ locks' = [locks EXCEPT !["output"] = NoOne]
    /\ Go(c, "error")
    /\ history' = [Broken(c) EXCEPT !.unrecorded = TRUE]
    /\ UNCHANGED <<input, rows, log, nextOp>>

(* It succeeded: it is logged with its undo, or the undone one marked.     *)
Done(c) ==
    LET u == callers[c].undo IN
    /\ At(c, "done")
    /\ log' = CASE Is(c, "update") ->
                     log \cup {[u EXCEPT !.op = callers[c].op, !.kind = "update",
                                         !.to = callers[c].back]}
                [] Is(c, "create") ->
                     log \cup {[u EXCEPT !.op = callers[c].op]}
                [] Is(c, "delete") ->
                     log \cup {[u EXCEPT !.op = callers[c].op, !.kind = "delete",
                                         !.to = callers[c].back]}
                [] Is(c, "undo") -> log \ {u}
                [] OTHER -> log
    /\ locks' = Released(c)
    /\ Return(c)
    /\ UNCHANGED <<input, rows, history, counters>>

(* Faulty variant of Failed: the version that did not build stays current.  *)
FailedKeepsVersion(c) ==
    /\ At(c, "error")
    /\ IF Is(c, "create") /\ table # 0 THEN TableGone ELSE UNCHANGED rows
    /\ locks' = Released(c)
    /\ Return(c)
    /\ UNCHANGED <<input, log, history, counters>>

(* It failed: an update puts the version back it found, a creation drops   *)
(* its table (whatever has that name by now).                              *)
Failed(c) ==
    /\ At(c, "error")
    /\ CASE Is(c, "create") /\ table # 0 -> TableGone
         [] Is(c, "update") /\ model.id = callers[c].undo.model ->
                /\ model' = [model EXCEPT !.current = callers[c].back]
                /\ UNCHANGED <<table, output, versions, builds>>
         [] OTHER -> UNCHANGED rows
    /\ locks' = Released(c)
    /\ Return(c)
    /\ UNCHANGED <<input, log, history, counters>>

(* What should put it right fails as well, which is logged or answered.    *)
CleanupFails(c) ==
    /\ At(c, "error")
    /\ Is(c, "create") \/ Is(c, "update")
    /\ locks' = Released(c)
    /\ Return(c)
    /\ history' = [history EXCEPT !.behind = TRUE]
    /\ UNCHANGED <<input, rows, log, counters>>

(* What tasks that end where they await leave undone.                      *)
CutShort(cs) ==
    [history EXCEPT
        !.failed = @ \/ \E c \in cs : callers[c].pc \in BuildSteps,
        !.behind = @ \/ \E c \in cs : callers[c].pc \in BuildSteps /\ callers[c].kind \in Changes,
        !.torn = @ \/ \E c \in cs : c \in Restorers,
        !.unrecorded = @ \/ \E c \in cs : callers[c].pc \in Building,
        !.stray = @ \/ \E c \in cs : At(c, "insert")]

(* An enrichment is cancelled, or the client of a request is gone; a sync's *)
(* own rebuild is no such task.  The locks it held are free again.         *)
Abort(c) ==
    /\ ~At(c, "idle") /\ ~Is(c, "sync")
    /\ Mishap
    /\ locks' = Released(c)
    /\ Return(c)
    /\ history' = CutShort({c})
    /\ UNCHANGED <<input, rows, log, nextOp>>

(* The process restarts.  Nothing looks at the builds it left running.     *)
Restart ==
    /\ Mishap
    /\ callers' = [c \in Callers |-> Idle]
    /\ locks' = [t \in DOMAIN locks |-> NoOne]
    /\ history' = CutShort(Busy)
    /\ UNCHANGED <<input, rows, log, nextOp>>

Step(c) ==
    \/ LockInput(c) \/ WriteInput(c) \/ Scope(c) \/ Append(c) \/ Capture(c) \/ Drop(c)
    \/ Create(c) \/ Insert(c) \/ SetVersion(c) \/ Context(c) \/ Lock(c) \/ InsertBuild(c)
    \/ ReadInput(c) \/ WriteOutput(c) \/ Finish(c) \/ Done(c) \/ Failed(c)

Fails(c) ==
    \/ BuildRefused(c) \/ BuildFails(c) \/ FinishFails(c) \/ InsertFails(c)
    \/ CleanupFails(c) \/ Abort(c)

Next ==
    \/ \E c \in Callers, k \in Kinds, u \in log \cup {NoUndo} : Start(c, k, u)
    \/ \E c \in Callers : Step(c)
    \/ \E c \in Callers : Fails(c)
    \/ Restart

(* A task that is not waiting for a lock runs on, and tokio's mutexes serve *)
(* their waiters in turn.  Nothing obliges anyone to start an operation.   *)
Fairness == \A c \in Callers : WF_vars(Step(c))

Spec == Init /\ [][Next]_vars /\ Fairness

----------------------------------------------------------------------------
Settled == Busy = {}

(* The version a model points at is on record: neither an update, nor the   *)
(* way back from one, nor a deletion and its undo leaves a model whose      *)
(* recipe cannot be read.  Excluded are changes of the model that overlap,  *)
(* and an undo of a deletion that broke off: the deletion can be undone     *)
(* again later, which brings back the versions of then, and the undo of an  *)
(* update made since points the model at a version that is not among them.  *)
CurrentOnRecord ==
    Exists /\ ~history.raced /\ ~history.torn => versions[model.current] # 0

(* Versions are immutable: as long as a model exists, each version keeps    *)
(* the recipe it was recorded with, so an undo restores what was there.     *)
VersionsImmutable ==
    [][\A v \in Versions :
            model'.id = model.id /\ versions[v] # 0 => versions'[v] = versions[v]]_vars

(* When everything has settled the rows of the output come from the recipe  *)
(* the model points at, after failed updates too: except where changes      *)
(* overlapped a build, a build failed after its write, an undo failed, the  *)
(* way back from a failure failed, or the task of a change ended midway.    *)
RecipeBuilt ==
    Settled /\ Exists /\ ~history.raced /\ ~history.behind
        => output.recipe = versions[model.current]

(* A write to the input is followed: once nobody is at work and no build    *)
(* failed or ended with its task, the output was built from the last state  *)
(* of the input, however syncs, enrichments, rebuilds and changes of the    *)
(* model overlapped.                                                        *)
InputFollowed ==
    Settled /\ Exists /\ ~history.failed => output.from = input

(* No lock stays taken once nobody is at work, whichever step of a build    *)
(* failed and whichever task was aborted, and no build stays "running" but  *)
(* one whose task or process ended after its row was inserted, or whose     *)
(* outcome could not be written: nothing looks at those rows later.         *)
NoBuildLeftRunning ==
    Settled => /\ ~history.unrecorded => \A b \in builds : b.status # "running"
               /\ \A t \in DOMAIN locks : locks[t] = NoOne

(* A creation whose build failed leaves no output behind: without overlaps  *)
(* an output table has its model, except after a creation that ended        *)
(* between its table and its model.                                         *)
NoOrphanTable ==
    Settled /\ ~history.raced /\ ~history.stray /\ table # 0 => Exists

(* Once things have settled, a model and its output belong together: the    *)
(* recipe it points at is on record, the output was built from it and from  *)
(* the last state of the input, and no output stands without a model, each  *)
(* with the exceptions named above.                                         *)
OutputSound == RecipeBuilt /\ InputFollowed /\ NoOrphanTable /\ CurrentOnRecord

(* No operation waits for ever, in particular not an enrichment that holds  *)
(* the lock of the input while it rebuilds the model: as there is a last    *)
(* operation (MaxOps), all of them end, whichever of them fail.             *)
EventuallyDone == []<>(Busy = {})

(* Stated of the code and refuted: an output is built "from its current     *)
(* recipe" even where a change of the model overlaps a build.               *)
BuiltFromCurrentRecipe ==
    Settled /\ Exists /\ ~history.failed => output.recipe = versions[model.current]

(* Stated of the code and refuted: an update of an existing model always    *)
(* finds the next version free.                                             *)
NextVersionFree ==
    \A c \in Callers :
        At(c, "append") /\ model.id = callers[c].undo.model
            => versions[model.current + 1] = 0

=============================================================================
