------------------------- MODULE ModelBuildsProofs -------------------------
(***************************************************************************)
(* Proofs about ModelBuilds, for every value of its constants: type        *)
(* correctness, that a recorded version of a model keeps its recipe, that  *)
(* builds end and locks are given back, and that a model and its output    *)
(* belong together.                                                        *)
(***************************************************************************)
EXTENDS ModelBuilds, TLAPS

(* What an entry of the log needs so that it can be undone.                *)
Undoable(u) ==
    /\ u.model # 0
    /\ u.kind \in {"update", "delete"} => u.to \in Versions

(* What a caller has in hand at each of its steps.                         *)
InHand(k) ==
    /\ k.kind # "undo" => k.undo.kind = "create"
    /\ k.kind = "undo" => Undoable(k.undo)
    /\ k.kind \in {"update", "delete"} /\ k.pc \notin {"idle", "scope"}
            => k.back \in Versions /\ k.undo.model # 0
    /\ k.kind = "create" /\ k.pc \notin {"idle", "create", "insert"} => k.undo.model # 0
    /\ k.pc = "scope" => k.kind \in {"update", "rebuild", "delete"}
    /\ k.pc = "append" => k.kind = "update"
    /\ k.pc = "setVersion" => k.kind = "undo" /\ k.undo.kind = "update"
    /\ k.pc \in {"create", "insert"} =>
            k.kind = "create" \/ (k.kind = "undo" /\ k.undo.kind = "delete")
    /\ k.pc # "idle" => k.op \in 1..(nextOp - 1)

(* Operations have numbers of their own.                                   *)
OpsDiffer ==
    \A c, d \in Callers : c # d /\ ~At(c, "idle") /\ ~At(d, "idle")
                            => callers[c].op # callers[d].op

(* Without a model there are no versions, without a table no model, and a  *)
(* table that waits for its model has none.                                *)
VersionsOfModel ==
    /\ model = NoModel => versions = NoRecipe
    /\ table = 0 => model = NoModel
    /\ \A c \in Callers : At(c, "insert") /\ table = callers[c].op => model = NoModel

(* The invariant that steps preserve.                                      *)
ModelInv ==
    /\ TypeOK /\ nextOp \in Nat \ {0}
    /\ \A c \in Callers : InHand(callers[c])
    /\ \A u \in log : Undoable(u)
    /\ OpsDiffer
    /\ table < nextOp
    /\ VersionsOfModel

(* A caller at rest satisfies what is asked of callers.                    *)
LEMMA IdleType == NoUndo \in Undo /\ Idle \in Caller /\ InHand(Idle) /\ Idle.pc = "idle"
<1>1. NoRecipe \in [Versions -> Nat]
  BY DEF NoRecipe
<1>2. NoUndo \in Undo
  BY <1>1 DEF NoUndo, Undo
<1> QED
  BY <1>2 DEF Idle, Caller, Steps, Kinds, InHand, NoUndo

(* A step of one caller leaves the others' invariant alone.                *)
LEMMA OneMoves ==
    ASSUME ModelInv, NEW c \in Callers, NEW k \in Caller,
           callers' = [callers EXCEPT ![c] = k], UNCHANGED nextOp, InHand(k),
           k.pc # "idle" => ~At(c, "idle") /\ k.op = callers[c].op
    PROVE  /\ callers' \in [Callers -> Caller]
           /\ \A d \in Callers : InHand(callers[d])'
           /\ OpsDiffer'
           /\ callers'[c] = k /\ \A d \in Callers \ {c} : callers'[d] = callers[d]
<1> USE DEF ModelInv, TypeOK
<1>1. callers'[c] = k /\ \A d \in Callers \ {c} : callers'[d] = callers[d]
  OBVIOUS
<1>2. callers' \in [Callers -> Caller]
  OBVIOUS
<1>3. \A d \in Callers : InHand(callers[d])'
  BY <1>1 DEF InHand
<1>4. OpsDiffer'
  BY <1>1 DEF OpsDiffer, At
<1> QED
  BY <1>1, <1>2, <1>3, <1>4

(* The invariant holds at the start ...                                    *)
LEMMA InitInv == Init => ModelInv
<1> SUFFICES ASSUME Init PROVE ModelInv
  OBVIOUS
<1> USE ModelBuildsAssumption
<1>1. NoRecipe \in [Versions -> Nat] /\ 1 \in Versions
  BY DEF NoRecipe, Versions
<1>2. log \in SUBSET Undo /\ \A u \in log : Undoable(u)
  <2> DEFINE first == [NoUndo EXCEPT !.op = 1, !.model = 1]
  <2>1. first \in Undo /\ first.model = 1
    BY IdleType DEF Undo
  <2>2. first.kind = "create"
    BY DEF NoUndo
  <2>3. Undoable(first)
    BY <2>1, <2>2 DEF Undoable
  <2>4. log = {} \/ log = {first}
    BY DEF Init
  <2> HIDE DEF first
  <2> QED
    BY <2>1, <2>3, <2>4
<1>3. TypeOK
  BY <1>1, <1>2, IdleType DEF Init, TypeOK, NoRows, NoModel, History
<1>4. \A c \in Callers : InHand(callers[c]) /\ At(c, "idle")
  BY IdleType DEF Init, At
<1>5. VersionsOfModel /\ nextOp \in Nat \ {0} /\ table < nextOp
  BY <1>4 DEF Init, VersionsOfModel, NoModel, At, Idle
<1> QED
  BY <1>2, <1>3, <1>4, <1>5 DEF ModelInv, OpsDiffer, At

(* The variables the invariant says nothing of but their types.            *)
TablesTyped ==
    /\ input \in Nat /\ output \in [recipe : Nat, from : Nat]
    /\ builds \in SUBSET [id : Nat, status : {"running", "completed", "failed"}]
    /\ locks \in [{"input", "output"} -> Callers \cup {NoOne}]
    /\ history \in History /\ mishaps \in Nat

(* A step that leaves the model, its versions and the log alone.           *)
LEMMA Quiet ==
    ASSUME ModelInv, NEW c \in Callers, NEW k \in Caller,
           callers' = [callers EXCEPT ![c] = k], InHand(k), k.pc # "insert",
           k.pc # "idle" => ~At(c, "idle") /\ k.op = callers[c].op,
           TablesTyped', UNCHANGED <<table, model, versions, log, nextOp>>
    PROVE  ModelInv'
<1>1. /\ callers' \in [Callers -> Caller]
      /\ \A d \in Callers : InHand(callers[d])'
      /\ OpsDiffer'
      /\ callers'[c] = k /\ \A d \in Callers \ {c} : callers'[d] = callers[d]
  BY OneMoves
<1>2. VersionsOfModel'
  BY <1>1 DEF VersionsOfModel, At, ModelInv
<1>3. TypeOK'
  BY <1>1 DEF ModelInv, TypeOK, TablesTyped
<1>4. \A u \in log' : Undoable(u)
  BY DEF ModelInv
<1> QED
  BY <1>1, <1>2, <1>3, <1>4 DEF ModelInv

(* What a failure and a task that ends leave of the history.               *)
LEMMA BrokenDoes ==
    ASSUME ModelInv, NEW c \in Callers, NEW h, h = Broken(c)
    PROVE  /\ h \in History /\ h.failed /\ h.raced = history.raced
           /\ h.behind <=> history.behind \/ At(c, "finish") \/ Is(c, "undo")
           /\ h.torn <=> history.torn \/ c \in Restorers
           /\ h.unrecorded = history.unrecorded /\ h.stray = history.stray
<1> DEFINE b == At(c, "finish") \/ Is(c, "undo")
           t == c \in Restorers
<1>1. b \in BOOLEAN /\ t \in BOOLEAN /\ history \in History
  BY DEF At, Is, ModelInv, TypeOK
<1>2. h = [history EXCEPT !.failed = TRUE, !.behind = @ \/ b, !.torn = @ \/ t]
  BY <1>1 DEF Broken, History
<1> HIDE DEF b, t
<1>3. /\ h \in History /\ h.failed /\ h.raced = history.raced
      /\ h.behind <=> history.behind \/ b
      /\ h.torn <=> history.torn \/ t
      /\ h.unrecorded = history.unrecorded /\ h.stray = history.stray
  BY <1>1, <1>2 DEF History
<1> QED
  BY <1>3 DEF b, t

LEMMA CutShortDoes ==
    ASSUME ModelInv, NEW cs \in SUBSET Callers, NEW h, h = CutShort(cs)
    PROVE  /\ h \in History /\ h.raced = history.raced
           /\ h.failed <=> history.failed \/ \E c \in cs : callers[c].pc \in BuildSteps
           /\ h.behind <=> \/ history.behind
                           \/ \E c \in cs : callers[c].pc \in BuildSteps
                                              /\ callers[c].kind \in Changes
           /\ h.torn <=> history.torn \/ \E c \in cs : c \in Restorers
           /\ h.unrecorded <=> history.unrecorded \/ \E c \in cs : callers[c].pc \in Building
           /\ h.stray <=> history.stray \/ \E c \in cs : At(c, "insert")
<1> DEFINE f == \E c \in cs : callers[c].pc \in BuildSteps
           b == \E c \in cs : callers[c].pc \in BuildSteps /\ callers[c].kind \in Changes
           t == \E c \in cs : c \in Restorers
           u == \E c \in cs : callers[c].pc \in Building
           s == \E c \in cs : At(c, "insert")
<1>1. /\ f \in BOOLEAN /\ b \in BOOLEAN /\ t \in BOOLEAN /\ u \in BOOLEAN /\ s \in BOOLEAN
      /\ history \in History
  BY DEF ModelInv, TypeOK
<1>2. h = [history EXCEPT !.failed = @ \/ f, !.behind = @ \/ b, !.torn = @ \/ t,
                          !.unrecorded = @ \/ u, !.stray = @ \/ s]
  BY DEF CutShort
<1> HIDE DEF f, b, t, u, s
<1>3. /\ h \in History /\ h.raced = history.raced
      /\ h.failed <=> history.failed \/ f
      /\ h.behind <=> history.behind \/ b
      /\ h.torn <=> history.torn \/ t
      /\ h.unrecorded <=> history.unrecorded \/ u
      /\ h.stray <=> history.stray \/ s
  BY <1>1, <1>2 DEF History
<1> QED
  BY <1>3 DEF f, b, t, u, s

(* A failing step leaves the tables alone.                                 *)
LEMMA FailsTyped ==
    ASSUME ModelInv, NEW c \in Callers, Fails(c)
    PROVE  /\ TablesTyped' /\ UNCHANGED <<input, rows, log, nextOp>> /\ ~At(c, "idle")
           /\ \/ Go(c, "finishFailed") /\ callers[c].pc \in {"read", "write", "finish"}
              \/ Go(c, "error")
                    /\ callers[c].pc \in {"context", "row", "finish", "finishFailed"}
              \/ Return(c)
<1> USE DEF counters
<1>1. \/ history' = Broken(c) \/ history' = [Broken(c) EXCEPT !.unrecorded = TRUE]
      \/ history' = [history EXCEPT !.stray = TRUE] \/ history' = [history EXCEPT !.behind = TRUE]
      \/ history' = CutShort({c})
  BY DEF Fails, BuildRefused, BuildFails, FinishFails, InsertFails, CleanupFails, Abort
<1>2. Broken(c) \in History /\ CutShort({c}) \in History /\ history \in History
  BY BrokenDoes, CutShortDoes DEF ModelInv, TypeOK
<1>3. history' \in History
  BY <1>1, <1>2 DEF History
<1>4. UNCHANGED <<input, rows, log, nextOp>>
  BY DEF Fails, BuildRefused, BuildFails, FinishFails, InsertFails, CleanupFails, Abort
<1>5. mishaps' \in Nat
  <2>1. mishaps' = mishaps \/ mishaps' = mishaps + 1
    BY DEF Fails, BuildRefused, BuildFails, FinishFails, InsertFails, CleanupFails, Abort, Mishap
  <2> QED
    BY <2>1 DEF ModelInv, TypeOK
<1>6. locks' \in [{"input", "output"} -> Callers \cup {NoOne}]
  <2>1. \/ UNCHANGED locks \/ locks' = Released(c)
        \/ locks' = [locks EXCEPT !["output"] = IF @ = c THEN NoOne ELSE @]
        \/ locks' = [locks EXCEPT !["output"] = NoOne]
    BY DEF Fails, BuildRefused, BuildFails, FinishFails, InsertFails, CleanupFails, Abort
  <2> QED
    BY <2>1 DEF ModelInv, TypeOK, Released
<1>7. ~At(c, "idle")
  BY DEF Fails, BuildRefused, BuildFails, FinishFails, InsertFails, CleanupFails, Abort, At
<1>8. \/ Go(c, "finishFailed") /\ callers[c].pc \in {"read", "write", "finish"}
      \/ Go(c, "error") /\ callers[c].pc \in {"context", "row", "finish", "finishFailed"}
      \/ Return(c)
  BY DEF Fails, BuildRefused, BuildFails, FinishFails, InsertFails, CleanupFails, Abort, At
<1> QED
  BY <1>3, <1>4, <1>5, <1>6, <1>7, <1>8 DEF TablesTyped, rows, ModelInv, TypeOK

(* A step that drops the table and all that belongs to it.                 *)
LEMMA Dropped ==
    ASSUME ModelInv, NEW c \in Callers, NEW k \in Caller,
           callers' = [callers EXCEPT ![c] = k], InHand(k), k.pc # "insert",
           k.pc # "idle" => ~At(c, "idle") /\ k.op = callers[c].op,
           TableGone, locks' \in [{"input", "output"} -> Callers \cup {NoOne}],
           UNCHANGED <<input, log, history, nextOp, mishaps>>
    PROVE  ModelInv'
<1>1. /\ callers' \in [Callers -> Caller]
      /\ \A d \in Callers : InHand(callers[d])'
      /\ OpsDiffer'
  BY OneMoves
<1>2. VersionsOfModel'
  BY <1>1 DEF VersionsOfModel, TableGone
<1>3. TypeOK'
  BY <1>1 DEF ModelInv, TypeOK, TableGone, NoRows, NoRecipe
<1> QED
  BY <1>1, <1>2, <1>3 DEF ModelInv, TableGone, Undoable

(* ... and every step keeps it.                                            *)
LEMMA StepInv == ModelInv /\ [Next]_vars => ModelInv'
<1> SUFFICES ASSUME ModelInv, [Next]_vars PROVE ModelInv'
  OBVIOUS
<1> USE DEF rows, counters, ModelInv, TypeOK
<1>1. ASSUME NEW c \in Callers, LockInput(c) PROVE ModelInv'
  <2> DEFINE k == callers'[c]
  <2>1. /\ k \in Caller /\ InHand(k) /\ k.pc # "insert"
        /\ k.pc # "idle" => k.op = callers[c].op
    BY <1>1 DEF LockInput, Go, GoWith, At, InHand, Caller, Steps
  <2>2. callers' = [callers EXCEPT ![c] = k]
    BY <1>1 DEF LockInput, Go, Return, GoWith
  <2>3. k.pc # "idle" => ~At(c, "idle") /\ k.op = callers[c].op
    BY <1>1, <2>1 DEF LockInput, At
  <2>4. TablesTyped' /\ UNCHANGED <<table, model, versions, log, nextOp>>
    BY <1>1 DEF LockInput, TablesTyped
  <2> HIDE DEF k
  <2> QED
    BY <2>1, <2>2, <2>3, <2>4, Quiet
<1>2. ASSUME NEW c \in Callers, WriteInput(c) PROVE ModelInv'
  <2> DEFINE k == callers'[c]
  <2>1. /\ k \in Caller /\ InHand(k) /\ k.pc # "insert"
        /\ k.pc # "idle" => k.op = callers[c].op
    BY <1>2 DEF WriteInput, Go, GoWith, At, InHand, Caller, Steps
  <2>2. callers' = [callers EXCEPT ![c] = k]
    BY <1>2 DEF WriteInput, Go, Return, GoWith
  <2>3. k.pc # "idle" => ~At(c, "idle") /\ k.op = callers[c].op
    BY <1>2, <2>1 DEF WriteInput, At
  <2>4. TablesTyped' /\ UNCHANGED <<table, model, versions, log, nextOp>>
    BY <1>2 DEF WriteInput, TablesTyped
  <2> HIDE DEF k
  <2> QED
    BY <2>1, <2>2, <2>3, <2>4, Quiet
<1>3. ASSUME NEW c \in Callers, Scope(c) PROVE ModelInv'
  <2> DEFINE k == callers'[c]
  <2>1. /\ k \in Caller /\ InHand(k) /\ k.pc # "insert"
        /\ k.pc # "idle" => k.op = callers[c].op
    <3>1. CASE ~Exists
      BY <1>3, <3>1, IdleType DEF Scope, Return
    <3>2. CASE Exists
      <4>1. model.id \in Nat \ {0} /\ model.current \in Versions /\ Versions \subseteq Nat
        BY <3>2 DEF Exists, Versions
      <4>2. callers[c].kind \in {"update", "rebuild", "delete"}
        BY <1>3 DEF Scope, At, InHand
      <4>3. k = [callers[c] EXCEPT
                    !.back = model.current,
                    !.undo.model = model.id,
                    !.pc = CASE Is(c, "update")  -> "append"
                             [] Is(c, "rebuild") -> "context"
                             [] Is(c, "delete")  -> "capture"]
        BY <1>3, <3>2 DEF Scope, GoWith
      <4> HIDE DEF k
      <4>4. k.undo = [callers[c].undo EXCEPT !.model = model.id] /\ k.undo \in Undo
        BY <4>1, <4>3 DEF Caller, Undo
      <4>5. /\ k.kind = callers[c].kind /\ k.op = callers[c].op
            /\ k.back = model.current /\ k.recipe = callers[c].recipe /\ k.from = callers[c].from
            /\ k.pc = CASE callers[c].kind = "update"  -> "append"
                        [] callers[c].kind = "rebuild" -> "context"
                        [] callers[c].kind = "delete"  -> "capture"
        BY <4>3 DEF Caller, Is
      <4>6. k \in Caller
        BY <4>1, <4>2, <4>3, <4>4, <4>5 DEF Caller, Steps
      <4>7. callers[c].op \in 1..(nextOp - 1) /\ callers[c].undo.kind = "create"
        BY <1>3, <4>2 DEF Scope, At, InHand
      <4> QED
        BY <4>1, <4>2, <4>4, <4>5, <4>6, <4>7 DEF InHand, Undo, Caller
    <3> QED
      BY <3>1, <3>2
  <2>2. callers' = [callers EXCEPT ![c] = k]
    BY <1>3 DEF Scope, Go, Return, GoWith
  <2>3. k.pc # "idle" => ~At(c, "idle") /\ k.op = callers[c].op
    BY <1>3, <2>1 DEF Scope, At
  <2>4. TablesTyped' /\ UNCHANGED <<table, model, versions, log, nextOp>>
    BY <1>3 DEF Scope, TablesTyped
  <2> HIDE DEF k
  <2> QED
    BY <2>1, <2>2, <2>3, <2>4, Quiet
<1>4. ASSUME NEW c \in Callers, Capture(c) PROVE ModelInv'
  <2> DEFINE k == callers'[c]
  <2>1. /\ k \in Caller /\ InHand(k) /\ k.pc # "insert"
        /\ k.pc # "idle" => k.op = callers[c].op
    <3> DEFINE kept == IF model.id = callers[c].undo.model THEN versions ELSE NoRecipe
    <3>1. kept \in [Versions -> Nat]
      BY DEF NoRecipe
    <3>2. k = [callers[c] EXCEPT !.pc = "drop", !.undo.versions = kept]
      BY <1>4 DEF Capture, GoWith
    <3> HIDE DEF k, kept
    <3>3. k.undo = [callers[c].undo EXCEPT !.versions = kept]
      BY <3>2 DEF Caller
    <3>4. k.undo \in Undo
      BY <3>1, <3>3 DEF Caller, Undo
    <3>5. /\ k.kind = callers[c].kind /\ k.op = callers[c].op /\ k.pc = "drop"
          /\ k.back = callers[c].back /\ k.recipe = callers[c].recipe
          /\ k.from = callers[c].from
      BY <3>2 DEF Caller
    <3>6. k \in Caller
      BY <3>2, <3>4, <3>5 DEF Caller, Steps
    <3> QED
      BY <1>4, <3>3, <3>5, <3>6 DEF Capture, At, InHand, Undo, Undoable, Caller
  <2>2. callers' = [callers EXCEPT ![c] = k]
    BY <1>4 DEF Capture, Go, Return, GoWith
  <2>3. k.pc # "idle" => ~At(c, "idle") /\ k.op = callers[c].op
    BY <1>4, <2>1 DEF Capture, At
  <2>4. TablesTyped' /\ UNCHANGED <<table, model, versions, log, nextOp>>
    BY <1>4 DEF Capture, TablesTyped
  <2> HIDE DEF k
  <2> QED
    BY <2>1, <2>2, <2>3, <2>4, Quiet
<1>5. ASSUME NEW c \in Callers, Context(c) PROVE ModelInv'
  <2> DEFINE k == callers'[c]
  <2>1. /\ k \in Caller /\ InHand(k) /\ k.pc # "insert"
        /\ k.pc # "idle" => k.op = callers[c].op
    <3> DEFINE refused == \/ ~Exists
                          \/ ~Is(c, "sync") /\ ~Is(c, "enrich") /\ model.id # callers[c].undo.model
    <3>1. CASE refused
      BY <1>5, <3>1 DEF Context, Go, GoWith, At, InHand, Caller, Steps
    <3>2. CASE ~refused
      <4>1. Exists /\ k = [callers[c] EXCEPT !.pc = "lock", !.recipe = versions[model.current],
                                             !.undo.model = model.id]
        BY <1>5, <3>2 DEF Context, Go, GoWith
      <4>2. model.id \in Nat \ {0} /\ versions[model.current] \in Nat
        BY <4>1 DEF Exists
      <4> HIDE DEF k
      <4>3. k.undo = [callers[c].undo EXCEPT !.model = model.id]
        BY <4>1 DEF Caller
      <4>4. k.undo \in Undo
        BY <4>2, <4>3 DEF Caller, Undo
      <4>5. /\ k.kind = callers[c].kind /\ k.op = callers[c].op /\ k.pc = "lock"
            /\ k.back = callers[c].back /\ k.from = callers[c].from
            /\ k.recipe = versions[model.current]
        BY <4>1 DEF Caller
      <4>6. k \in Caller
        BY <4>1, <4>2, <4>4, <4>5 DEF Caller, Steps
      <4> QED
        BY <1>5, <4>2, <4>3, <4>5, <4>6 DEF Context, At, InHand, Undo, Undoable, Caller
    <3> QED
      BY <3>1, <3>2
  <2>2. callers' = [callers EXCEPT ![c] = k]
    BY <1>5 DEF Context, Go, Return, GoWith
  <2>3. k.pc # "idle" => ~At(c, "idle") /\ k.op = callers[c].op
    BY <1>5, <2>1 DEF Context, At
  <2>4. TablesTyped' /\ UNCHANGED <<table, model, versions, log, nextOp>>
    BY <1>5 DEF Context, TablesTyped
  <2> HIDE DEF k
  <2> QED
    BY <2>1, <2>2, <2>3, <2>4, Quiet
<1>6. ASSUME NEW c \in Callers, Lock(c) PROVE ModelInv'
  <2> DEFINE k == callers'[c]
  <2>1. /\ k \in Caller /\ InHand(k) /\ k.pc # "insert"
        /\ k.pc # "idle" => k.op = callers[c].op
    BY <1>6 DEF Lock, Go, GoWith, At, InHand, Caller, Steps
  <2>2. callers' = [callers EXCEPT ![c] = k]
    BY <1>6 DEF Lock, Go, Return, GoWith
  <2>3. k.pc # "idle" => ~At(c, "idle") /\ k.op = callers[c].op
    BY <1>6, <2>1 DEF Lock, At
  <2>4. TablesTyped' /\ UNCHANGED <<table, model, versions, log, nextOp>>
    BY <1>6 DEF Lock, TablesTyped
  <2> HIDE DEF k
  <2> QED
    BY <2>1, <2>2, <2>3, <2>4, Quiet
<1>7. ASSUME NEW c \in Callers, InsertBuild(c) PROVE ModelInv'
  <2> DEFINE k == callers'[c]
  <2>1. /\ k \in Caller /\ InHand(k) /\ k.pc # "insert"
        /\ k.pc # "idle" => k.op = callers[c].op
    BY <1>7 DEF InsertBuild, Go, GoWith, At, InHand, Caller, Steps
  <2>2. callers' = [callers EXCEPT ![c] = k]
    BY <1>7 DEF InsertBuild, Go, Return, GoWith
  <2>3. k.pc # "idle" => ~At(c, "idle") /\ k.op = callers[c].op
    BY <1>7, <2>1 DEF InsertBuild, At
  <2>4. TablesTyped' /\ UNCHANGED <<table, model, versions, log, nextOp>>
    <3>1. callers[c].op \in Nat
      BY DEF Caller
    <3>2. builds' \in SUBSET [id : Nat, status : {"running", "completed", "failed"}]
      BY <1>7, <3>1 DEF InsertBuild
    <3>3. locks' \in [{"input", "output"} -> Callers \cup {NoOne}]
      BY <1>7 DEF InsertBuild
    <3> QED
      BY <1>7, <3>2, <3>3 DEF InsertBuild, TablesTyped
  <2> HIDE DEF k
  <2> QED
    BY <2>1, <2>2, <2>3, <2>4, Quiet
<1>8. ASSUME NEW c \in Callers, ReadInput(c) PROVE ModelInv'
  <2> DEFINE k == callers'[c]
  <2>1. /\ k \in Caller /\ InHand(k) /\ k.pc # "insert"
        /\ k.pc # "idle" => k.op = callers[c].op
    <3>1. k = [callers[c] EXCEPT !.pc = "write", !.from = input] /\ input \in Nat
      BY <1>8 DEF ReadInput, GoWith
    <3> HIDE DEF k
    <3>2. /\ k \in Caller /\ k.pc = "write" /\ k.kind = callers[c].kind
          /\ k.op = callers[c].op /\ k.back = callers[c].back /\ k.undo = callers[c].undo
      BY ZenonT(30), <3>1 DEF Caller, Steps
    <3> QED
      BY <1>8, <3>2 DEF ReadInput, At, InHand
  <2>2. callers' = [callers EXCEPT ![c] = k]
    BY <1>8 DEF ReadInput, Go, Return, GoWith
  <2>3. k.pc # "idle" => ~At(c, "idle") /\ k.op = callers[c].op
    BY <1>8, <2>1 DEF ReadInput, At
  <2>4. TablesTyped' /\ UNCHANGED <<table, model, versions, log, nextOp>>
    BY <1>8 DEF ReadInput, TablesTyped
  <2> HIDE DEF k
  <2> QED
    BY <2>1, <2>2, <2>3, <2>4, Quiet
<1>9. ASSUME NEW c \in Callers, Fails(c) PROVE ModelInv'
  <2> DEFINE k == callers'[c]
  <2>0. /\ TablesTyped' /\ UNCHANGED <<table, model, versions, log, nextOp>> /\ ~At(c, "idle")
        /\ \/ Go(c, "finishFailed") /\ callers[c].pc \in {"read", "write", "finish"}
           \/ Go(c, "error") /\ callers[c].pc \in {"context", "row", "finish", "finishFailed"}
           \/ Return(c)
    BY <1>9, FailsTyped
  <2>1. /\ k \in Caller /\ InHand(k) /\ k.pc # "insert"
        /\ k.pc # "idle" => k.op = callers[c].op
    BY <2>0, IdleType DEF Go, Return, InHand, Caller, Steps
  <2>2. callers' = [callers EXCEPT ![c] = k]
    BY <2>0 DEF Go, Return
  <2> HIDE DEF k
  <2> QED
    BY <2>0, <2>1, <2>2, Quiet
<1>10. ASSUME NEW c \in Callers, Finish(c) PROVE ModelInv'
  <2> DEFINE k == callers'[c]
  <2>1. /\ k \in Caller /\ InHand(k) /\ k.pc # "insert"
        /\ k.pc # "idle" => k.op = callers[c].op
    BY <1>10 DEF Finish, Go, GoWith, At, InHand, Caller, Steps
  <2>2. callers' = [callers EXCEPT ![c] = k]
    BY <1>10 DEF Finish, Go, Return, GoWith
  <2>3. k.pc # "idle" => ~At(c, "idle") /\ k.op = callers[c].op
    BY <1>10, <2>1 DEF Finish, At
  <2>4. TablesTyped' /\ UNCHANGED <<table, model, versions, log, nextOp>>
    <3>1. builds' \in SUBSET [id : Nat, status : {"running", "completed", "failed"}]
      BY <1>10 DEF Finish, Recorded
    <3> QED
      BY <1>10, <3>1 DEF Finish, TablesTyped
  <2> HIDE DEF k
  <2> QED
    BY <2>1, <2>2, <2>3, <2>4, Quiet
<1>11. ASSUME NEW c \in Callers, NEW kind \in Kinds, NEW undo \in log \cup {NoUndo},
              Start(c, kind, undo)
       PROVE  ModelInv'
  <2> DEFINE k == [Idle EXCEPT !.pc = FirstStep(kind, undo), !.kind = kind, !.op = nextOp,
                               !.undo = undo]
  <2>1. /\ undo \in Undo
        /\ kind = "undo" => Undoable(undo)
        /\ kind # "undo" => undo.kind = "create"
    BY <1>11, IdleType DEF Start, NoUndo
  <2>2. /\ k.pc = FirstStep(kind, undo) /\ k.kind = kind /\ k.op = nextOp /\ k.undo = undo
        /\ k.back = 0 /\ k.recipe = 0 /\ k.from = 0
        /\ DOMAIN k = {"pc", "kind", "op", "back", "recipe", "from", "undo"}
    BY DEF Idle
  <2>3. /\ k.pc \in {"create", "scope", "writeInput", "lockInput", "drop", "setVersion"}
        /\ k.pc = "scope" => kind \in {"update", "rebuild", "delete"}
        /\ kind \in {"update", "delete"} => k.pc = "scope"
        /\ kind = "create" => k.pc = "create"
        /\ k.pc = "setVersion" => kind = "undo" /\ undo.kind = "update"
        /\ k.pc = "create" => kind = "create" \/ (kind = "undo" /\ undo.kind = "delete")
    BY <2>1, <2>2 DEF FirstStep, Kinds, Undo
  <2>4. k \in Caller
    BY <2>1, <2>3, IdleType DEF Caller, Steps, Idle
  <2>5. callers' = [callers EXCEPT ![c] = k] /\ nextOp' = nextOp + 1
    BY <1>11 DEF Start, GoWith
  <2>6. history' \in History
    <3>1. (\E o \in Busy : kind \in Changes \/ callers[o].kind \in Changes) \in BOOLEAN
      OBVIOUS
    <3> QED
      BY <1>11, <3>1 DEF Start, History
  <2> HIDE DEF k
  <2>7. callers'[c] = k /\ \A d \in Callers \ {c} : callers'[d] = callers[d]
    BY <2>5
  <2>8. \A d \in Callers : InHand(callers[d])'
    BY <2>1, <2>2, <2>3, <2>5, <2>7 DEF InHand, Undoable
  <2>9. OpsDiffer'
    BY <2>2, <2>5, <2>7 DEF OpsDiffer, At, InHand
  <2>10. VersionsOfModel'
    BY <1>11, <2>3, <2>7 DEF Start, VersionsOfModel, At
  <2>11. TypeOK'
    BY <1>11, <2>4, <2>5, <2>6 DEF Start
  <2> QED
    BY <1>11, <2>5, <2>8, <2>9, <2>10, <2>11 DEF Start
<1>12. ASSUME NEW c \in Callers, Append(c) PROVE ModelInv'
  <2> DEFINE refused == model.id # callers[c].undo.model \/ versions[model.current + 1] # 0
  <2>1. CASE refused
    BY <1>12, <2>1, IdleType, Quiet DEF Append, Return, TablesTyped
  <2>2. CASE ~refused
    <3> DEFINE k == [callers[c] EXCEPT !.pc = "context"]
    <3>1. callers[c].undo.model # 0 /\ model # NoModel /\ model.id \in Nat \ {0}
      BY <1>12, <2>2 DEF Append, At, InHand, NoModel
    <3>2. k \in Caller /\ InHand(k) /\ k.pc = "context" /\ k.op = callers[c].op
      BY <1>12 DEF Append, At, InHand, Caller, Steps
    <3>3. callers' = [callers EXCEPT ![c] = k]
      BY <1>12, <2>2 DEF Append, Go
    <3>4. versions' \in [Versions -> Nat]
      BY <1>12, <2>2 DEF Append, Caller
    <3>5. model' \in [id : Nat \ {0}, current : Versions] /\ model' # NoModel
      BY <1>12, <2>2, <3>1 DEF Append, NoModel
    <3> HIDE DEF k
    <3>6. /\ callers' \in [Callers -> Caller]
          /\ \A d \in Callers : InHand(callers[d])'
          /\ OpsDiffer'
          /\ callers'[c] = k /\ \A d \in Callers \ {c} : callers'[d] = callers[d]
      BY <1>12, <3>2, <3>3, OneMoves DEF Append, At
    <3>7. VersionsOfModel'
      BY <1>12, <3>1, <3>2, <3>5, <3>6 DEF Append, VersionsOfModel, At
    <3> QED
      BY <1>12, <3>4, <3>5, <3>6, <3>7 DEF Append
  <2> QED
    BY <2>1, <2>2
<1>13. ASSUME NEW c \in Callers, Drop(c) PROVE ModelInv'
  <2> DEFINE k == callers'[c]
  <2>1. k \in Caller /\ InHand(k) /\ k.pc \in {"idle", "done"}
        /\ (k.pc # "idle" => k.op = callers[c].op)
    BY <1>13, IdleType DEF Drop, Go, Return, At, InHand, Caller, Steps
  <2>2. callers' = [callers EXCEPT ![c] = k]
    BY <1>13 DEF Drop, Go, Return
  <2>3. TableGone \/ UNCHANGED rows
    BY <1>13 DEF Drop
  <2>4. ~At(c, "idle") /\ UNCHANGED <<input, locks, log, history, counters>>
    BY <1>13 DEF Drop, At
  <2> HIDE DEF k
  <2>5. CASE TableGone
    BY <2>1, <2>2, <2>4, <2>5, Dropped
  <2>6. CASE UNCHANGED rows
    BY <2>1, <2>2, <2>4, <2>6, Quiet DEF TablesTyped
  <2> QED
    BY <2>3, <2>5, <2>6
<1>14. ASSUME NEW c \in Callers, Create(c) PROVE ModelInv'
  <2>1. CASE table # 0
    BY <1>14, <2>1, IdleType, Quiet DEF Create, Return, TablesTyped
  <2>2. CASE table = 0
    <3> DEFINE k == [callers[c] EXCEPT !.pc = "insert"]
    <3>1. k \in Caller /\ InHand(k) /\ k.op = callers[c].op /\ k.op \in 1..(nextOp - 1)
      BY <1>14 DEF Create, At, InHand, Caller, Steps
    <3>2. callers' = [callers EXCEPT ![c] = k]
      BY <1>14, <2>2 DEF Create, Go
    <3> HIDE DEF k
    <3>3. /\ callers' \in [Callers -> Caller]
          /\ \A d \in Callers : InHand(callers[d])'
          /\ OpsDiffer'
      BY <1>14, <3>1, <3>2, OneMoves DEF Create, At
    <3>4. table' = k.op /\ output' = NoRows
      BY <1>14, <2>2, <3>1 DEF Create
    <3>5. VersionsOfModel'
      BY <1>14, <2>2, <3>1, <3>4 DEF Create, VersionsOfModel
    <3>6. TypeOK'
      BY <1>14, <3>1, <3>3, <3>4 DEF Create, NoRows
    <3> QED
      BY <1>14, <3>1, <3>3, <3>4, <3>5, <3>6 DEF Create
  <2> QED
    BY <2>1, <2>2
<1>15. ASSUME NEW c \in Callers, Insert(c) PROVE ModelInv'
  <2>1. CASE table # callers[c].op
    BY <1>15, <2>1, IdleType, Quiet DEF Insert, Return, TablesTyped
  <2>2. CASE table = callers[c].op
    <3> DEFINE k == [callers[c] EXCEPT !.pc = "context", !.undo.model = model'.id]
    <3>1. /\ callers[c] \in Caller /\ callers[c].pc = "insert"
          /\ callers[c].op \in 1..(nextOp - 1) /\ callers[c].op \in Nat \ {0}
      BY <1>15 DEF Insert, At, InHand
    <3>2. 1 \in Versions /\ NoRecipe \in [Versions -> Nat]
      BY ModelBuildsAssumption DEF Versions, NoRecipe
    <3>3. model' \in [id : Nat \ {0}, current : Versions] /\ versions' \in [Versions -> Nat]
      <4>1. CASE Is(c, "undo")
        <5>1. callers[c].undo \in Undo /\ callers[c].undo.model # 0 /\ callers[c].undo.to \in Versions
          BY <1>15, <4>1, <3>1 DEF Insert, Is, InHand, Undoable, Caller
        <5> QED
          BY <1>15, <2>2, <4>1, <5>1 DEF Insert, Undo
      <4>2. CASE ~Is(c, "undo")
        BY <1>15, <2>2, <4>2, <3>1, <3>2 DEF Insert
      <4> QED
        BY <4>1, <4>2
    <3>4. model = NoModel /\ model' # NoModel
      BY <1>15, <2>2, <3>3 DEF Insert, VersionsOfModel, NoModel
    <3> DEFINE id == model'.id
    <3>5. id \in Nat \ {0} /\ k = [callers[c] EXCEPT !.pc = "context", !.undo.model = id]
      BY <3>3
    <3>6. callers' = [callers EXCEPT ![c] = k]
      BY <1>15, <2>2 DEF Insert, GoWith
    <3> HIDE DEF k, id
    <3>7. k.undo = [callers[c].undo EXCEPT !.model = id]
      BY <3>5 DEF Caller
    <3>8. k.undo \in Undo
      BY <3>5, <3>7 DEF Caller, Undo
    <3>9. /\ k.kind = callers[c].kind /\ k.op = callers[c].op /\ k.pc = "context"
          /\ k.back = callers[c].back /\ k.recipe = callers[c].recipe
          /\ k.from = callers[c].from
      BY <3>5 DEF Caller
    <3>10. k \in Caller
      BY <3>5, <3>8, <3>9 DEF Caller, Steps
    <3>11. InHand(k)
      BY <1>15, <3>1, <3>5, <3>7, <3>9 DEF InHand, Undo, Undoable, Caller
    <3>12. /\ callers' \in [Callers -> Caller]
           /\ \A d \in Callers : InHand(callers[d])'
           /\ OpsDiffer'
           /\ callers'[c] = k /\ \A d \in Callers \ {c} : callers'[d] = callers[d]
      BY <1>15, <3>1, <3>9, <3>10, <3>6, <3>11, OneMoves DEF Insert, At
    <3>13. VersionsOfModel'
      BY <1>15, <2>2, <3>1, <3>4, <3>9, <3>12 DEF Insert, VersionsOfModel, At, OpsDiffer
    <3> QED
      BY <1>15, <3>3, <3>12, <3>13 DEF Insert
  <2> QED
    BY <2>1, <2>2
<1>16. ASSUME NEW c \in Callers, SetVersion(c) PROVE ModelInv'
  <2> DEFINE k == [callers[c] EXCEPT !.pc = "context"]
  <2>1. callers[c].undo.model # 0 /\ callers[c].undo.to \in Versions
    BY <1>16 DEF SetVersion, At, InHand, Undoable
  <2>2. k \in Caller /\ InHand(k) /\ k.pc = "context" /\ k.op = callers[c].op
    BY <1>16 DEF SetVersion, At, InHand, Caller, Steps
  <2>3. callers' = [callers EXCEPT ![c] = k]
    BY <1>16 DEF SetVersion, Go
  <2>4. model = NoModel => model' = NoModel
    BY <1>16, <2>1 DEF SetVersion, NoModel
  <2>5. model # NoModel => model' \in [id : Nat \ {0}, current : Versions]
    BY <1>16, <2>1 DEF SetVersion
  <2> HIDE DEF k
  <2>6. /\ callers' \in [Callers -> Caller]
        /\ \A d \in Callers : InHand(callers[d])'
        /\ OpsDiffer'
        /\ callers'[c] = k /\ \A d \in Callers \ {c} : callers'[d] = callers[d]
    BY <1>16, <2>2, <2>3, OneMoves DEF SetVersion, At
  <2>7. VersionsOfModel'
    BY <1>16, <2>2, <2>4, <2>5, <2>6 DEF SetVersion, VersionsOfModel, At, NoModel
  <2> QED
    BY <1>16, <2>4, <2>5, <2>6, <2>7 DEF SetVersion
<1>17. ASSUME NEW c \in Callers, WriteOutput(c) PROVE ModelInv'
  <2> DEFINE k == [callers[c] EXCEPT !.pc = "finish"]
  <2>1. /\ k \in Caller /\ InHand(k) /\ k.pc = "finish" /\ k.op = callers[c].op
        /\ callers[c].op \in 1..(nextOp - 1) /\ callers[c].recipe \in Nat /\ callers[c].from \in Nat
    BY <1>17 DEF WriteOutput, At, InHand, Caller, Steps
  <2>2. callers' = [callers EXCEPT ![c] = k]
    BY <1>17 DEF WriteOutput, Go
  <2> HIDE DEF k
  <2>3. /\ callers' \in [Callers -> Caller]
        /\ \A d \in Callers : InHand(callers[d])'
        /\ OpsDiffer'
        /\ callers'[c] = k /\ \A d \in Callers \ {c} : callers'[d] = callers[d]
    BY <1>17, <2>1, <2>2, OneMoves DEF WriteOutput, At
  <2>4. VersionsOfModel'
    BY <1>17, <2>1, <2>3 DEF WriteOutput, VersionsOfModel, At, OpsDiffer
  <2> QED
    BY <1>17, <2>1, <2>3, <2>4 DEF WriteOutput
<1>18. ASSUME NEW c \in Callers, Done(c) PROVE ModelInv'
  <2> DEFINE u == callers[c].undo
             b == callers[c].back
             o == callers[c].op
  <2>1. u \in Undo /\ b \in Nat /\ o \in Nat /\ callers[c].pc = "done" /\ InHand(callers[c])
    BY <1>18 DEF Done, At, Caller
  <2>2. log' \in SUBSET Undo /\ \A e \in log' : Undoable(e)
    <3>1. CASE Is(c, "update") \/ Is(c, "delete")
      <4> DEFINE e == [u EXCEPT !.op = o, !.kind = callers[c].kind, !.to = b]
      <4>1. b \in Versions /\ u.model # 0 /\ callers[c].kind \in {"update", "delete"}
        BY <2>1, <3>1 DEF InHand, Is
      <4>2. log' = log \cup {e}
        BY <1>18, <3>1 DEF Done, Is
      <4> HIDE DEF u, b, o
      <4>3. e \in Undo /\ e.model = u.model /\ e.to = b
        BY <2>1, <4>1 DEF Undo
      <4> QED
        BY <4>1, <4>2, <4>3 DEF Undoable
    <3>2. CASE Is(c, "create")
      <4> DEFINE e == [u EXCEPT !.op = o]
      <4>1. u.model # 0 /\ u.kind = "create"
        BY <2>1, <3>2 DEF InHand, Is
      <4>2. log' = log \cup {e}
        BY <1>18, <3>2 DEF Done, Is
      <4> HIDE DEF u, b, o
      <4>3. e \in Undo /\ e.model = u.model /\ e.kind = "create"
        BY <2>1, <4>1 DEF Undo
      <4> QED
        BY <4>1, <4>2, <4>3 DEF Undoable
    <3>3. CASE ~Is(c, "update") /\ ~Is(c, "delete") /\ ~Is(c, "create")
      BY <1>18, <3>3 DEF Done
    <3> QED
      BY <3>1, <3>2, <3>3
  <2>3. callers' = [callers EXCEPT ![c] = Idle]
    BY <1>18 DEF Done, Return
  <2>4. /\ callers' \in [Callers -> Caller]
        /\ \A d \in Callers : InHand(callers[d])'
        /\ OpsDiffer'
        /\ callers'[c] = Idle /\ \A d \in Callers \ {c} : callers'[d] = callers[d]
    BY <1>18, <2>3, IdleType, OneMoves DEF Done
  <2>5. locks' \in [{"input", "output"} -> Callers \cup {NoOne}]
    BY <1>18 DEF Done, Released
  <2>6. VersionsOfModel'
    BY <1>18, <2>4, IdleType DEF Done, VersionsOfModel, At
  <2>7. UNCHANGED <<input, table, output, model, versions, builds, history, nextOp, mishaps>>
    BY <1>18 DEF Done
  <2> QED
    BY <2>2, <2>4, <2>5, <2>6, <2>7 DEF Undoable
<1>19. ASSUME NEW c \in Callers, Failed(c) PROVE ModelInv'
  <2>1. callers' = [callers EXCEPT ![c] = Idle]
    BY <1>19 DEF Failed, Return
  <2>2. locks' \in [{"input", "output"} -> Callers \cup {NoOne}]
    BY <1>19 DEF Failed, Released
  <2>3. UNCHANGED <<input, log, history, nextOp, mishaps>>
    BY <1>19 DEF Failed
  <2>4. CASE TableGone
    BY <2>1, <2>2, <2>3, <2>4, IdleType, Dropped
  <2>5. CASE UNCHANGED rows
    BY <2>1, <2>2, <2>3, <2>5, IdleType, Quiet DEF TablesTyped
  <2>6. CASE Is(c, "update") /\ model.id = callers[c].undo.model
    <3>1. callers[c].back \in Versions /\ callers[c].undo.model # 0
      BY <1>19, <2>6 DEF Failed, At, Is, InHand
    <3>2. model # NoModel /\ model \in [id : Nat \ {0}, current : Versions]
      BY <2>6, <3>1 DEF NoModel
    <3>3. /\ model' = [model EXCEPT !.current = callers[c].back]
          /\ UNCHANGED <<table, output, versions, builds>>
      BY <1>19, <2>6 DEF Failed, Is
    <3>4. model' \in [id : Nat \ {0}, current : Versions] /\ model' # NoModel
      BY <3>1, <3>2, <3>3 DEF NoModel
    <3>5. /\ callers' \in [Callers -> Caller]
          /\ \A d \in Callers : InHand(callers[d])'
          /\ OpsDiffer'
          /\ callers'[c] = Idle /\ \A d \in Callers \ {c} : callers'[d] = callers[d]
      BY <2>1, <2>3, IdleType, OneMoves
    <3>6. VersionsOfModel'
      BY <3>2, <3>3, <3>4, <3>5, IdleType DEF VersionsOfModel, At
    <3> QED
      BY <2>2, <2>3, <3>3, <3>4, <3>5, <3>6
  <2> QED
    BY <1>19, <2>4, <2>5, <2>6 DEF Failed
<1>20. ASSUME Restart PROVE ModelInv'
  <2>1. \A d \in Callers : callers'[d] = Idle
    BY <1>20 DEF Restart
  <2>2. callers' \in [Callers -> Caller] /\ \A d \in Callers : InHand(callers[d])'
    BY <1>20, <2>1, IdleType DEF Restart, InHand
  <2>3. OpsDiffer' /\ VersionsOfModel'
    BY <1>20, <2>1, IdleType DEF Restart, OpsDiffer, VersionsOfModel, At
  <2>4. locks' \in [{"input", "output"} -> Callers \cup {NoOne}]
    BY <1>20 DEF Restart
  <2>5. history' \in History
    <3>1. Busy \in SUBSET Callers
      BY DEF Busy
    <3> QED
      BY <1>20, <3>1, CutShortDoes DEF Restart
  <2> QED
    BY <1>20, <2>2, <2>3, <2>4, <2>5 DEF Restart, Mishap
<1>21. CASE UNCHANGED vars
  <2>1. /\ UNCHANGED <<input, table, output, model, versions, builds, locks, callers>>
        /\ UNCHANGED <<log, history, nextOp, mishaps>>
    BY <1>21 DEF vars
  <2>2. OpsDiffer' /\ VersionsOfModel'
    BY <2>1 DEF OpsDiffer, VersionsOfModel, At
  <2>3. \A d \in Callers : InHand(callers[d])'
    BY <2>1 DEF InHand
  <2> QED
    BY <2>1, <2>2, <2>3
<1> QED
  BY <1>1, <1>2, <1>3, <1>4, <1>5, <1>6, <1>7, <1>8, <1>9, <1>10, <1>11, <1>12, <1>13,
     <1>14, <1>15, <1>16, <1>17, <1>18, <1>19, <1>20, <1>21 DEF Next, Step

(* Every variable of the model-build state keeps its type.  (TypeOK of the *)
(* model_builds run.)                                                      *)
THEOREM TypeCorrect == Spec => []TypeOK
<1>1. ModelInv => TypeOK
  BY DEF ModelInv
<1> QED
  BY <1>1, InitInv, StepInv, PTL DEF Spec

(* A version that is on record keeps its recipe, as far as one step goes.  *)
VersionsStay ==
    \A v \in Versions : model'.id = model.id /\ versions[v] # 0 => versions'[v] = versions[v]

(* Versions that go with the table belong to a model that goes too.        *)
LEMMA DroppedVersions == ModelInv /\ TableGone => VersionsStay
<1> SUFFICES ASSUME ModelInv, TableGone,
                    NEW v \in Versions, model'.id = model.id, versions[v] # 0
             PROVE  FALSE
  BY DEF VersionsStay
<1>1. model.id = 0
  BY DEF TableGone, NoModel
<1>2. model = NoModel
  BY <1>1 DEF ModelInv, TypeOK
<1> QED
  BY <1>2 DEF ModelInv, VersionsOfModel, NoRecipe

(* No step changes a version on record.                                    *)
LEMMA StepVersions == ModelInv /\ [Next]_vars => VersionsStay
<1> SUFFICES ASSUME ModelInv, [Next]_vars PROVE VersionsStay
  OBVIOUS
<1>1. CASE UNCHANGED versions
  BY <1>1 DEF VersionsStay
<1>2. ASSUME NEW c \in Callers, Append(c) PROVE VersionsStay
  <2>1. \/ UNCHANGED versions
        \/ /\ versions[model.current + 1] = 0
           /\ versions' = [versions EXCEPT ![model.current + 1] = callers[c].op]
    BY <1>2 DEF Append
  <2> QED
    BY <2>1 DEF VersionsStay, ModelInv, TypeOK
<1>3. ASSUME NEW c \in Callers, Drop(c) PROVE VersionsStay
  BY <1>1, <1>3, DroppedVersions DEF Drop, rows
<1>4. ASSUME NEW c \in Callers, Insert(c) PROVE VersionsStay
  <2>1. CASE table # callers[c].op
    BY <1>1, <1>4, <2>1 DEF Insert
  <2>2. CASE table = callers[c].op
    <3>1. versions = NoRecipe
      BY <1>4, <2>2 DEF Insert, ModelInv, VersionsOfModel
    <3> QED
      BY <3>1 DEF VersionsStay, NoRecipe
  <2> QED
    BY <2>1, <2>2
<1>5. ASSUME NEW c \in Callers, Failed(c) PROVE VersionsStay
  BY <1>1, <1>5, DroppedVersions DEF Failed, rows
<1>6. ASSUME NEW c \in Callers, ~Append(c), ~Drop(c), ~Insert(c), ~Failed(c),
             Step(c) \/ Fails(c)
      PROVE  UNCHANGED versions
  BY <1>6, FailsTyped DEF Step, rows, LockInput, WriteInput, Scope, Capture, Create, SetVersion, Context,
     Lock, InsertBuild, ReadInput, WriteOutput, Finish, Done
<1>7. ASSUME NEW c \in Callers, NEW kind \in Kinds, NEW undo \in log \cup {NoUndo},
             Start(c, kind, undo)
      PROVE  UNCHANGED versions
  BY <1>7 DEF Start, rows
<1>8. Restart \/ UNCHANGED vars => UNCHANGED versions
  BY DEF Restart, vars, rows
<1> QED
  BY <1>1, <1>2, <1>3, <1>4, <1>5, <1>6, <1>7, <1>8 DEF Next

(* Versions are immutable: as long as a model exists, each version keeps   *)
(* the recipe it was recorded with, whatever operations, undos, failures   *)
(* and restarts come.  (VersionsImmutable of model_builds.)                *)
THEOREM VersionsKept == Spec => VersionsImmutable
<1>1. ModelInv /\ [Next]_vars => [VersionsStay]_vars
  BY StepVersions
<1>2. ModelInv /\ [Next]_vars
        => [\A v \in Versions :
                model'.id = model.id /\ versions[v] # 0 => versions'[v] = versions[v]]_vars
  BY <1>1 DEF VersionsStay
<1> QED
  BY <1>2, InitInv, StepInv, PTL DEF Spec, VersionsImmutable

----------------------------------------------------------------------------
(* The part of the types that the proofs below need.                       *)
LEMMA CallersTyped ==
    ModelInv => /\ callers \in [Callers -> Caller]
                /\ locks \in [{"input", "output"} -> Callers \cup {NoOne}]
BY DEF ModelInv, TypeOK

(* What the steps do to the task that takes them, field by field.          *)
OthersStay(c) == \A d \in Callers \ {c} : callers'[d] = callers[d]

Goes(c, pc) ==
    /\ OthersStay(c)
    /\ callers'[c].pc = pc
    /\ callers'[c].kind = callers[c].kind /\ callers'[c].op = callers[c].op
    /\ callers'[c].back = callers[c].back /\ callers'[c].undo = callers[c].undo
    /\ callers'[c].recipe = callers[c].recipe /\ callers'[c].from = callers[c].from

Rests(c) == OthersStay(c) /\ callers'[c] = Idle /\ callers'[c].pc = "idle"

LEMMA GoDoes ==
    ASSUME ModelInv, NEW c \in Callers, NEW pc, Go(c, pc)
    PROVE  Goes(c, pc)
BY CallersTyped DEF Go, Goes, OthersStay, Caller

LEMMA ReturnDoes ==
    ASSUME ModelInv, NEW c \in Callers, Return(c)
    PROVE  Rests(c)
BY CallersTyped, IdleType DEF Return, Rests, OthersStay

LEMMA ScopeDoes ==
    ASSUME ModelInv, NEW c \in Callers, Scope(c)
    PROVE  \/ ~Exists /\ Rests(c)
           \/ /\ Exists /\ OthersStay(c)
              /\ callers'[c].kind = callers[c].kind /\ callers'[c].op = callers[c].op
              /\ callers'[c].back = model.current
              /\ callers'[c].undo.model = model.id /\ callers'[c].undo.kind = callers[c].undo.kind
              /\ callers[c].kind \in {"update", "rebuild", "delete"}
              /\ callers'[c].pc = CASE Is(c, "update")  -> "append"
                                    [] Is(c, "rebuild") -> "context"
                                    [] Is(c, "delete")  -> "capture"
<1>1. callers[c].kind \in {"update", "rebuild", "delete"} /\ callers[c] \in Caller
  BY CallersTyped DEF Scope, At, InHand, ModelInv
<1>2. CASE ~Exists
  BY <1>2, ReturnDoes DEF Scope
<1>3. CASE Exists
  <2> DEFINE k == [callers[c] EXCEPT
                    !.back = model.current,
                    !.undo.model = model.id,
                    !.pc = CASE Is(c, "update")  -> "append"
                             [] Is(c, "rebuild") -> "context"
                             [] Is(c, "delete")  -> "capture"]
  <2>1. callers' = [callers EXCEPT ![c] = k]
    BY <1>3 DEF Scope, GoWith
  <2>2. /\ k.kind = callers[c].kind /\ k.op = callers[c].op /\ k.back = model.current
        /\ k.undo.model = model.id /\ k.undo.kind = callers[c].undo.kind
        /\ k.pc = CASE Is(c, "update")  -> "append"
                    [] Is(c, "rebuild") -> "context"
                    [] Is(c, "delete")  -> "capture"
    BY <1>1 DEF Caller, Undo
  <2> HIDE DEF k
  <2>3. callers'[c] = k /\ OthersStay(c)
    BY <2>1, CallersTyped DEF OthersStay
  <2> QED
    BY <1>1, <1>3, <2>2, <2>3
<1> QED
  BY <1>2, <1>3

LEMMA CaptureDoes ==
    ASSUME ModelInv, NEW c \in Callers, Capture(c)
    PROVE  /\ OthersStay(c) /\ callers'[c].pc = "drop"
           /\ callers'[c].kind = callers[c].kind /\ callers'[c].op = callers[c].op
           /\ callers'[c].back = callers[c].back
           /\ callers'[c].undo.model = callers[c].undo.model
           /\ callers'[c].undo.kind = callers[c].undo.kind
           /\ model.id = callers[c].undo.model => callers'[c].undo.versions = versions
<1> DEFINE kept == IF model.id = callers[c].undo.model THEN versions ELSE NoRecipe
           k == [callers[c] EXCEPT !.pc = "drop", !.undo.versions = kept]
<1>1. callers' = [callers EXCEPT ![c] = k] /\ callers[c] \in Caller
  BY CallersTyped DEF Capture, GoWith
<1>2. model.id = callers[c].undo.model => kept = versions
  OBVIOUS
<1> HIDE DEF kept
<1>3. /\ k.kind = callers[c].kind /\ k.op = callers[c].op /\ k.back = callers[c].back
      /\ k.pc = "drop" /\ k.undo.model = callers[c].undo.model
      /\ k.undo.kind = callers[c].undo.kind /\ k.undo.versions = kept
  BY <1>1 DEF Caller, Undo
<1> HIDE DEF k
<1>4. callers'[c] = k /\ OthersStay(c)
  BY <1>1, CallersTyped DEF OthersStay
<1> QED
  BY <1>2, <1>3, <1>4

(* Undo entries that agree on every field are the same.                    *)
LEMMA UndoSame ==
    ASSUME NEW u \in Undo
    PROVE  [u EXCEPT !.model = u.model] = u
BY DEF Undo

LEMMA InsertDoes ==
    ASSUME ModelInv, NEW c \in Callers, Insert(c)
    PROVE  \/ table # callers[c].op /\ Rests(c) /\ UNCHANGED <<model, versions>>
           \/ /\ table = callers[c].op /\ OthersStay(c) /\ callers'[c].pc = "context"
              /\ callers'[c].kind = callers[c].kind /\ callers'[c].op = callers[c].op
              /\ callers'[c].undo.model = model'.id
              /\ callers'[c].undo.kind = callers[c].undo.kind
              /\ model = NoModel /\ model' # NoModel
              /\ \/ /\ Is(c, "undo") /\ callers[c].undo.kind = "delete"
                    /\ callers'[c].undo = callers[c].undo
                    /\ model' = [id |-> callers[c].undo.model, current |-> callers[c].undo.to]
                    /\ versions' = callers[c].undo.versions
                 \/ /\ Is(c, "create") /\ model' = [id |-> callers[c].op, current |-> 1]
                    /\ versions' = [NoRecipe EXCEPT ![1] = callers[c].op]
<1>1. /\ callers[c] \in Caller /\ callers[c].undo \in Undo /\ callers[c].op \in Nat \ {0}
      /\ Is(c, "create") \/ (Is(c, "undo") /\ callers[c].undo.kind = "delete")
      /\ Is(c, "undo") => callers[c].undo.model # 0
  BY CallersTyped DEF Insert, At, Is, InHand, Undoable, ModelInv, Caller
<1>2. CASE table # callers[c].op
  BY <1>2, ReturnDoes DEF Insert
<1>3. CASE table = callers[c].op
  <2>1. model = NoModel
    BY <1>3 DEF Insert, ModelInv, VersionsOfModel
  <2> DEFINE id == model'.id
             k == [callers[c] EXCEPT !.pc = "context", !.undo.model = id]
  <2>2. callers' = [callers EXCEPT ![c] = k]
    BY <1>3 DEF Insert, GoWith
  <2>3. IF Is(c, "undo")
        THEN /\ model' = [id |-> callers[c].undo.model, current |-> callers[c].undo.to]
             /\ versions' = callers[c].undo.versions
        ELSE /\ model' = [id |-> callers[c].op, current |-> 1]
             /\ versions' = [NoRecipe EXCEPT ![1] = callers[c].op]
    BY <1>3 DEF Insert
  <2>4. model' # NoModel /\ (Is(c, "undo") => id = callers[c].undo.model)
    BY <1>1, <2>3 DEF NoModel
  <2>5. /\ k.kind = callers[c].kind /\ k.op = callers[c].op /\ k.pc = "context"
        /\ k.undo = [callers[c].undo EXCEPT !.model = id]
        /\ k.undo.model = id /\ k.undo.kind = callers[c].undo.kind
    <3> HIDE DEF id
    <3> QED
      BY <1>1 DEF Caller, Undo
  <2>6. Is(c, "undo") => k.undo = callers[c].undo
    <3>1. SUFFICES ASSUME Is(c, "undo") PROVE k.undo = callers[c].undo
      OBVIOUS
    <3>2. id = callers[c].undo.model
      BY <2>4, <3>1
    <3> HIDE DEF k, id
    <3> QED
      BY <1>1, <2>5, <3>2, UndoSame
  <2> HIDE DEF k, id
  <2>7. callers'[c] = k /\ OthersStay(c)
    BY <2>2, CallersTyped DEF OthersStay
  <2> QED
    BY <1>1, <1>3, <2>1, <2>3, <2>4, <2>5, <2>6, <2>7 DEF id, Is
<1> QED
  BY <1>2, <1>3

LEMMA ContextDoes ==
    ASSUME ModelInv, NEW c \in Callers, Context(c)
    PROVE  \/ /\ Goes(c, "error")
              /\ ~Exists \/ (~Is(c, "sync") /\ ~Is(c, "enrich")
                                /\ model.id # callers[c].undo.model)
           \/ /\ Exists /\ OthersStay(c) /\ callers'[c].pc = "lock"
              /\ Is(c, "sync") \/ Is(c, "enrich") \/ model.id = callers[c].undo.model
              /\ callers'[c].kind = callers[c].kind /\ callers'[c].op = callers[c].op
              /\ callers'[c].back = callers[c].back
              /\ callers'[c].recipe = versions[model.current]
              /\ callers'[c].undo.model = model.id
              /\ callers'[c].undo.kind = callers[c].undo.kind
              /\ model.id = callers[c].undo.model => callers'[c].undo = callers[c].undo
<1> DEFINE refused == \/ ~Exists
                      \/ ~Is(c, "sync") /\ ~Is(c, "enrich") /\ model.id # callers[c].undo.model
<1>1. CASE refused
  BY <1>1, GoDoes DEF Context
<1>2. CASE ~refused
  <2> DEFINE k == [callers[c] EXCEPT !.pc = "lock", !.recipe = versions[model.current],
                                     !.undo.model = model.id]
  <2>1. callers' = [callers EXCEPT ![c] = k]
    BY <1>2 DEF Context, GoWith
  <2>2. callers[c] \in Caller /\ callers[c].undo \in Undo
    BY CallersTyped DEF Caller
  <2>3. /\ k.kind = callers[c].kind /\ k.op = callers[c].op /\ k.pc = "lock"
        /\ k.back = callers[c].back /\ k.recipe = versions[model.current]
        /\ k.undo = [callers[c].undo EXCEPT !.model = model.id]
        /\ k.undo.model = model.id /\ k.undo.kind = callers[c].undo.kind
    BY <2>2 DEF Caller, Undo
  <2> HIDE DEF k
  <2>4. model.id = callers[c].undo.model => k.undo = callers[c].undo
    BY <2>2, <2>3, UndoSame
  <2>5. callers'[c] = k /\ OthersStay(c)
    BY <2>1, CallersTyped DEF OthersStay
  <2> QED
    BY <1>2, <2>3, <2>4, <2>5
<1> QED
  BY <1>1, <1>2

LEMMA ReadInputDoes ==
    ASSUME ModelInv, NEW c \in Callers, ReadInput(c)
    PROVE  /\ OthersStay(c) /\ callers'[c].pc = "write" /\ callers'[c].from = input
           /\ callers'[c].kind = callers[c].kind /\ callers'[c].op = callers[c].op
           /\ callers'[c].back = callers[c].back /\ callers'[c].undo = callers[c].undo
           /\ callers'[c].recipe = callers[c].recipe
<1> DEFINE k == [callers[c] EXCEPT !.pc = "write", !.from = input]
<1>1. callers' = [callers EXCEPT ![c] = k] /\ callers[c] \in Caller
  BY CallersTyped DEF ReadInput, GoWith
<1>2. /\ k.kind = callers[c].kind /\ k.op = callers[c].op /\ k.back = callers[c].back
      /\ k.pc = "write" /\ k.undo = callers[c].undo /\ k.from = input
      /\ k.recipe = callers[c].recipe
  BY <1>1 DEF Caller
<1> HIDE DEF k
<1>3. callers'[c] = k /\ OthersStay(c)
  BY <1>1, CallersTyped DEF OthersStay
<1> QED
  BY <1>2, <1>3

LEMMA StartDoes ==
    ASSUME ModelInv, NEW c \in Callers, NEW kind \in Kinds, NEW undo \in log \cup {NoUndo},
           Start(c, kind, undo)
    PROVE  /\ OthersStay(c) /\ callers[c].pc = "idle" /\ nextOp' = nextOp + 1
           /\ callers'[c].pc = FirstStep(kind, undo) /\ callers'[c].kind = kind
           /\ callers'[c].op = nextOp /\ callers'[c].undo = undo
           /\ IF kind = "undo" THEN undo \in log ELSE undo = NoUndo
           /\ undo \in Undo
           /\ callers'[c].pc \in {"create", "scope", "writeInput", "lockInput", "drop", "setVersion"}
           /\ kind = "create" => callers'[c].pc = "create"
           /\ kind = "delete" => callers'[c].pc = "scope"
           /\ callers'[c].pc = "drop" => kind = "undo" /\ undo.kind = "create"
           /\ callers'[c].pc \in {"writeInput", "lockInput"} => kind \in {"sync", "enrich"}
           /\ kind = "undo" /\ undo.kind = "create" => callers'[c].pc = "drop"
           /\ history'.raced <=> \/ history.raced
                                 \/ \E o \in Busy : kind \in Changes \/ callers[o].kind \in Changes
           /\ history'.failed = history.failed /\ history'.behind = history.behind
           /\ history'.torn = history.torn /\ history'.unrecorded = history.unrecorded
           /\ history'.stray = history.stray
<1> DEFINE k == [Idle EXCEPT !.pc = FirstStep(kind, undo), !.kind = kind, !.op = nextOp,
                             !.undo = undo]
<1>1. callers' = [callers EXCEPT ![c] = k]
  BY DEF Start, GoWith
<1>2. k.pc = FirstStep(kind, undo) /\ k.kind = kind /\ k.op = nextOp /\ k.undo = undo
  BY DEF Idle
<1> HIDE DEF k
<1>3. callers'[c] = k /\ OthersStay(c)
  BY <1>1, CallersTyped DEF OthersStay
<1>4. /\ callers[c].pc = "idle" /\ nextOp' = nextOp + 1
      /\ IF kind = "undo" THEN undo \in log ELSE undo = NoUndo
  BY DEF Start, At
<1>5. undo \in Undo
  BY IdleType DEF ModelInv, TypeOK
<1> DEFINE e == \E o \in Busy : kind \in Changes \/ callers[o].kind \in Changes
<1>6. history' = [history EXCEPT !.raced = @ \/ e] /\ history \in History
  BY DEF Start, ModelInv, TypeOK
<1>7. e \in BOOLEAN
  OBVIOUS
<1> HIDE DEF e
<1>8. /\ history'.raced <=> history.raced \/ e
      /\ history'.failed = history.failed /\ history'.behind = history.behind
      /\ history'.torn = history.torn /\ history'.unrecorded = history.unrecorded
      /\ history'.stray = history.stray
  BY <1>6, <1>7 DEF History
<1>9. k.pc \in {"create", "scope", "writeInput", "lockInput", "drop", "setVersion"}
      /\ (kind = "create" => k.pc = "create") /\ (kind = "delete" => k.pc = "scope")
      /\ (k.pc = "drop" => kind = "undo" /\ undo.kind = "create")
      /\ (k.pc \in {"writeInput", "lockInput"} => kind \in {"sync", "enrich"})
      /\ (kind = "undo" /\ undo.kind = "create" => k.pc = "drop")
  BY <1>2, <1>5 DEF FirstStep, Kinds, Undo
<1> QED
  BY <1>2, <1>3, <1>4, <1>5, <1>8, <1>9 DEF e

(* No step takes back what has happened.                                   *)
Grows ==
    /\ history'.raced = history.raced
    /\ history.failed => history'.failed
    /\ history.behind => history'.behind
    /\ history.torn => history'.torn
    /\ history.unrecorded => history'.unrecorded
    /\ history.stray => history'.stray

(* A failing step takes a task on to its error ...                         *)
GivesUp(c) ==
    /\ history'.failed
    /\ At(c, "finish") \/ Is(c, "undo") => history'.behind
    /\ c \in Restorers => history'.torn
    /\ \/ /\ Goes(c, "finishFailed") /\ callers[c].pc \in {"read", "write", "finish"}
          /\ UNCHANGED locks
       \/ /\ Goes(c, "error") /\ callers[c].pc \in {"context", "row", "finish", "finishFailed"}
          /\ locks'["input"] = locks["input"]
          /\ locks'["output"] # NoOne => locks'["output"] = locks["output"] /\ locks["output"] # c
          /\ callers[c].pc \in {"context", "row"} /\ locks["output"] # c
                => locks'["output"] = locks["output"]
          /\ callers[c].pc \in Building => history'.unrecorded

(* ... or ends it, with its locks given back.                              *)
Abandons(c) ==
    /\ Rests(c) /\ locks' = Released(c)
    /\ callers[c].pc \in BuildSteps \ {"error"} => history'.failed
    /\ callers[c].pc \in BuildSteps /\ callers[c].kind \in Changes => history'.behind
    /\ c \in Restorers /\ callers[c].pc # "insert" => history'.torn
    /\ callers[c].pc \in Building => history'.unrecorded
    /\ callers[c].pc = "insert" => history'.stray

LEMMA FailsDo ==
    ASSUME ModelInv, NEW c \in Callers, Fails(c)
    PROVE  /\ UNCHANGED <<input, table, output, model, versions, builds, log, nextOp>>
           /\ OthersStay(c) /\ callers[c].pc # "idle"
           /\ Grows /\ (GivesUp(c) \/ Abandons(c))
<1> SUFFICES Grows /\ (GivesUp(c) \/ Abandons(c))
  BY FailsTyped, GoDoes, ReturnDoes DEF rows, At, Goes, Rests
<1> USE CallersTyped DEF counters, At
<1>1. CASE BuildFails(c)
  <2>1. Goes(c, "finishFailed") /\ callers[c].pc \in {"read", "write", "finish"} /\ UNCHANGED locks
    BY <1>1, GoDoes DEF BuildFails
  <2>2. history' = Broken(c)
    BY <1>1 DEF BuildFails
  <2> QED
    BY <2>1, <2>2, BrokenDoes DEF Grows, GivesUp
<1>2. CASE BuildRefused(c)
  <2>1. /\ Goes(c, "error") /\ callers[c].pc \in {"context", "row"}
        /\ locks' = [locks EXCEPT !["output"] = IF @ = c THEN NoOne ELSE @]
    BY <1>2, GoDoes DEF BuildRefused
  <2>2. /\ locks'["input"] = locks["input"]
        /\ locks'["output"] # NoOne => locks'["output"] = locks["output"] /\ locks["output"] # c
        /\ locks["output"] # c => locks'["output"] = locks["output"]
    BY <2>1, ModelBuildsAssumption
  <2>3. history' = Broken(c)
    BY <1>2 DEF BuildRefused
  <2> QED
    BY <2>1, <2>2, <2>3, BrokenDoes DEF Grows, GivesUp, Building
<1>3. CASE FinishFails(c)
  <2>1. /\ Goes(c, "error") /\ callers[c].pc \in {"finish", "finishFailed"}
        /\ locks' = [locks EXCEPT !["output"] = NoOne]
    BY <1>3, GoDoes DEF FinishFails
  <2>2. locks'["input"] = locks["input"] /\ locks'["output"] = NoOne
    BY <2>1
  <2> DEFINE h == Broken(c)
  <2>3. history' = [h EXCEPT !.unrecorded = TRUE]
    BY <1>3 DEF FinishFails
  <2>4. /\ h \in History /\ h.failed /\ h.raced = history.raced
        /\ h.behind <=> history.behind \/ At(c, "finish") \/ Is(c, "undo")
        /\ h.torn <=> history.torn \/ c \in Restorers
        /\ h.unrecorded = history.unrecorded /\ h.stray = history.stray
    BY BrokenDoes
  <2> HIDE DEF h
  <2>5. /\ history'.failed = h.failed /\ history'.raced = h.raced /\ history'.behind = h.behind
        /\ history'.torn = h.torn /\ history'.unrecorded /\ history'.stray = h.stray
    BY <2>3, <2>4 DEF History
  <2> QED
    BY <2>1, <2>2, <2>4, <2>5 DEF Grows, GivesUp
<1>4. CASE InsertFails(c)
  <2>1. callers[c].pc = "insert" /\ Rests(c) /\ locks' = Released(c)
    BY <1>4, ReturnDoes DEF InsertFails
  <2>2. history' = [history EXCEPT !.stray = TRUE] /\ history \in History
    BY <1>4 DEF InsertFails, ModelInv, TypeOK
  <2>3. Grows /\ history'.stray
    BY <2>2 DEF Grows, History
  <2> QED
    BY <2>1, <2>3 DEF Abandons, BuildSteps, Building
<1>5. CASE CleanupFails(c)
  <2>1. /\ callers[c].pc = "error" /\ callers[c].kind \in {"create", "update"}
        /\ Rests(c) /\ locks' = Released(c)
    BY <1>5, ReturnDoes DEF CleanupFails, Is
  <2>2. history' = [history EXCEPT !.behind = TRUE] /\ history \in History
    BY <1>5 DEF CleanupFails, ModelInv, TypeOK
  <2>3. Grows /\ history'.behind
    BY <2>2 DEF Grows, History
  <2> QED
    BY <2>1, <2>3 DEF Abandons, Building, Restorers
<1>6. CASE Abort(c)
  <2>1. Rests(c) /\ locks' = Released(c) /\ history' = CutShort({c})
    BY <1>6, ReturnDoes DEF Abort
  <2> QED
    BY <2>1, CutShortDoes DEF Abandons, Grows
<1> QED
  BY <1>1, <1>2, <1>3, <1>4, <1>5, <1>6 DEF Fails

LEMMA RestartDoes ==
    ASSUME ModelInv, Restart
    PROVE  /\ \A c \in Callers : callers'[c] = Idle /\ callers'[c].pc = "idle"
           /\ Grows
           /\ (\E c \in Callers : callers[c].pc \in BuildSteps) => history'.failed
           /\ (\E c \in Callers : callers[c].pc \in BuildSteps /\ callers[c].kind \in Changes)
                 => history'.behind
           /\ Restorers # {} => history'.torn
           /\ (\E c \in Callers : callers[c].pc \in Building) => history'.unrecorded
           /\ (\E c \in Callers : callers[c].pc = "insert") => history'.stray
<1>1. Busy \in SUBSET Callers /\ history' = CutShort(Busy) /\ Restorers \subseteq Busy
  BY DEF Busy, Restart, Restorers
<1>2. \A c \in Callers : callers[c].pc \in BuildSteps \cup {"insert"} => c \in Busy
  BY DEF Busy, BuildSteps, Building
<1>3. \A c \in Callers : callers'[c] = Idle /\ callers'[c].pc = "idle"
  BY IdleType DEF Restart
<1>4. /\ Grows
      /\ (\E c \in Busy : callers[c].pc \in BuildSteps) => history'.failed
      /\ (\E c \in Busy : callers[c].pc \in BuildSteps /\ callers[c].kind \in Changes)
            => history'.behind
      /\ (\E c \in Busy : c \in Restorers) => history'.torn
      /\ (\E c \in Busy : callers[c].pc \in Building) => history'.unrecorded
      /\ (\E c \in Busy : At(c, "insert")) => history'.stray
  BY <1>1, CutShortDoes DEF Grows
<1> QED
  BY <1>1, <1>2, <1>3, <1>4 DEF At, BuildSteps

(* The steps at which a caller may hold the lock of the output, and of the *)
(* input.                                                                  *)
OutputSteps == Building \cup {"row"}
InputSteps  == OutputSteps \cup {"writeInput", "context", "lock", "done", "error"}

BuildInv ==
    /\ locks["output"] # NoOne => callers[locks["output"]].pc \in OutputSteps
    /\ locks["input"] # NoOne => callers[locks["input"]].pc \in InputSteps
    /\ ~history.unrecorded =>
            \A b \in builds : b.status = "running" =>
                \E c \in Callers : callers[c].op = b.id /\ callers[c].pc \in Building

(* A caller that builds on, or had nothing in hand, disturbs nobody.       *)
LEMMA BuildersStay ==
    ASSUME ModelInv, BuildInv, NEW c \in Callers,
           callers' = [callers EXCEPT ![c] = callers'[c]],
           callers[c].pc \in Building
                => callers'[c].pc \in Building /\ callers'[c].op = callers[c].op,
           callers[c].pc \in OutputSteps => callers'[c].pc \in OutputSteps,
           callers[c].pc \in InputSteps => callers'[c].pc \in InputSteps,
           builds' \subseteq builds, UNCHANGED locks,
           history.unrecorded => history'.unrecorded
    PROVE  BuildInv'
<1>1. \A d \in Callers \ {c} : callers'[d] = callers[d]
  BY CallersTyped
<1>2. \A t \in {"input", "output"} : locks[t] \in Callers \cup {NoOne}
  BY CallersTyped
<1>3. \A b \in builds, d \in Callers :
        callers[d].op = b.id /\ callers[d].pc \in Building
            => callers'[d].op = b.id /\ callers'[d].pc \in Building
  BY <1>1
<1> QED
  BY <1>1, <1>2, <1>3 DEF BuildInv

(* Every running build has its builder and every lock its holder.          *)
LEMMA StepBuilds == ModelInv /\ BuildInv /\ [Next]_vars => BuildInv'
<1> SUFFICES ASSUME ModelInv, BuildInv, [Next]_vars PROVE BuildInv'
  OBVIOUS
<1> USE DEF rows, counters, Building, OutputSteps, InputSteps
<1>1. ASSUME NEW c \in Callers, WriteInput(c) PROVE BuildInv'
  <2>1. /\ callers' = [callers EXCEPT ![c] = callers'[c]]
        /\ callers[c].pc \in Building => callers'[c].pc \in Building /\ callers'[c].op = callers[c].op
        /\ callers[c].pc \in OutputSteps => callers'[c].pc \in OutputSteps
        /\ callers[c].pc \in InputSteps => callers'[c].pc \in InputSteps
    BY <1>1, CallersTyped DEF WriteInput, Go, GoWith, Return, At, Caller
  <2>2. builds' \subseteq builds /\ UNCHANGED <<locks, history>>
    BY <1>1 DEF WriteInput, TableGone
  <2> QED
    BY <2>1, <2>2, BuildersStay
<1>2. ASSUME NEW c \in Callers, Scope(c) PROVE BuildInv'
  <2>1. /\ callers' = [callers EXCEPT ![c] = callers'[c]]
        /\ callers[c].pc \in Building => callers'[c].pc \in Building /\ callers'[c].op = callers[c].op
        /\ callers[c].pc \in OutputSteps => callers'[c].pc \in OutputSteps
        /\ callers[c].pc \in InputSteps => callers'[c].pc \in InputSteps
    BY <1>2, CallersTyped DEF Scope, Go, GoWith, Return, At, Caller
  <2>2. builds' \subseteq builds /\ UNCHANGED <<locks, history>>
    BY <1>2 DEF Scope, TableGone
  <2> QED
    BY <2>1, <2>2, BuildersStay
<1>3. ASSUME NEW c \in Callers, Append(c) PROVE BuildInv'
  <2>1. /\ callers' = [callers EXCEPT ![c] = callers'[c]]
        /\ callers[c].pc \in Building => callers'[c].pc \in Building /\ callers'[c].op = callers[c].op
        /\ callers[c].pc \in OutputSteps => callers'[c].pc \in OutputSteps
        /\ callers[c].pc \in InputSteps => callers'[c].pc \in InputSteps
    BY <1>3, CallersTyped DEF Append, Go, GoWith, Return, At, Caller
  <2>2. builds' \subseteq builds /\ UNCHANGED <<locks, history>>
    BY <1>3 DEF Append, TableGone
  <2> QED
    BY <2>1, <2>2, BuildersStay
<1>4. ASSUME NEW c \in Callers, Capture(c) PROVE BuildInv'
  <2>1. /\ callers' = [callers EXCEPT ![c] = callers'[c]]
        /\ callers[c].pc \in Building => callers'[c].pc \in Building /\ callers'[c].op = callers[c].op
        /\ callers[c].pc \in OutputSteps => callers'[c].pc \in OutputSteps
        /\ callers[c].pc \in InputSteps => callers'[c].pc \in InputSteps
    BY <1>4, CallersTyped DEF Capture, Go, GoWith, Return, At, Caller
  <2>2. builds' \subseteq builds /\ UNCHANGED <<locks, history>>
    BY <1>4 DEF Capture, TableGone
  <2> QED
    BY <2>1, <2>2, BuildersStay
<1>5. ASSUME NEW c \in Callers, Drop(c) PROVE BuildInv'
  <2>1. /\ callers' = [callers EXCEPT ![c] = callers'[c]]
        /\ callers[c].pc \in Building => callers'[c].pc \in Building /\ callers'[c].op = callers[c].op
        /\ callers[c].pc \in OutputSteps => callers'[c].pc \in OutputSteps
        /\ callers[c].pc \in InputSteps => callers'[c].pc \in InputSteps
    BY <1>5, CallersTyped DEF Drop, Go, GoWith, Return, At, Caller
  <2>2. builds' \subseteq builds /\ UNCHANGED <<locks, history>>
    BY <1>5 DEF Drop, TableGone
  <2> QED
    BY <2>1, <2>2, BuildersStay
<1>6. ASSUME NEW c \in Callers, Create(c) PROVE BuildInv'
  <2>1. /\ callers' = [callers EXCEPT ![c] = callers'[c]]
        /\ callers[c].pc \in Building => callers'[c].pc \in Building /\ callers'[c].op = callers[c].op
        /\ callers[c].pc \in OutputSteps => callers'[c].pc \in OutputSteps
        /\ callers[c].pc \in InputSteps => callers'[c].pc \in InputSteps
    BY <1>6, CallersTyped DEF Create, Go, GoWith, Return, At, Caller
  <2>2. builds' \subseteq builds /\ UNCHANGED <<locks, history>>
    BY <1>6 DEF Create, TableGone
  <2> QED
    BY <2>1, <2>2, BuildersStay
<1>7. ASSUME NEW c \in Callers, Insert(c) PROVE BuildInv'
  <2>1. /\ callers' = [callers EXCEPT ![c] = callers'[c]]
        /\ callers[c].pc \in Building => callers'[c].pc \in Building /\ callers'[c].op = callers[c].op
        /\ callers[c].pc \in OutputSteps => callers'[c].pc \in OutputSteps
        /\ callers[c].pc \in InputSteps => callers'[c].pc \in InputSteps
    BY <1>7, CallersTyped DEF Insert, Go, GoWith, Return, At, Caller
  <2>2. builds' \subseteq builds /\ UNCHANGED <<locks, history>>
    BY <1>7 DEF Insert, TableGone
  <2> QED
    BY <2>1, <2>2, BuildersStay
<1>8. ASSUME NEW c \in Callers, SetVersion(c) PROVE BuildInv'
  <2>1. /\ callers' = [callers EXCEPT ![c] = callers'[c]]
        /\ callers[c].pc \in Building => callers'[c].pc \in Building /\ callers'[c].op = callers[c].op
        /\ callers[c].pc \in OutputSteps => callers'[c].pc \in OutputSteps
        /\ callers[c].pc \in InputSteps => callers'[c].pc \in InputSteps
    BY <1>8, CallersTyped DEF SetVersion, Go, GoWith, Return, At, Caller
  <2>2. builds' \subseteq builds /\ UNCHANGED <<locks, history>>
    BY <1>8 DEF SetVersion, TableGone
  <2> QED
    BY <2>1, <2>2, BuildersStay
<1>9. ASSUME NEW c \in Callers, Context(c) PROVE BuildInv'
  <2>1. /\ callers' = [callers EXCEPT ![c] = callers'[c]]
        /\ callers[c].pc \in Building => callers'[c].pc \in Building /\ callers'[c].op = callers[c].op
        /\ callers[c].pc \in OutputSteps => callers'[c].pc \in OutputSteps
        /\ callers[c].pc \in InputSteps => callers'[c].pc \in InputSteps
    BY <1>9, CallersTyped DEF Context, Go, GoWith, Return, At, Caller
  <2>2. builds' \subseteq builds /\ UNCHANGED <<locks, history>>
    BY <1>9 DEF Context, TableGone
  <2> QED
    BY <2>1, <2>2, BuildersStay
<1>10. ASSUME NEW c \in Callers, ReadInput(c) PROVE BuildInv'
  <2>1. /\ callers' = [callers EXCEPT ![c] = callers'[c]]
        /\ callers[c].pc \in Building => callers'[c].pc \in Building /\ callers'[c].op = callers[c].op
        /\ callers[c].pc \in OutputSteps => callers'[c].pc \in OutputSteps
        /\ callers[c].pc \in InputSteps => callers'[c].pc \in InputSteps
    BY <1>10, CallersTyped DEF ReadInput, Go, GoWith, Return, At, Caller
  <2>2. builds' \subseteq builds /\ UNCHANGED <<locks, history>>
    BY <1>10 DEF ReadInput, TableGone
  <2> QED
    BY <2>1, <2>2, BuildersStay
<1>11. ASSUME NEW c \in Callers, WriteOutput(c) PROVE BuildInv'
  <2>1. /\ callers' = [callers EXCEPT ![c] = callers'[c]]
        /\ callers[c].pc \in Building => callers'[c].pc \in Building /\ callers'[c].op = callers[c].op
        /\ callers[c].pc \in OutputSteps => callers'[c].pc \in OutputSteps
        /\ callers[c].pc \in InputSteps => callers'[c].pc \in InputSteps
    BY <1>11, CallersTyped DEF WriteOutput, Go, GoWith, Return, At, Caller
  <2>2. builds' \subseteq builds /\ UNCHANGED <<locks, history>>
    BY <1>11 DEF WriteOutput, TableGone
  <2> QED
    BY <2>1, <2>2, BuildersStay
<1>12. ASSUME NEW c \in Callers, Fails(c) PROVE BuildInv'
  <2>0. /\ UNCHANGED builds /\ callers' = [callers EXCEPT ![c] = callers'[c]]
        /\ history.unrecorded => history'.unrecorded
        /\ \A d \in Callers \ {c} : callers'[d] = callers[d]
    BY <1>12, FailsTyped, FailsDo, CallersTyped DEF Go, Return, Grows, OthersStay
  <2>1. CASE UNCHANGED locks /\ Goes(c, "finishFailed")
    BY <2>0, <2>1, BuildersStay DEF Goes
  <2>2. CASE ~(UNCHANGED locks /\ Goes(c, "finishFailed"))
    <3>1. /\ locks'["output"] # NoOne => locks'["output"] = locks["output"] /\ locks["output"] # c
          /\ locks'["input"] # NoOne => locks'["input"] = locks["input"]
          /\ locks["input"] = c => callers'[c].pc = "error" \/ locks'["input"] = NoOne
      BY <1>12, <2>2, FailsDo, CallersTyped DEF GivesUp, Abandons, Goes, Released
    <3>2. callers[c].pc \in Building => history'.unrecorded
      BY <1>12, <2>2, FailsDo DEF GivesUp, Abandons
    <3> QED
      BY <2>0, <3>1, <3>2, CallersTyped DEF BuildInv
  <2> QED
    BY <2>1, <2>2
<1>13. ASSUME NEW c \in Callers, NEW kind \in Kinds, NEW undo \in log \cup {NoUndo},
              Start(c, kind, undo)
       PROVE  BuildInv'
  <2>1. callers[c].pc = "idle" /\ callers' = [callers EXCEPT ![c] = callers'[c]]
    BY <1>13, CallersTyped DEF Start, GoWith, At
  <2>2. UNCHANGED <<builds, locks>> /\ (history.unrecorded => history'.unrecorded)
    BY <1>13, StartDoes DEF Start
  <2> QED
    BY <2>1, <2>2, BuildersStay
<1>14. ASSUME NEW c \in Callers, LockInput(c) PROVE BuildInv'
  BY <1>14, CallersTyped DEF LockInput, Go, At, BuildInv, Caller
<1>15. ASSUME NEW c \in Callers, Lock(c) PROVE BuildInv'
  BY <1>15, CallersTyped DEF Lock, Go, At, BuildInv, Caller
<1>16. ASSUME NEW c \in Callers, InsertBuild(c) PROVE BuildInv'
  BY <1>16, CallersTyped DEF InsertBuild, Go, At, BuildInv, Caller
<1>17. ASSUME NEW c \in Callers, Finish(c) PROVE BuildInv'
  <2>1. /\ callers[c].pc \in Building /\ callers'[c].pc \in {"done", "error"}
        /\ \A d \in Callers \ {c} : callers'[d] = callers[d]
    BY <1>17, CallersTyped DEF Finish, Go, At, Caller
  <2>2. /\ locks' = [locks EXCEPT !["output"] = NoOne] /\ UNCHANGED history
        /\ locks'["output"] = NoOne /\ locks'["input"] = locks["input"]
    BY <1>17, CallersTyped DEF Finish
  <2>3. \A b \in builds' : b.status = "running" => b \in builds /\ b.id # callers[c].op
    BY <1>17 DEF Finish, Recorded, ModelInv, TypeOK
  <2> QED
    BY <2>1, <2>2, <2>3, CallersTyped DEF BuildInv
<1>18. ASSUME NEW c \in Callers, Done(c) \/ Failed(c) PROVE BuildInv'
  <2>1. /\ callers[c].pc \in {"done", "error"}
        /\ \A d \in Callers \ {c} : callers'[d] = callers[d]
    BY <1>18, CallersTyped DEF Done, Failed, Return, At
  <2>2. /\ \A t \in {"input", "output"} : locks'[t] # NoOne => locks'[t] = locks[t] /\ locks[t] # c
        /\ builds' \subseteq builds /\ UNCHANGED history
    BY <1>18, CallersTyped DEF Done, Failed, Released, TableGone
  <2> QED
    BY <2>1, <2>2, CallersTyped DEF BuildInv
<1>19. ASSUME Restart PROVE BuildInv'
  <2>1. UNCHANGED builds /\ locks'["input"] = NoOne /\ locks'["output"] = NoOne
    BY <1>19, CallersTyped DEF Restart
  <2>2. /\ history.unrecorded => history'.unrecorded
        /\ (\E c \in Callers : callers[c].pc \in Building) => history'.unrecorded
    BY <1>19, RestartDoes DEF Grows
  <2> QED
    BY <2>1, <2>2 DEF BuildInv
<1>20. CASE UNCHANGED vars
  BY <1>20 DEF vars, BuildInv
<1> QED
  BY <1>1, <1>2, <1>3, <1>4, <1>5, <1>6, <1>7, <1>8, <1>9, <1>10, <1>11, <1>12, <1>13,
     <1>14, <1>15, <1>16, <1>17, <1>18, <1>19, <1>20 DEF Next, Step

(* Once nobody is at work no lock is taken, and no build is "running" but  *)
(* one whose end could not be recorded, whichever steps failed, whichever  *)
(* tasks were aborted and however operations overlapped.                   *)
(* (NoBuildLeftRunning of model_builds.)                                   *)
THEOREM BuildsEnd == Spec => []NoBuildLeftRunning
<1>1. Init => BuildInv
  BY DEF Init, BuildInv
<1>2. ModelInv /\ BuildInv => NoBuildLeftRunning
  <2> SUFFICES ASSUME ModelInv, BuildInv, Settled PROVE
        /\ ~history.unrecorded => \A b \in builds : b.status # "running"
        /\ \A t \in DOMAIN locks : locks[t] = NoOne
    BY DEF NoBuildLeftRunning
  <2>1. \A c \in Callers : callers[c].pc = "idle"
    BY DEF Settled, Busy
  <2> QED
    BY <2>1, CallersTyped DEF BuildInv, Building, OutputSteps, InputSteps
<1> QED
  BY <1>1, <1>2, InitInv, StepInv, StepBuilds, PTL DEF Spec

----------------------------------------------------------------------------
(* The steps of an operation once it has changed the model, and those of   *)
(* them at which the output is not written yet.                            *)
ToBuild     == {"context", "lock", "row", "read", "write"}
AfterChange == ToBuild \cup {"finish", "finishFailed", "done", "error"}

(* Which operations come by which steps.                                   *)
Shape(k) ==
    /\ k.pc \in {"lockInput", "writeInput"} => k.kind \in {"sync", "enrich"}
    /\ k.pc = "capture" => k.kind = "delete"
    /\ k.pc = "drop" => k.kind = "delete" \/ (k.kind = "undo" /\ k.undo.kind = "create")
    /\ k.kind = "delete" => k.pc \in {"idle", "scope", "capture", "drop", "done"}
    /\ k.kind = "undo" /\ k.undo.kind = "create" => k.pc \in {"idle", "drop", "done"}

Shapes == \A c \in Callers : Shape(callers[c])

(* A change of the model that raced with nothing works alone.              *)
Alone ==
    ~history.raced => \A c, d \in Callers :
        c # d /\ ~At(c, "idle") /\ ~At(d, "idle") => callers[c].kind \notin Changes

(* From its build's row on a task holds the lock of the output.            *)
Exclusive == \A c \in Callers : callers[c].pc \in OutputSteps => locks["output"] = c

LEMMA OneShapes ==
    ASSUME Shapes, NEW c \in Callers, OthersStay(c), Shape(callers'[c])
    PROVE  Shapes'
BY DEF Shapes, OthersStay, Shape

LEMMA IdleShape ==
    ASSUME NEW c \in Callers, Rests(c)
    PROVE  OthersStay(c) /\ Shape(callers'[c])
BY DEF Rests, Shape, Idle

LEMMA GoesShape ==
    ASSUME Shapes, NEW c \in Callers, NEW pc, Goes(c, pc),
           pc \notin {"lockInput", "capture", "drop"},
           pc = "writeInput" => callers[c].kind \in {"sync", "enrich"},
           pc # "done" => callers[c].kind # "delete"
               /\ ~(callers[c].kind = "undo" /\ callers[c].undo.kind = "create")
    PROVE  OthersStay(c) /\ Shape(callers'[c])
BY DEF Goes, Shape

LEMMA StepShapes == ModelInv /\ Shapes /\ [Next]_vars => Shapes'
<1> SUFFICES ASSUME ModelInv, Shapes, [Next]_vars PROVE Shapes'
  OBVIOUS
<1>1. ASSUME NEW c \in Callers, Step(c) \/ Fails(c)
      PROVE  OthersStay(c) /\ Shape(callers'[c])
  <2> USE DEF At
  <2>0. Shape(callers[c])
    BY DEF Shapes
  <2>1. CASE LockInput(c)
    BY <2>0, <2>1, GoDoes, GoesShape DEF LockInput, Shape
  <2>2. CASE WriteInput(c)
    BY <2>0, <2>2, GoDoes, GoesShape DEF WriteInput, Shape
  <2>3. CASE Scope(c)
    BY <2>0, <2>3, ScopeDoes, IdleShape DEF Shape, Is
  <2>4. CASE Append(c)
    <3>1. callers[c].kind = "update"
      BY <2>4 DEF Append, ModelInv, InHand
    <3> QED
      BY <2>0, <2>4, <3>1, GoDoes, ReturnDoes, GoesShape, IdleShape DEF Append
  <2>5. CASE Capture(c)
    <3>1. callers[c].pc = "capture" /\ callers[c].kind = "delete"
      BY <2>0, <2>5 DEF Capture, Shape
    <3> QED
      BY <2>5, <3>1, CaptureDoes DEF Shape
  <2>6. CASE Drop(c)
    BY <2>0, <2>6, GoDoes, ReturnDoes, GoesShape, IdleShape DEF Drop
  <2>7. CASE Create(c)
    <3>1. callers[c].pc = "create"
      BY <2>7 DEF Create
    <3>2. callers[c].kind # "delete" /\ ~(callers[c].kind = "undo" /\ callers[c].undo.kind = "create")
      BY <2>0, <3>1 DEF Shape
    <3> QED
      BY <2>7, <3>2, GoDoes, ReturnDoes, GoesShape, IdleShape DEF Create
  <2>8. CASE Insert(c)
    <3>1. callers[c].pc = "insert"
      BY <2>8 DEF Insert
    <3>2. callers[c].kind # "delete" /\ ~(callers[c].kind = "undo" /\ callers[c].undo.kind = "create")
      BY <2>0, <3>1 DEF Shape
    <3> QED
      BY <2>8, <3>2, InsertDoes, IdleShape DEF Shape
  <2>9. CASE SetVersion(c)
    BY <2>0, <2>9, GoDoes, GoesShape DEF SetVersion, Shape
  <2>10. CASE Context(c)
    <3>1. callers[c].pc = "context"
      BY <2>10 DEF Context
    <3>2. callers[c].kind # "delete" /\ ~(callers[c].kind = "undo" /\ callers[c].undo.kind = "create")
      BY <2>0, <3>1 DEF Shape
    <3> QED
      BY <2>10, <3>2, ContextDoes, GoesShape DEF Shape
  <2>11. CASE Lock(c)
    BY <2>0, <2>11, GoDoes, GoesShape DEF Lock, Shape
  <2>12. CASE InsertBuild(c)
    <3>1. callers[c].pc = "row"
      BY <2>12 DEF InsertBuild
    <3>2. callers[c].kind # "delete" /\ ~(callers[c].kind = "undo" /\ callers[c].undo.kind = "create")
      BY <2>0, <3>1 DEF Shape
    <3> QED
      BY <2>12, <3>2, GoDoes, GoesShape DEF InsertBuild
  <2>13. CASE ReadInput(c)
    <3>1. callers[c].pc = "read"
      BY <2>13 DEF ReadInput
    <3> QED
      BY <2>0, <3>1, <2>13, ReadInputDoes DEF Shape
  <2>14. CASE WriteOutput(c)
    BY <2>0, <2>14, GoDoes, GoesShape DEF WriteOutput, Shape
  <2>15. CASE Finish(c)
    <3>1. callers[c].kind # "delete" /\ ~(callers[c].kind = "undo" /\ callers[c].undo.kind = "create")
      BY <2>0, <2>15 DEF Finish, Shape
    <3>2. Go(c, "done") \/ Go(c, "error")
      BY <2>15 DEF Finish
    <3> QED
      BY <3>1, <3>2, GoDoes, GoesShape
  <2>16. CASE Done(c) \/ Failed(c)
    BY <2>16, ReturnDoes, IdleShape DEF Done, Failed
  <2>17. CASE Fails(c)
    <3>1. CASE GivesUp(c)
      <4>1. callers[c].kind # "delete" /\ ~(callers[c].kind = "undo" /\ callers[c].undo.kind = "create")
        BY <2>0, <3>1 DEF Shape, GivesUp
      <4> QED
        BY <3>1, <4>1, GoesShape DEF GivesUp
    <3>2. CASE Abandons(c)
      BY <3>2, IdleShape DEF Abandons
    <3> QED
      BY <2>17, <3>1, <3>2, FailsDo
  <2> QED
    BY <1>1, <2>1, <2>2, <2>3, <2>4, <2>5, <2>6, <2>7, <2>8, <2>9, <2>10, <2>11, <2>12,
       <2>13, <2>14, <2>15, <2>16, <2>17 DEF Step
<1>2. ASSUME NEW c \in Callers, NEW kind \in Kinds, NEW undo \in log \cup {NoUndo},
             Start(c, kind, undo)
      PROVE  OthersStay(c) /\ Shape(callers'[c])
  BY <1>2, StartDoes DEF Shape
<1>3. CASE Restart
  BY <1>3, RestartDoes, IdleType DEF Shapes, Shape, Idle
<1>4. CASE UNCHANGED vars
  BY <1>4 DEF vars, Shapes
<1> QED
  BY <1>1, <1>2, <1>3, <1>4, OneShapes DEF Next

(* A step other than a start leaves a task busy with what it does, or idle. *)
LEMMA KindStays ==
    ASSUME ModelInv, NEW c \in Callers, Step(c) \/ Fails(c)
    PROVE  /\ OthersStay(c) /\ ~At(c, "idle")
           /\ callers'[c].pc = "idle" \/ callers'[c].kind = callers[c].kind
           /\ history'.raced = history.raced /\ UNCHANGED nextOp
<1> USE DEF At
<1>1. CASE Fails(c)
  BY <1>1, FailsDo DEF GivesUp, Abandons, Goes, Rests, Grows
<1>2. CASE Scope(c)
  BY <1>2, ScopeDoes DEF Rests, Scope, counters
<1>3. CASE Capture(c)
  BY <1>3, CaptureDoes DEF Capture, counters
<1>4. CASE Insert(c)
  BY <1>4, InsertDoes DEF Rests, Insert, counters
<1>5. CASE Context(c)
  BY <1>5, ContextDoes DEF Goes, Context, counters
<1>6. CASE ReadInput(c)
  BY <1>6, ReadInputDoes DEF ReadInput, counters
<1>7. CASE \/ LockInput(c) \/ WriteInput(c) \/ SetVersion(c) \/ Lock(c) \/ InsertBuild(c)
           \/ WriteOutput(c) \/ Finish(c)
  BY <1>7, GoDoes DEF LockInput, WriteInput, SetVersion, Lock, InsertBuild, WriteOutput, Finish,
     Goes, counters
<1>8. CASE Append(c) \/ Drop(c) \/ Create(c) \/ Done(c) \/ Failed(c)
  BY <1>8, GoDoes, ReturnDoes DEF Append, Drop, Create, Done, Failed, Goes, Rests, counters
<1> QED
  BY <1>1, <1>2, <1>3, <1>4, <1>5, <1>6, <1>7, <1>8 DEF Step

LEMMA StepAlone == ModelInv /\ Alone /\ [Next]_vars => Alone'
<1> SUFFICES ASSUME ModelInv, Alone, [Next]_vars PROVE Alone'
  OBVIOUS
<1>1. ASSUME NEW c \in Callers, Step(c) \/ Fails(c) PROVE Alone'
  BY <1>1, KindStays DEF Alone, At, OthersStay
<1>2. ASSUME NEW c \in Callers, NEW kind \in Kinds, NEW undo \in log \cup {NoUndo},
             Start(c, kind, undo)
      PROVE  Alone'
  BY <1>2, StartDoes DEF Alone, At, OthersStay, Busy
<1>3. CASE Restart
  BY <1>3, RestartDoes DEF Alone, At
<1>4. CASE UNCHANGED vars
  BY <1>4 DEF vars, Alone, At
<1> QED
  BY <1>1, <1>2, <1>3, <1>4 DEF Next

(* A task that changes the model, unraced, has the others at rest.         *)
LEMMA Sole ==
    ASSUME Alone, ~history.raced, NEW c \in Callers, ~At(c, "idle"),
           callers[c].kind \in Changes
    PROVE  \A d \in Callers \ {c} : callers[d].pc = "idle"
BY DEF Alone, At

LEMMA StepExclusive == ModelInv /\ Exclusive /\ [Next]_vars => Exclusive'
<1> SUFFICES ASSUME ModelInv, Exclusive, [Next]_vars PROVE Exclusive'
  OBVIOUS
<1> USE DEF At, OutputSteps, Building
<1>0. /\ locks \in [{"input", "output"} -> Callers \cup {NoOne}] /\ NoOne \notin Callers
  BY ModelBuildsAssumption, CallersTyped
<1>1. ASSUME NEW c \in Callers, Step(c) \/ Fails(c) PROVE Exclusive'
  <2>1. CASE Lock(c)
    <3>1. \A d \in Callers : callers[d].pc \notin OutputSteps
      BY <1>0, <2>1 DEF Lock, Exclusive
    <3>2. locks'["output"] = c
      BY <1>0, <2>1 DEF Lock
    <3> QED
      BY <2>1, <3>1, <3>2, GoDoes DEF Lock, Goes, OthersStay, Exclusive
  <2>2. CASE InsertBuild(c)
    <3>1. callers[c].pc = "row" /\ locks["output"] = c
      BY <2>2 DEF InsertBuild, Exclusive
    <3>2. \/ Goes(c, "read") /\ UNCHANGED locks
          \/ Goes(c, "error")
      BY <2>2, GoDoes DEF InsertBuild
    <3> QED
      BY <3>1, <3>2 DEF Goes, OthersStay, Exclusive
  <2>3. CASE Finish(c)
    <3>1. locks["output"] = c /\ (Goes(c, "done") \/ Goes(c, "error"))
      BY <2>3, GoDoes DEF Finish, Exclusive
    <3> QED
      BY <3>1 DEF Goes, OthersStay, Exclusive
  <2>4. CASE Done(c) \/ Failed(c)
    <3>1. callers[c].pc \in {"done", "error"} /\ locks' = Released(c) /\ Rests(c)
      BY <2>4, ReturnDoes DEF Done, Failed
    <3>2. \A d \in Callers \ {c} : locks["output"] = d => locks'["output"] = d
      BY <1>0, <3>1 DEF Released
    <3> QED
      BY <3>1, <3>2 DEF Rests, OthersStay, Exclusive
  <2>5. CASE LockInput(c)
    BY <1>0, <2>5, GoDoes DEF LockInput, Goes, OthersStay, Exclusive
  <2>6. CASE Fails(c)
    <3>1. OthersStay(c) /\ (GivesUp(c) \/ Abandons(c))
      BY <2>6, FailsDo
    <3>2. CASE Goes(c, "finishFailed") /\ UNCHANGED locks /\ callers[c].pc \in {"read", "write", "finish"}
      BY <3>2 DEF Goes, OthersStay, Exclusive
    <3>3. CASE /\ Goes(c, "error")
               /\ callers[c].pc \in {"context", "row", "finish", "finishFailed"}
               /\ callers[c].pc \in {"context", "row"} /\ locks["output"] # c
                     => locks'["output"] = locks["output"]
      <4>1. \A d \in Callers \ {c} : callers[d].pc \in OutputSteps => locks'["output"] = d
        BY <3>3 DEF Exclusive
      <4> QED
        BY <3>3, <4>1 DEF Goes, OthersStay, Exclusive
    <3>4. CASE Rests(c) /\ locks' = Released(c)
      <4>1. \A d \in Callers \ {c} : locks["output"] = d => locks'["output"] = d
        BY <1>0, <3>4 DEF Released
      <4> QED
        BY <3>4, <4>1 DEF Rests, OthersStay, Exclusive
    <3> QED
      BY <3>1, <3>2, <3>3, <3>4 DEF GivesUp, Abandons
  <2>7. CASE ReadInput(c)
    BY <2>7, ReadInputDoes DEF ReadInput, OthersStay, Exclusive
  <2>8. CASE WriteOutput(c)
    BY <2>8, GoDoes DEF WriteOutput, Goes, OthersStay, Exclusive
  <2>9. CASE WriteInput(c) \/ SetVersion(c)
    BY <2>9, GoDoes DEF WriteInput, SetVersion, Goes, OthersStay, Exclusive
  <2>10. CASE Append(c) \/ Drop(c) \/ Create(c)
    BY <2>10, GoDoes, ReturnDoes DEF Append, Drop, Create, Goes, Rests, OthersStay, Exclusive
  <2>11. CASE Scope(c)
    BY <2>11, ScopeDoes DEF Scope, Rests, OthersStay, Exclusive, Is
  <2>12. CASE Capture(c)
    BY <2>12, CaptureDoes DEF Capture, OthersStay, Exclusive
  <2>13. CASE Insert(c)
    BY <2>13, InsertDoes DEF Insert, Rests, OthersStay, Exclusive
  <2>14. CASE Context(c)
    BY <2>14, ContextDoes DEF Context, Goes, OthersStay, Exclusive
  <2> QED
    BY <1>1, <2>1, <2>2, <2>3, <2>4, <2>5, <2>6, <2>7, <2>8, <2>9, <2>10, <2>11, <2>12,
       <2>13, <2>14 DEF Step
<1>2. ASSUME NEW c \in Callers, NEW kind \in Kinds, NEW undo \in log \cup {NoUndo},
             Start(c, kind, undo)
      PROVE  Exclusive'
  <2>1. UNCHANGED locks
    BY <1>2 DEF Start
  <2> QED
    BY <1>2, <2>1, StartDoes DEF Exclusive, OthersStay
<1>3. CASE Restart
  BY <1>3, RestartDoes DEF Exclusive
<1>4. CASE UNCHANGED vars
  BY <1>4 DEF vars, Exclusive
<1> QED
  BY <1>1, <1>2, <1>3, <1>4 DEF Next

----------------------------------------------------------------------------
(* A task that is going to read the input again, for the model there is.   *)
Due(c) ==
    \/ At(c, "context") /\ (Is(c, "sync") \/ Is(c, "enrich") \/ callers[c].undo.model = model.id)
    \/ callers[c].pc \in {"lock", "row"} /\ callers[c].undo.model = model.id
    \/ At(c, "read")

(* Either somebody is, or the output has the last state of the input or is *)
(* about to.                                                               *)
Followed ==
    Exists /\ ~history.failed =>
        \/ \E c \in Callers : Due(c)
        \/ /\ \A c \in Callers : At(c, "write") => callers[c].from = input
           /\ (\E c \in Callers : At(c, "write")) \/ output.from = input

(* A step of a task that was not at "write", nor is, does not disturb what *)
(* the others will write, as long as it stays due when it was.             *)
LEMMA FollowedStays ==
    ASSUME Followed, NEW c \in Callers, OthersStay(c),
           Due(c) /\ Exists => Due(c)',
           callers[c].pc # "write" /\ callers'[c].pc # "write",
           Exists' => Exists /\ model'.id = model.id,
           history.failed => history'.failed, UNCHANGED <<input, output>>
    PROVE  Followed'
<1> SUFFICES ASSUME Exists', ~history'.failed,
                    \A d \in Callers : ~Due(d)'
             PROVE  /\ \A d \in Callers : callers'[d].pc = "write" => callers'[d].from = input'
                    /\ (\E d \in Callers : callers'[d].pc = "write") \/ output'.from = input'
  BY DEF Followed, At
<1>1. ~Due(c)
  OBVIOUS
<1>2. \A d \in Callers \ {c} : ~Due(d)
  BY DEF Due, At, Is, OthersStay
<1>3. /\ \A d \in Callers : callers[d].pc = "write" => callers[d].from = input
      /\ (\E d \in Callers : callers[d].pc = "write") \/ output.from = input
  BY <1>1, <1>2 DEF Followed, At
<1> QED
  BY <1>3 DEF OthersStay

LEMMA StepFollowed ==
    ModelInv /\ Shapes /\ Exclusive /\ Followed /\ [Next]_vars => Followed'
<1> SUFFICES ASSUME ModelInv, Shapes, Exclusive, Followed, [Next]_vars PROVE Followed'
  OBVIOUS
<1> USE DEF At, counters, rows
<1>1. ASSUME NEW c \in Callers, Step(c) \/ Fails(c) PROVE Followed'
  <2>0. /\ OthersStay(c) /\ model \in {NoModel} \cup [id : Nat \ {0}, current : Versions]
        /\ callers \in [Callers -> Caller]
    BY <1>1, KindStays DEF ModelInv, TypeOK
  <2>1. CASE LockInput(c)
    BY <2>1, <2>0, GoDoes, FollowedStays DEF LockInput, Goes, Due, Exists
  <2>2. CASE WriteInput(c)
    <3>1. Due(c)'
      BY <2>2, GoDoes DEF WriteInput, Goes, Due, Shapes, Shape, Is
    <3> QED
      BY <3>1 DEF Followed
  <2>3. CASE Scope(c)
    <3>1. callers[c].pc = "scope" /\ callers'[c].pc # "write"
      BY <2>3, ScopeDoes DEF Scope, Rests, Is
    <3>2. ~Due(c) /\ UNCHANGED <<input, output, model, history>>
      BY <2>3, <3>1 DEF Scope, Due
    <3> QED
      BY <2>0, <3>1, <3>2, FollowedStays DEF Exists
  <2>4. CASE Append(c)
    <3>1. callers[c].pc = "append" /\ callers'[c].pc # "write"
      BY <2>4, GoDoes, ReturnDoes DEF Append, Goes, Rests
    <3>2. ~Due(c) /\ UNCHANGED <<input, output, history>> /\ model'.id = model.id
      BY <2>0, <2>4, <3>1 DEF Append, Due, NoModel
    <3>3. Exists' => Exists
      BY <2>4, <3>2, <2>0 DEF Exists, NoModel, Append, ModelInv, InHand
    <3> QED
      BY <2>0, <3>1, <3>2, <3>3, FollowedStays
  <2>5. CASE Capture(c)
    <3>1. callers[c].pc = "capture" /\ callers'[c].pc # "write"
      BY <2>5, CaptureDoes DEF Capture
    <3>2. ~Due(c) /\ UNCHANGED <<input, output, model, history>>
      BY <2>5, <3>1 DEF Capture, Due
    <3> QED
      BY <2>0, <3>1, <3>2, FollowedStays DEF Exists
  <2>6. CASE Drop(c)
    <3>1. callers[c].pc = "drop" /\ callers'[c].pc # "write"
      BY <2>6, GoDoes, ReturnDoes DEF Drop, Goes, Rests
    <3>2. CASE TableGone
      BY <3>2 DEF TableGone, Followed, Exists
    <3>3. CASE UNCHANGED rows
      <4>1. ~Due(c) /\ UNCHANGED <<input, output, model, history>>
        BY <2>6, <3>1, <3>3 DEF Drop, Due
      <4> QED
        BY <2>0, <3>1, <4>1, FollowedStays DEF Exists
    <3> QED
      BY <2>6, <3>2, <3>3 DEF Drop
  <2>7. CASE Create(c)
    <3>1. callers[c].pc = "create" /\ callers'[c].pc # "write"
      BY <2>7, GoDoes, ReturnDoes DEF Create, Goes, Rests
    <3>2. CASE table # 0
      <4>1. ~Due(c) /\ UNCHANGED <<input, output, model, history>>
        BY <2>7, <3>1, <3>2 DEF Create, Due
      <4> QED
        BY <2>0, <3>1, <4>1, FollowedStays DEF Exists
    <3>3. CASE table = 0
      BY <2>7, <3>3 DEF Create, Followed, Exists, ModelInv, VersionsOfModel
    <3> QED
      BY <3>2, <3>3
  <2>8. CASE Insert(c)
    <3>1. CASE Rests(c) /\ UNCHANGED <<model, versions>>
      <4>1. callers[c].pc = "insert" /\ UNCHANGED <<input, output, history>> /\ ~Due(c)
        BY <2>8 DEF Insert, Due
      <4> QED
        BY <2>0, <3>1, <4>1, FollowedStays DEF Exists, Rests
    <3>2. CASE ~(Rests(c) /\ UNCHANGED <<model, versions>>)
      <4>1. callers'[c].pc = "context" /\ callers'[c].undo.model = model'.id
        BY <2>8, <3>2, InsertDoes
      <4>2. Due(c)'
        BY <4>1 DEF Due
      <4> QED
        BY <4>2 DEF Followed
    <3> QED
      BY <3>1, <3>2
  <2>9. CASE SetVersion(c)
    <3>1. callers[c].pc = "setVersion" /\ callers'[c].pc = "context"
      BY <2>9, GoDoes DEF SetVersion, Goes
    <3>2. /\ ~Due(c) /\ UNCHANGED <<input, output, history>> /\ model'.id = model.id
      BY <2>9, <3>1 DEF SetVersion, Due
    <3>3. Exists' => Exists
      BY <2>9, <3>1, <2>0 DEF Exists, NoModel, SetVersion, ModelInv, InHand, Undoable
    <3> QED
      BY <2>0, <3>1, <3>2, <3>3, FollowedStays
  <2>10. CASE Context(c)
    <3>1. /\ callers[c].pc = "context" /\ callers'[c].pc \in {"error", "lock"}
          /\ UNCHANGED <<input, output, model, history>>
      BY <2>10, ContextDoes DEF Context, Goes
    <3>2. Due(c) /\ Exists => Due(c)'
      BY <2>10, <3>1, ContextDoes DEF Due
    <3> QED
      BY <2>0, <3>1, <3>2, FollowedStays DEF Exists
  <2>11. CASE Lock(c)
    BY <2>11, <2>0, GoDoes, FollowedStays DEF Lock, Goes, Due, Exists
  <2>12. CASE InsertBuild(c)
    <3>1. /\ callers[c].pc = "row" /\ UNCHANGED <<input, output, model, history>>
          /\ \/ Goes(c, "read")
             \/ Goes(c, "error") /\ ~(Exists /\ model.id = callers[c].undo.model)
      BY <2>12, GoDoes DEF InsertBuild
    <3> QED
      BY <2>0, <3>1, FollowedStays DEF Goes, Due, Exists
  <2>13. CASE ReadInput(c)
    <3>1. /\ callers[c].pc = "read" /\ UNCHANGED <<input, output, model, history>>
          /\ callers'[c].pc = "write" /\ callers'[c].from = input
      BY <2>13, ReadInputDoes DEF ReadInput
    <3>2. \A d \in Callers \ {c} : callers[d].pc # "write"
      BY <3>1, ModelBuildsAssumption DEF Exclusive, OutputSteps, Building
    <3> QED
      BY <2>0, <3>1, <3>2 DEF Followed, OthersStay
  <2>14. CASE WriteOutput(c)
    <3>1. /\ callers[c].pc = "write" /\ UNCHANGED <<input, model, history>>
          /\ output'.from = callers[c].from /\ Goes(c, "finish")
      BY <2>14, GoDoes DEF WriteOutput
    <3>2. Due(c) = FALSE /\ Due(c)' = FALSE
      BY <3>1 DEF Due, Goes
    <3>3. \A d \in Callers \ {c} : Due(d)' = Due(d)
      BY <2>0, <3>1 DEF Due, OthersStay, Is
    <3> QED
      BY <2>0, <3>1, <3>2, <3>3 DEF Followed, OthersStay, Goes, Exists
  <2>15. CASE Fails(c)
    <3>1. CASE history'.failed
      BY <3>1 DEF Followed
    <3>2. CASE ~history'.failed
      <4>1. /\ UNCHANGED <<input, output, model>> /\ (history.failed => history'.failed)
            /\ Rests(c) /\ callers[c].pc \notin BuildSteps \ {"error"}
        BY <2>15, <3>2, FailsDo DEF GivesUp, Abandons, Grows
      <4>2. ~Due(c) /\ callers[c].pc # "write" /\ callers'[c].pc # "write"
        BY <4>1 DEF Due, BuildSteps, Building, Rests
      <4> QED
        BY <2>0, <4>1, <4>2, FollowedStays DEF Exists
    <3> QED
      BY <3>1, <3>2
  <2>16. CASE Finish(c)
    <3>1. /\ callers[c].pc \in {"finish", "finishFailed"}
          /\ UNCHANGED <<input, output, model, history>>
          /\ Goes(c, "done") \/ Goes(c, "error")
      BY <2>16, GoDoes DEF Finish
    <3> QED
      BY <2>0, <3>1, FollowedStays DEF Goes, Due, Exists
  <2>17. CASE Done(c)
    <3>1. callers[c].pc = "done" /\ UNCHANGED <<input, output, model, history>> /\ Rests(c)
      BY <2>17, ReturnDoes DEF Done
    <3> QED
      BY <2>0, <3>1, FollowedStays DEF Rests, Due, Exists
  <2>18. CASE Failed(c)
    <3>1. callers[c].pc = "error" /\ Rests(c) /\ UNCHANGED <<input, history>>
      BY <2>18, ReturnDoes DEF Failed
    <3>2. CASE TableGone
      BY <3>2 DEF TableGone, Followed, Exists
    <3>3. CASE ~TableGone
      <4>1. UNCHANGED output /\ model'.id = model.id /\ (Exists' => Exists)
        BY <2>18, <3>3, <2>0 DEF Failed, Exists, ModelInv, InHand, Is, NoModel
      <4> QED
        BY <2>0, <3>1, <4>1, FollowedStays DEF Rests, Due
    <3> QED
      BY <3>2, <3>3
  <2> QED
    BY <1>1, <2>1, <2>2, <2>3, <2>4, <2>5, <2>6, <2>7, <2>8, <2>9, <2>10, <2>11, <2>12,
       <2>13, <2>14, <2>15, <2>16, <2>17, <2>18 DEF Step
<1>2. ASSUME NEW c \in Callers, NEW kind \in Kinds, NEW undo \in log \cup {NoUndo},
             Start(c, kind, undo)
      PROVE  Followed'
  <2>1. UNCHANGED <<input, output, model>>
    BY <1>2 DEF Start
  <2> QED
    BY <1>2, <2>1, StartDoes, FollowedStays DEF Due, Exists
<1>3. CASE Restart
  <2>1. CASE history'.failed
    BY <2>1 DEF Followed
  <2>2. CASE ~history'.failed
    <3>1. /\ UNCHANGED <<input, output, model>> /\ ~history.failed
          /\ \A c \in Callers : callers[c].pc \notin BuildSteps /\ callers'[c].pc = "idle"
      BY <1>3, <2>2, RestartDoes DEF Restart, Grows
    <3>2. \A c \in Callers : ~Due(c) /\ callers[c].pc # "write"
      BY <3>1 DEF Due, BuildSteps, Building
    <3> QED
      BY <3>1, <3>2 DEF Followed, Exists
  <2> QED
    BY <2>1, <2>2
<1>4. CASE UNCHANGED vars
  BY <1>4 DEF vars, Followed, Due, Is, Exists
<1> QED
  BY <1>1, <1>2, <1>3, <1>4 DEF Next

----------------------------------------------------------------------------
HasModel(c)   == Exists /\ callers[c].undo.model = model.id
CurrentRecipe == versions[model.current]
Restoring(c)  == Is(c, "undo") /\ callers[c].undo.kind = "delete"

(* What a task works on is still what there is: the model, its recipe, and *)
(* the table a new model will be put on.                                   *)
Placed(c) ==
    /\ callers[c].pc \in {"append", "capture"} => HasModel(c) /\ callers[c].back = model.current
    /\ callers[c].pc \in {"lock", "row"} /\ Exists
            => HasModel(c) /\ callers[c].recipe = CurrentRecipe
    /\ callers[c].pc \in {"read", "write"} => HasModel(c) /\ callers[c].recipe = CurrentRecipe
    /\ callers[c].pc \in AfterChange /\ (callers[c].kind \in {"create", "update"} \/ Restoring(c))
            => HasModel(c)
    /\ callers[c].pc = "insert" => table = callers[c].op

InPlace == ~history.raced => \A c \in Callers : Placed(c)

(* Unraced, a task leaves the model alone or the others are at rest.       *)
LEMMA Works ==
    ASSUME ModelInv, Shapes, Alone, InPlace, ~history.raced,
           NEW c \in Callers, Step(c) \/ Fails(c)
    PROVE  \/ callers[c].kind \in Changes /\ \A d \in Callers \ {c} : callers[d].pc = "idle"
           \/ callers[c].kind \notin Changes /\ UNCHANGED <<table, model, versions, log>>
<1> SUFFICES ASSUME callers[c].kind \notin Changes PROVE UNCHANGED <<table, model, versions, log>>
  BY KindStays, Sole
<1> USE DEF At, Is, Changes, counters, rows
<1>1. Shape(callers[c]) /\ InHand(callers[c]) /\ Placed(c)
  BY DEF Shapes, ModelInv, InPlace
<1>2. /\ callers[c].kind \notin {"create", "update", "delete", "undo"}
      /\ callers[c].pc \notin {"append", "capture", "drop", "create", "insert", "setVersion"}
  BY <1>1 DEF Shape, InHand
<1>3. /\ ~Append(c) /\ ~Capture(c) /\ ~Drop(c) /\ ~Create(c) /\ ~Insert(c) /\ ~SetVersion(c)
  BY <1>2 DEF Append, Capture, Drop, Create, Insert, SetVersion
<1>4. CASE WriteOutput(c)
  BY <1>1, <1>4 DEF WriteOutput, Placed, HasModel, Exists, ModelInv, VersionsOfModel
<1>5. CASE LockInput(c) \/ WriteInput(c) \/ Scope(c) \/ Context(c) \/ Lock(c) \/ InsertBuild(c)
  BY <1>5 DEF LockInput, WriteInput, Scope, Context, Lock, InsertBuild
<1>6. CASE ReadInput(c) \/ Finish(c) \/ Done(c) \/ Failed(c)
  BY <1>2, <1>6 DEF ReadInput, Finish, Done, Failed
<1>7. CASE Fails(c)
  BY <1>7, FailsDo
<1> QED
  BY <1>3, <1>4, <1>5, <1>6, <1>7 DEF Step

LEMMA OnePlaced ==
    ASSUME InPlace, NEW c \in Callers, OthersStay(c), ~history.raced, Placed(c)',
           \/ \A d \in Callers \ {c} : callers[d].pc = "idle"
           \/ UNCHANGED <<table, model, versions>>
    PROVE  InPlace'
BY DEF InPlace, OthersStay, Placed, HasModel, Restoring, CurrentRecipe, Exists, Is, AfterChange, ToBuild

LEMMA RestsPlaced ==
    ASSUME NEW c \in Callers, Rests(c) PROVE Placed(c)'
BY DEF Rests, Placed, AfterChange, ToBuild

LEMMA StepPlace ==
    ModelInv /\ ModelInv' /\ Shapes /\ Shapes' /\ Alone /\ InPlace /\ [Next]_vars => InPlace'
<1> SUFFICES ASSUME ModelInv, ModelInv', Shapes, Shapes', Alone, InPlace, [Next]_vars
             PROVE  InPlace'
  OBVIOUS
<1> USE DEF At, Is, counters, rows, AfterChange, ToBuild
<1>1. ASSUME NEW c \in Callers, Step(c) \/ Fails(c), ~history'.raced
      PROVE  Placed(c)'
  <2>0. /\ Placed(c) /\ Shape(callers[c]) /\ InHand(callers[c]) /\ ~history.raced
        /\ model \in {NoModel} \cup [id : Nat \ {0}, current : Versions]
    BY <1>1, KindStays DEF InPlace, Shapes, ModelInv, TypeOK
  <2>1. CASE LockInput(c)
    BY <2>1, GoDoes DEF LockInput, Goes, Placed
  <2>2. CASE WriteInput(c)
    BY <2>0, <2>2, GoDoes DEF WriteInput, Goes, Placed, Shape, Restoring
  <2>3. CASE Scope(c)
    BY <2>3, ScopeDoes, RestsPlaced DEF Scope, Placed, HasModel, Restoring, Exists
  <2>4. CASE Append(c)
    <3>1. HasModel(c) /\ callers[c].kind = "update"
      BY <2>0, <2>4 DEF Append, Placed, InHand
    <3>2. CASE Return(c)
      BY <3>2, ReturnDoes, RestsPlaced
    <3>3. CASE ~Return(c)
      <4>1. Goes(c, "context") /\ model' = [model EXCEPT !.current = @ + 1]
        BY <2>4, <3>3, GoDoes DEF Append
      <4>2. HasModel(c)'
        BY <2>0, <3>1, <4>1 DEF HasModel, Exists, Goes, NoModel
      <4> QED
        BY <4>1, <4>2 DEF Placed, Goes
    <3> QED
      BY <3>2, <3>3
  <2>5. CASE Capture(c)
    BY <2>5, CaptureDoes DEF Placed
  <2>6. CASE Drop(c)
    <3>1. callers[c].kind = "delete" \/ (Is(c, "undo") /\ callers[c].undo.kind = "create")
      BY <2>0, <2>6 DEF Drop, Shape
    <3>2. Rests(c) \/ Goes(c, "done")
      BY <2>6, GoDoes, ReturnDoes DEF Drop
    <3> QED
      BY <3>1, <3>2, RestsPlaced DEF Goes, Placed, Restoring
  <2>7. CASE Create(c)
    BY <2>7, GoDoes, ReturnDoes, RestsPlaced DEF Create, Goes, Placed
  <2>8. CASE Insert(c)
    BY <2>8, InsertDoes, RestsPlaced DEF Placed, HasModel, Exists
  <2>9. CASE SetVersion(c)
    BY <2>0, <2>9, GoDoes DEF SetVersion, Goes, Placed, InHand, Restoring
  <2>10. CASE Context(c)
    <3>1. UNCHANGED <<model, versions>>
      BY <2>10 DEF Context
    <3>2. CASE Goes(c, "error")
      BY <2>0, <2>10, <3>1, <3>2 DEF Goes, Placed, HasModel, Restoring, Exists, Context
    <3>3. CASE ~Goes(c, "error")
      BY <2>10, <3>1, <3>3, ContextDoes DEF Placed, HasModel, Exists, CurrentRecipe
    <3> QED
      BY <3>2, <3>3
  <2>11. CASE Lock(c)
    BY <2>0, <2>11, GoDoes DEF Lock, Goes, Placed, HasModel, Exists, CurrentRecipe, Restoring
  <2>12. CASE InsertBuild(c)
    <3>1. /\ callers[c].pc = "row" /\ UNCHANGED <<model, versions>>
          /\ (Goes(c, "read") /\ Exists) \/ Goes(c, "error")
      BY <2>12, GoDoes DEF InsertBuild
    <3> QED
      BY <2>0, <3>1 DEF Goes, Placed, HasModel, Exists, CurrentRecipe, Restoring
  <2>13. CASE ReadInput(c)
    BY <2>0, <2>13, ReadInputDoes DEF ReadInput, Placed, HasModel, Exists, CurrentRecipe, Restoring
  <2>14. CASE WriteOutput(c)
    BY <2>0, <2>14, GoDoes DEF WriteOutput, Goes, Placed, HasModel, Exists, Restoring
  <2>15. CASE Fails(c)
    <3>1. UNCHANGED model /\ (GivesUp(c) \/ Abandons(c))
      BY <2>15, FailsDo
    <3>2. CASE GivesUp(c)
      BY <2>0, <3>1, <3>2 DEF GivesUp, Goes, Placed, HasModel, Exists, Restoring
    <3> QED
      BY <3>1, <3>2, RestsPlaced DEF Abandons
  <2>16. CASE Finish(c)
    <3>1. /\ callers[c].pc \in {"finish", "finishFailed"} /\ UNCHANGED model
          /\ Goes(c, "done") \/ Goes(c, "error")
      BY <2>16, GoDoes DEF Finish
    <3> QED
      BY <2>0, <3>1 DEF Goes, Placed, HasModel, Exists, Restoring
  <2>17. CASE Done(c) \/ Failed(c)
    BY <2>17, ReturnDoes, RestsPlaced DEF Done, Failed
  <2> QED
    BY <1>1, <2>1, <2>2, <2>3, <2>4, <2>5, <2>6, <2>7, <2>8, <2>9, <2>10, <2>11, <2>12,
       <2>13, <2>14, <2>15, <2>16, <2>17 DEF Step
<1>2. ASSUME NEW c \in Callers, Step(c) \/ Fails(c) PROVE InPlace'
  <2>1. OthersStay(c) /\ history'.raced = history.raced
    BY <1>2, KindStays
  <2>2. CASE history.raced
    BY <2>1, <2>2 DEF InPlace
  <2>3. CASE ~history.raced
    BY <1>1, <1>2, <2>1, <2>3, Works, OnePlaced
  <2> QED
    BY <2>2, <2>3
<1>3. ASSUME NEW c \in Callers, NEW kind \in Kinds, NEW undo \in log \cup {NoUndo},
             Start(c, kind, undo)
      PROVE  InPlace'
  <2>1. UNCHANGED <<table, model, versions>> /\ OthersStay(c) /\ (history.raced => history'.raced)
    BY <1>3, StartDoes DEF Start
  <2>2. Placed(c)'
    BY <1>3, StartDoes DEF Placed
  <2>3. CASE history.raced
    BY <2>1, <2>3 DEF InPlace
  <2> QED
    BY <2>1, <2>2, <2>3, OnePlaced
<1>4. CASE Restart
  BY <1>4, RestartDoes DEF InPlace, Placed
<1>5. CASE UNCHANGED vars
  BY <1>5 DEF vars, InPlace, Placed, HasModel, Restoring, CurrentRecipe, Exists
<1> QED
  BY <1>2, <1>3, <1>4, <1>5 DEF Next

(* Whatever a step does, it does not take back what has happened.          *)
LEMMA HistoryGrows ==
    ASSUME ModelInv, NEW c \in Callers, Step(c) \/ Fails(c)
    PROVE  Grows
<1>1. CASE Fails(c)
  BY <1>1, FailsDo
<1>2. CASE Step(c)
  <2>1. UNCHANGED history
    BY <1>2 DEF Step, LockInput, WriteInput, Scope, Append, Capture, Drop, Create, Insert,
       SetVersion, Context, Lock, InsertBuild, ReadInput, WriteOutput, Finish, Done, Failed,
       counters, rows
  <2> QED
    BY <2>1 DEF Grows
<1> QED
  BY <1>1, <1>2

(* Unraced, a table that is no stray has its model, or is about to.        *)
Tabled ==
    ~history.raced /\ ~history.stray /\ table # 0
        => Exists \/ \E c \in Callers : callers[c].pc = "insert"

LEMMA StepTabled ==
    ModelInv /\ Shapes /\ Alone /\ InPlace /\ Tabled /\ [Next]_vars => Tabled'
<1> SUFFICES ASSUME ModelInv, Shapes, Alone, InPlace, Tabled, [Next]_vars PROVE Tabled'
  OBVIOUS
<1> USE DEF At, Is, counters, rows
<1>1. ASSUME NEW c \in Callers, Step(c) \/ Fails(c), ~history'.raced, ~history'.stray,
             table' # 0
      PROVE  Exists' \/ \E d \in Callers : callers'[d].pc = "insert"
  <2>0. /\ Placed(c) /\ InHand(callers[c]) /\ ~history.raced /\ OthersStay(c) /\ ~history.stray
        /\ model \in {NoModel} \cup [id : Nat \ {0}, current : Versions]
    BY <1>1, KindStays, HistoryGrows DEF Grows, InPlace, ModelInv, TypeOK
  <2>1. CASE TableGone
    BY <1>1, <2>1 DEF TableGone
  <2>2. CASE Create(c) /\ table = 0
    BY <2>2, GoDoes DEF Create, Goes
  <2>3. CASE Insert(c)
    <3>1. callers[c].pc = "insert" /\ table = callers[c].op
      BY <2>0, <2>3 DEF Insert, Placed
    <3> QED
      BY <2>3, <3>1, InsertDoes DEF Exists
  <2>4. CASE callers[c].pc # "insert" /\ UNCHANGED table /\ (Exists => Exists')
    BY <1>1, <2>0, <2>4 DEF Tabled, OthersStay
  <2>5. CASE LockInput(c) \/ WriteInput(c) \/ Scope(c) \/ Capture(c) \/ Context(c) \/ Lock(c)
    BY <2>4, <2>5 DEF LockInput, WriteInput, Scope, Capture, Context, Lock, Exists
  <2>6. CASE InsertBuild(c) \/ ReadInput(c) \/ Finish(c) \/ Done(c)
    BY <2>4, <2>6 DEF InsertBuild, ReadInput, Finish, Done, Exists
  <2>7. CASE WriteOutput(c)
    <3>1. Exists
      BY <2>0, <2>7 DEF WriteOutput, Placed, HasModel
    <3> QED
      BY <2>7, <3>1 DEF WriteOutput, Exists
  <2>8. CASE Create(c) /\ table # 0
    BY <2>4, <2>8 DEF Create, Exists
  <2>9. CASE Drop(c)
    BY <2>1, <2>4, <2>9 DEF Drop, Exists
  <2>10. CASE Append(c)
    <3>1. Exists => Exists'
      BY <2>0, <2>10 DEF Append, Exists, NoModel
    <3> QED
      BY <2>4, <2>10, <3>1 DEF Append
  <2>11. CASE SetVersion(c)
    <3>1. Exists => Exists'
      BY <2>0, <2>11 DEF SetVersion, Exists, NoModel
    <3> QED
      BY <2>4, <2>11, <3>1 DEF SetVersion
  <2>12. CASE Failed(c)
    <3>1. TableGone \/ (UNCHANGED table /\ (Exists => Exists'))
      BY <2>0, <2>12 DEF Failed, Exists, NoModel
    <3> QED
      BY <2>1, <2>4, <2>12, <3>1 DEF Failed
  <2>13. CASE Fails(c)
    <3>1. callers[c].pc # "insert" /\ UNCHANGED <<table, model>>
      BY <1>1, <2>13, FailsDo DEF GivesUp, Abandons
    <3> QED
      BY <2>4, <3>1 DEF Exists
  <2> QED
    BY <1>1, <2>2, <2>3, <2>5, <2>6, <2>7, <2>8, <2>9, <2>10, <2>11, <2>12, <2>13 DEF Step
<1>2. ASSUME NEW c \in Callers, NEW kind \in Kinds, NEW undo \in log \cup {NoUndo},
             Start(c, kind, undo)
      PROVE  Tabled'
  <2>1. UNCHANGED <<table, model>> /\ OthersStay(c) /\ (history.raced => history'.raced)
        /\ callers[c].pc = "idle" /\ history'.stray = history.stray
    BY <1>2, StartDoes DEF Start
  <2> QED
    BY <2>1 DEF Tabled, OthersStay, Exists
<1>3. CASE Restart
  <2>1. /\ UNCHANGED <<table, model>> /\ history'.raced = history.raced
        /\ ~history'.stray => /\ ~history.stray
                               /\ \A c \in Callers : callers[c].pc # "insert"
    BY <1>3, RestartDoes DEF Restart, rows, Grows
  <2> QED
    BY <2>1 DEF Tabled, Exists
<1>4. CASE UNCHANGED vars
  BY <1>4 DEF vars, Tabled, Exists
<1> QED
  BY <1>1, <1>2, <1>3, <1>4 DEF Next, Tabled

----------------------------------------------------------------------------
(* A task that has changed the model and will write the output again, or   *)
(* take its change back.                                                   *)
Changed(c) ==
    \/ callers[c].kind \in Changes /\ callers[c].pc \in ToBuild /\ callers[c].undo.model = model.id
    \/ callers[c].kind \in {"update", "create"} /\ callers[c].pc \in {"finishFailed", "error"}

(* But for that, the output is of the model's recipe; and what an update   *)
(* would fall back to is what the output was built from.                   *)
Built ==
    Exists /\ ~history.raced /\ ~history.behind =>
        /\ output.recipe = CurrentRecipe \/ \E c \in Callers : Changed(c)
        /\ \A c \in Callers : Is(c, "update") /\ Changed(c)
                                => output.recipe = versions[callers[c].back]

(* What is left to show of a task that changes the model.                  *)
BuiltBy(c) ==
    /\ output.recipe = CurrentRecipe \/ Changed(c)
    /\ Is(c, "update") /\ Changed(c) => output.recipe = versions[callers[c].back]

LEMMA OneBuilt ==
    ASSUME NEW c \in Callers, OthersStay(c), \A d \in Callers \ {c} : callers[d].pc = "idle",
           BuiltBy(c)'
    PROVE  Built'
BY DEF Built, BuiltBy, OthersStay, Changed, ToBuild, Is, CurrentRecipe

LEMMA BuiltOne ==
    ASSUME Built, NEW c \in Callers, \A d \in Callers \ {c} : callers[d].pc = "idle",
           Exists, ~history.raced, ~history.behind
    PROVE  BuiltBy(c)
BY DEF Built, BuiltBy, Changed, ToBuild

(* The steps of a task that changes the model, the others being at rest.   *)
LEMMA ChangesBuilt ==
    ASSUME ModelInv, Shapes, InPlace, NEW c \in Callers, Step(c) \/ Fails(c),
           ~history.raced, Exists', ~history'.behind, callers[c].kind \in Changes,
           Exists /\ ~history.behind => BuiltBy(c)
    PROVE  BuiltBy(c)'
<1> USE DEF At, Is, counters, rows, AfterChange, ToBuild, Changes
<1>0. /\ Placed(c) /\ Shape(callers[c]) /\ InHand(callers[c])
      /\ model \in {NoModel} \cup [id : Nat \ {0}, current : Versions]
      /\ versions \in [Versions -> Nat]
  BY DEF InPlace, Shapes, ModelInv, TypeOK
<1>2. CASE LockInput(c) \/ WriteInput(c)
  BY <1>0, <1>2 DEF LockInput, WriteInput, Shape
<1>3. CASE Scope(c)
  <2>1. Exists /\ ~history.behind /\ UNCHANGED <<output, model, versions>>
    BY <1>3 DEF Scope, Exists
  <2> QED
    BY <1>3, <2>1, ScopeDoes DEF BuiltBy, Changed, CurrentRecipe, Rests, Scope
<1>4. CASE Append(c)
  <2>1. /\ HasModel(c) /\ callers[c].back = model.current /\ callers[c].pc = "append"
        /\ UNCHANGED <<output, history>>
    BY <1>0, <1>4 DEF Append, Placed
  <2>2. output.recipe = CurrentRecipe
    BY <2>1 DEF BuiltBy, Changed, HasModel
  <2>3. CASE Return(c) /\ UNCHANGED <<model, versions>>
    BY <2>1, <2>2, <2>3, ReturnDoes DEF BuiltBy, Changed, Rests, CurrentRecipe
  <2>4. CASE ~(Return(c) /\ UNCHANGED <<model, versions>>)
    <3>1. /\ Goes(c, "context") /\ model' = [model EXCEPT !.current = @ + 1]
          /\ versions' = [versions EXCEPT ![model.current + 1] = callers[c].op]
      BY <1>4, <2>4, GoDoes DEF Append
    <3>2. model.current \in Versions /\ model.current \in Nat
      BY <1>0, <2>1 DEF HasModel, Exists, Versions
    <3>3. versions'[callers[c].back] = versions[model.current]
      BY <1>0, <2>1, <3>1, <3>2
    <3>4. Changed(c)'
      BY <1>0, <2>1, <3>1 DEF Changed, Goes, HasModel, Exists
    <3> QED
      BY <2>1, <2>2, <3>1, <3>3, <3>4 DEF BuiltBy, Goes, CurrentRecipe
  <2> QED
    BY <2>3, <2>4
<1>5. CASE Capture(c)
  <2>1. Exists /\ ~history.behind /\ UNCHANGED <<output, model, versions>> /\ ~Changed(c)
    BY <1>5 DEF Capture, Exists, Changed
  <2> QED
    BY <1>5, <2>1, CaptureDoes DEF BuiltBy, Changed, CurrentRecipe
<1>6. CASE Drop(c)
  <2>1. CASE TableGone
    BY <2>1 DEF TableGone, Exists
  <2>2. CASE UNCHANGED rows
    <3>1. Exists /\ ~history.behind /\ UNCHANGED <<output, model, versions>> /\ ~Changed(c)
      BY <1>6, <2>2 DEF Drop, Exists, Changed
    <3>2. Goes(c, "done") \/ Rests(c)
      BY <1>6, GoDoes, ReturnDoes DEF Drop
    <3> QED
      BY <3>1, <3>2 DEF BuiltBy, Changed, CurrentRecipe, Goes, Rests
  <2> QED
    BY <1>6, <2>1, <2>2 DEF Drop
<1>7. CASE Create(c)
  <2>1. CASE table = 0
    BY <1>7, <2>1 DEF Create, ModelInv, VersionsOfModel, Exists
  <2>2. CASE table # 0
    <3>1. Exists /\ ~history.behind /\ UNCHANGED <<output, model, versions>> /\ ~Changed(c)
          /\ Rests(c)
      BY <1>7, <2>2, ReturnDoes DEF Create, Exists, Changed
    <3> QED
      BY <3>1 DEF BuiltBy, Changed, CurrentRecipe, Rests
  <2> QED
    BY <2>1, <2>2
<1>8. CASE Insert(c)
  <2>1. table = callers[c].op
    BY <1>0, <1>8 DEF Insert, Placed
  <2> QED
    BY <1>0, <1>8, <2>1, InsertDoes DEF BuiltBy, Changed, InHand
<1>9. CASE SetVersion(c)
  <2>1. callers[c].kind = "undo" /\ callers[c].pc = "setVersion" /\ Goes(c, "context")
        /\ UNCHANGED <<output, versions, history>>
    BY <1>0, <1>9, GoDoes DEF SetVersion, InHand
  <2>2. CASE model.id = callers[c].undo.model
    <3>1. Changed(c)'
      BY <1>0, <1>9, <2>1, <2>2 DEF SetVersion, Changed, Goes, NoModel
    <3> QED
      BY <2>1, <3>1 DEF BuiltBy, Goes
  <2>3. CASE model.id # callers[c].undo.model
    <3>1. UNCHANGED model
      BY <1>9, <2>3 DEF SetVersion
    <3> QED
      BY <2>1, <2>3, <3>1 DEF BuiltBy, Goes, Exists, Changed, CurrentRecipe
  <2> QED
    BY <2>2, <2>3
<1>10. CASE Context(c)
  <2>1. UNCHANGED <<output, model, versions, history>> /\ Exists /\ callers[c].pc = "context"
    BY <1>10 DEF Context, Exists
  <2>2. CASE Goes(c, "error")
    BY <1>0, <1>10, <2>1, <2>2, ContextDoes DEF BuiltBy, Changed, CurrentRecipe, Goes, Placed, HasModel
  <2>3. CASE ~Goes(c, "error")
    BY <1>10, <2>1, <2>3, ContextDoes DEF BuiltBy, Changed, CurrentRecipe
  <2> QED
    BY <2>2, <2>3
<1>11. CASE Lock(c)
  <2>1. UNCHANGED <<output, model, versions, history>> /\ Exists /\ callers[c].pc = "lock"
        /\ Goes(c, "row")
    BY <1>11, GoDoes DEF Lock, Exists
  <2> QED
    BY <2>1 DEF BuiltBy, Changed, CurrentRecipe, Goes
<1>12. CASE InsertBuild(c)
  <2>1. UNCHANGED <<output, model, versions, history>> /\ Exists /\ callers[c].pc = "row"
    BY <1>12 DEF InsertBuild, Exists
  <2>2. Goes(c, "read")
    BY <1>0, <1>12, <2>1, GoDoes DEF InsertBuild, Placed, HasModel
  <2> QED
    BY <2>1, <2>2 DEF BuiltBy, Changed, CurrentRecipe, Goes
<1>13. CASE ReadInput(c)
  <2>1. UNCHANGED <<output, model, versions, history>> /\ Exists /\ callers[c].pc = "read"
    BY <1>13 DEF ReadInput, Exists
  <2> QED
    BY <1>13, <2>1, ReadInputDoes DEF BuiltBy, Changed, CurrentRecipe
<1>14. CASE WriteOutput(c)
  <2>1. /\ UNCHANGED <<model, versions>> /\ output'.recipe = callers[c].recipe
        /\ callers[c].recipe = CurrentRecipe /\ Goes(c, "finish")
    BY <1>0, <1>14, GoDoes DEF WriteOutput, Placed
  <2> QED
    BY <2>1 DEF BuiltBy, Changed, CurrentRecipe, Goes
<1>15. CASE Fails(c)
  <2>1. /\ UNCHANGED <<output, model, versions>> /\ Exists /\ ~history.behind
        /\ GivesUp(c) \/ Abandons(c)
    BY <1>15, FailsDo DEF Exists, Grows
  <2>2. CASE GivesUp(c)
    <3>1. /\ callers[c].kind # "undo" /\ (Goes(c, "finishFailed") \/ Goes(c, "error"))
          /\ callers[c].pc \in {"context", "row", "read", "write", "finishFailed"}
      BY <2>2 DEF GivesUp
    <3>2. callers[c].kind \in {"update", "create"}
      BY <1>0, <3>1 DEF Shape
    <3>3. callers[c].undo.model = model.id
      BY <1>0, <3>1, <3>2 DEF Placed, HasModel
    <3> QED
      BY <2>1, <3>1, <3>2, <3>3 DEF BuiltBy, Changed, CurrentRecipe, Goes
  <2>3. CASE Abandons(c)
    <3>1. Rests(c) /\ callers[c].pc \notin BuildSteps
      BY <2>3 DEF Abandons
    <3>2. ~Changed(c)
      BY <3>1 DEF Changed, BuildSteps, Building
    <3> QED
      BY <2>1, <3>1, <3>2 DEF BuiltBy, Changed, CurrentRecipe, Rests
  <2> QED
    BY <2>1, <2>2, <2>3
<1>16. CASE Finish(c)
  <2>1. /\ UNCHANGED <<output, model, versions, history>> /\ Exists
        /\ \/ callers[c].pc = "finish" /\ Goes(c, "done")
           \/ callers[c].pc = "finishFailed" /\ Goes(c, "error")
    BY <1>16, GoDoes DEF Finish, Exists
  <2> QED
    BY <2>1 DEF BuiltBy, Changed, CurrentRecipe, Goes
<1>17. CASE Done(c)
  <2>1. UNCHANGED <<output, model, versions, history>> /\ Exists /\ callers[c].pc = "done" /\ Rests(c)
    BY <1>17, ReturnDoes DEF Done, Exists
  <2> QED
    BY <2>1 DEF BuiltBy, Changed, CurrentRecipe, Rests
<1>18. CASE Failed(c)
  <2>1. callers[c].pc = "error" /\ Rests(c) /\ UNCHANGED history
    BY <1>18, ReturnDoes DEF Failed
  <2>2. ~TableGone
    BY DEF TableGone, Exists
  <2>3. CASE callers[c].kind = "create"
    <3>1. table = 0 /\ model = NoModel
      BY <1>18, <2>2, <2>3 DEF Failed, ModelInv, VersionsOfModel
    <3> QED
      BY <1>18, <2>3, <3>1 DEF Failed, Exists
  <2>4. CASE callers[c].kind = "update"
    <3>1. HasModel(c)
      BY <1>0, <2>1, <2>4 DEF Placed
    <3>2. model' = [model EXCEPT !.current = callers[c].back] /\ UNCHANGED <<output, versions>>
      BY <1>18, <2>4, <3>1 DEF Failed, HasModel
    <3>3. output.recipe = versions[callers[c].back]
      BY <2>1, <2>4, <3>1 DEF BuiltBy, Changed, HasModel
    <3> QED
      BY <1>0, <2>1, <3>1, <3>2, <3>3 DEF BuiltBy, Changed, CurrentRecipe, Rests, HasModel, Exists
  <2>5. CASE callers[c].kind \notin {"create", "update"}
    <3>1. UNCHANGED <<output, model, versions>> /\ Exists
      BY <1>18, <2>5 DEF Failed, Exists
    <3> QED
      BY <2>1, <2>5, <3>1 DEF BuiltBy, Changed, CurrentRecipe, Rests
  <2> QED
    BY <2>3, <2>4, <2>5
<1> QED
  BY <1>2, <1>3, <1>4, <1>5, <1>6, <1>7, <1>8, <1>9, <1>10, <1>11, <1>12, <1>13, <1>14,
     <1>15, <1>16, <1>17, <1>18 DEF Step

LEMMA StepBuilt ==
    ModelInv /\ Shapes /\ Alone /\ InPlace /\ Built /\ [Next]_vars => Built'
<1> SUFFICES ASSUME ModelInv, Shapes, Alone, InPlace, Built, [Next]_vars PROVE Built'
  OBVIOUS
<1>1. ASSUME NEW c \in Callers, Step(c) \/ Fails(c) PROVE Built'
  <2> SUFFICES ASSUME Exists', ~history'.raced, ~history'.behind PROVE Built'
    BY DEF Built
  <2>1. OthersStay(c) /\ ~history.raced /\ ~history.behind
    BY <1>1, KindStays, HistoryGrows DEF Grows
  <2>2. CASE callers[c].kind \in Changes /\ \A d \in Callers \ {c} : callers[d].pc = "idle"
    <3>1. Exists => BuiltBy(c)
      BY <2>1, <2>2, BuiltOne
    <3>2. BuiltBy(c)'
      BY <1>1, <2>1, <2>2, <3>1, ChangesBuilt
    <3> QED
      BY <2>1, <2>2, <3>2, OneBuilt
  <2>3. CASE callers[c].kind \notin Changes /\ UNCHANGED <<table, model, versions, log>>
    <3>1. /\ ~Changed(c) /\ ~Changed(c)'
          /\ \A d \in Callers \ {c} : Changed(d)' = Changed(d) /\ Is(d, "update")' = Is(d, "update")
      BY <1>1, <2>1, <2>3, KindStays DEF Changed, Changes, OthersStay, Is, ToBuild
    <3>2. Exists
      BY <2>3 DEF Exists
    <3>3. CASE UNCHANGED output
      BY <2>1, <2>3, <3>1, <3>2, <3>3 DEF Built, OthersStay, CurrentRecipe
    <3>4. CASE WriteOutput(c)
      <4>1. /\ callers[c].pc = "write" /\ output'.recipe = callers[c].recipe
            /\ callers[c].recipe = CurrentRecipe
        BY <2>1, <3>4 DEF WriteOutput, At, InPlace, Placed
      <4>2. \A d \in Callers : ~(Is(d, "update") /\ Changed(d))
        BY <2>1, <2>3, <4>1 DEF Alone, At, Changed, ToBuild, Is, Changes
      <4> QED
        BY <2>3, <3>1, <4>1, <4>2 DEF Built, CurrentRecipe
    <3>5. UNCHANGED output \/ WriteOutput(c)
      <4> USE DEF At, Is, Changes, rows
      <4>1. Shape(callers[c]) /\ InHand(callers[c])
        BY DEF Shapes, ModelInv
      <4>2. ~Drop(c) /\ ~Create(c) /\ ~(Failed(c) /\ callers[c].kind = "create")
        BY <2>3, <4>1 DEF Drop, Create, Shape, InHand
      <4> QED
        BY <1>1, <4>2, FailsDo DEF Step, LockInput, WriteInput, Scope, Append, Capture,
           Insert, SetVersion, Context, Lock, InsertBuild, ReadInput, Finish, Done, Failed
    <3> QED
      BY <3>3, <3>4, <3>5
  <2> QED
    BY <1>1, <2>1, <2>2, <2>3, Works
<1>2. ASSUME NEW c \in Callers, NEW kind \in Kinds, NEW undo \in log \cup {NoUndo},
             Start(c, kind, undo)
      PROVE  Built'
  <2>1. /\ UNCHANGED <<output, model, versions>> /\ OthersStay(c)
        /\ history.raced => history'.raced
        /\ history'.behind = history.behind /\ ~Changed(c) /\ ~Changed(c)'
    BY <1>2, StartDoes DEF Start, rows, Changed, ToBuild
  <2>2. \A d \in Callers \ {c} : Changed(d)' = Changed(d) /\ Is(d, "update")' = Is(d, "update")
    BY <2>1 DEF OthersStay, Changed, Is
  <2> QED
    BY <2>1, <2>2 DEF Built, OthersStay, Exists, CurrentRecipe
<1>3. CASE Restart
  <2> SUFFICES ASSUME Exists', ~history'.raced, ~history'.behind PROVE Built'
    BY DEF Built
  <2>1. /\ UNCHANGED <<output, model, versions>> /\ ~history.raced /\ ~history.behind
        /\ \A c \in Callers : /\ callers'[c].pc = "idle"
                               /\ ~(callers[c].pc \in BuildSteps /\ callers[c].kind \in Changes)
    BY <1>3, RestartDoes DEF Restart, rows, Grows
  <2>2. \A c \in Callers : ~Changed(c) /\ ~Changed(c)'
    BY <2>1 DEF Changed, ToBuild, BuildSteps, Building, Changes
  <2> QED
    BY <2>1, <2>2 DEF Built, Exists, CurrentRecipe
<1>4. CASE UNCHANGED vars
  BY <1>4 DEF vars, rows, counters, Built, Exists, CurrentRecipe, Changed, Is
<1> QED
  BY <1>1, <1>2, <1>3, <1>4 DEF Next

----------------------------------------------------------------------------
(* A model has the number of the operation that created it, so none on     *)
(* record has the number of one that is being created.                     *)
IdsOld ==
    /\ model.id < nextOp
    /\ \A u \in log : u.model < nextOp
    /\ \A c \in Callers : callers[c].undo.model < nextOp
    /\ ~history.raced => \A c \in Callers, u \in log :
            Is(c, "create") /\ callers[c].pc \in {"create", "insert"} => u.model # callers[c].op

LEMMA StepIds ==
    ModelInv /\ Shapes /\ Alone /\ InPlace /\ IdsOld /\ [Next]_vars => IdsOld'
<1> SUFFICES ASSUME ModelInv, Shapes, Alone, InPlace, IdsOld, [Next]_vars PROVE IdsOld'
  OBVIOUS
<1> USE DEF At, Is, counters, rows
<1>1. ASSUME NEW c \in Callers, Step(c) \/ Fails(c) PROVE IdsOld'
  <2>0. /\ InHand(callers[c]) /\ OthersStay(c) /\ UNCHANGED nextOp
        /\ history'.raced = history.raced /\ nextOp \in Nat
        /\ model \in {NoModel} \cup [id : Nat \ {0}, current : Versions]
        /\ callers[c].pc # "idle" /\ callers[c] \in Caller
    BY <1>1, KindStays, CallersTyped DEF ModelInv, TypeOK
  <2>1. /\ callers[c].op \in Nat /\ callers[c].op < nextOp
        /\ callers[c].undo.model \in Nat /\ callers[c].undo.model < nextOp
        /\ model.id \in Nat /\ model.id < nextOp
    BY <2>0 DEF InHand, IdsOld, Caller, Undo, NoModel
  <2>2. model'.id \in {0, model.id, callers[c].op, callers[c].undo.model}
    <3>1. CASE Insert(c)
      BY <3>1, InsertDoes
    <3>2. CASE TableGone
      BY <3>2 DEF TableGone, NoModel
    <3>3. CASE Append(c) \/ SetVersion(c) \/ (Failed(c) /\ ~TableGone)
      BY <2>0, <3>3 DEF Append, SetVersion, Failed, NoModel
    <3>4. CASE UNCHANGED model
      BY <3>4
    <3> QED
      BY <1>1, <3>1, <3>2, <3>3, <3>4, FailsDo DEF Step, LockInput, WriteInput, Scope, Capture,
         Drop, Create, Context, Lock, InsertBuild, ReadInput, WriteOutput, Finish, Done
  <2>3. callers'[c].undo.model \in {0, model.id, model'.id, callers[c].undo.model}
    <3>1. CASE Scope(c) \/ Capture(c) \/ Insert(c) \/ Context(c) \/ ReadInput(c)
      BY <3>1, ScopeDoes, CaptureDoes, InsertDoes, ContextDoes, ReadInputDoes
         DEF Rests, Idle, NoUndo, Goes
    <3>2. CASE Append(c) \/ Drop(c) \/ Create(c) \/ Done(c) \/ Failed(c)
      BY <3>2, GoDoes, ReturnDoes DEF Append, Drop, Create, Done, Failed, Rests, Idle, NoUndo, Goes
    <3>3. CASE \/ LockInput(c) \/ WriteInput(c) \/ SetVersion(c) \/ Lock(c) \/ InsertBuild(c)
               \/ WriteOutput(c) \/ Finish(c)
      BY <3>3, GoDoes DEF LockInput, WriteInput, SetVersion, Lock, InsertBuild, WriteOutput,
         Finish, Goes
    <3>4. CASE Fails(c)
      BY <3>4, FailsDo DEF GivesUp, Abandons, Goes, Rests, Idle, NoUndo
    <3> QED
      BY <1>1, <3>1, <3>2, <3>3, <3>4 DEF Step
  <2>4. \A u \in log' : u.model < nextOp
    <3>1. \A u \in log' : u \in log \/ u.model = callers[c].undo.model
      <4>1. CASE Done(c)
        <5> DEFINE u == callers[c].undo
                   x == [u EXCEPT !.op = callers[c].op]
                   y == [u EXCEPT !.op = callers[c].op, !.kind = "update", !.to = callers[c].back]
                   z == [u EXCEPT !.op = callers[c].op, !.kind = "delete", !.to = callers[c].back]
        <5>1. x.model = u.model /\ y.model = u.model /\ z.model = u.model
          BY <2>0 DEF Caller, Undo
        <5>2. \A e \in log' : e \in log \/ e \in {x, y, z}
          BY <4>1 DEF Done
        <5> HIDE DEF x, y, z
        <5> QED
          BY <5>1, <5>2
      <4>2. CASE ~Done(c)
        <5>1. UNCHANGED log
          BY <1>1, <4>2, FailsDo DEF Step, LockInput, WriteInput, Scope, Append, Capture, Drop,
             Create, Insert, SetVersion, Context, Lock, InsertBuild, ReadInput, WriteOutput,
             Finish, Failed
        <5> QED
          BY <5>1
      <4> QED
        BY <4>1, <4>2
    <3> QED
      BY <2>1, <3>1 DEF IdsOld
  <2>5. ASSUME ~history.raced, NEW d \in Callers, NEW u \in log',
               callers'[d].kind = "create", callers'[d].pc \in {"create", "insert"}
        PROVE  u.model # callers'[d].op
    <3>1. CASE callers[c].kind \notin Changes /\ UNCHANGED log
      <4>1. d # c
        BY <1>1, <2>5, <3>1, KindStays DEF Changes
      <4> QED
        BY <2>0, <2>5, <3>1, <4>1 DEF OthersStay, IdsOld
    <3>2. CASE \A e \in Callers \ {c} : callers[e].pc = "idle"
      <4>1. d = c
        BY <2>0, <2>5, <3>2 DEF OthersStay
      <4>2. Create(c)
        <5>1. CASE Scope(c) \/ Capture(c) \/ Insert(c) \/ Context(c) \/ ReadInput(c)
          BY <2>5, <4>1, <5>1, ScopeDoes, CaptureDoes, InsertDoes, ContextDoes, ReadInputDoes
             DEF Rests, Goes
        <5>2. CASE Append(c) \/ Drop(c) \/ Done(c) \/ Failed(c)
          BY <2>5, <4>1, <5>2, GoDoes, ReturnDoes DEF Append, Drop, Done, Failed, Rests, Goes
        <5>3. CASE \/ LockInput(c) \/ WriteInput(c) \/ SetVersion(c) \/ Lock(c) \/ InsertBuild(c)
                   \/ WriteOutput(c) \/ Finish(c)
          BY <2>5, <4>1, <5>3, GoDoes DEF LockInput, WriteInput, SetVersion, Lock, InsertBuild,
             WriteOutput, Finish, Goes
        <5>4. CASE Fails(c)
          BY <2>5, <4>1, <5>4, FailsDo DEF GivesUp, Abandons, Goes, Rests
        <5> QED
          BY <1>1, <5>1, <5>2, <5>3, <5>4 DEF Step
      <4>3. Goes(c, "insert") /\ UNCHANGED log /\ callers[c].pc = "create"
        BY <2>5, <4>1, <4>2, GoDoes, ReturnDoes DEF Create, Rests
      <4> QED
        BY <2>5, <4>1, <4>3 DEF Goes, IdsOld
    <3> QED
      BY <1>1, <2>5, <3>1, <3>2, Works
  <2> QED
    BY <2>0, <2>1, <2>2, <2>3, <2>4, <2>5 DEF IdsOld, OthersStay
<1>2. ASSUME NEW c \in Callers, NEW kind \in Kinds, NEW undo \in log \cup {NoUndo},
             Start(c, kind, undo)
      PROVE  IdsOld'
  <2>0. UNCHANGED <<model, log>> /\ nextOp \in Nat \ {0}
    BY <1>2 DEF Start, ModelInv
  <2>1. /\ UNCHANGED <<model, log>> /\ OthersStay(c) /\ nextOp' = nextOp + 1 /\ nextOp \in Nat \ {0}
        /\ callers'[c].undo = undo /\ callers'[c].op = nextOp /\ (history.raced => history'.raced)
    BY <1>2, <2>0, StartDoes
  <2>2. undo.model < nextOp
    BY <1>2, <2>1 DEF IdsOld, NoUndo
  <2>3. /\ model.id \in Nat /\ \A u \in log : u.model \in Nat
        /\ \A d \in Callers : callers[d].undo.model \in Nat /\ undo.model \in Nat
    BY <1>2, CallersTyped, StartDoes DEF ModelInv, TypeOK, NoModel, Undo, Caller
  <2> QED
    BY <2>1, <2>2, <2>3 DEF IdsOld, OthersStay
<1>3. CASE Restart
  <2>1. UNCHANGED <<model, log, nextOp>> /\ nextOp \in Nat \ {0}
    BY <1>3 DEF Restart, ModelInv
  <2> QED
    BY <1>3, <2>1, RestartDoes DEF IdsOld, Idle, NoUndo
<1>4. CASE UNCHANGED vars
  BY <1>4 DEF vars, IdsOld
<1> QED
  BY <1>1, <1>2, <1>3, <1>4 DEF Next

----------------------------------------------------------------------------
Deletions == {u \in log : u.kind = "delete"}
Updates   == {u \in log : u.kind = "update"}

(* Every version an update of model m can be taken back to is among vs.    *)
Covers(vs, m) == \A u \in Updates : u.model = m => vs[u.to] # 0

(* A model that was deleted is back only while the undo of that is at work.*)
RestoredBy(c, w) == Is(c, "undo") /\ callers[c].undo = w /\ callers[c].pc \in AfterChange
Restored(w)      == \E c \in Callers : RestoredBy(c, w)

(* The log can be undone, entry by entry: the versions to go back to are   *)
(* on record, with the model or in the deletion that took them away.       *)
ModelCovered    == Exists => CurrentRecipe # 0 /\ Covers(versions, model.id)
DeletionCovered == \A w \in Deletions : w.versions[w.to] # 0 /\ Covers(w.versions, w.model)
DeletionsDiffer == \A w, x \in Deletions : w.model = x.model => w = x
DeletedGone     == \A w \in Deletions : Exists /\ w.model = model.id => Restored(w)

(* And so can what is about to be logged.                                  *)
ToLog(c) ==
    /\ Is(c, "undo") /\ callers[c].pc # "idle" => callers[c].undo \in log
    /\ Restoring(c) => callers[c].pc \notin {"finishFailed", "error"}
    /\ Is(c, "delete") /\ callers[c].pc \in {"drop", "done"} =>
          /\ callers[c].undo.versions[callers[c].back] # 0
          /\ Covers(callers[c].undo.versions, callers[c].undo.model)
          /\ \A w \in Deletions : w.model # callers[c].undo.model
    /\ Is(c, "delete") /\ callers[c].pc = "done" => ~Exists
    /\ Is(c, "update") /\ callers[c].pc \in AfterChange => versions[callers[c].back] # 0

OnRecord == ~history.raced /\ ~history.torn =>
    /\ ModelCovered /\ DeletionCovered /\ DeletionsDiffer /\ DeletedGone
    /\ \A c \in Callers : ToLog(c)

(* What is left to show of a task that works alone.                        *)
RecordedBy(c) ==
    /\ ModelCovered /\ DeletionCovered /\ DeletionsDiffer /\ ToLog(c)
    /\ \A w \in Deletions : Exists /\ w.model = model.id => RestoredBy(c, w)

LEMMA OneOnRecord ==
    ASSUME NEW c \in Callers, OthersStay(c), \A d \in Callers \ {c} : callers[d].pc = "idle",
           RecordedBy(c)'
    PROVE  OnRecord'
<1>1. \A d \in Callers \ {c} : ToLog(d)'
  BY DEF OthersStay, ToLog, AfterChange, ToBuild, Restoring
<1>2. DeletedGone'
  BY DEF RecordedBy, DeletedGone, Restored
<1> QED
  BY <1>1, <1>2 DEF RecordedBy, OnRecord

LEMMA OnRecordOne ==
    ASSUME OnRecord, ~history.raced, ~history.torn, NEW c \in Callers,
           \A d \in Callers \ {c} : callers[d].pc = "idle"
    PROVE  RecordedBy(c)
<1>1. \A d \in Callers \ {c} : \A w \in Deletions : ~RestoredBy(d, w)
  BY DEF RestoredBy, AfterChange, ToBuild
<1> QED
  BY <1>1 DEF OnRecord, RecordedBy, DeletedGone, Restored

(* With the model, its versions and the log as they were, what matters is  *)
(* the task's own state.                                                   *)
LEMMA RecordStays ==
    ASSUME NEW c \in Callers, RecordedBy(c), UNCHANGED <<model, versions, log>>, ToLog(c)',
           \A w \in Deletions : RestoredBy(c, w) => RestoredBy(c, w)'
    PROVE  RecordedBy(c)'
BY DEF RecordedBy, ModelCovered, DeletionCovered, DeletionsDiffer, Deletions, Updates, Covers,
   Exists, CurrentRecipe

(* The same where the model is gone.                                       *)
LEMMA RecordOfNone ==
    ASSUME NEW c \in Callers, RecordedBy(c), ~Exists', UNCHANGED log, ToLog(c)'
    PROVE  RecordedBy(c)'
BY DEF RecordedBy, ModelCovered, DeletionCovered, DeletionsDiffer, Deletions, Updates, Covers

LEMMA RestsRecorded ==
    ASSUME NEW c \in Callers, Rests(c)
    PROVE  ToLog(c)'
BY DEF Rests, ToLog, Restoring, Idle, NoUndo, Is

(* The types the cases below need.                                         *)
RecordTyped ==
    /\ model \in {NoModel} \cup [id : Nat \ {0}, current : Versions]
    /\ versions \in [Versions -> Nat] /\ Versions \subseteq Nat
    /\ log \subseteq Undo /\ \A u \in log : Undoable(u)

LEMMA RecordTypes == ModelInv => RecordTyped
BY DEF ModelInv, TypeOK, RecordTyped, Versions

LEMMA AppendRecord ==
    ASSUME ModelInv, InPlace, ~history.raced, NEW c \in Callers, Append(c), RecordedBy(c)
    PROVE  RecordedBy(c)'
<1>1. /\ HasModel(c) /\ callers[c].back = model.current /\ callers[c].kind = "update"
      /\ callers[c].op \in Nat \ {0} /\ UNCHANGED log /\ RecordTyped
  BY RecordTypes DEF Append, InPlace, Placed, At, ModelInv, InHand
<1>2. CASE Return(c) /\ UNCHANGED <<model, versions>>
  <2>1. \A w \in Deletions : ~RestoredBy(c, w)
    BY <1>1 DEF RestoredBy, Is
  <2> QED
    BY <1>1, <1>2, <2>1, ReturnDoes, RestsRecorded, RecordStays
<1>3. CASE ~(Return(c) /\ UNCHANGED <<model, versions>>)
  <2>1. /\ Goes(c, "context") /\ model' = [model EXCEPT !.current = @ + 1]
        /\ versions' = [versions EXCEPT ![model.current + 1] = callers[c].op]
        /\ model.current + 1 \in Versions
    BY <1>3, GoDoes DEF Append
  <2>2. /\ model.current \in Versions /\ model.current \in Nat
        /\ model'.current = model.current + 1 /\ model'.id = model.id
    BY <1>1, <2>1 DEF RecordTyped, HasModel, Exists
  <2>3. \A v \in Versions : versions[v] # 0 => versions'[v] # 0
    BY <1>1, <2>1 DEF RecordTyped
  <2>4. versions'[model'.current] # 0
    BY <1>1, <2>1, <2>2 DEF RecordTyped
  <2>5. Covers(versions, model.id)' /\ versions[model.current] # 0
    <3>1. Covers(versions, model.id) /\ versions[model.current] # 0
      BY <1>1 DEF RecordedBy, ModelCovered, HasModel, CurrentRecipe
    <3>2. \A u \in Updates : u.to \in Versions
      BY <1>1 DEF RecordTyped, Updates, Undoable
    <3> QED
      BY <1>1, <2>2, <2>3, <3>1, <3>2 DEF Covers, Updates
  <2>6. ToLog(c)'
    BY <1>1, <2>1, <2>2, <2>3, <2>5 DEF ToLog, Goes, Is, Restoring
  <2>7. \A w \in Deletions : ~(Exists /\ w.model = model.id)
    BY <1>1 DEF RecordedBy, RestoredBy, Is
  <2>8. \A w \in Deletions' : ~(Exists' /\ w.model = model'.id)
    BY <1>1, <2>2, <2>7 DEF Deletions, HasModel
  <2>9. ModelCovered'
    BY <2>4, <2>5 DEF ModelCovered, CurrentRecipe
  <2> QED
    BY <1>1, <2>6, <2>8, <2>9 DEF RecordedBy, DeletionCovered, DeletionsDiffer, Deletions,
       Updates, Covers
<1> QED
  BY <1>2, <1>3

LEMMA InsertRecord ==
    ASSUME ModelInv, InPlace, IdsOld, ~history.raced, NEW c \in Callers, Insert(c), RecordedBy(c)
    PROVE  RecordedBy(c)'
<1>1. /\ callers[c].pc = "insert" /\ table = callers[c].op /\ UNCHANGED log /\ RecordTyped
  BY RecordTypes DEF Insert, InPlace, Placed, At
<1>2. /\ callers'[c].pc = "context" /\ callers'[c].kind = callers[c].kind
      /\ callers'[c].undo.model = model'.id /\ callers'[c].undo.kind = callers[c].undo.kind
  BY <1>1, InsertDoes
<1>3. CASE /\ Is(c, "undo") /\ callers[c].undo.kind = "delete"
           /\ callers'[c].undo = callers[c].undo
           /\ model' = [id |-> callers[c].undo.model, current |-> callers[c].undo.to]
           /\ versions' = callers[c].undo.versions
  <2> DEFINE u == callers[c].undo
  <2>1. u \in Deletions /\ u \in log
    BY <1>1, <1>3 DEF RecordedBy, ToLog, Deletions
  <2>2. u.versions[u.to] # 0 /\ Covers(u.versions, u.model)
    BY <2>1 DEF RecordedBy, DeletionCovered
  <2>3. ModelCovered'
    BY <1>1, <1>3, <2>2 DEF ModelCovered, CurrentRecipe, Covers, Updates
  <2>4. ToLog(c)'
    BY <1>1, <1>2, <1>3, <2>1 DEF ToLog, Is, Restoring
  <2>5. \A w \in Deletions : w.model = model'.id => w = u
    BY <1>3, <2>1 DEF RecordedBy, DeletionsDiffer
  <2>6. \A w \in Deletions' : Exists' /\ w.model = model'.id => RestoredBy(c, w)'
    BY <1>1, <1>2, <1>3, <2>5 DEF Deletions, RestoredBy, Is, AfterChange, ToBuild
  <2> QED
    BY <1>1, <2>3, <2>4, <2>6 DEF RecordedBy, DeletionCovered, DeletionsDiffer, Deletions,
       Updates, Covers
<1>4. CASE /\ Is(c, "create") /\ model' = [id |-> callers[c].op, current |-> 1]
           /\ versions' = [NoRecipe EXCEPT ![1] = callers[c].op]
  <2>1. \A u \in log : u.model # model'.id
    BY <1>1, <1>4 DEF IdsOld
  <2>2. 1 \in Versions /\ callers[c].op \in Nat \ {0}
    BY <1>1, ModelBuildsAssumption DEF Versions, ModelInv, InHand
  <2>3. versions'[model'.current] # 0
    BY <1>4, <2>2 DEF NoRecipe
  <2>4. ModelCovered'
    BY <1>1, <2>1, <2>3 DEF ModelCovered, CurrentRecipe, Covers, Updates
  <2>5. ToLog(c)'
    BY <1>2, <1>4 DEF ToLog, Is, Restoring
  <2> QED
    BY <1>1, <2>1, <2>4, <2>5 DEF RecordedBy, DeletionCovered, DeletionsDiffer, Deletions,
       Updates, Covers
<1> QED
  BY <1>1, <1>3, <1>4, InsertDoes

LEMMA SetVersionRecord ==
    ASSUME ModelInv, NEW c \in Callers, SetVersion(c), RecordedBy(c)
    PROVE  RecordedBy(c)'
<1>1. /\ callers[c].pc = "setVersion" /\ Is(c, "undo") /\ callers[c].undo.kind = "update"
      /\ UNCHANGED <<versions, log>> /\ RecordTyped /\ Goes(c, "context")
  BY RecordTypes, GoDoes DEF SetVersion, At, Is, ModelInv, InHand
<1>2. ToLog(c)'
  BY <1>1 DEF ToLog, RecordedBy, Goes, Is, Restoring
<1>3. \A w \in Deletions : ~RestoredBy(c, w)
  BY <1>1 DEF RestoredBy, Deletions
<1>4. CASE model.id # callers[c].undo.model
  BY <1>1, <1>2, <1>3, <1>4, RecordStays DEF SetVersion
<1>5. CASE model.id = callers[c].undo.model
  <2>1. model.id # 0 /\ callers[c].undo \in Updates
    BY <1>1, <1>5 DEF RecordTyped, Undoable, RecordedBy, ToLog, Updates
  <2>2. Exists /\ model'.id = model.id /\ model'.current = callers[c].undo.to
    BY <1>1, <1>5, <2>1 DEF SetVersion, RecordTyped, Exists, NoModel
  <2>3. ModelCovered'
    BY <1>1, <1>5, <2>1, <2>2 DEF ModelCovered, CurrentRecipe, Covers, Updates, RecordedBy
  <2>4. \A w \in Deletions' : ~(Exists' /\ w.model = model'.id)
    BY <1>1, <1>3, <2>2 DEF RecordedBy, Deletions
  <2> QED
    BY <1>1, <1>2, <2>3, <2>4 DEF RecordedBy, DeletionCovered, DeletionsDiffer, Deletions,
       Updates, Covers
<1> QED
  BY <1>4, <1>5

LEMMA DoneRecord ==
    ASSUME ModelInv, Shapes, InPlace, ~history.raced, NEW c \in Callers, Done(c), RecordedBy(c)
    PROVE  RecordedBy(c)'
<1> DEFINE u == callers[c].undo
           b == callers[c].back
<1>1. /\ callers[c].pc = "done" /\ UNCHANGED <<model, versions>> /\ RecordTyped
      /\ u \in Undo /\ callers[c].op \in Nat /\ b \in Nat /\ Rests(c)
      /\ InHand(callers[c]) /\ Placed(c)
  BY RecordTypes, ReturnDoes, CallersTyped DEF Done, At, rows, Caller, ModelInv, InPlace
<1>2. ToLog(c)'
  BY <1>1, RestsRecorded
<1>3. CASE Is(c, "update")
  <2> DEFINE x == [u EXCEPT !.op = callers[c].op, !.kind = "update", !.to = b]
  <2>1. x.kind = "update" /\ x.model = u.model /\ x.to = b
    BY <1>1 DEF Undo
  <2>2. log' = log \cup {x}
    BY <1>3 DEF Done, Is
  <2> HIDE DEF x
  <2>3. HasModel(c) /\ versions[b] # 0
    BY <1>1, <1>3 DEF Placed, Is, AfterChange, RecordedBy, ToLog
  <2>4. \A w \in Deletions : w.model # model.id
    BY <1>3, <2>3 DEF RecordedBy, RestoredBy, Is, HasModel
  <2>5. Deletions' = Deletions /\ Updates' = Updates \cup {x}
    BY <2>1, <2>2 DEF Deletions, Updates
  <2>6. ModelCovered'
    BY <1>1, <2>1, <2>3, <2>5 DEF ModelCovered, CurrentRecipe, Covers, HasModel, Exists, RecordedBy
  <2>7. DeletionCovered'
    BY <2>1, <2>3, <2>4, <2>5 DEF DeletionCovered, Covers, HasModel, RecordedBy
  <2> QED
    BY <1>1, <1>2, <2>4, <2>5, <2>6, <2>7 DEF RecordedBy, DeletionsDiffer, Exists
<1>4. CASE Is(c, "create")
  <2> DEFINE x == [u EXCEPT !.op = callers[c].op]
  <2>1. x.kind = "create"
    BY <1>1, <1>4 DEF Undo, InHand, Is
  <2>2. log' = log \cup {x}
    BY <1>4 DEF Done, Is
  <2> HIDE DEF x
  <2>3. Deletions' = Deletions /\ Updates' = Updates
    BY <2>1, <2>2 DEF Deletions, Updates
  <2>4. \A w \in Deletions : ~RestoredBy(c, w)
    BY <1>4 DEF RestoredBy, Is
  <2> QED
    BY <1>1, <1>2, <2>3, <2>4 DEF RecordedBy, ModelCovered, DeletionCovered, DeletionsDiffer,
       Covers, Exists, CurrentRecipe
<1>5. CASE Is(c, "delete")
  <2> DEFINE x == [u EXCEPT !.op = callers[c].op, !.kind = "delete", !.to = b]
  <2>1. x.kind = "delete" /\ x.model = u.model /\ x.to = b /\ x.versions = u.versions
    BY <1>1 DEF Undo
  <2>2. log' = log \cup {x}
    BY <1>5 DEF Done, Is
  <2> HIDE DEF x
  <2>3. /\ u.versions[b] # 0 /\ Covers(u.versions, u.model) /\ ~Exists
        /\ \A w \in Deletions : w.model # u.model
    BY <1>1, <1>5 DEF RecordedBy, ToLog
  <2>4. Deletions' = Deletions \cup {x} /\ Updates' = Updates
    BY <2>1, <2>2 DEF Deletions, Updates
  <2>5. DeletionCovered' /\ DeletionsDiffer'
    BY <2>1, <2>3, <2>4 DEF DeletionCovered, DeletionsDiffer, Covers, RecordedBy
  <2> QED
    BY <1>1, <1>2, <2>3, <2>5 DEF RecordedBy, ModelCovered, Exists
<1>6. CASE Is(c, "undo")
  <2>1. log' = log \ {u}
    BY <1>6 DEF Done, Is
  <2>2. Deletions' = Deletions \ {u} /\ Updates' = Updates \ {u}
    BY <2>1 DEF Deletions, Updates
  <2>3. \A w \in Deletions' : ~(Exists' /\ w.model = model'.id)
    BY <1>1, <2>2 DEF RecordedBy, RestoredBy, Exists
  <2> QED
    BY <1>1, <1>2, <2>2, <2>3 DEF RecordedBy, ModelCovered, DeletionCovered, DeletionsDiffer,
       Covers, Exists, CurrentRecipe
<1>7. CASE ~Is(c, "update") /\ ~Is(c, "create") /\ ~Is(c, "delete") /\ ~Is(c, "undo")
  <2>1. UNCHANGED log
    BY <1>7 DEF Done, Is
  <2> QED
    BY <1>1, <1>2, <1>7, <2>1, RecordStays DEF RestoredBy
<1> QED
  BY <1>3, <1>4, <1>5, <1>6, <1>7

LEMMA FailedRecord ==
    ASSUME ModelInv, Shapes, InPlace, ~history.raced, NEW c \in Callers, Failed(c), RecordedBy(c)
    PROVE  RecordedBy(c)'
<1>1. /\ callers[c].pc = "error" /\ UNCHANGED log /\ RecordTyped /\ Rests(c) /\ Placed(c)
  BY RecordTypes, ReturnDoes DEF Failed, At, InPlace
<1>2. ToLog(c)'
  BY <1>1, RestsRecorded
<1>3. \A w \in Deletions : ~RestoredBy(c, w)
  BY <1>1 DEF RecordedBy, ToLog, RestoredBy, Restoring, Deletions
<1>4. CASE TableGone
  BY <1>1, <1>2, <1>4, RecordOfNone DEF TableGone, Exists
<1>5. CASE UNCHANGED rows
  BY <1>1, <1>2, <1>3, <1>5, RecordStays DEF rows
<1>6. CASE Is(c, "update") /\ model.id = callers[c].undo.model
  <2>1. HasModel(c) /\ versions[callers[c].back] # 0
    BY <1>1, <1>6 DEF Placed, Is, AfterChange, RecordedBy, ToLog
  <2>2. model' = [model EXCEPT !.current = callers[c].back] /\ UNCHANGED versions
    BY <1>6 DEF Failed, Is
  <2>3. model'.id = model.id /\ model'.current = callers[c].back
    BY <1>1, <2>1, <2>2 DEF RecordTyped, HasModel, Exists
  <2>4. ModelCovered'
    BY <1>1, <2>1, <2>2, <2>3 DEF ModelCovered, CurrentRecipe, Covers, Updates, RecordedBy, HasModel
  <2>5. \A w \in Deletions' : ~(Exists' /\ w.model = model'.id)
    BY <1>1, <1>3, <2>1, <2>3 DEF RecordedBy, Deletions, HasModel
  <2> QED
    BY <1>1, <1>2, <2>4, <2>5 DEF RecordedBy, DeletionCovered, DeletionsDiffer, Deletions,
       Updates, Covers
<1> QED
  BY <1>4, <1>5, <1>6 DEF Failed

(* The steps of a task that changes the model, the others being at rest.   *)
LEMMA ChangesRecorded ==
    ASSUME ModelInv, Shapes, InPlace, IdsOld, NEW c \in Callers, Step(c) \/ Fails(c),
           ~history.raced, ~history'.torn, callers[c].kind \in Changes, RecordedBy(c)
    PROVE  RecordedBy(c)'
<1> USE DEF At, counters, rows, AfterChange, ToBuild, Changes
<1>0. /\ Placed(c) /\ Shape(callers[c]) /\ InHand(callers[c]) /\ ToLog(c)
  BY DEF InPlace, Shapes, ModelInv, RecordedBy
<1>1. ASSUME UNCHANGED <<model, versions, log>>, ToLog(c)',
             \A w \in Deletions : RestoredBy(c, w) => RestoredBy(c, w)'
      PROVE  RecordedBy(c)'
  BY <1>1, RecordStays
<1>2. CASE LockInput(c) \/ WriteInput(c)
  BY <1>0, <1>2 DEF LockInput, WriteInput, Shape
<1>3. CASE Scope(c)
  <2>1. callers[c].pc = "scope" /\ UNCHANGED <<model, versions, log>>
    BY <1>3 DEF Scope
  <2>2. ToLog(c)'
    BY <1>3, ScopeDoes, RestsRecorded DEF ToLog, Is, Restoring
  <2> QED
    BY <1>1, <2>1, <2>2 DEF RestoredBy
<1>4. CASE Append(c)
  BY <1>4, AppendRecord
<1>5. CASE Capture(c)
  <2>1. /\ callers[c].pc = "capture" /\ UNCHANGED <<model, versions, log>>
        /\ HasModel(c) /\ callers[c].back = model.current /\ callers[c].kind = "delete"
    BY <1>0, <1>5 DEF Capture, Placed, Shape
  <2>2. /\ callers'[c].pc = "drop" /\ callers'[c].kind = "delete"
        /\ callers'[c].back = model.current /\ callers'[c].undo.versions = versions
        /\ callers'[c].undo.model = model.id
    BY <1>5, <2>1, CaptureDoes DEF HasModel
  <2>3. versions[model.current] # 0 /\ Covers(versions, model.id)
    BY <2>1 DEF RecordedBy, ModelCovered, HasModel, CurrentRecipe
  <2>4. \A w \in Deletions : w.model # model.id
    BY <2>1 DEF RecordedBy, RestoredBy, HasModel
  <2>5. ToLog(c)'
    BY <2>1, <2>2, <2>3, <2>4 DEF ToLog, Is, Restoring, Covers, Updates, Deletions
  <2> QED
    BY <1>1, <2>1, <2>5 DEF RestoredBy
<1>6. CASE Drop(c)
  <2>1. callers[c].pc = "drop" /\ UNCHANGED log /\ (Goes(c, "done") \/ Rests(c))
    BY <1>6, GoDoes, ReturnDoes DEF Drop
  <2>2. CASE TableGone
    <3>1. ~Exists' /\ UNCHANGED log
      BY <2>1, <2>2 DEF TableGone, Exists
    <3>2. ToLog(c)'
      <4>1. CASE Rests(c)
        BY <4>1, RestsRecorded
      <4>2. CASE Goes(c, "done")
        BY <1>0, <2>1, <3>1, <4>2 DEF ToLog, Goes, Is, Restoring, Covers, Updates, Deletions, Shape
      <4> QED
        BY <2>1, <4>1, <4>2
    <3> QED
      BY <3>1, <3>2, RecordOfNone
  <2>3. CASE UNCHANGED rows /\ ~Is(c, "undo")
    <3>1. Rests(c)
      BY <1>0, <1>6, <2>3, ReturnDoes DEF Drop, Shape, Is, TableGone, ModelInv, VersionsOfModel
    <3> QED
      BY <1>1, <2>1, <2>3, <3>1, RestsRecorded DEF RestoredBy
  <2>4. CASE UNCHANGED rows /\ Is(c, "undo")
    <3>1. ToLog(c)'
      BY <1>0, <2>1, <2>4, RestsRecorded DEF ToLog, Goes, Is, Restoring, Shape
    <3> QED
      BY <1>1, <2>1, <2>4, <3>1 DEF RestoredBy
  <2> QED
    BY <1>6, <2>2, <2>3, <2>4 DEF Drop
<1>7. CASE Create(c)
  <2>1. callers[c].pc = "create" /\ UNCHANGED <<model, versions, log>>
        /\ (Goes(c, "insert") \/ Rests(c))
    BY <1>7, GoDoes, ReturnDoes DEF Create
  <2>2. ToLog(c)'
    BY <1>0, <2>1, RestsRecorded DEF ToLog, Goes, Is, Restoring
  <2> QED
    BY <1>1, <2>1, <2>2 DEF RestoredBy
<1>8. CASE Insert(c)
  BY <1>8, InsertRecord
<1>9. CASE SetVersion(c)
  BY <1>9, SetVersionRecord
<1>10. CASE Context(c)
  <2>1. callers[c].pc = "context" /\ UNCHANGED <<model, versions, log>>
    BY <1>10 DEF Context
  <2>2. CASE Goes(c, "error")
    <3>1. ~Restoring(c)
      BY <1>0, <1>10, <2>1, ContextDoes, <2>2 DEF Placed, HasModel, Restoring, Is, Goes
    <3>2. ToLog(c)' /\ \A w \in Deletions : ~RestoredBy(c, w)
      BY <1>0, <2>1, <2>2, <3>1 DEF ToLog, Goes, Is, Restoring, RestoredBy, Deletions
    <3> QED
      BY <1>1, <2>1, <3>2
  <2>3. CASE ~Goes(c, "error")
    <3>1. /\ callers'[c].pc = "lock" /\ callers'[c].kind = callers[c].kind
          /\ callers'[c].back = callers[c].back /\ callers'[c].undo.kind = callers[c].undo.kind
          /\ Is(c, "undo") => callers'[c].undo = callers[c].undo
      BY <1>10, <2>3, ContextDoes DEF Is
    <3>2. ToLog(c)' /\ \A w \in Deletions : RestoredBy(c, w) => RestoredBy(c, w)'
      BY <1>0, <2>1, <3>1 DEF ToLog, Is, Restoring, RestoredBy, Shape
    <3> QED
      BY <1>1, <2>1, <3>2
  <2> QED
    BY <2>2, <2>3
<1>11. CASE Lock(c)
  <2>1. callers[c].pc = "lock" /\ UNCHANGED <<model, versions, log>> /\ Goes(c, "row")
    BY <1>11, GoDoes DEF Lock
  <2>2. ToLog(c)' /\ \A w \in Deletions : RestoredBy(c, w) => RestoredBy(c, w)'
    BY <1>0, <2>1 DEF ToLog, Is, Restoring, RestoredBy, Shape, Goes
  <2> QED
    BY <1>1, <2>1, <2>2
<1>12. CASE InsertBuild(c)
  <2>1. callers[c].pc = "row" /\ UNCHANGED <<model, versions, log>>
        /\ \/ Goes(c, "read")
           \/ Goes(c, "error") /\ ~(Exists /\ model.id = callers[c].undo.model)
    BY <1>12, GoDoes DEF InsertBuild
  <2>2. Goes(c, "error") => ~Restoring(c)
    BY <1>0, <2>1 DEF Placed, HasModel, Restoring, Is, Goes
  <2>3. ToLog(c)' /\ \A w \in Deletions : RestoredBy(c, w) => RestoredBy(c, w)'
    BY <1>0, <2>1, <2>2 DEF ToLog, Is, Restoring, RestoredBy, Shape, Goes
  <2> QED
    BY <1>1, <2>1, <2>3
<1>13. CASE ReadInput(c)
  <2>1. callers[c].pc = "read" /\ UNCHANGED <<model, versions, log>>
    BY <1>13 DEF ReadInput
  <2>2. ToLog(c)' /\ \A w \in Deletions : RestoredBy(c, w) => RestoredBy(c, w)'
    BY <1>0, <1>13, <2>1, ReadInputDoes DEF ToLog, Is, Restoring, RestoredBy, Shape
  <2> QED
    BY <1>1, <2>1, <2>2
<1>14. CASE WriteOutput(c)
  <2>1. callers[c].pc = "write" /\ UNCHANGED <<model, versions, log>> /\ Goes(c, "finish")
    BY <1>14, GoDoes DEF WriteOutput
  <2>2. ToLog(c)' /\ \A w \in Deletions : RestoredBy(c, w) => RestoredBy(c, w)'
    BY <1>0, <2>1 DEF ToLog, Is, Restoring, RestoredBy, Shape, Goes
  <2> QED
    BY <1>1, <2>1, <2>2
<1>15. CASE Fails(c)
  <2>1. /\ UNCHANGED <<model, versions, log>> /\ (GivesUp(c) \/ Abandons(c))
        /\ c \in Restorers => callers[c].pc = "insert" /\ Abandons(c)
    BY <1>15, FailsDo DEF GivesUp, Abandons
  <2>2. /\ Restoring(c) /\ callers[c].pc # "idle" => c \in Restorers
        /\ callers[c].pc # "idle"
    BY <1>15, FailsDo DEF Restorers, Busy, Restoring, Is
  <2>3. \A w \in Deletions : ~RestoredBy(c, w)
    BY <2>1, <2>2 DEF RestoredBy, Deletions, Restoring, Is
  <2>4. ToLog(c)'
    <3>1. CASE GivesUp(c)
      <4>1. ~Restoring(c) /\ callers[c].pc \in BuildSteps \ {"lock", "error"}
        BY <2>1, <2>2, <3>1 DEF GivesUp, BuildSteps, Building
      <4> QED
        BY <1>0, <2>1, <3>1, <4>1 DEF ToLog, Is, Restoring, Shape, Goes, GivesUp, BuildSteps, Building
    <3> QED
      BY <2>1, <3>1, RestsRecorded DEF Abandons
  <2> QED
    BY <1>1, <2>1, <2>3, <2>4
<1>16. CASE Finish(c)
  <2>1. /\ UNCHANGED <<model, versions, log>>
        /\ \/ callers[c].pc = "finish" /\ Goes(c, "done")
           \/ callers[c].pc = "finishFailed" /\ Goes(c, "error")
    BY <1>16, GoDoes DEF Finish
  <2>2. ToLog(c)' /\ \A w \in Deletions : RestoredBy(c, w) => RestoredBy(c, w)'
    BY <1>0, <2>1 DEF ToLog, Is, Restoring, RestoredBy, Shape, Goes
  <2> QED
    BY <1>1, <2>1, <2>2
<1>17. CASE Done(c)
  BY <1>17, DoneRecord
<1>18. CASE Failed(c)
  BY <1>18, FailedRecord
<1> QED
  BY <1>2, <1>3, <1>4, <1>5, <1>6, <1>7, <1>8, <1>9, <1>10, <1>11, <1>12, <1>13, <1>14,
     <1>15, <1>16, <1>17, <1>18 DEF Step

LEMMA StepRecord ==
    ModelInv /\ Shapes /\ Alone /\ InPlace /\ IdsOld /\ OnRecord /\ [Next]_vars => OnRecord'
<1> SUFFICES ASSUME ModelInv, Shapes, Alone, InPlace, IdsOld, OnRecord, [Next]_vars
             PROVE  OnRecord'
  OBVIOUS
<1>0. ASSUME NEW c \in Callers, OthersStay(c), UNCHANGED <<model, versions, log>>, ToLog(c)',
             ~(Is(c, "undo") /\ callers[c].pc # "idle"),
             ~history.raced, ~history.torn
      PROVE  OnRecord'
  <2>1. \A d \in Callers \ {c} : ToLog(d)'
    BY <1>0 DEF OnRecord, ToLog, OthersStay, Is, Restoring, Covers, Updates, Deletions, Exists
  <2>2. \A w \in Deletions : Restored(w) => Restored(w)'
    BY <1>0 DEF Restored, RestoredBy, OthersStay, Is, AfterChange, ToBuild
  <2>3. DeletedGone'
    BY <1>0, <2>2 DEF OnRecord, DeletedGone, Deletions, Exists
  <2> QED
    BY <1>0, <2>1, <2>3 DEF OnRecord, ModelCovered, DeletionCovered, DeletionsDiffer, Deletions,
       Updates, Covers, Exists, CurrentRecipe
<1>1. ASSUME NEW c \in Callers, Step(c) \/ Fails(c) PROVE OnRecord'
  <2> SUFFICES ASSUME ~history'.raced, ~history'.torn PROVE OnRecord'
    BY DEF OnRecord
  <2>1. OthersStay(c) /\ ~history.raced /\ ~history.torn
    BY <1>1, KindStays, HistoryGrows DEF Grows
  <2>2. CASE callers[c].kind \in Changes /\ \A d \in Callers \ {c} : callers[d].pc = "idle"
    <3>1. RecordedBy(c)
      BY <2>1, <2>2, OnRecordOne
    <3>2. RecordedBy(c)'
      BY <1>1, <2>1, <2>2, <3>1, ChangesRecorded
    <3> QED
      BY <2>1, <2>2, <3>2, OneOnRecord
  <2>3. CASE callers[c].kind \notin Changes /\ UNCHANGED <<table, model, versions, log>>
    <3>1. ToLog(c)'
      BY <1>1, <2>3, KindStays DEF ToLog, Is, Restoring, Changes, AfterChange, ToBuild
    <3> QED
      BY <1>0, <2>1, <2>3, <3>1 DEF Changes, Is
  <2> QED
    BY <1>1, <2>1, <2>2, <2>3, Works
<1>2. ASSUME NEW c \in Callers, NEW kind \in Kinds, NEW undo \in log \cup {NoUndo},
             Start(c, kind, undo)
      PROVE  OnRecord'
  <2> SUFFICES ASSUME ~history'.raced, ~history'.torn PROVE OnRecord'
    BY DEF OnRecord
  <2>1. /\ UNCHANGED <<model, versions, log>> /\ OthersStay(c) /\ callers[c].pc = "idle"
        /\ ~history.raced /\ ~history.torn
    BY <1>2, StartDoes DEF Start, rows
  <2>2. ToLog(c)'
    BY <1>2, <2>1, StartDoes DEF ToLog, Is, Restoring, AfterChange, ToBuild
  <2> QED
    BY <1>0, <2>1, <2>2
<1>3. CASE Restart
  <2> SUFFICES ASSUME ~history'.raced, ~history'.torn PROVE OnRecord'
    BY DEF OnRecord
  <2>1. /\ ~history.raced /\ ~history.torn /\ Restorers = {}
        /\ UNCHANGED <<model, versions, log>>
        /\ \A c \in Callers : callers'[c].pc = "idle" /\ callers'[c] = Idle
    BY <1>3, RestartDoes DEF Restart, rows, Grows
  <2>2. \A w \in Deletions : ~Restored(w)
    BY <2>1 DEF Restored, RestoredBy, Restorers, Busy, Deletions, Is, AfterChange, ToBuild
  <2>3. \A c \in Callers : ToLog(c)'
    BY <2>1 DEF ToLog, Is, Restoring, AfterChange, ToBuild
  <2>4. DeletedGone'
    BY <2>1, <2>2 DEF OnRecord, DeletedGone, Deletions, Exists
  <2> QED
    BY <2>1, <2>3, <2>4 DEF OnRecord, ModelCovered, DeletionCovered, DeletionsDiffer, Deletions,
       Updates, Covers, Exists, CurrentRecipe
<1>4. CASE UNCHANGED vars
  <2>1. UNCHANGED <<model, versions, log, callers, history>>
    BY <1>4 DEF vars, rows
  <2>2. \A c \in Callers : ToLog(c) => ToLog(c)'
    BY <2>1 DEF ToLog, Is, Restoring, Covers, Updates, Deletions, Exists
  <2>3. DeletedGone => DeletedGone'
    BY <2>1 DEF DeletedGone, Deletions, Exists, Restored, RestoredBy, Is
  <2> QED
    BY <2>1, <2>2, <2>3 DEF OnRecord, ModelCovered, DeletionCovered, DeletionsDiffer, Deletions,
       Updates, Covers, Exists, CurrentRecipe
<1> QED
  BY <1>1, <1>2, <1>3, <1>4 DEF Next

----------------------------------------------------------------------------
(* What the soundness of the output rests on, in one piece.                *)
SoundInv ==
    /\ Shapes /\ Alone /\ Exclusive /\ IdsOld
    /\ Followed /\ InPlace /\ Tabled /\ Built /\ OnRecord

LEMMA InitSound == Init => SoundInv
<1> SUFFICES ASSUME Init PROVE SoundInv
  OBVIOUS
<1>0. \A c \in Callers : callers[c] = Idle /\ callers[c].pc = "idle"
  BY IdleType DEF Init
<1>1. Shapes /\ Alone /\ Exclusive
  BY <1>0 DEF Shapes, Shape, Alone, At, Exclusive, OutputSteps, Building, Idle
<1>2. InPlace
  BY <1>0 DEF InPlace, Placed, AfterChange, ToBuild
<1>3. ASSUME log = {}, model = NoModel, table = 0
      PROVE  IdsOld /\ Followed /\ Tabled /\ Built /\ OnRecord
  BY <1>0, <1>3 DEF Init, IdsOld, Followed, Tabled, Built, OnRecord, NoModel, Exists, Idle, NoUndo,
     ModelCovered, DeletionCovered, DeletionsDiffer, DeletedGone, ToLog, Restoring, Is, At,
     Deletions, AfterChange, ToBuild
<1>4. ASSUME output = [recipe |-> 1, from |-> 0], model = [id |-> 1, current |-> 1],
             versions = [NoRecipe EXCEPT ![1] = 1],
             log = {[NoUndo EXCEPT !.op = 1, !.model = 1]}
      PROVE  IdsOld /\ Followed /\ Tabled /\ Built /\ OnRecord
  <2>1. Exists /\ versions[model.current] = 1
    BY <1>4, ModelBuildsAssumption DEF Exists, NoModel, NoRecipe, Versions
  <2>2. \A u \in log : u.model = 1 /\ u.kind = "create"
    BY <1>4 DEF NoUndo
  <2>3. IdsOld
    BY <1>0, <1>4, <2>2 DEF Init, IdsOld, Idle, NoUndo
  <2>4. Followed /\ Tabled /\ Built
    BY <1>0, <1>4, <2>1 DEF Init, Followed, Tabled, Built, At, CurrentRecipe, Changed, ToBuild
  <2>5. OnRecord
    BY <1>0, <2>1, <2>2 DEF OnRecord, ModelCovered, DeletionCovered, DeletionsDiffer, DeletedGone,
       Deletions, Updates, Covers, CurrentRecipe, ToLog, Restoring, Is, AfterChange, ToBuild,
       Idle, NoUndo
  <2> QED
    BY <2>3, <2>4, <2>5
<1> QED
  BY <1>1, <1>2, <1>3, <1>4 DEF Init, SoundInv

LEMMA StepSound == ModelInv /\ SoundInv /\ [Next]_vars => SoundInv'
<1> SUFFICES ASSUME ModelInv, SoundInv, [Next]_vars PROVE SoundInv'
  OBVIOUS
<1>1. ModelInv' /\ Shapes'
  BY StepInv, StepShapes DEF SoundInv
<1>2. Alone' /\ Exclusive' /\ IdsOld'
  BY StepAlone, StepExclusive, StepIds DEF SoundInv
<1>3. Followed' /\ InPlace' /\ Tabled'
  BY <1>1, StepFollowed, StepPlace, StepTabled DEF SoundInv
<1>4. Built' /\ OnRecord'
  BY StepBuilt, StepRecord DEF SoundInv
<1> QED
  BY <1>1, <1>2, <1>3, <1>4 DEF SoundInv

(* Once things have settled a model and its output belong together: the    *)
(* recipe the model points at is on record, the output was built from it   *)
(* and from the last state of the input, and no output stands without a    *)
(* model; however the operations overlapped, failed, were aborted and were *)
(* undone, short of what each part names.  (OutputSound of model_builds.)  *)
THEOREM BelongTogether == Spec => []OutputSound
<1>1. ModelInv /\ SoundInv => OutputSound
  <2> SUFFICES ASSUME ModelInv, SoundInv PROVE OutputSound
    OBVIOUS
  <2>1. CurrentOnRecord
    BY DEF SoundInv, OnRecord, ModelCovered, CurrentRecipe, CurrentOnRecord
  <2>2. Settled => \A c \in Callers : callers[c].pc = "idle"
    BY DEF Settled, Busy
  <2>3. RecipeBuilt
    BY <2>2 DEF RecipeBuilt, SoundInv, Built, Changed, ToBuild, CurrentRecipe
  <2>4. InputFollowed
    BY <2>2 DEF InputFollowed, SoundInv, Followed, Due, At
  <2>5. NoOrphanTable
    BY <2>2 DEF NoOrphanTable, SoundInv, Tabled
  <2> QED
    BY <2>1, <2>3, <2>4, <2>5 DEF OutputSound
<1> QED
  BY <1>1, InitInv, StepInv, InitSound, StepSound, PTL DEF Spec

=============================================================================
