----------------------------- MODULE ActionLog -----------------------------
(***************************************************************************)
(* The action bus: every edit of curated state is a row of the action log, *)
(* dispatched by a person or an agent, applied at once or queued for       *)
(* approval, and undone by the inverse recorded when it was applied.       *)
(*                                                                         *)
(* A request is served by a worker, one await after another: it reads the  *)
(* row, reads what the executor checks, writes, brings the copies of the   *)
(* vocabulary up to date and only then records the outcome on the row.     *)
(* Bulk operations do so for the rows they listed when they began.  Any    *)
(* request can stop between two steps: a crash, a dropped connection.  And *)
(* a statement can fail after others that took effect: an executor's, and  *)
(* the action is recorded as failed; an undo's; or a refresh's, which is   *)
(* only logged.                                                            *)
(***************************************************************************)
EXTENDS Curation, TLC

CONSTANTS
    Scripts,  \* the requests and the curated state of each scenario
    Workers,  \* requests served at once
    MaxOps,   \* bound: approvals, rejections and undos started
    MaxStops  \* bound: requests stopped in their course, and failing statements

(* Every child has its parent, of the kind it needs, no level is over its  *)
(* cap, and, as long as nothing is renamed, no two names of a level differ *)
(* only in spelling.                                                       *)
Sound(c, renamed) ==
    \A e \in c.vocab :
       /\ MayPlace(c, e.kind, e.parent)
       /\ Cardinality(Level(c, e.kind, e.parent)) <= Cap(e.kind)
       /\ renamed \/ \A o \in Level(c, e.kind, e.parent) : SameWord(o.name, e.name) => o = e

ASSUME ActionLogAssumption ==
    /\ \A s \in Scripts :
          /\ WellFormed(s.start) /\ Sound(s.start, FALSE)
          /\ \A e \in s.start.vocab : e.kind \in VocabKinds
          /\ \A i \in DOMAIN s.requests : IsAction(s.requests[i])
    /\ MaxOps \in Nat /\ MaxStops \in Nat /\ InducedCap \in Nat /\ ImportedCap \in Nat

VARIABLES
    script,  \* the requests there are, each an action and its actor
    cur,     \* the curated state
    copy,    \* the vocabulary a classification function has a copy of
    log,     \* the action log: a row's id is its place
    workers, \* the request each worker serves
    history, \* what has happened so far: see History
    ops, stops

vars == <<script, cur, copy, log, workers, history, ops, stops>>

----------------------------------------------------------------------------
Statuses == {"proposed", "applied", "rejected", "undone", "failed"}

Empty == [vocab |-> {}, nextId |-> 0, verdicts |-> <<>>, suppressed |-> {}, views |-> {},
          opinions |-> <<>>, settings |-> <<>>]

(* queue: the rows still to serve, as they were read; seen: the state the  *)
(* executor checked; undo: what it will record; snap: the vocabulary read  *)
(* for the refresh.                                                        *)
Idle == [pc |-> "idle", op |-> "none", queue |-> <<>>, seen |-> Empty, undo |-> NoUndo,
         snap |-> {}]

(* applied, undone: how often a row took effect and was taken back.        *)
(* disturbed: rows two requests had at once, or at which one stopped or    *)
(* failed halfway.  overlapped: two requests ran at once, or one stopped   *)
(* or failed halfway.  order: the rows in effect, in the order they took   *)
(* it; outOfOrder: an undo took back one that was not the last of them.    *)
(* torn: an undo was refused halfway, or a refresh failed, and no refresh  *)
(* has succeeded since.                                                    *)
(* last: the row whose action made the latest change, and what was there   *)
(* before.                                                                 *)
NoRow == [row |-> 0, before |-> Empty]

Init ==
    /\ \E s \in Scripts : script = s.requests /\ cur = s.start /\ copy = Snapshot(s.start)
    /\ log = <<>>
    /\ workers = [w \in Workers |-> Idle]
    /\ history = [applied |-> <<>>, undone |-> <<>>, disturbed |-> {}, overlapped |-> FALSE,
                  order |-> <<>>, outOfOrder |-> FALSE, torn |-> FALSE, last |-> NoRow]
    /\ ops = 0 /\ stops = 0

----------------------------------------------------------------------------
Requests == DOMAIN script
Rows == DOMAIN log
Action(id) == script[log[id].request]
Logged(r) == \E id \in Rows : log[id].request = r
With(status) == {id \in Rows : log[id].status = status}

Busy == {w \in Workers : workers[w].pc # "idle"}
Queued(w) == {workers[w].queue[i].id : i \in DOMAIN workers[w].queue}
Row(w) == Head(workers[w].queue)

Go(w, pc) == workers' = [workers EXCEPT ![w].pc = pc]

First(op) == CASE op = "execute" -> "read" [] op = "undo" -> "undoRead" [] op = "reject" -> "reject"

(* On to the next row of the queue, or done.                               *)
Advance(w) ==
    workers' = [workers EXCEPT ![w] =
        IF Len(@.queue) = 1 THEN Idle
        ELSE [Idle EXCEPT !.pc = First(workers[w].op), !.op = workers[w].op,
                          !.queue = Tail(workers[w].queue)]]

(* A worker takes up rows.                                                 *)
Began(rows) ==
    LET shared == {id \in rows : \E v \in Busy : id \in Queued(v)}
    IN  [history EXCEPT !.disturbed = @ \cup shared, !.overlapped = @ \/ Busy # {}]
Take(w, op, ids) ==
    workers' = [workers EXCEPT ![w] =
        [Idle EXCEPT !.pc = First(op), !.op = op,
                     !.queue = [i \in DOMAIN ids |-> [id |-> ids[i], undo |-> log[ids[i]].undo]]]]

Ascending(ids)  == CHOOSE q \in SetToSeqs(ids) : \A i, j \in DOMAIN q : i < j => q[i] < q[j]
Descending(ids) == Reverse(Ascending(ids))

----------------------------------------------------------------------------
(* Dispatch.                                                               *)
Undoable(kind) == kind # "rebuild"

(* People's actions apply at once; an agent's do if it may and they can be *)
(* undone, and wait for approval otherwise.                                *)
InitialStatus(a) ==
    IF a.actor = "user" \/ (a.auto /\ Undoable(a.kind)) THEN "applied" ELSE "proposed"

(* The row is there, with the status it is to have, before the action      *)
(* runs.  A request that was logged before only gets the outcome on record. *)
InsertAction(r) ==
    IF Logged(r) THEN log
    ELSE Append(log, [request |-> r, status |-> InitialStatus(script[r]), undo |-> NoUndo])

Dispatch(w, r) ==
    LET id == Len(log) + 1
    IN  /\ w \notin Busy
        /\ log' = InsertAction(r)
        /\ IF Len(log') = Len(log) THEN UNCHANGED <<workers, history>>
           ELSE IF log'[id].status = "proposed"
           THEN /\ history' = [history EXCEPT !.applied = Append(@, 0), !.undone = Append(@, 0)]
                /\ UNCHANGED workers
           ELSE /\ history' = [Began({id}) EXCEPT !.applied = Append(@, 0),
                                                  !.undone = Append(@, 0)]
                /\ workers' = [workers EXCEPT ![w] =
                       [Idle EXCEPT !.pc = "read", !.op = "execute",
                                    !.queue = <<[id |-> id, undo |-> NoUndo]>>]]
        /\ UNCHANGED <<script, cur, copy, ops, stops>>

----------------------------------------------------------------------------
(* Reviews.  The status is looked at when the request begins, and not      *)
(* again.                                                                  *)
Review(w, op, ids) ==
    /\ w \notin Busy
    /\ ops < MaxOps /\ ops' = ops + 1
    /\ ids # <<>>
    /\ Take(w, op, ids)
    /\ history' = Began(Range(ids))
    /\ UNCHANGED <<script, cur, copy, log, stops>>

Approve(w, id) == log[id].status = "proposed" /\ Review(w, "execute", <<id>>)
Reject(w, id)  == log[id].status = "proposed" /\ Review(w, "reject", <<id>>)

(* Proposals are approved oldest first: a later one may need an earlier.   *)
ApproveAll(w) == Review(w, "execute", Ascending(With("proposed")))

(* A run's own proposals, and only those.                                  *)
PendingRows == {id \in With("proposed") : Action(id).actor = "agent"}
RejectAll(w) == Review(w, "reject", Ascending(PendingRows))

(* Faulty variant of CanUndo: any row with an undo will do.                *)
CanUndoAgain(id) == log[id].undo # NoUndo

CanUndo(id) == log[id].status = "applied" /\ log[id].undo # NoUndo

Undo(w, id) ==
    /\ CanUndo(id)
    /\ w \notin Busy
    /\ ops < MaxOps /\ ops' = ops + 1
    /\ Take(w, "undo", <<id>>)
    /\ history' = Began({id})
    /\ UNCHANGED <<script, cur, copy, log, stops>>

(* A run's applied actions, newest row first, whatever becomes of each.    *)
RunRows == {id \in Rows : CanUndo(id) /\ Action(id).actor = "agent"}
UndoAll(w) ==
    /\ w \notin Busy
    /\ ops < MaxOps /\ ops' = ops + 1
    /\ RunRows # {}
    /\ Take(w, "undo", Descending(RunRows))
    /\ history' = Began(RunRows)
    /\ UNCHANGED <<script, cur, copy, log, stops>>

----------------------------------------------------------------------------
(* The steps of an execution.  A rebuild is ModelBuilds' to do: here it    *)
(* changes nothing and cannot be undone.                                   *)
Outcome(a, s, c) == IF a.kind = "rebuild" THEN Done(c, NoUndo) ELSE Execute(a, s, c)

Read(w) ==
    /\ workers[w].pc = "read"
    /\ workers' = [workers EXCEPT ![w].pc = "write", ![w].seen = cur]
    /\ UNCHANGED <<script, cur, copy, log, history, ops, stops>>

Write(w) ==
    LET id == Row(w).id
        a == Action(id)
        r == Outcome(a, workers[w].seen, cur)
    IN  /\ workers[w].pc = "write"
        /\ workers' = [workers EXCEPT ![w].pc = IF ~ r.ok THEN "fail"
                                                ELSE IF Refreshes(a.kind) THEN "load" ELSE "record",
                                      ![w].undo = r.undo, ![w].seen = Empty]
        /\ cur' = r.cur
        /\ history' = IF ~ r.ok THEN history
                      ELSE [history EXCEPT !.applied[id] = @ + 1, !.order = Append(@, id),
                                           !.last = IF workers[w].seen = cur
                                                    THEN [row |-> id, before |-> cur] ELSE NoRow]
        /\ UNCHANGED <<script, copy, log, ops, stops>>

(* A statement fails when others took effect: the action has happened in   *)
(* part, and is recorded as failed.                                        *)
Halved(id) == [history EXCEPT !.disturbed = @ \cup {id}, !.overlapped = TRUE, !.last = NoRow]
WriteBreaks(w) ==
    LET id == Row(w).id
    IN  /\ workers[w].pc = "write"
        /\ stops < MaxStops /\ stops' = stops + 1
        /\ Action(id).kind # "rebuild"
        /\ cur' \in Halfway(Action(id), workers[w].seen, cur)
        /\ workers' = [workers EXCEPT ![w].pc = "fail", ![w].undo = NoUndo, ![w].seen = Empty]
        /\ history' = Halved(id)
        /\ UNCHANGED <<script, copy, log, ops>>

(* The copy is compared with the vocabulary as it was read.                *)
LoadSnapshot(w) ==
    /\ workers[w].pc = "load"
    /\ workers' = [workers EXCEPT ![w].pc = "refresh", ![w].snap = Snapshot(cur)]
    /\ UNCHANGED <<script, cur, copy, log, history, ops, stops>>
Refreshed(w) ==
    workers' = [workers EXCEPT ![w].pc = IF workers[w].op = "undo" THEN "undone" ELSE "record",
                               ![w].snap = {}]
RefreshSnapshot(w) ==
    /\ workers[w].pc = "refresh"
    /\ copy' = workers[w].snap
    /\ Refreshed(w)
    /\ history' = [history EXCEPT !.torn = FALSE]
    /\ UNCHANGED <<script, cur, log, ops, stops>>

(* A refresh that fails does not fail the edit: the copy is left behind.   *)
RefreshFails(w) ==
    /\ workers[w].pc = "refresh"
    /\ stops < MaxStops /\ stops' = stops + 1
    /\ Refreshed(w)
    /\ history' = [history EXCEPT !.torn = TRUE]
    /\ UNCHANGED <<script, cur, copy, log, ops>>

RecordResult(w) ==
    /\ workers[w].pc \in {"record", "fail"}
    /\ log' = [log EXCEPT ![Row(w).id].status =
                              IF workers[w].pc = "record" THEN "applied" ELSE "failed",
                          ![Row(w).id].undo = workers[w].undo]
    /\ Advance(w)
    /\ UNCHANGED <<script, cur, copy, history, ops, stops>>

SetRejected(w) ==
    /\ workers[w].pc = "reject"
    /\ log' = [log EXCEPT ![Row(w).id].status = "rejected"]
    /\ Advance(w)
    /\ UNCHANGED <<script, cur, copy, history, ops, stops>>

(* The steps of an undo: one that is refused leaves its row as it is.      *)
UndoRead(w) ==
    /\ workers[w].pc = "undoRead"
    /\ workers' = [workers EXCEPT ![w].pc = "undoWrite", ![w].seen = cur]
    /\ UNCHANGED <<script, cur, copy, log, history, ops, stops>>

Latest(id) == history.order # <<>> /\ Last(history.order) = id

UndoWrite(w) ==
    LET id == Row(w).id
        r == ApplyUndo(Row(w).undo, workers[w].seen, cur)
    IN  /\ workers[w].pc = "undoWrite"
        /\ cur' = r.cur
        /\ IF r.ok
           THEN /\ workers' = [workers EXCEPT ![w].seen = Empty,
                       ![w].pc = IF UndoRefreshes(Row(w).undo, cur) THEN "load" ELSE "undone"]
                /\ history' = [history EXCEPT !.undone[id] = @ + 1, !.last = NoRow,
                       !.outOfOrder = @ \/ ~ Latest(id),
                       !.order = IF Latest(id) THEN Front(@) ELSE @]
           ELSE /\ Advance(w)
                /\ history' = [history EXCEPT !.last = IF cur' = cur THEN @ ELSE NoRow,
                       !.outOfOrder = @ \/ (cur' # cur /\ ~ Latest(id)),
                       !.torn = @ \/ cur' # cur]
        /\ UNCHANGED <<script, copy, log, ops, stops>>

(* A statement of an undo fails when others took effect.                   *)
UndoBreaks(w) ==
    LET id == Row(w).id
    IN  /\ workers[w].pc = "undoWrite"
        /\ stops < MaxStops /\ stops' = stops + 1
        /\ cur' \in HalfUndone(Row(w).undo, cur)
        /\ Advance(w)
        /\ history' = Halved(id)
        /\ UNCHANGED <<script, copy, log, ops>>

SetUndone(w) ==
    /\ workers[w].pc = "undone"
    /\ log' = [log EXCEPT ![Row(w).id].status = "undone"]
    /\ Advance(w)
    /\ UNCHANGED <<script, cur, copy, history, ops, stops>>

(* The request ends here.                                                  *)
Stop(w) ==
    /\ w \in Busy
    /\ stops < MaxStops /\ stops' = stops + 1
    /\ workers' = [workers EXCEPT ![w] = Idle]
    /\ history' = [history EXCEPT !.disturbed = @ \cup {Row(w).id}, !.overlapped = TRUE]
    /\ UNCHANGED <<script, cur, copy, log, ops>>

Next ==
    \E w \in Workers :
        \/ \E r \in Requests : Dispatch(w, r)
        \/ \E id \in Rows : Approve(w, id) \/ Reject(w, id) \/ Undo(w, id)
        \/ ApproveAll(w) \/ RejectAll(w) \/ UndoAll(w)
        \/ Read(w) \/ Write(w) \/ LoadSnapshot(w) \/ RefreshSnapshot(w) \/ RecordResult(w)
        \/ SetRejected(w) \/ UndoRead(w) \/ UndoWrite(w) \/ SetUndone(w)
        \/ WriteBreaks(w) \/ UndoBreaks(w) \/ RefreshFails(w) \/ Stop(w)

Spec == Init /\ [][Next]_vars

----------------------------------------------------------------------------
(* Properties.                                                             *)

(* The log says what happened: a row no request works on is applied, or    *)
(* undone, exactly if its action took effect once, and was taken back      *)
(* once; a row still proposed, rejected or failed never had an effect.     *)
(* Three kinds of rows may lie: one that two requests held at once, one    *)
(* at which a request stopped, and one whose executor or undo failed at a  *)
(* statement after its first.                                              *)
LogTellsTruth ==
    \A id \in Rows :
        \/ id \in history.disturbed
        \/ \E w \in Busy : id \in Queued(w)
        \/ /\ log[id].status \in Statuses
           /\ history.applied[id] = (IF log[id].status \in {"applied", "undone"} THEN 1 ELSE 0)
           /\ history.undone[id] = (IF log[id].status = "undone" THEN 1 ELSE 0)

(* Two undos are not exact: the aliases a definition added to an entry     *)
(* that was there stay, and a target that was suppressed already is freed. *)
Inexact(a, before) ==
    \/ a.kind = "define" /\ a.aliases # {}
    \/ a.kind = "suppress" /\ a.target \in before.suppressed

(* An undo of the latest change puts back what was there before it, of a   *)
(* row that no two requests had at once.                                   *)
UndoIsExact ==
    [][\A id \in DOMAIN history.undone :
          /\ history'.undone[id] > history.undone[id]
          /\ history.last.row = id /\ id \notin history.disturbed
          /\ ~ Inexact(Action(id), history.last.before)
          => [cur' EXCEPT !.nextId = 0] = [history.last.before EXCEPT !.nextId = 0]]_vars

(* While requests come one after another, none stops or fails halfway, and *)
(* undos come newest first, the vocabulary is sound.                       *)
VocabularySound ==
    \/ history.overlapped \/ history.outOfOrder
    \/ Sound(cur, \E id \in Rows : Action(id).kind = "rename")

(* Between requests that do not overlap, stop or fail halfway, a           *)
(* function's copy of the vocabulary is the vocabulary, unless it lags     *)
(* behind since an undo that was refused halfway or a refresh that failed; *)
(* the next refresh that succeeds catches up.                              *)
SnapshotCurrent == Busy # {} \/ history.overlapped \/ history.torn \/ copy = Snapshot(cur)

(* Stated of the code and refuted (exec/taxonomy.rs:4-8): a frozen entry   *)
(* keeps its name and its definition under every action that is executed,  *)
(* except the one that clears the level.  Defining it again changes it.    *)
FrozenHolds ==
    [][\A w \in Workers, e \in cur.vocab :
          /\ workers[w].pc = "write" /\ workers'[w].pc # "write"
          /\ ~ history.overlapped /\ stops' = stops
          /\ e.frozen /\ Action(Row(w).id).kind \notin {"freeze", "clear"}
          => \E n \in cur'.vocab : n.id = e.id /\ n.name = e.name /\ n.descr = e.descr]_vars
=============================================================================
