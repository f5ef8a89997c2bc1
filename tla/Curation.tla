----------------------------- MODULE Curation -----------------------------
(***************************************************************************)
(* What the curation actions do to one table's curated state, and what     *)
(* their undos do: the vocabulary, the verdicts on insights, suppressed    *)
(* targets, saved views and the opinions people and agents hold on a       *)
(* column and on the table.                                                *)
(*                                                                         *)
(* An executor reads, checks, and then writes with awaits in between: an   *)
(* operator takes the state it read, s, and the state it writes to, c,     *)
(* and returns whether it succeeded, the new state and the undo it         *)
(* recorded.  ActionLog says when s and c are read.  All the writes of one *)
(* executor that succeeds are one step; Halfway and HalfUndone say what is *)
(* there when one of them fails after others took effect.                  *)
(*                                                                         *)
(* A name is a word and its spelling, since some comparisons ignore case   *)
(* and others do not.  Ids of entries and of views come from one counter.  *)
(***************************************************************************)
EXTENDS Integers, FiniteSets, Sequences, SequencesExt

CONSTANTS
    InducedCap, \* entries a level of an induced kind may hold
    ImportedCap \* entries a level of an imported kind may hold

Blank == "blank"   \* an empty name
Other == "other"   \* the reserved value
None  == "none"    \* an absent description, reason, note or field
NoName == <<None, None>>

Entry(id, kind, parent, name, descr) ==
    [id |-> id, kind |-> kind, parent |-> parent, name |-> name, descr |-> descr,
     frozen |-> FALSE, aliases |-> {}]

NoVerdict == [state |-> None, reason |-> None, note |-> None]
NoOpinion == [kpi |-> None, polarity |-> None, role |-> None, label |-> None, descr |-> None]
NoSettings == [display |-> None, descr |-> None, period |-> None]

----------------------------------------------------------------------------
(* The actions there are, and what each says besides its kind and actor.   *)
Fields(kind) ==
    CASE kind = "define"      -> {"vocab", "parent", "name", "descr", "aliases"}
      [] kind = "rename"      -> {"id", "name"}
      [] kind = "redefine"    -> {"id", "descr"}
      [] kind = "freeze"      -> {"id", "frozen"}
      [] kind \in {"delete", "delete_view"} -> {"id"}
      [] kind = "clear"       -> {"vocab"}
      [] kind = "dismiss"     -> {"fingerprint", "reason"}
      [] kind = "pin"         -> {"fingerprint", "pinned"}
      [] kind = "annotate"    -> {"fingerprint", "note"}
      [] kind = "suppress"    -> {"target"}
      [] kind = "save_view"   -> {"id", "name", "spec"}
      [] kind = "rename_view" -> {"id", "name"}
      [] kind \in {"kpi", "polarity", "role", "label", "description"} -> {"value"}
      [] kind = "settings"    -> {"display", "descr", "period"}
      [] kind \in {"reset", "rebuild"} -> {}

Kinds == {"define", "rename", "redefine", "freeze", "delete", "clear", "dismiss", "pin", "annotate",
          "suppress", "save_view", "rename_view", "delete_view", "kpi", "polarity", "role", "label",
          "description", "reset", "settings", "rebuild"}

(* The kinds of entries: a level of the vocabulary is one kind's.          *)
VocabKinds == {"category", "subcategory", "feedback_category", "product", "competitor"}

IsAction(a) ==
    /\ a.kind \in Kinds /\ DOMAIN a = Fields(a.kind) \cup {"kind", "actor", "auto"}
    /\ "vocab" \in DOMAIN a => a.vocab \in VocabKinds

----------------------------------------------------------------------------
(* What the schema keeps of the curated state: the columns of its rows,    *)
(* keys that are unique, and one entry of a name in a level.               *)
IsEntry(e) ==
    e = [id |-> e.id, kind |-> e.kind, parent |-> e.parent, name |-> e.name, descr |-> e.descr,
         frozen |-> e.frozen, aliases |-> e.aliases]
IsView(v) == v = [id |-> v.id, name |-> v.name, spec |-> v.spec, by |-> v.by]
IsState(c) ==
    c = [vocab |-> c.vocab, nextId |-> c.nextId, verdicts |-> c.verdicts,
         suppressed |-> c.suppressed, views |-> c.views, opinions |-> c.opinions,
         settings |-> c.settings]
IsMap(f) == f = [x \in DOMAIN f |-> f[x]]

Keys(rows, next) ==
    /\ \A r \in rows : r.id \in Nat /\ r.id < next
    /\ \A r, o \in rows : r.id = o.id => r = o

VocabularyKept(vocab, next) ==
    /\ IsFiniteSet(vocab) /\ Keys(vocab, next)
    /\ \A e \in vocab : IsEntry(e)
    /\ \A e, o \in vocab :
          e.kind = o.kind /\ e.parent = o.parent /\ e.name = o.name => e = o

WellFormed(c) ==
    /\ IsState(c)
    /\ c.nextId \in Nat
    /\ VocabularyKept(c.vocab, c.nextId)
    /\ Keys(c.views, c.nextId) /\ \A v \in c.views : IsView(v)
    /\ IsMap(c.verdicts) /\ IsMap(c.opinions) /\ IsMap(c.settings)

----------------------------------------------------------------------------
(* Outcomes.                                                               *)
NoUndo == [op |-> "nothing"]
Failed(c) == [ok |-> FALSE, cur |-> c, undo |-> NoUndo]
Done(c, undo) == [ok |-> TRUE, cur |-> c, undo |-> undo]

----------------------------------------------------------------------------
(* The vocabulary.                                                         *)
Word(name) == name[1]
SameWord(a, b) == Word(a) = Word(b)

IsInduced(kind) == kind \in {"category", "subcategory", "feedback_category"}
Cap(kind) == IF IsInduced(kind) THEN InducedCap ELSE ImportedCap
ParentKind(kind) ==
    CASE kind = "subcategory" -> "category"
      [] kind = "product"     -> "product"
      [] OTHER                -> None

Level(c, kind, parent) == {e \in c.vocab : e.kind = kind /\ e.parent = parent}
ById(c, id) == {e \in c.vocab : e.id = id}
Children(c, id) == {e \in c.vocab : e.parent = id}
Named(c, kind, parent, name) == {e \in Level(c, kind, parent) : e.name = name}

(* The column pair (level, name) is unique: an update that would break it  *)
(* is an error of the database.                                            *)
Taken(c, e, name) == \E o \in Named(c, e.kind, e.parent, name) : o.id # e.id

(* An entry in the place of the one with its id.                           *)
Put(c, e) == [c EXCEPT !.vocab = {o \in @ : o.id # e.id} \cup {e}]
Drop(c, ids) == [c EXCEPT !.vocab = {o \in @ : o.id \notin ids}]

(* One more name may join a level that is not full; a name that is there   *)
(* in any spelling always may.                                             *)
MayJoin(kind, name, level) ==
    /\ Word(name) \notin {Blank, Other}
    /\ \/ \E e \in level : SameWord(e.name, name)
       \/ Cardinality(level) < Cap(kind)

(* A child sits under a parent of the right kind.                          *)
MayPlace(s, kind, parent) ==
    \/ parent = 0
    \/ \E p \in ById(s, parent) : p.kind = ParentKind(kind)

(* The column keeps its old value where the new one is absent.             *)
Coalesce(new, old) == IF new = None THEN old ELSE new

(* Insert, or fill in the entry of exactly this name.                      *)
Upsert(c, a, name) ==
    LET hit == Named(c, a.vocab, a.parent, name)
        e == IF hit = {} THEN Entry(c.nextId, a.vocab, a.parent, name, a.descr)
             ELSE LET o == CHOOSE o \in hit : TRUE
                  IN  [o EXCEPT !.descr = Coalesce(a.descr, @)]
    IN  [cur |-> [Put(c, e) EXCEPT !.nextId = IF hit = {} THEN @ + 1 ELSE @], row |-> e]

AppendAliases(e, aliases) == [e EXCEPT !.aliases = @ \cup aliases]

(* A definition whose name is there in another spelling goes to that entry. *)
Define(a, s, c) ==
    LET level == Level(s, a.vocab, a.parent)
        previous == {e \in level : SameWord(e.name, a.name)}
        first == CHOOSE e \in previous : \A o \in previous : e.id <= o.id
        stored == IF previous = {} THEN a.name ELSE first.name
        up == Upsert(c, a, stored)
    IN  IF ~ MayPlace(s, a.vocab, a.parent) \/ ~ MayJoin(a.vocab, a.name, level)
        THEN Failed(c)
        ELSE Done(Put(up.cur, AppendAliases(up.row, a.aliases)),
                  [op |-> "restore", id |-> up.row.id, created |-> previous = {},
                   name |-> IF previous = {} THEN NoName ELSE first.name,
                   descr |-> IF previous = {} THEN None ELSE first.descr])

(* An edit of one entry: the check reads the entry in s, the write needs   *)
(* its row in c.                                                           *)
Previous(s, a) == CHOOSE e \in ById(s, a.id) : TRUE
Restore(p) == [op |-> "restore", id |-> p.id, created |-> FALSE, name |-> p.name,
               descr |-> p.descr]

Rename(a, s, c) ==
    IF \/ Word(a.name) \in {Blank, Other}
       \/ ById(s, a.id) = {} \/ Previous(s, a).frozen
       \/ Taken(s, Previous(s, a), a.name)
       \/ ById(c, a.id) = {} \/ Taken(c, Previous(c, a), a.name)
    THEN Failed(c)
    ELSE Done(Put(c, [Previous(c, a) EXCEPT !.name = a.name]), Restore(Previous(s, a)))

Redefine(a, s, c) ==
    IF ById(s, a.id) = {} \/ Previous(s, a).frozen \/ ById(c, a.id) = {}
    THEN Failed(c)
    ELSE Done(Put(c, [Previous(c, a) EXCEPT !.descr = a.descr]), Restore(Previous(s, a)))

Freeze(a, s, c) ==
    IF ById(s, a.id) = {} \/ ById(c, a.id) = {}
    THEN Failed(c)
    ELSE Done(Put(c, [Previous(c, a) EXCEPT !.frozen = a.frozen]),
              [op |-> "frozen", id |-> a.id, frozen |-> Previous(s, a).frozen])

(* Faulty variant of Delete: children are not counted.                     *)
DeleteParent(a, s, c) ==
    IF ById(s, a.id) = {} \/ Previous(s, a).frozen \/ ById(c, a.id) = {}
    THEN Failed(c)
    ELSE Done(Drop(c, {a.id}), [op |-> "recreate", rows |-> <<Previous(s, a)>>])

Delete(a, s, c) ==
    IF \/ ById(s, a.id) = {} \/ Previous(s, a).frozen
       \/ Children(s, a.id) # {} \/ ById(c, a.id) = {}
    THEN Failed(c)
    ELSE Done(Drop(c, {a.id}), [op |-> "recreate", rows |-> <<Previous(s, a)>>])

(* What a clear removes, parents first: the roots of the kind, then its    *)
(* child level, each in the order of the names (here: in some order).      *)
ClearRoots(s, kind) == Level(s, kind, 0)
ClearChildren(s, kind) ==
    {e \in s.vocab : \/ kind = "category" /\ e.kind = "subcategory"
                     \/ kind = "product" /\ e.kind = "product" /\ e.parent # 0}
ClearOrder(s, kind) == SetToSeq(ClearRoots(s, kind)) \o SetToSeq(ClearChildren(s, kind))

Clear(a, s, c) ==
    LET rows == ClearOrder(s, a.vocab)
    IN  Done(Drop(c, {rows[i].id : i \in DOMAIN rows}), [op |-> "recreate", rows |-> rows])

(* Back to the name and the definition the entry had; the undo of a        *)
(* creation deletes the entry, and refuses while it has children.          *)
UndoRestore(u, s, c) ==
    LET e == CHOOSE e \in ById(c, u.id) : TRUE
    IN  IF u.created
        THEN IF Children(s, u.id) # {} THEN Failed(c) ELSE Done(Drop(c, {u.id}), NoUndo)
        ELSE IF ById(c, u.id) = {} THEN Done(c, NoUndo)
        ELSE IF Taken(c, e, u.name) THEN Failed(c)
        ELSE Done(Put(c, [e EXCEPT !.name = u.name, !.descr = u.descr]), NoUndo)

UndoFrozen(u, c) ==
    Done([c EXCEPT !.vocab = {IF e.id = u.id THEN [e EXCEPT !.frozen = u.frozen] ELSE e
                              : e \in @}], NoUndo)

(* Faulty variant of Recreate: the frozen flag is not restored.            *)
RecreateThawed(c, row) ==
    IF Taken(c, row, row.name) THEN Failed(c)
    ELSE Done(Put(c, [row EXCEPT !.frozen = FALSE]), NoUndo)

(* One row put back under its old id; refused where another entry has the  *)
(* name by now.  A row that is still there keeps its place.                *)
Recreate(c, row) ==
    LET old == ById(c, row.id)
        e == IF old = {} THEN row
             ELSE LET o == CHOOSE o \in old : TRUE
                  IN  [row EXCEPT !.kind = o.kind, !.parent = o.parent]
    IN  IF Taken(c, row, row.name) \/ Taken(c, e, e.name) THEN Failed(c)
        ELSE Done(Put(c, e), NoUndo)

(* Rows are put back one by one, up to the first that is refused: those    *)
(* before it stay.                                                         *)
RecreateNext(r, row) == IF r.ok THEN Recreate(r.cur, row) ELSE r
UndoRecreate(u, c) ==
    LET after[k \in 0..Len(u.rows)] ==
            IF k = 0 THEN Done(c, NoUndo) ELSE RecreateNext(after[k - 1], u.rows[k])
    IN  after[Len(u.rows)]

----------------------------------------------------------------------------
(* Verdicts on insights, and suppressed targets.                           *)
UndoForState(a, s) ==
    [op |-> "verdict", fingerprint |-> a.fingerprint, verdict |-> s.verdicts[a.fingerprint]]
WithVerdict(c, f, v) == [c EXCEPT !.verdicts[f] = v]

Dismiss(a, s, c) ==
    Done(WithVerdict(c, a.fingerprint,
                     [state |-> "dismissed", reason |-> a.reason, note |-> None]),
         UndoForState(a, s))

Pin(a, s, c) ==
    Done(WithVerdict(c, a.fingerprint,
                     IF a.pinned THEN [NoVerdict EXCEPT !.state = "pinned"] ELSE NoVerdict),
         UndoForState(a, s))

(* A note rides on the verdict there is, or pins.                          *)
Annotate(a, s, c) ==
    LET v == s.verdicts[a.fingerprint]
    IN  Done(WithVerdict(c, a.fingerprint,
                         [state |-> IF v = NoVerdict THEN "pinned" ELSE v.state,
                          reason |-> v.reason, note |-> a.note]),
             UndoForState(a, s))

Suppress(a, c) ==
    Done([c EXCEPT !.suppressed = @ \cup {a.target}], [op |-> "unsuppress", target |-> a.target])

UndoVerdict(u, c) == Done(WithVerdict(c, u.fingerprint, u.verdict), NoUndo)
UndoSuppress(u, c) == Done([c EXCEPT !.suppressed = @ \ {u.target}], NoUndo)

----------------------------------------------------------------------------
(* Saved views.  Two views of a table never share a name; names compare    *)
(* exactly.                                                                *)
View(c, id) == {v \in c.views : v.id = id}
NameFree(c, name, id) == \A v \in c.views : v.name = name => v.id = id
CheckedName(s, name, id) == Word(name) # Blank /\ NameFree(s, name, id)
PutView(c, v) == [c EXCEPT !.views = {w \in @ : w.id # v.id} \cup {v}]
UpsertView(c, v, undo) == IF NameFree(c, v.name, v.id) THEN Done(PutView(c, v), undo) ELSE Failed(c)

(* Save as a new view (id 0) or over the one with this id.                 *)
SaveView(a, s, c) ==
    LET previous == CHOOSE v \in View(s, a.id) : TRUE
        new == [id |-> c.nextId, name |-> a.name, spec |-> a.spec, by |-> a.actor]
    IN  IF \/ a.id # 0 /\ View(s, a.id) = {}
           \/ ~ CheckedName(s, a.name, a.id)
        THEN Failed(c)
        ELSE IF a.id = 0
        THEN UpsertView([c EXCEPT !.nextId = @ + 1], new, [op |-> "deleteView", id |-> new.id])
        ELSE UpsertView(c, [previous EXCEPT !.name = a.name, !.spec = a.spec],
                        [op |-> "restoreView", row |-> previous])

RenameView(a, s, c) ==
    LET previous == CHOOSE v \in View(s, a.id) : TRUE
    IN  IF View(s, a.id) = {} \/ ~ CheckedName(s, a.name, a.id)
        THEN Failed(c)
        ELSE UpsertView(c, [previous EXCEPT !.name = a.name],
                        [op |-> "restoreView", row |-> previous])

DeleteView(a, s, c) ==
    IF View(s, a.id) = {} THEN Failed(c)
    ELSE Done([c EXCEPT !.views = {v \in @ : v.id # a.id}],
              [op |-> "restoreView", row |-> CHOOSE v \in View(s, a.id) : TRUE])

UndoDeleteView(u, c) == Done([c EXCEPT !.views = {v \in @ : v.id # u.id}], NoUndo)
UndoRestoreView(u, c) == UpsertView(c, u.row, NoUndo)

----------------------------------------------------------------------------
(* Opinions on the column and settings of the table: one row for each      *)
(* actor, read, changed in the fields the action names, and written whole. *)
OpinionUndo(a, s) == [op |-> "opinion", actor |-> a.actor, row |-> s.opinions[a.actor]]

Mutate(a, s, c, opinion) == Done([c EXCEPT !.opinions[a.actor] = opinion], OpinionUndo(a, s))

SetKpi(a, s, c)      == Mutate(a, s, c, [s.opinions[a.actor] EXCEPT !.kpi = a.value])
SetPolarity(a, s, c) == Mutate(a, s, c, [s.opinions[a.actor] EXCEPT !.polarity = a.value])
(* A column that is not a measure is no KPI either.                        *)
SetRole(a, s, c) ==
    Mutate(a, s, c, [s.opinions[a.actor] EXCEPT !.role = a.value,
                                                !.kpi = IF a.value = "measure" THEN @ ELSE "no"])
SetLabel(a, s, c)    == Mutate(a, s, c, [s.opinions[a.actor] EXCEPT !.label = a.value])
SetDescr(a, s, c)    == Mutate(a, s, c, [s.opinions[a.actor] EXCEPT !.descr = a.value])

(* Every actor's row goes, and every one of them comes back.               *)
ResetColumn(c) ==
    Done([c EXCEPT !.opinions = [p \in DOMAIN @ |-> NoOpinion]],
         [op |-> "opinions", rows |-> c.opinions])

SetSettings(a, s, c) ==
    LET p == s.settings[a.actor]
    IN  Done([c EXCEPT !.settings[a.actor] =
                  [display |-> Coalesce(a.display, p.display),
                   descr |-> Coalesce(a.descr, p.descr), period |-> Coalesce(a.period, p.period)]],
             [op |-> "settings", actor |-> a.actor, row |-> p])

UndoOpinion(u, c)  == Done([c EXCEPT !.opinions[u.actor] = u.row], NoUndo)
UndoOpinions(u, c) ==
    Done([c EXCEPT !.opinions = [p \in DOMAIN @ |->
              IF u.rows[p] = NoOpinion THEN @[p] ELSE u.rows[p]]], NoUndo)
UndoSettings(u, c) == Done([c EXCEPT !.settings[u.actor] = u.row], NoUndo)

----------------------------------------------------------------------------
(* The two dispatchers.                                                    *)
Execute(a, s, c) ==
    CASE a.kind = "define"       -> Define(a, s, c)
      [] a.kind = "rename"       -> Rename(a, s, c)
      [] a.kind = "redefine"     -> Redefine(a, s, c)
      [] a.kind = "freeze"       -> Freeze(a, s, c)
      [] a.kind = "delete"       -> Delete(a, s, c)
      [] a.kind = "clear"        -> Clear(a, s, c)
      [] a.kind = "dismiss"      -> Dismiss(a, s, c)
      [] a.kind = "pin"          -> Pin(a, s, c)
      [] a.kind = "annotate"     -> Annotate(a, s, c)
      [] a.kind = "suppress"     -> Suppress(a, c)
      [] a.kind = "save_view"    -> SaveView(a, s, c)
      [] a.kind = "rename_view"  -> RenameView(a, s, c)
      [] a.kind = "delete_view"  -> DeleteView(a, s, c)
      [] a.kind = "kpi"          -> SetKpi(a, s, c)
      [] a.kind = "polarity"     -> SetPolarity(a, s, c)
      [] a.kind = "role"         -> SetRole(a, s, c)
      [] a.kind = "label"        -> SetLabel(a, s, c)
      [] a.kind = "description"  -> SetDescr(a, s, c)
      [] a.kind = "reset"        -> ResetColumn(c)
      [] a.kind = "settings"     -> SetSettings(a, s, c)

ApplyUndo(u, s, c) ==
    CASE u.op = "restore"     -> UndoRestore(u, s, c)
      [] u.op = "frozen"      -> UndoFrozen(u, c)
      [] u.op = "recreate"    -> UndoRecreate(u, c)
      [] u.op = "verdict"     -> UndoVerdict(u, c)
      [] u.op = "unsuppress"  -> UndoSuppress(u, c)
      [] u.op = "deleteView"  -> UndoDeleteView(u, c)
      [] u.op = "restoreView" -> UndoRestoreView(u, c)
      [] u.op = "opinion"     -> UndoOpinion(u, c)
      [] u.op = "opinions"    -> UndoOpinions(u, c)
      [] u.op = "settings"    -> UndoSettings(u, c)

----------------------------------------------------------------------------
(* What a failing statement leaves of an executor that writes more than    *)
(* once: a definition without some of its aliases; a clear that has got to *)
(* row k, last rows first; a reset that cannot read its result back.       *)
Halfway(a, s, c) ==
    CASE a.kind = "define" /\ Define(a, s, c).ok ->
            {Define([a EXCEPT !.aliases = some], s, c).cur :
                some \in (SUBSET a.aliases) \ {a.aliases}}
      [] a.kind = "clear" ->
            LET rows == ClearOrder(s, a.vocab)
            IN  {Drop(c, {rows[i].id : i \in k..Len(rows)}) : k \in 2..Len(rows)}
      [] a.kind = "reset" -> {ResetColumn(c).cur}
      [] OTHER -> {}

(* And of an undo that puts rows back one by one: the first k of them, the *)
(* opinions of some of the actors.                                         *)
Only(rows, some) == [p \in DOMAIN rows |-> IF p \in some THEN rows[p] ELSE NoOpinion]
HalfUndone(u, c) ==
    CASE u.op = "recreate" ->
            {UndoRecreate([op |-> "recreate", rows |-> SubSeq(u.rows, 1, k)], c).cur :
                k \in 1..Len(u.rows) - 1}
      [] u.op = "opinions" ->
            {UndoOpinions([op |-> "opinions", rows |-> Only(u.rows, some)], c).cur :
                some \in (SUBSET DOMAIN u.rows) \ {{}, DOMAIN u.rows}}
      [] OTHER -> {}

----------------------------------------------------------------------------
(* The classification vocabulary a function's configuration keeps a copy   *)
(* of: identities, places and definitions, not names.  A subcategory of a  *)
(* parent that is gone is left out.                                        *)
Snapshot(c) ==
    LET categories == {e \in c.vocab : e.kind = "category"}
        subs == {e \in c.vocab : /\ e.kind = "subcategory"
                                 /\ e.parent = 0 \/ \E p \in categories : p.id = e.parent}
    IN  {[id |-> e.id, parent |-> e.parent, descr |-> e.descr] : e \in categories \cup subs}

(* Faulty variant of Refreshes: a deletion leaves the copies as they are.  *)
RefreshesEdits(kind) == kind \in {"define", "redefine", "clear"}

(* The edits that end by bringing those copies up to date.                 *)
Refreshes(kind) == kind \in {"define", "redefine", "delete", "clear"}
UndoRefreshes(u, c) ==
    \/ u.op = "restore" /\ ById(c, u.id) # {}
    \/ u.op = "recreate" /\ u.rows # <<>>
=============================================================================
