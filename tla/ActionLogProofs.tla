--------------------------- MODULE ActionLogProofs ---------------------------
(***************************************************************************)
(* The action log tells the truth, the copies of the vocabulary are        *)
(* current after a request, undos are exact and the vocabulary stays       *)
(* sound: for every set of scenarios, any number of workers and any bound  *)
(* on requests, stops and failing statements.                              *)
(*                                                                         *)
(* The first argument follows each row through the queues of the workers.  *)
(* A row that no two requests had at once is in one queue at most; what is *)
(* true of it is fixed by its place there and by the step its worker is    *)
(* at; and when it leaves the queue, its status says so (LogInv).          *)
(*                                                                         *)
(* The others are about what the executors and their undos do to the       *)
(* curated state.  StateInv: the state keeps what its tables' keys say,    *)
(* and the undos on record and in hand fit it.  SnapInv: a request that    *)
(* runs alone leaves the copy behind only between its write and its        *)
(* refresh.  OutcomeBack: each undo puts back what its executor changed,   *)
(* kind by kind; LastInv: the undo of the latest change is the one a       *)
(* request will apply.  OutcomeLeads: each executor keeps the rules of the *)
(* vocabulary, and its undo leads back to the places there were; VocInv:   *)
(* from the places there are, the undos of the rows in effect, the newest  *)
(* first, lead through places that keep the rules.                         *)
(***************************************************************************)
EXTENDS ActionLog, FiniteSetTheorems, SequenceTheorems, WellFoundedInduction, TLAPS

----------------------------------------------------------------------------
(* Sequences, of whatever they are.                                        *)
IsSeq(s) == \E S : s \in Seq(S)

LEMMA SeqFacts ==
    ASSUME NEW s, IsSeq(s)
    PROVE  Len(s) \in Nat /\ DOMAIN s = 1..Len(s) /\ s = [i \in 1..Len(s) |-> s[i]]
<1>1. PICK S : s \in Seq(S)
  BY DEF IsSeq
<1> QED
  BY <1>1

LEMMA SeqAppend ==
    ASSUME NEW s, NEW x, IsSeq(s)
    PROVE  /\ IsSeq(Append(s, x))
           /\ Len(Append(s, x)) = Len(s) + 1
           /\ \A i \in 1..Len(s) : Append(s, x)[i] = s[i]
           /\ Append(s, x)[Len(s) + 1] = x
<1>1. PICK S : s \in Seq(S)
  BY DEF IsSeq
<1> DEFINE T == S \cup {x}
<1>2. s \in Seq(T) /\ x \in T
  BY <1>1
<1> HIDE DEF T
<1> QED
  BY <1>2, AppendProperties DEF IsSeq

LEMMA SeqTail ==
    ASSUME NEW s, IsSeq(s), s # <<>>
    PROVE  /\ IsSeq(Tail(s)) /\ Len(Tail(s)) = Len(s) - 1 /\ Len(s) >= 1 /\ Head(s) = s[1]
           /\ \A i \in 1..Len(s) - 1 : Tail(s)[i] = s[i + 1]
<1>1. PICK S : s \in Seq(S)
  BY DEF IsSeq
<1> QED
  BY <1>1, HeadTailProperties DEF IsSeq

LEMMA SeqMade ==
    ASSUME NEW n \in Nat, NEW f, f = [i \in 1..n |-> f[i]]
    PROVE  IsSeq(f) /\ Len(f) = n
<1> DEFINE S == {f[i] : i \in 1..n}
<1>1. f \in [1..n -> S]
  OBVIOUS
<1> HIDE DEF S
<1>2. f \in Seq(S) /\ Len(f) = n
  BY <1>1, IsASeq
<1> QED
  BY <1>2 DEF IsSeq

----------------------------------------------------------------------------
(* Every finite set of rows can be listed in ascending order.              *)
LEMMA Least ==
    ASSUME NEW T \in SUBSET Nat, T # {}
    PROVE  \E m \in T : \A k \in T : m <= k
<1>1. IsWellFoundedOn(OpToRel(<, Nat), Nat)
  BY NatLessThanWellFounded
<1>2. \E x \in T : \A y \in T : ~ (<<y, x>> \in OpToRel(<, Nat))
  BY <1>1, WFMin
<1>3. PICK x \in T : \A y \in T : ~ (<<y, x>> \in OpToRel(<, Nat))
  BY <1>2
<1>4. \A y \in T : x \in Nat /\ y \in Nat /\ ~(y < x)
  BY <1>3 DEF OpToRel
<1> QED
  BY <1>4

Listings(ids) == {q \in SetToSeqs(ids) : \A i, j \in DOMAIN q : i < j => q[i] < q[j]}

LEMMA ListingOf ==
    ASSUME NEW ids \in SUBSET Nat, IsFiniteSet(ids)
    PROVE  Listings(ids) # {}
<1> DEFINE Bad == {n \in Nat : \E S \in SUBSET Nat : IsFiniteSet(S) /\ Cardinality(S) = n /\ Listings(S) = {}}
<1> SUFFICES ASSUME Bad # {} PROVE FALSE
  BY FS_CardinalityType
<1>1. PICK m \in Bad : \A k \in Bad : m <= k
  <2>1. Bad \in SUBSET Nat
    OBVIOUS
  <2> HIDE DEF Bad
  <2> QED
    BY <2>1, Least
<1>2. PICK S \in SUBSET Nat : IsFiniteSet(S) /\ Cardinality(S) = m /\ Listings(S) = {}
  BY <1>1
<1>3. S # {}
  <2>1. SUFFICES ASSUME S = {} PROVE FALSE
    OBVIOUS
  <2>2. Cardinality({}) = 0
    BY FS_EmptySet
  <2>3. <<>> \in Listings({})
    BY <2>2 DEF Listings, SetToSeqs
  <2> QED
    BY <1>2, <2>1, <2>3
<1>4. PICK x \in S : \A y \in S : x <= y
  BY <1>3, Least
<1>5. IsFiniteSet(S \ {x}) /\ Cardinality(S \ {x}) = m - 1 /\ m \in Nat
  BY <1>2, <1>4, FS_RemoveElement
<1>6. m - 1 \in Nat
  BY <1>5, FS_CardinalityType
<1>7. Listings(S \ {x}) # {}
  <2>1. m - 1 \notin Bad
    BY <1>1, <1>5
  <2> QED
    BY <1>5, <1>6, <2>1
<1>8. PICK q : q \in Listings(S \ {x})
  BY <1>7
<1>9. /\ q \in [1..m - 1 -> S \ {x}]
      /\ \A i, j \in 1..m - 1 : i # j => q[i] # q[j]
      /\ \A i, j \in 1..m - 1 : i < j => q[i] < q[j]
  BY <1>5, <1>8 DEF Listings, SetToSeqs
<1> DEFINE r == [i \in 1..m |-> IF i = 1 THEN x ELSE q[i - 1]]
<1>10. r \in [1..m -> S]
  BY <1>4, <1>5, <1>9
<1>11. \A i, j \in 1..m : i < j => r[i] < r[j]
  <2> SUFFICES ASSUME NEW i \in 1..m, NEW j \in 1..m, i < j PROVE r[i] < r[j]
    OBVIOUS
  <2>1. j # 1 /\ j - 1 \in 1..m - 1 /\ r[j] = q[j - 1] /\ q[j - 1] \in S \ {x}
    BY <1>5, <1>9
  <2>2. CASE i = 1
    <3>1. r[i] = x /\ q[j - 1] \in Nat /\ x \in Nat /\ x <= q[j - 1] /\ q[j - 1] # x
      BY <1>4, <2>1, <2>2
    <3> HIDE DEF r
    <3> QED
      BY <2>1, <3>1
  <2>3. CASE i # 1
    <3>1. i - 1 \in 1..m - 1 /\ r[i] = q[i - 1] /\ i - 1 < j - 1
      BY <1>5, <2>3
    <3> QED
      BY <1>9, <2>1, <3>1
  <2> QED
    BY <2>2, <2>3
<1>12. \A i, j \in 1..m : i # j => r[i] # r[j]
  <2> SUFFICES ASSUME NEW i \in 1..m, NEW j \in 1..m, i # j PROVE r[i] # r[j]
    OBVIOUS
  <2>1. i < j \/ j < i
    BY <1>5
  <2>2. r[i] \in Nat /\ r[j] \in Nat
    BY <1>10
  <2> QED
    BY <1>11, <2>1, <2>2
<1>13. r \in Listings(S)
  <2>1. DOMAIN r = 1..m
    OBVIOUS
  <2> HIDE DEF r
  <2> QED
    BY <1>2, <1>10, <1>11, <1>12, <2>1 DEF Listings, SetToSeqs
<1> QED
  BY <1>2, <1>13

(* What a bulk operation goes through: each row once.                      *)
Lists(q, ids) ==
    /\ IsSeq(q) /\ Len(q) = Cardinality(ids)
    /\ \A i \in DOMAIN q : q[i] \in ids
    /\ \A i, j \in DOMAIN q : q[i] = q[j] => i = j

LEMMA AscendingLists ==
    ASSUME NEW ids \in SUBSET Nat, IsFiniteSet(ids)
    PROVE  Lists(Ascending(ids), ids)
<1>1. Ascending(ids) \in Listings(ids)
  <2>1. PICK q : q \in Listings(ids)
    BY ListingOf
  <2> QED
    BY <2>1 DEF Ascending, Listings
<1> DEFINE q == Ascending(ids)
           n == Cardinality(ids)
<1>2. n \in Nat
  BY FS_CardinalityType
<1>3. q \in [1..n -> ids] /\ \A i, j \in 1..n : i # j => q[i] # q[j]
  BY <1>1 DEF Listings, SetToSeqs
<1> HIDE DEF q
<1>4. q \in Seq(ids) /\ Len(q) = n
  BY <1>2, <1>3, IsASeq
<1>5. Lists(q, ids)
  BY <1>3, <1>4 DEF Lists, IsSeq
<1> QED
  BY <1>5 DEF q

LEMMA DescendingLists ==
    ASSUME NEW ids \in SUBSET Nat, IsFiniteSet(ids)
    PROVE  Lists(Descending(ids), ids)
<1> DEFINE q == Ascending(ids)
           n == Cardinality(ids)
           r == Reverse(q)
<1>1. n \in Nat
  BY FS_CardinalityType
<1>2. Lists(q, ids)
  BY AscendingLists
<1> HIDE DEF q
<1>3. Len(q) = n /\ DOMAIN q = 1..n
  BY <1>2, SeqFacts DEF Lists
<1>4. r = [i \in 1..n |-> q[(n - i) + 1]]
  BY <1>3 DEF Reverse
<1>5. \A i \in 1..n : r[i] = q[(n - i) + 1] /\ (n - i) + 1 \in 1..n
  BY <1>1, <1>4
<1>6. IsSeq(r) /\ Len(r) = n /\ DOMAIN r = 1..n
  <2>1. r = [i \in 1..n |-> r[i]] /\ DOMAIN r = 1..n
    BY <1>4
  <2> HIDE DEF r
  <2> QED
    BY <1>1, <2>1, SeqMade
<1> HIDE DEF r
<1>7. Lists(r, ids)
  <2>1. \A i \in 1..n : r[i] \in ids
    BY <1>2, <1>3, <1>5 DEF Lists
  <2>2. \A i, j \in 1..n : r[i] = r[j] => i = j
    <3> SUFFICES ASSUME NEW i \in 1..n, NEW j \in 1..n, r[i] = r[j] PROVE i = j
      OBVIOUS
    <3>1. (n - i) + 1 = (n - j) + 1
      BY <1>2, <1>3, <1>5 DEF Lists
    <3> QED
      BY <1>1, <3>1
  <2> QED
    BY <1>6, <2>1, <2>2 DEF Lists
<1> QED
  BY <1>7 DEF r, q, Descending

----------------------------------------------------------------------------
(* The shapes of the records.                                              *)
WorkerShape(x) ==
    /\ x = [pc |-> x.pc, op |-> x.op, queue |-> x.queue, seen |-> x.seen, undo |-> x.undo,
            snap |-> x.snap]
    /\ IsSeq(x.queue)

RowShape(r) ==
    /\ r = [request |-> r.request, status |-> r.status, undo |-> r.undo]
    /\ r.status \in Statuses /\ r.request \in Requests

Counts(s) == IsSeq(s) /\ Len(s) = Len(log) /\ \A id \in Rows : s[id] \in Nat

HistoryShape ==
    /\ history = [applied |-> history.applied, undone |-> history.undone,
                  disturbed |-> history.disturbed, overlapped |-> history.overlapped,
                  order |-> history.order, outOfOrder |-> history.outOfOrder,
                  torn |-> history.torn, last |-> history.last]
    /\ Counts(history.applied) /\ Counts(history.undone)

Shapes ==
    /\ workers = [w \in Workers |-> workers[w]]
    /\ \A w \in Workers : WorkerShape(workers[w])
    /\ IsSeq(log) /\ \A id \in Rows : RowShape(log[id])
    /\ HistoryShape

(* The next state of the record of one worker, of the log, of the history; *)
(* and a history that notes nothing but whether the copy lags behind.      *)
After(w, pc, op, queue, seen, undo, snap) ==
    /\ workers' = [v \in Workers |-> workers'[v]]
    /\ \A v \in Workers : v # w => workers'[v] = workers[v]
    /\ workers'[w] = [pc |-> pc, op |-> op, queue |-> queue, seen |-> seen, undo |-> undo,
                      snap |-> snap]

LogIs(id, status, undo) ==
    /\ IsSeq(log') /\ Len(log') = Len(log)
    /\ \A k \in Rows : k # id => log'[k] = log[k]
    /\ log'[id] = [request |-> log[id].request, status |-> status, undo |-> undo]

HistoryIs(applied, undone, disturbed, overlapped, order, outOfOrder, torn, last) ==
    history' = [applied |-> applied, undone |-> undone, disturbed |-> disturbed,
                overlapped |-> overlapped, order |-> order, outOfOrder |-> outOfOrder,
                torn |-> torn, last |-> last]

SameButTorn ==
    /\ history'.applied = history.applied /\ history'.undone = history.undone
    /\ history'.disturbed = history.disturbed /\ history'.overlapped = history.overlapped
    /\ history'.order = history.order /\ history'.outOfOrder = history.outOfOrder
    /\ history'.last = history.last

(* Its head off the queue.                                                 *)
AfterAdvance(w) ==
    IF Len(workers[w].queue) = 1
    THEN After(w, "idle", "none", <<>>, Empty, NoUndo, {})
    ELSE After(w, First(workers[w].op), workers[w].op, Tail(workers[w].queue), Empty, NoUndo, {})

LEMMA RowsAre == IsSeq(log) => Rows = 1..Len(log) /\ Len(log) \in Nat
BY SeqFacts DEF Rows

LEMMA WorkerSet ==
    ASSUME Shapes, NEW w \in Workers, NEW x, workers' = [workers EXCEPT ![w] = x]
    PROVE  /\ workers' = [v \in Workers |-> workers'[v]]
           /\ \A v \in Workers : v # w => workers'[v] = workers[v]
           /\ workers'[w] = x
<1>1. DOMAIN workers = Workers
  BY DEF Shapes
<1> QED
  BY <1>1

LEMMA WorkerBecomes ==
    ASSUME Shapes, NEW w \in Workers, NEW pc, NEW op, NEW queue, NEW seen, NEW undo, NEW snap,
           workers' = [workers EXCEPT ![w] = [pc |-> pc, op |-> op, queue |-> queue, seen |-> seen,
                                              undo |-> undo, snap |-> snap]]
    PROVE  After(w, pc, op, queue, seen, undo, snap)
BY WorkerSet DEF After

LEMMA WorkerExcept ==
    ASSUME NEW x, WorkerShape(x), NEW p, NEW c
    PROVE  /\ [x EXCEPT !.pc = p, !.seen = c] =
              [pc |-> p, op |-> x.op, queue |-> x.queue, seen |-> c, undo |-> x.undo,
               snap |-> x.snap]
           /\ [x EXCEPT !.pc = p, !.snap = c] =
              [pc |-> p, op |-> x.op, queue |-> x.queue, seen |-> x.seen, undo |-> x.undo,
               snap |-> c]
<1> DEFINE y == [x EXCEPT !.pc = p]
<1>1. y = [pc |-> p, op |-> x.op, queue |-> x.queue, seen |-> x.seen, undo |-> x.undo,
           snap |-> x.snap]
  BY DEF WorkerShape
<1> HIDE DEF y
<1>2. [y EXCEPT !.seen = c] = [pc |-> p, op |-> x.op, queue |-> x.queue, seen |-> c,
                               undo |-> x.undo, snap |-> x.snap]
  BY <1>1
<1>3. [y EXCEPT !.snap = c] = [pc |-> p, op |-> x.op, queue |-> x.queue, seen |-> x.seen,
                               undo |-> x.undo, snap |-> c]
  BY <1>1
<1>4. [x EXCEPT !.pc = p, !.seen = c] = [y EXCEPT !.seen = c]
  BY DEF y
<1>5. [x EXCEPT !.pc = p, !.snap = c] = [y EXCEPT !.snap = c]
  BY DEF y
<1> QED
  BY <1>2, <1>3, <1>4, <1>5

LEMMA ReadDoes ==
    ASSUME Shapes, NEW w \in Workers, Read(w)
    PROVE  LET x == workers[w] IN After(w, "write", x.op, x.queue, cur, x.undo, x.snap)
<1> DEFINE x == workers[w]
<1>1. workers' = [workers EXCEPT ![w] = [x EXCEPT !.pc = "write", !.seen = cur]]
  BY DEF Read, Shapes
<1>2. WorkerShape(x)
  BY DEF Shapes
<1> HIDE DEF x
<1>3. workers' = [workers EXCEPT ![w] = [pc |-> "write", op |-> x.op, queue |-> x.queue,
                                         seen |-> cur, undo |-> x.undo, snap |-> x.snap]]
  BY <1>1, <1>2, WorkerExcept
<1>4. After(w, "write", x.op, x.queue, cur, x.undo, x.snap)
  BY <1>3, WorkerBecomes
<1> QED
  BY <1>4 DEF x

LEMMA UndoReadDoes ==
    ASSUME Shapes, NEW w \in Workers, UndoRead(w)
    PROVE  LET x == workers[w] IN After(w, "undoWrite", x.op, x.queue, cur, x.undo, x.snap)
<1> DEFINE x == workers[w]
<1>1. workers' = [workers EXCEPT ![w] = [x EXCEPT !.pc = "undoWrite", !.seen = cur]]
  BY DEF UndoRead, Shapes
<1>2. WorkerShape(x)
  BY DEF Shapes
<1> HIDE DEF x
<1>3. workers' = [workers EXCEPT ![w] = [pc |-> "undoWrite", op |-> x.op, queue |-> x.queue,
                                         seen |-> cur, undo |-> x.undo, snap |-> x.snap]]
  BY <1>1, <1>2, WorkerExcept
<1>4. After(w, "undoWrite", x.op, x.queue, cur, x.undo, x.snap)
  BY <1>3, WorkerBecomes
<1> QED
  BY <1>4 DEF x

LEMMA LoadDoes ==
    ASSUME Shapes, NEW w \in Workers, LoadSnapshot(w)
    PROVE  LET x == workers[w] IN After(w, "refresh", x.op, x.queue, x.seen, x.undo, Snapshot(cur))
<1> DEFINE x == workers[w]
           s == Snapshot(cur)
<1>1. workers' = [workers EXCEPT ![w].pc = "refresh", ![w].snap = s]
  BY DEF LoadSnapshot
<1> HIDE DEF s
<1>2. workers' = [workers EXCEPT ![w] = [x EXCEPT !.pc = "refresh", !.snap = s]]
  BY <1>1 DEF Shapes
<1>3. WorkerShape(x)
  BY DEF Shapes
<1> HIDE DEF x
<1>4. workers' = [workers EXCEPT ![w] = [pc |-> "refresh", op |-> x.op, queue |-> x.queue,
                                         seen |-> x.seen, undo |-> x.undo, snap |-> s]]
  BY <1>2, <1>3, WorkerExcept
<1>5. After(w, "refresh", x.op, x.queue, x.seen, x.undo, s)
  BY <1>4, WorkerBecomes
<1> QED
  BY <1>5 DEF s, x

LEMMA RefreshDoes ==
    ASSUME Shapes, NEW w \in Workers, Refreshed(w)
    PROVE  LET x == workers[w] IN
           After(w, IF x.op = "undo" THEN "undone" ELSE "record", x.op, x.queue, x.seen, x.undo, {})
<1> DEFINE x == workers[w]
           p == IF x.op = "undo" THEN "undone" ELSE "record"
<1>1. workers' = [workers EXCEPT ![w].pc = p, ![w].snap = {}]
  BY DEF Refreshed
<1> HIDE DEF p
<1>2. workers' = [workers EXCEPT ![w] = [x EXCEPT !.pc = p, !.snap = {}]]
  BY <1>1 DEF Shapes
<1>3. WorkerShape(x)
  BY DEF Shapes
<1> HIDE DEF x
<1>4. workers' = [workers EXCEPT ![w] = [pc |-> p, op |-> x.op, queue |-> x.queue,
                                         seen |-> x.seen, undo |-> x.undo, snap |-> {}]]
  BY <1>2, <1>3, WorkerExcept
<1>5. After(w, p, x.op, x.queue, x.seen, x.undo, {})
  BY <1>4, WorkerBecomes
<1> QED
  BY <1>5 DEF p, x

LEMMA AdvanceDoes ==
    ASSUME Shapes, NEW w \in Workers, Advance(w)
    PROVE  AfterAdvance(w)
<1>1. CASE Len(workers[w].queue) = 1
  <2>1. workers' = [workers EXCEPT ![w] = Idle]
    BY <1>1 DEF Advance, Shapes
  <2> QED
    BY <1>1, <2>1, WorkerSet DEF AfterAdvance, After, Idle
<1>2. CASE Len(workers[w].queue) # 1
  <2> DEFINE p == First(workers[w].op)
             q == Tail(workers[w].queue)
  <2>1. workers' = [workers EXCEPT ![w] = [Idle EXCEPT !.pc = p, !.op = workers[w].op, !.queue = q]]
    BY <1>2 DEF Advance, Shapes
  <2> HIDE DEF p, q
  <2>2. After(w, p, workers[w].op, q, Empty, NoUndo, {})
    BY <2>1, WorkerSet DEF After, Idle
  <2> QED
    BY <1>2, <2>2 DEF AfterAdvance, p, q
<1> QED
  BY <1>1, <1>2

LEMMA LogSet ==
    ASSUME Shapes, NEW id \in Rows, NEW s, NEW u, NEW x,
           x = [request |-> log[id].request, status |-> s, undo |-> u],
           log' = [log EXCEPT ![id] = x]
    PROVE  LogIs(id, s, u)
<1>1. PICK S : log \in Seq(S)
  BY DEF Shapes, IsSeq
<1> DEFINE T == S \cup {x}
<1>2. log \in Seq(T) /\ x \in T
  BY <1>1
<1> HIDE DEF T
<1>3. Len(log) \in Nat /\ log \in [1..Len(log) -> T] /\ Rows = 1..Len(log)
  BY <1>2 DEF Rows
<1>4. log' \in [1..Len(log) -> T] /\ \A i \in 1..Len(log) : log'[i] = IF i = id THEN x ELSE log[i]
  BY <1>2, <1>3
<1>5. log' \in Seq(T) /\ Len(log') = Len(log)
  BY <1>3, <1>4, IsASeq
<1> QED
  BY <1>3, <1>4, <1>5 DEF LogIs, IsSeq

LEMMA RecordDoes ==
    ASSUME Shapes, NEW w \in Workers, Row(w).id \in Rows, RecordResult(w)
    PROVE  /\ LogIs(Row(w).id, IF workers[w].pc = "record" THEN "applied" ELSE "failed",
                    workers[w].undo)
           /\ AfterAdvance(w)
<1> DEFINE id == Row(w).id
           s == IF workers[w].pc = "record" THEN "applied" ELSE "failed"
           u == workers[w].undo
           r == log[id]
           x == [r EXCEPT !.status = s, !.undo = u]
<1>1. id \in Rows /\ IsSeq(log) /\ RowShape(r)
  BY DEF Shapes
<1>2. log' = [log EXCEPT ![id].status = s, ![id].undo = u]
  BY DEF RecordResult
<1> HIDE DEF id, s, u
<1>3. log' = [log EXCEPT ![id] = x]
  BY <1>1, <1>2, RowsAre, SeqFacts
<1> HIDE DEF r
<1>4. x = [request |-> r.request, status |-> s, undo |-> u]
  <2> DEFINE y == [r EXCEPT !.status = s]
  <2>1. y = [request |-> r.request, status |-> s, undo |-> r.undo]
    BY <1>1 DEF RowShape
  <2>2. x = [y EXCEPT !.undo = u]
    OBVIOUS
  <2> HIDE DEF y
  <2>3. [y EXCEPT !.undo = u] = [request |-> r.request, status |-> s, undo |-> u]
    BY <2>1
  <2> QED
    BY <2>2, <2>3
<1> HIDE DEF x
<1>5. LogIs(id, s, u)
  BY <1>1, <1>3, <1>4, LogSet DEF r
<1> QED
  BY <1>5, AdvanceDoes DEF RecordResult, id, s, u

LEMMA StatusDoes ==
    ASSUME Shapes, NEW id \in Rows, NEW s, log' = [log EXCEPT ![id].status = s]
    PROVE  LogIs(id, s, log[id].undo)
<1> DEFINE r == log[id]
           x == [r EXCEPT !.status = s]
<1>1. IsSeq(log) /\ RowShape(r)
  BY DEF Shapes
<1>2. log' = [log EXCEPT ![id] = x]
  BY <1>1, RowsAre, SeqFacts
<1> HIDE DEF r
<1>3. x = [request |-> r.request, status |-> s, undo |-> r.undo]
  BY <1>1 DEF RowShape
<1> HIDE DEF x
<1>4. LogIs(id, s, r.undo)
  BY <1>2, <1>3, LogSet DEF r
<1> QED
  BY <1>4 DEF r

LEMMA BeganIs ==
    ASSUME Shapes, NEW rows, history' = Began(rows)
    PROVE  LET h == history IN
           HistoryIs(h.applied, h.undone,
                     h.disturbed \cup {id \in rows : \E v \in Busy : id \in Queued(v)},
                     h.overlapped \/ Busy # {}, h.order, h.outOfOrder, h.torn, h.last)
<1> DEFINE D == {id \in rows : \E v \in Busy : id \in Queued(v)}
           B == Busy # {}
<1>1. history' = [history EXCEPT !.disturbed = @ \cup D, !.overlapped = @ \/ B]
  BY DEF Began
<1> HIDE DEF D, B
<1>2. LET h == history IN
      HistoryIs(h.applied, h.undone, h.disturbed \cup D, h.overlapped \/ B, h.order, h.outOfOrder,
                h.torn, h.last)
  BY <1>1 DEF Shapes, HistoryShape, HistoryIs
<1> QED
  BY <1>2 DEF D, B

LEMMA TornIs ==
    ASSUME Shapes, NEW t,
           history' = [history EXCEPT !.torn = t] \/ (history' = history /\ t = history.torn)
    PROVE  LET h == history IN
           HistoryIs(h.applied, h.undone, h.disturbed, h.overlapped, h.order, h.outOfOrder, t,
                     h.last)
<1>1. CASE history' = [history EXCEPT !.torn = t]
  BY <1>1 DEF Shapes, HistoryShape, HistoryIs
<1>2. CASE history' = history /\ t = history.torn
  BY <1>2 DEF Shapes, HistoryShape, HistoryIs
<1> QED
  BY <1>1, <1>2

LEMMA HalvedIs ==
    ASSUME Shapes, NEW id, history' = Halved(id)
    PROVE  LET h == history IN
           HistoryIs(h.applied, h.undone, h.disturbed \cup {id}, TRUE, h.order, h.outOfOrder,
                     h.torn, NoRow)
<1> DEFINE D == history.disturbed \cup {id}
           o == TRUE
           l == NoRow
           h == history
           y == [h EXCEPT !.disturbed = D]
           z == [y EXCEPT !.overlapped = o]
<1>1. history' = [z EXCEPT !.last = l]
  BY DEF Halved, Shapes, HistoryShape
<1>2. h = [applied |-> h.applied, undone |-> h.undone, disturbed |-> h.disturbed,
           overlapped |-> h.overlapped, order |-> h.order, outOfOrder |-> h.outOfOrder,
           torn |-> h.torn, last |-> h.last]
  BY DEF Shapes, HistoryShape
<1> HIDE DEF h, D, o, l
<1>3. y = [applied |-> h.applied, undone |-> h.undone, disturbed |-> D,
           overlapped |-> h.overlapped, order |-> h.order, outOfOrder |-> h.outOfOrder,
           torn |-> h.torn, last |-> h.last]
  BY <1>2
<1> HIDE DEF y
<1>4. z = [applied |-> h.applied, undone |-> h.undone, disturbed |-> D,
           overlapped |-> o, order |-> h.order, outOfOrder |-> h.outOfOrder,
           torn |-> h.torn, last |-> h.last]
  BY <1>3
<1> HIDE DEF z
<1>5. history' = [applied |-> h.applied, undone |-> h.undone, disturbed |-> D,
                  overlapped |-> o, order |-> h.order, outOfOrder |-> h.outOfOrder,
                  torn |-> h.torn, last |-> l]
  BY <1>1, <1>4
<1> QED
  BY <1>5 DEF HistoryIs, h, D, o, l

LEMMA HalvedFields ==
    ASSUME Shapes, NEW id, history' = Halved(id)
    PROVE  history'.overlapped = TRUE /\ history'.last = NoRow /\ history'.undone = history.undone
<1> DEFINE D == history.disturbed \cup {id}
           o == TRUE
           l == NoRow
           h == history
<1>1. HistoryIs(h.applied, h.undone, D, o, h.order, h.outOfOrder, h.torn, l)
  BY HalvedIs
<1> HIDE DEF D, o, l
<1>2. history'.overlapped = o /\ history'.last = l /\ history'.undone = h.undone
  BY <1>1 DEF HistoryIs
<1> QED
  BY <1>2 DEF o, l

----------------------------------------------------------------------------
(* A busy worker serves different rows of the log, at a step of what it    *)
(* does.                                                                   *)
PcFits(x) ==
    \/ x.op = "execute" /\ x.pc \in {"read", "write", "fail", "load", "refresh", "record"}
    \/ x.op = "undo" /\ x.pc \in {"undoRead", "undoWrite", "load", "refresh", "undone"}
    \/ x.op = "reject" /\ x.pc = "reject"

Serves(x, rows) ==
    /\ Len(x.queue) >= 1
    /\ PcFits(x)
    /\ \A i \in 1..Len(x.queue) : x.queue[i].id \in rows
    /\ \A i, j \in 1..Len(x.queue) : x.queue[i].id = x.queue[j].id => i = j

QueuedAt(x, id) == \E i \in 1..Len(x.queue) : x.queue[i].id = id

(* What is so of the i-th row of a worker's queue, and of a row in none:   *)
(* s its status, a and u how often it was applied and undone.              *)
Took(x, i) == i = 1 /\ x.pc \in {"load", "refresh", "record", "undone"}

Served(x, i, s, a, u) ==
    \/ x.op = "execute" /\ a = (IF Took(x, i) THEN 1 ELSE 0) /\ u = 0 /\ (i > 1 => s = "proposed")
    \/ x.op = "undo" /\ s = "applied" /\ a = 1 /\ u = (IF Took(x, i) THEN 1 ELSE 0)
    \/ x.op = "reject" /\ s = "proposed" /\ a = 0 /\ u = 0

Settled(s, a, u) ==
    /\ a = (IF s \in {"applied", "undone"} THEN 1 ELSE 0)
    /\ u = (IF s = "undone" THEN 1 ELSE 0)

RowTrue(id) ==
    \/ id \in history.disturbed
    \/ /\ \A w, v \in Workers : QueuedAt(workers[w], id) /\ QueuedAt(workers[v], id) => w = v
       /\ \A w \in Workers : \A i \in 1..Len(workers[w].queue) :
             workers[w].queue[i].id = id =>
                Served(workers[w], i, log[id].status, history.applied[id], history.undone[id])
       /\ (\A w \in Workers : ~ QueuedAt(workers[w], id)) =>
             Settled(log[id].status, history.applied[id], history.undone[id])

LogInv ==
    /\ Shapes
    /\ \A w \in Workers : workers[w] = Idle \/ Serves(workers[w], Rows)
    /\ \A id \in Rows : RowTrue(id)

----------------------------------------------------------------------------
(* A row a step leaves alone.                                              *)
Same(k) ==
    /\ log'[k] = log[k]
    /\ history'.applied[k] = history.applied[k] /\ history'.undone[k] = history.undone[k]

Others(w) == \A v \in Workers : v # w => workers'[v] = workers[v]

LEMMA QueueOf ==
    ASSUME Shapes, NEW w \in Workers, Serves(workers[w], Rows)
    PROVE  LET q == workers[w].queue IN
           /\ IsSeq(q) /\ Len(q) \in Nat /\ Len(q) >= 1 /\ q # <<>>
           /\ Row(w).id = q[1].id /\ Row(w).id \in Rows
<1> DEFINE q == workers[w].queue
<1>1. IsSeq(q) /\ Len(q) >= 1 /\ q[1].id \in Rows /\ Len(q) \in Nat
  <2>1. IsSeq(q) /\ Len(q) >= 1
    BY DEF Shapes, WorkerShape, Serves
  <2>2. Len(q) \in Nat
    BY <2>1, SeqFacts
  <2> QED
    BY <2>1, <2>2 DEF Serves
<1>2. q # <<>>
  BY <1>1
<1>3. Head(q) = q[1]
  BY <1>1, <1>2, SeqTail
<1> QED
  BY <1>1, <1>2, <1>3 DEF Row

(* A step of the worker on the row it is at.                               *)
LEMMA StepOn ==
    ASSUME LogInv, NEW w \in Workers, Serves(workers[w], Rows), Shapes', Others(w), Rows' = Rows,
           workers'[w].queue = workers[w].queue, workers'[w].op = workers[w].op,
           PcFits(workers'[w]), history.disturbed \subseteq history'.disturbed,
           \A k \in Rows : k # Row(w).id => Same(k),
           LET id == Row(w).id IN
           /\ id \notin history'.disturbed
           /\ Served(workers[w], 1, log[id].status, history.applied[id], history.undone[id])
           => Served(workers'[w], 1, log'[id].status, history'.applied[id], history'.undone[id])
    PROVE  LogInv'
<1> DEFINE x == workers[w]
           y == workers'[w]
           h == Row(w).id
<1>1. /\ IsSeq(x.queue) /\ Len(x.queue) \in Nat /\ Len(x.queue) >= 1
      /\ h = x.queue[1].id
  BY QueueOf DEF LogInv
<1>2. Serves(y, Rows')
  BY DEF Serves
<1>3. \A v \in Workers : workers'[v] = Idle \/ Serves(workers'[v], Rows')
  BY <1>2 DEF LogInv, Others
<1>4. \A v \in Workers : workers'[v].queue = workers[v].queue
  BY DEF Others
<1>5. ASSUME NEW id \in Rows PROVE RowTrue(id)'
  <2>1. SUFFICES ASSUME id \notin history'.disturbed, id \notin history.disturbed
                 PROVE  RowTrue(id)'
    BY DEF RowTrue
  <2>2. /\ \A u, v \in Workers : QueuedAt(workers[u], id) /\ QueuedAt(workers[v], id) => u = v
        /\ \A v \in Workers : \A i \in 1..Len(workers[v].queue) :
              workers[v].queue[i].id = id =>
                 Served(workers[v], i, log[id].status, history.applied[id], history.undone[id])
        /\ (\A v \in Workers : ~ QueuedAt(workers[v], id)) =>
              Settled(log[id].status, history.applied[id], history.undone[id])
    BY <2>1 DEF LogInv, RowTrue
  <2>3. \A v \in Workers : QueuedAt(workers'[v], id) <=> QueuedAt(workers[v], id)
    BY <1>4 DEF QueuedAt
  <2>4. QueuedAt(x, h)
    BY <1>1 DEF QueuedAt
  <2>5. ASSUME NEW v \in Workers, NEW i \in 1..Len(workers'[v].queue), workers'[v].queue[i].id = id
        PROVE  Served(workers'[v], i, log'[id].status, history'.applied[id], history'.undone[id])
    <3>1. /\ i \in 1..Len(workers[v].queue) /\ workers[v].queue[i].id = id
          /\ Served(workers[v], i, log[id].status, history.applied[id], history.undone[id])
      BY <1>4, <2>2, <2>5
    <3>2. CASE v # w
      <4>1. id # h
        BY <2>2, <2>4, <3>1, <3>2 DEF QueuedAt
      <4>2. workers'[v] = workers[v] /\ Same(id)
        BY <3>2, <4>1 DEF Others
      <4> QED
        BY <3>1, <4>2 DEF Same
    <3>3. CASE v = w /\ i = 1
      <4>1. id = h
        BY <1>1, <3>1, <3>3
      <4> QED
        BY <2>1, <3>1, <3>3, <4>1
    <3>4. CASE v = w /\ i # 1
      <4>1. id # h
        BY <1>1, <3>1, <3>4 DEF Serves
      <4>2. Same(id)
        BY <4>1
      <4>3. y.op = x.op /\ ~ Took(x, i) /\ ~ Took(y, i)
        BY <3>4 DEF Took
      <4>4. Served(x, i, log'[id].status, history'.applied[id], history'.undone[id])
        BY <3>1, <3>4, <4>2 DEF Same
      <4> QED
        BY <3>4, <4>3, <4>4 DEF Served
    <3> QED
      BY <3>2, <3>3, <3>4
  <2>6. ASSUME \A v \in Workers : ~ QueuedAt(workers'[v], id)
        PROVE  Settled(log'[id].status, history'.applied[id], history'.undone[id])
    <3>1. Settled(log[id].status, history.applied[id], history.undone[id]) /\ id # h
      BY <2>2, <2>3, <2>4, <2>6
    <3> QED
      BY <3>1 DEF Same
  <2> QED
    BY <2>2, <2>3, <2>5, <2>6 DEF RowTrue
<1> QED
  BY <1>3, <1>5 DEF LogInv

(* The worker goes on to its next row, or is done.                         *)
LEMMA AdvanceGives ==
    ASSUME Shapes, NEW w \in Workers, Serves(workers[w], Rows), AfterAdvance(w)
    PROVE  LET x == workers[w]
               y == workers'[w]
           IN  /\ Others(w)
               /\ WorkerShape(y)
               /\ Len(y.queue) = Len(x.queue) - 1
               /\ \A i \in 1..Len(y.queue) : y.queue[i] = x.queue[i + 1]
               /\ y = Idle \/ (y.op = x.op /\ y.pc = First(x.op))
               /\ y = Idle \/ Serves(y, Rows)
<1> DEFINE x == workers[w]
           y == workers'[w]
<1>1. IsSeq(x.queue) /\ Len(x.queue) \in Nat /\ Len(x.queue) >= 1 /\ x.queue # <<>>
  BY QueueOf
<1>2. CASE Len(x.queue) = 1
  <2>1. y = Idle /\ Others(w)
    BY <1>2 DEF AfterAdvance, After, Idle, Others
  <2>2. WorkerShape(Idle) /\ Len(Idle.queue) = 0
    <3>1. IsSeq(<<>>) /\ Len(<<>>) = 0
      BY EmptySeq DEF IsSeq
    <3> QED
      BY <3>1 DEF Idle, WorkerShape
  <2>3. Len(y.queue) = Len(x.queue) - 1
    BY <2>1, <2>2, <1>2
  <2>4. 1..Len(y.queue) = {}
    BY <2>1, <2>2
  <2> QED
    BY <2>1, <2>2, <2>3, <2>4
<1>3. CASE Len(x.queue) # 1
  <2> DEFINE q == Tail(x.queue)
  <2>1. /\ IsSeq(q) /\ Len(q) = Len(x.queue) - 1
        /\ \A i \in 1..Len(x.queue) - 1 : q[i] = x.queue[i + 1]
    BY <1>1, SeqTail
  <2> HIDE DEF q
  <2>2. y = [pc |-> First(x.op), op |-> x.op, queue |-> q, seen |-> Empty, undo |-> NoUndo,
             snap |-> {}] /\ Others(w)
    BY <1>3 DEF AfterAdvance, After, Others, q
  <2>3. WorkerShape(y) /\ y.queue = q /\ y.op = x.op /\ y.pc = First(x.op)
    BY <2>1, <2>2 DEF WorkerShape
  <2>4. PcFits(y)
    BY <2>3 DEF PcFits, First, Serves
  <2>5. Len(q) >= 1
    <3> DEFINE n == Len(x.queue)
    <3>1. n \in Nat /\ n # 1 /\ n >= 1 /\ Len(q) = n - 1
      BY <1>1, <1>3, <2>1
    <3> HIDE DEF n
    <3> QED
      BY <3>1
  <2>6. \A i \in 1..Len(q) : q[i] = x.queue[i + 1] /\ i + 1 \in 1..Len(x.queue)
    BY <1>1, <2>1
  <2>7. \A i \in 1..Len(q) : q[i].id \in Rows
    BY <2>6 DEF Serves
  <2>8. \A i, j \in 1..Len(q) : q[i].id = q[j].id => i = j
    <3> SUFFICES ASSUME NEW i \in 1..Len(q), NEW j \in 1..Len(q), q[i].id = q[j].id
                 PROVE  i = j
      OBVIOUS
    <3>1. i + 1 = j + 1
      BY <2>6 DEF Serves
    <3> QED
      BY <3>1
  <2>9. Serves(y, Rows)
    BY <2>3, <2>4, <2>5, <2>7, <2>8 DEF Serves
  <2> QED
    BY <2>1, <2>2, <2>3, <2>6, <2>9
<1> QED
  BY <1>2, <1>3

LEMMA StepOff ==
    ASSUME LogInv, NEW w \in Workers, Serves(workers[w], Rows), Shapes', AfterAdvance(w),
           Rows' = Rows, history.disturbed \subseteq history'.disturbed,
           \A k \in Rows : k # Row(w).id => Same(k),
           LET id == Row(w).id IN
           /\ id \notin history'.disturbed
           /\ Served(workers[w], 1, log[id].status, history.applied[id], history.undone[id])
           => Settled(log'[id].status, history'.applied[id], history'.undone[id])
    PROVE  LogInv'
<1> DEFINE x == workers[w]
           y == workers'[w]
           h == Row(w).id
<1>1. /\ IsSeq(x.queue) /\ Len(x.queue) \in Nat /\ Len(x.queue) >= 1
      /\ h = x.queue[1].id
  BY QueueOf DEF LogInv
<1>2. /\ Others(w)
      /\ Len(y.queue) = Len(x.queue) - 1
      /\ \A i \in 1..Len(y.queue) : y.queue[i] = x.queue[i + 1] /\ i + 1 \in 1..Len(x.queue)
      /\ y = Idle \/ (y.op = x.op /\ y.pc = First(x.op))
      /\ y = Idle \/ Serves(y, Rows)
  BY <1>1, AdvanceGives DEF LogInv
<1>3. \A v \in Workers : workers'[v] = Idle \/ Serves(workers'[v], Rows')
  BY <1>2 DEF LogInv, Others
<1>4. ASSUME NEW id \in Rows PROVE RowTrue(id)'
  <2>1. SUFFICES ASSUME id \notin history'.disturbed, id \notin history.disturbed
                 PROVE  RowTrue(id)'
    BY DEF RowTrue
  <2>2. /\ \A u, v \in Workers : QueuedAt(workers[u], id) /\ QueuedAt(workers[v], id) => u = v
        /\ \A v \in Workers : \A i \in 1..Len(workers[v].queue) :
              workers[v].queue[i].id = id =>
                 Served(workers[v], i, log[id].status, history.applied[id], history.undone[id])
        /\ (\A v \in Workers : ~ QueuedAt(workers[v], id)) =>
              Settled(log[id].status, history.applied[id], history.undone[id])
    BY <2>1 DEF LogInv, RowTrue
  <2>3. \A v \in Workers : QueuedAt(workers'[v], id) => QueuedAt(workers[v], id)
    <3> SUFFICES ASSUME NEW v \in Workers, QueuedAt(workers'[v], id)
                 PROVE  QueuedAt(workers[v], id)
      OBVIOUS
    <3>1. CASE v # w
      BY <3>1, <1>2 DEF Others
    <3>2. CASE v = w
      BY <3>2, <1>2 DEF QueuedAt
    <3> QED
      BY <3>1, <3>2
  <2>4. QueuedAt(x, h)
    BY <1>1 DEF QueuedAt
  <2>5. ASSUME NEW v \in Workers, NEW i \in 1..Len(workers'[v].queue), workers'[v].queue[i].id = id
        PROVE  Served(workers'[v], i, log'[id].status, history'.applied[id], history'.undone[id])
    <3>1. CASE v # w
      <4>1. workers'[v] = workers[v]
        BY <1>2, <3>1 DEF Others
      <4>2. QueuedAt(workers[v], id)
        BY <2>5, <4>1 DEF QueuedAt
      <4>3. id # h
        BY <2>2, <2>4, <3>1, <4>2
      <4>4. Same(id)
        BY <4>3
      <4> QED
        BY <2>2, <2>5, <4>1, <4>4 DEF Same
    <3>2. CASE v = w
      <4>1. i + 1 \in 1..Len(x.queue) /\ x.queue[i + 1].id = id /\ i \in Nat /\ i >= 1
        <5>1. i \in 1..Len(y.queue) /\ y.queue[i].id = id
          BY <2>5, <3>2
        <5>2. i + 1 \in 1..Len(x.queue) /\ y.queue[i] = x.queue[i + 1]
          BY <1>2, <5>1
        <5> QED
          BY <5>1, <5>2
      <4>2. id # h
        BY <1>1, <4>1 DEF Serves
      <4>3. Same(id)
        BY <4>2
      <4>4. Served(x, i + 1, log[id].status, history.applied[id], history.undone[id])
        BY <2>2, <4>1
      <4>5. Served(x, i + 1, log'[id].status, history'.applied[id], history'.undone[id])
        BY <4>3, <4>4 DEF Same
      <4>6. y # Idle
        <5>1. Len(y.queue) # 0
          BY <2>5, <3>2
        <5> QED
          BY <5>1, EmptySeq DEF Idle
      <4>7. y.op = x.op /\ ~ Took(x, i + 1) /\ ~ Took(y, i) /\ i + 1 > 1
        <5>1. y.op = x.op /\ y.pc = First(x.op) /\ x.op \in {"execute", "undo", "reject"}
          BY <1>2, <4>6 DEF Serves, PcFits
        <5> QED
          BY <4>1, <5>1 DEF Took, First
      <4> HIDE DEF x, y
      <4>8. Served(y, i, log'[id].status, history'.applied[id], history'.undone[id])
        BY <4>5, <4>7 DEF Served
      <4> QED
        BY <3>2, <4>8 DEF y
    <3> QED
      BY <3>1, <3>2
  <2>6. ASSUME \A v \in Workers : ~ QueuedAt(workers'[v], id)
        PROVE  Settled(log'[id].status, history'.applied[id], history'.undone[id])
    <3>1. CASE id = h
      <4>1. Served(x, 1, log[id].status, history.applied[id], history.undone[id])
        BY <1>1, <2>2, <3>1
      <4> QED
        BY <2>1, <3>1, <4>1
    <3>2. CASE id # h
      <4>1. ~ QueuedAt(x, id)
        <5> SUFFICES ASSUME NEW i \in 1..Len(x.queue), x.queue[i].id = id PROVE FALSE
          BY DEF QueuedAt
        <5>1. i - 1 \in 1..Len(y.queue) /\ y.queue[i - 1] = x.queue[(i - 1) + 1] /\ (i - 1) + 1 = i
          BY <1>1, <1>2, <3>2
        <5> QED
          BY <2>6, <5>1 DEF QueuedAt
      <4>2. \A v \in Workers : ~ QueuedAt(workers[v], id)
        BY <1>2, <2>6, <4>1 DEF Others
      <4> QED
        BY <2>2, <3>2, <4>2 DEF Same
    <3> QED
      BY <3>1, <3>2
  <2>7. \A u, v \in Workers : QueuedAt(workers'[u], id) /\ QueuedAt(workers'[v], id) => u = v
    BY <2>2, <2>3
  <2> QED
    BY <2>5, <2>6, <2>7 DEF RowTrue
<1> QED
  BY <1>3, <1>4 DEF LogInv

(* A request stops.                                                        *)
LEMMA StepStop ==
    ASSUME LogInv, NEW w \in Workers, Serves(workers[w], Rows), Shapes', Others(w),
           workers'[w] = Idle, Rows' = Rows,
           history'.disturbed = history.disturbed \cup {Row(w).id},
           \A k \in Rows : Same(k)
    PROVE  LogInv'
<1> DEFINE x == workers[w]
           h == Row(w).id
<1>1. h = x.queue[1].id /\ Len(x.queue) \in Nat
  BY QueueOf DEF LogInv
<1>2. \A v \in Workers : workers'[v] = Idle \/ Serves(workers'[v], Rows')
  BY DEF LogInv, Others
<1>3. \A id : ~ QueuedAt(Idle, id)
  BY EmptySeq DEF Idle, QueuedAt
<1>4. ASSUME NEW id \in Rows PROVE RowTrue(id)'
  <2>1. SUFFICES ASSUME id \notin history.disturbed, id # h
                 PROVE  RowTrue(id)'
    BY DEF RowTrue
  <2>2. /\ \A u, v \in Workers : QueuedAt(workers[u], id) /\ QueuedAt(workers[v], id) => u = v
        /\ \A v \in Workers : \A i \in 1..Len(workers[v].queue) :
              workers[v].queue[i].id = id =>
                 Served(workers[v], i, log[id].status, history.applied[id], history.undone[id])
        /\ (\A v \in Workers : ~ QueuedAt(workers[v], id)) =>
              Settled(log[id].status, history.applied[id], history.undone[id])
    BY <2>1 DEF LogInv, RowTrue
  <2>3. /\ log'[id] = log[id] /\ history'.applied[id] = history.applied[id]
        /\ history'.undone[id] = history.undone[id]
    BY DEF Same
  <2>4. \A v \in Workers : QueuedAt(workers'[v], id) => v # w /\ workers'[v] = workers[v]
    BY <1>3 DEF Others
  <2>5. ASSUME NEW v \in Workers, NEW i \in 1..Len(workers'[v].queue), workers'[v].queue[i].id = id
        PROVE  Served(workers'[v], i, log'[id].status, history'.applied[id], history'.undone[id])
    <3>1. workers'[v] = workers[v]
      BY <2>4, <2>5 DEF QueuedAt
    <3> QED
      BY <2>2, <2>3, <2>5, <3>1
  <2>6. ASSUME \A v \in Workers : ~ QueuedAt(workers'[v], id)
        PROVE  Settled(log'[id].status, history'.applied[id], history'.undone[id])
    <3>1. CASE QueuedAt(x, id)
      <4>1. PICK i \in 1..Len(x.queue) : x.queue[i].id = id
        BY <3>1 DEF QueuedAt
      <4>2. Served(x, i, log[id].status, history.applied[id], history.undone[id])
        BY <2>2, <4>1
      <4>3. i # 1 /\ i > 1 /\ ~ Took(x, i)
        BY <1>1, <2>1, <4>1 DEF Took
      <4> HIDE DEF x
      <4> QED
        BY <2>3, <4>2, <4>3 DEF Served, Settled
    <3>2. CASE ~ QueuedAt(x, id)
      <4>1. \A v \in Workers : ~ QueuedAt(workers[v], id)
        BY <2>6, <3>2 DEF Others
      <4> QED
        BY <2>2, <2>3, <4>1
    <3> QED
      BY <3>1, <3>2
  <2>7. \A u, v \in Workers : QueuedAt(workers'[u], id) /\ QueuedAt(workers'[v], id) => u = v
    BY <2>2, <2>4
  <2> QED
    BY <2>5, <2>6, <2>7 DEF RowTrue
<1> QED
  BY <1>2, <1>4 DEF LogInv

LEMMA IdleQueue == \A id : ~ QueuedAt(Idle, id)
BY EmptySeq DEF Idle, QueuedAt

(* A row in a queue is a row some busy worker has.                         *)
LEMMA BusyQueue ==
    ASSUME LogInv, NEW v \in Workers, NEW id, QueuedAt(workers[v], id)
    PROVE  v \in Busy /\ id \in Queued(v) /\ id \in Rows
<1>1. Serves(workers[v], Rows)
  BY IdleQueue DEF LogInv
<1>2. workers[v].pc # "idle"
  BY <1>1 DEF Serves, PcFits
<1>3. DOMAIN workers[v].queue = 1..Len(workers[v].queue)
  BY SeqFacts DEF LogInv, Shapes, WorkerShape
<1> QED
  BY <1>1, <1>2, <1>3 DEF Busy, Queued, QueuedAt, Serves

(* An idle worker takes up rows.                                           *)
LEMMA StepTake ==
    ASSUME LogInv, NEW w \in Workers, workers[w] = Idle, Shapes', Others(w),
           NEW op \in {"execute", "undo", "reject"}, NEW ids, NEW S,
           S = Range(ids), S \subseteq Rows, IsSeq(ids), ids # <<>>,
           \A i, j \in DOMAIN ids : ids[i] = ids[j] => i = j,
           \A id \in S : log[id].status = IF op = "undo" THEN "applied" ELSE "proposed",
           workers'[w].op = op, workers'[w].pc = First(op),
           Len(workers'[w].queue) = Len(ids),
           \A i \in 1..Len(ids) : workers'[w].queue[i].id = ids[i],
           log' = log,
           history'.applied = history.applied, history'.undone = history.undone,
           history.disturbed \cup {id \in S : \E v \in Busy : id \in Queued(v)}
               \subseteq history'.disturbed
    PROVE  LogInv'
<1> DEFINE y == workers'[w]
<1>1. IsSeq(ids) /\ Len(ids) \in Nat /\ DOMAIN ids = 1..Len(ids)
  BY SeqFacts
<1>2. Len(ids) >= 1
  <2>1. Len(ids) # 0
    BY <1>1, EmptySeq DEF IsSeq
  <2> QED
    BY <1>1, <2>1
<1>3. \A id : QueuedAt(y, id) <=> id \in S
  <2>1. \A id : id \in S <=> \E i \in 1..Len(ids) : ids[i] = id
    BY <1>1 DEF Range
  <2> QED
    BY <2>1 DEF QueuedAt
<1>4. Rows' = Rows
  BY DEF Rows
<1>5. Serves(y, Rows)
  <2>1. PcFits(y)
    BY DEF PcFits, First
  <2>2. \A i \in 1..Len(ids) : ids[i] \in Rows
    BY <1>1 DEF Range
  <2>3. \A i, j \in 1..Len(ids) : ids[i] = ids[j] => i = j
    BY <1>1
  <2> QED
    BY <1>2, <2>1, <2>2, <2>3 DEF Serves
<1>6. \A v \in Workers : workers'[v] = Idle \/ Serves(workers'[v], Rows')
  BY <1>4, <1>5 DEF LogInv, Others
<1>7. ASSUME NEW id \in Rows PROVE RowTrue(id)'
  <2>1. SUFFICES ASSUME id \notin history'.disturbed
                 PROVE  RowTrue(id)'
    BY DEF RowTrue
  <2>2. id \notin history.disturbed
    BY <2>1
  <2>3. /\ \A u, v \in Workers : QueuedAt(workers[u], id) /\ QueuedAt(workers[v], id) => u = v
        /\ \A v \in Workers : \A i \in 1..Len(workers[v].queue) :
              workers[v].queue[i].id = id =>
                 Served(workers[v], i, log[id].status, history.applied[id], history.undone[id])
        /\ (\A v \in Workers : ~ QueuedAt(workers[v], id)) =>
              Settled(log[id].status, history.applied[id], history.undone[id])
    BY <2>2 DEF LogInv, RowTrue
  <2>4. id \in S => \A v \in Workers : ~ QueuedAt(workers[v], id)
    BY <2>1, BusyQueue
  <2>5. CASE id \in S
    <3>1. \A v \in Workers : v # w => ~ QueuedAt(workers'[v], id)
      BY <2>4, <2>5 DEF Others
    <3>2. Settled(log[id].status, history.applied[id], history.undone[id])
      BY <2>3, <2>4, <2>5
    <3>3. ASSUME NEW v \in Workers, NEW i \in 1..Len(workers'[v].queue), workers'[v].queue[i].id = id
          PROVE  Served(workers'[v], i, log'[id].status, history'.applied[id], history'.undone[id])
      <4>1. v = w
        BY <3>1, <3>3 DEF QueuedAt
      <4>2. ~ Took(y, i)
        BY DEF Took, First
      <4>3. log[id].status = IF op = "undo" THEN "applied" ELSE "proposed"
        BY <2>5
      <4> HIDE DEF y
      <4>4. Served(y, i, log[id].status, history.applied[id], history.undone[id])
        <5>1. y.op = op
          BY DEF y
        <5> QED
          BY <3>2, <4>2, <4>3, <5>1 DEF Served, Settled
      <4> QED
        BY <4>1, <4>4 DEF y
    <3>4. QueuedAt(workers'[w], id)
      BY <1>3, <2>5
    <3>5. \A u, v \in Workers : QueuedAt(workers'[u], id) /\ QueuedAt(workers'[v], id) => u = v
      BY <3>1
    <3>6. ~ (\A v \in Workers : ~ QueuedAt(workers'[v], id))
      BY <3>4
    <3> QED
      BY <3>3, <3>5, <3>6 DEF RowTrue
  <2>6. CASE id \notin S
    <3>1. \A v \in Workers : QueuedAt(workers'[v], id) => v # w /\ workers'[v] = workers[v]
      BY <1>3, <2>6 DEF Others
    <3>2. \A v \in Workers : QueuedAt(workers[v], id) => v # w /\ workers'[v] = workers[v]
      BY IdleQueue DEF Others
    <3>3. ASSUME NEW v \in Workers, NEW i \in 1..Len(workers'[v].queue), workers'[v].queue[i].id = id
          PROVE  Served(workers'[v], i, log'[id].status, history'.applied[id], history'.undone[id])
      <4>1. workers'[v] = workers[v]
        BY <3>1, <3>3 DEF QueuedAt
      <4> QED
        BY <2>3, <3>3, <4>1
    <3>4. (\A v \in Workers : ~ QueuedAt(workers'[v], id)) =>
             Settled(log'[id].status, history'.applied[id], history'.undone[id])
      BY <2>3, <3>2
    <3>5. \A u, v \in Workers : QueuedAt(workers'[u], id) /\ QueuedAt(workers'[v], id) => u = v
      BY <2>3, <3>1
    <3> QED
      BY <3>3, <3>4, <3>5 DEF RowTrue
  <2> QED
    BY <2>5, <2>6
<1> QED
  BY <1>4, <1>6, <1>7 DEF LogInv

(* A new row, at the end of the log, which nobody has yet, or the worker   *)
(* that logged it.                                                         *)
LEMMA StepLogged ==
    ASSUME LogInv, NEW w \in Workers, workers[w] = Idle, Shapes', Others(w),
           NEW n, n = Len(log) + 1, Rows' = Rows \cup {n},
           \A k \in Rows : Same(k), history.disturbed \subseteq history'.disturbed,
           history'.applied[n] = 0, history'.undone[n] = 0,
           \/ workers'[w] = Idle /\ log'[n].status = "proposed"
           \/ /\ workers'[w].op = "execute" /\ workers'[w].pc = "read"
              /\ Len(workers'[w].queue) = 1 /\ workers'[w].queue[1].id = n
    PROVE  LogInv'
<1>1. n \notin Rows
  BY RowsAre DEF LogInv, Shapes
<1>2. \A v \in Workers : ~ QueuedAt(workers[v], n)
  BY <1>1, BusyQueue
<1>3. workers'[w] = Idle \/ Serves(workers'[w], Rows')
  BY DEF Serves, PcFits
<1>4. \A v \in Workers : workers'[v] = Idle \/ Serves(workers'[v], Rows')
  <2> SUFFICES ASSUME NEW v \in Workers PROVE workers'[v] = Idle \/ Serves(workers'[v], Rows')
    OBVIOUS
  <2>1. CASE v = w
    BY <1>3, <2>1
  <2>2. CASE v # w
    BY <2>2 DEF LogInv, Others, Serves
  <2> QED
    BY <2>1, <2>2
<1>5. \A id : QueuedAt(workers'[w], id) => id = n
  <2>1. CASE workers'[w] = Idle
    BY <2>1, IdleQueue
  <2>2. CASE Len(workers'[w].queue) = 1 /\ workers'[w].queue[1].id = n
    <3> DEFINE q == workers'[w].queue
    <3>1. \A i \in 1..Len(q) : i = 1
      BY <2>2
    <3> QED
      BY <2>2, <3>1 DEF QueuedAt
  <2> QED
    BY <2>1, <2>2
<1>6. ASSUME NEW id \in Rows PROVE RowTrue(id)'
  <2>1. SUFFICES ASSUME id \notin history.disturbed
                 PROVE  RowTrue(id)'
    BY DEF RowTrue
  <2>2. /\ \A u, v \in Workers : QueuedAt(workers[u], id) /\ QueuedAt(workers[v], id) => u = v
        /\ \A v \in Workers : \A i \in 1..Len(workers[v].queue) :
              workers[v].queue[i].id = id =>
                 Served(workers[v], i, log[id].status, history.applied[id], history.undone[id])
        /\ (\A v \in Workers : ~ QueuedAt(workers[v], id)) =>
              Settled(log[id].status, history.applied[id], history.undone[id])
    BY <2>1 DEF LogInv, RowTrue
  <2>3. /\ log'[id] = log[id] /\ history'.applied[id] = history.applied[id]
        /\ history'.undone[id] = history.undone[id]
    BY DEF Same
  <2>4. \A v \in Workers : QueuedAt(workers'[v], id) => v # w /\ workers'[v] = workers[v]
    BY <1>1, <1>5 DEF Others
  <2>5. \A v \in Workers : QueuedAt(workers[v], id) => v # w /\ workers'[v] = workers[v]
    BY IdleQueue DEF Others
  <2>6. ASSUME NEW v \in Workers, NEW i \in 1..Len(workers'[v].queue), workers'[v].queue[i].id = id
        PROVE  Served(workers'[v], i, log'[id].status, history'.applied[id], history'.undone[id])
    <3>1. workers'[v] = workers[v]
      BY <2>4, <2>6 DEF QueuedAt
    <3> QED
      BY <2>2, <2>3, <2>6, <3>1
  <2>7. (\A v \in Workers : ~ QueuedAt(workers'[v], id)) =>
           Settled(log'[id].status, history'.applied[id], history'.undone[id])
    BY <2>2, <2>3, <2>5
  <2>8. \A u, v \in Workers : QueuedAt(workers'[u], id) /\ QueuedAt(workers'[v], id) => u = v
    BY <2>2, <2>4
  <2> QED
    BY <2>6, <2>7, <2>8 DEF RowTrue
<1>7. RowTrue(n)'
  <2>1. \A v \in Workers : QueuedAt(workers'[v], n) => v = w
    BY <1>2 DEF Others
  <2>2. ASSUME NEW v \in Workers, NEW i \in 1..Len(workers'[v].queue), workers'[v].queue[i].id = n
        PROVE  Served(workers'[v], i, log'[n].status, history'.applied[n], history'.undone[n])
    <3>1. v = w /\ QueuedAt(workers'[w], n)
      BY <2>1, <2>2 DEF QueuedAt
    <3>2. workers'[w].op = "execute" /\ workers'[w].pc = "read" /\ i = 1
      BY <2>2, <3>1, IdleQueue
    <3> QED
      BY <3>1, <3>2 DEF Served, Took
  <2>3. (\A v \in Workers : ~ QueuedAt(workers'[v], n)) =>
           Settled(log'[n].status, history'.applied[n], history'.undone[n])
    <3>1. CASE workers'[w] = Idle /\ log'[n].status = "proposed"
      BY <3>1 DEF Settled
    <3>2. CASE Len(workers'[w].queue) = 1 /\ workers'[w].queue[1].id = n
      BY <3>2 DEF QueuedAt
    <3> QED
      BY <3>1, <3>2
  <2> QED
    BY <2>1, <2>2, <2>3 DEF RowTrue
<1> QED
  BY <1>4, <1>6, <1>7 DEF LogInv

WorkersShape ==
    /\ workers = [w \in Workers |-> workers[w]]
    /\ \A w \in Workers : WorkerShape(workers[w])
LogShape == IsSeq(log) /\ \A id \in Rows : RowShape(log[id])

LEMMA ShapesAre == Shapes <=> WorkersShape /\ LogShape /\ HistoryShape
BY DEF Shapes, WorkersShape, LogShape

LEMMA ShapesNext ==
    ASSUME WorkersShape', LogShape', HistoryShape'
    PROVE  Shapes'
BY DEF Shapes, WorkersShape, LogShape

LEMMA WorkersNext ==
    ASSUME Shapes, NEW w \in Workers, NEW pc, NEW op, NEW queue, NEW seen, NEW undo, NEW snap,
           After(w, pc, op, queue, seen, undo, snap), IsSeq(queue)
    PROVE  WorkersShape'
<1>1. WorkerShape(workers'[w])
  BY DEF After, WorkerShape
<1>2. \A v \in Workers : WorkerShape(workers'[v])
  BY <1>1 DEF After, Shapes
<1> QED
  BY <1>2 DEF After, WorkersShape

LEMMA WorkersAdvance ==
    ASSUME Shapes, NEW w \in Workers, Serves(workers[w], Rows), AfterAdvance(w)
    PROVE  WorkersShape'
<1>1. \A v \in Workers : WorkerShape(workers'[v])
  BY AdvanceGives DEF Shapes, Others
<1>2. workers' = [v \in Workers |-> workers'[v]]
  BY DEF AfterAdvance, After
<1> QED
  BY <1>1, <1>2 DEF WorkersShape

LEMMA LogNext ==
    ASSUME Shapes, NEW id \in Rows, NEW s \in Statuses, NEW u, LogIs(id, s, u), script' = script
    PROVE  LogShape' /\ Rows' = Rows /\ log'[id].status = s /\ \A k \in Rows : k # id => log'[k] = log[k]
<1>1. Rows' = Rows
  <2>1. Rows = 1..Len(log)
    BY RowsAre DEF Shapes
  <2>2. Rows' = 1..Len(log')
    BY SeqFacts DEF Rows, LogIs
  <2> QED
    BY <2>1, <2>2 DEF LogIs
<1>2. ASSUME NEW k \in Rows PROVE RowShape(log[k])'
  <2>1. CASE k = id
    <3> DEFINE q == log[id].request
               r == log'[k]
    <3>1. q \in Requests
      BY DEF Shapes, RowShape
    <3>2. r = [request |-> q, status |-> s, undo |-> u]
      BY <2>1 DEF LogIs
    <3> HIDE DEF q, r
    <3>3. r.request = q /\ r.status = s /\ r.undo = u
      BY <3>2
    <3>4. r = [request |-> r.request, status |-> r.status, undo |-> r.undo]
      BY <3>2, <3>3
    <3> QED
      BY <3>1, <3>3, <3>4 DEF RowShape, Requests, r
  <2>2. CASE k # id
    BY <2>2 DEF LogIs, RowShape, Shapes, Requests
  <2> QED
    BY <2>1, <2>2
<1> QED
  BY <1>1, <1>2 DEF LogShape, LogIs

LEMMA LogStays ==
    ASSUME Shapes, log' = log, script' = script
    PROVE  LogShape' /\ Rows' = Rows
BY DEF Shapes, LogShape, Rows, RowShape, Requests

LEMMA HistoryStays ==
    ASSUME Shapes, history' = history, Len(log') = Len(log), Rows' = Rows
    PROVE  HistoryShape'
BY DEF Shapes, HistoryShape, Counts

LEMMA HistoryNext ==
    ASSUME Shapes, NEW a, NEW u, NEW d, NEW o, NEW r, NEW f, NEW t, NEW l,
           HistoryIs(a, u, d, o, r, f, t, l), Counts(a), Counts(u),
           Len(log') = Len(log), Rows' = Rows
    PROVE  /\ HistoryShape'
           /\ history'.applied = a /\ history'.undone = u /\ history'.disturbed = d
           /\ history'.overlapped = o /\ history'.order = r /\ history'.outOfOrder = f
           /\ history'.torn = t /\ history'.last = l
<1>1. /\ history'.applied = a /\ history'.undone = u /\ history'.disturbed = d
      /\ history'.overlapped = o /\ history'.order = r /\ history'.outOfOrder = f
      /\ history'.torn = t /\ history'.last = l
  BY DEF HistoryIs
<1>2. HistoryShape'
  BY <1>1 DEF HistoryIs, HistoryShape, Counts
<1> QED
  BY <1>1, <1>2

LEMMA CountsAre ==
    ASSUME Shapes
    PROVE  Counts(history.applied) /\ Counts(history.undone)
BY DEF Shapes, HistoryShape

(* One more in the count of a row.                                         *)
LEMMA CountOne ==
    ASSUME Shapes, NEW s, Counts(s), NEW id \in Rows, NEW t, t = [k \in DOMAIN s |-> t[k]],
           \A k \in DOMAIN s : t[k] = IF k = id THEN s[k] + 1 ELSE s[k]
    PROVE  Counts(t) /\ t[id] = s[id] + 1 /\ \A k \in Rows : k # id => t[k] = s[k]
<1>1. IsSeq(s) /\ Len(s) = Len(log) /\ Len(log) \in Nat /\ Rows = 1..Len(log) /\ DOMAIN s = Rows
  BY SeqFacts, RowsAre DEF Counts, Shapes
<1>2. t[id] = s[id] + 1 /\ \A k \in Rows : k # id => t[k] = s[k]
  BY <1>1
<1>3. t = [i \in 1..Len(log) |-> t[i]]
  BY <1>1
<1>4. IsSeq(t) /\ Len(t) = Len(log)
  BY <1>1, <1>3, SeqMade
<1>5. \A k \in Rows : t[k] \in Nat
  BY <1>2 DEF Counts
<1> QED
  BY <1>2, <1>4, <1>5 DEF Counts

(* The two steps that change the curated state.                            *)
LEMMA WriteDoes ==
    ASSUME Shapes, NEW w \in Workers, Row(w).id \in Rows, Write(w)
    PROVE  LET id == Row(w).id
               x == workers[w]
               h == history
               r == Outcome(Action(id), x.seen, cur)
           IN  /\ cur' = r.cur
               /\ \/ /\ ~ r.ok /\ history' = history
                     /\ After(w, "fail", x.op, x.queue, Empty, r.undo, x.snap)
                  \/ /\ r.ok
                     /\ \E p \in {"load", "record"} :
                           /\ p = IF Refreshes(Action(id).kind) THEN "load" ELSE "record"
                           /\ After(w, p, x.op, x.queue, Empty, r.undo, x.snap)
                     /\ HistoryIs([h.applied EXCEPT ![id] = @ + 1], h.undone, h.disturbed,
                                  h.overlapped, Append(h.order, id), h.outOfOrder, h.torn,
                                  IF x.seen = cur THEN [row |-> id, before |-> cur] ELSE NoRow)
<1> DEFINE id == Row(w).id
           x == workers[w]
           r == Outcome(Action(id), x.seen, cur)
           p == IF ~ r.ok THEN "fail" ELSE IF Refreshes(Action(id).kind) THEN "load" ELSE "record"
           l == IF x.seen = cur THEN [row |-> id, before |-> cur] ELSE NoRow
<1>1. /\ workers' = [workers EXCEPT ![w].pc = p, ![w].undo = r.undo, ![w].seen = Empty]
      /\ cur' = r.cur
      /\ history' = IF ~ r.ok THEN history
                    ELSE [history EXCEPT !.applied[id] = @ + 1, !.order = Append(@, id), !.last = l]
  BY DEF Write
<1>2. WorkerShape(x) /\ id \in Rows
  BY DEF Shapes
<1> HIDE DEF id, r, p, l
<1>3. After(w, p, x.op, x.queue, Empty, r.undo, x.snap)
  <2> DEFINE y == [x EXCEPT !.pc = p]
             z == [y EXCEPT !.undo = r.undo]
  <2>1. workers' = [workers EXCEPT ![w] = [z EXCEPT !.seen = Empty]]
    BY <1>1 DEF Shapes
  <2> HIDE DEF x
  <2>2. y = [pc |-> p, op |-> x.op, queue |-> x.queue, seen |-> x.seen, undo |-> x.undo,
             snap |-> x.snap]
    BY <1>2 DEF WorkerShape
  <2> HIDE DEF y
  <2>3. z = [pc |-> p, op |-> x.op, queue |-> x.queue, seen |-> x.seen, undo |-> r.undo,
             snap |-> x.snap]
    BY <2>2
  <2> HIDE DEF z
  <2>4. [z EXCEPT !.seen = Empty] =
        [pc |-> p, op |-> x.op, queue |-> x.queue, seen |-> Empty, undo |-> r.undo,
         snap |-> x.snap]
    BY <2>3
  <2> QED
    BY <2>1, <2>4, WorkerBecomes
<1>4. r.ok => LET h == history IN
      HistoryIs([h.applied EXCEPT ![id] = @ + 1], h.undone, h.disturbed,
                h.overlapped, Append(h.order, id), h.outOfOrder, h.torn, l)
  <2> SUFFICES ASSUME r.ok
               PROVE  LET h == history IN
                      HistoryIs([h.applied EXCEPT ![id] = @ + 1], h.undone, h.disturbed,
                                h.overlapped, Append(h.order, id), h.outOfOrder, h.torn, l)
    OBVIOUS
  <2> DEFINE h == history
             a == [h.applied EXCEPT ![id] = @ + 1]
             o == Append(h.order, id)
             y == [h EXCEPT !.applied = a]
             z == [y EXCEPT !.order = o]
  <2>1. history' = [z EXCEPT !.last = l]
    BY <1>1 DEF Shapes, HistoryShape
  <2>2. h = [applied |-> h.applied, undone |-> h.undone, disturbed |-> h.disturbed,
             overlapped |-> h.overlapped, order |-> h.order, outOfOrder |-> h.outOfOrder,
             torn |-> h.torn, last |-> h.last]
    BY DEF Shapes, HistoryShape
  <2> HIDE DEF h, a, o
  <2>3. y = [applied |-> a, undone |-> h.undone, disturbed |-> h.disturbed,
             overlapped |-> h.overlapped, order |-> h.order, outOfOrder |-> h.outOfOrder,
             torn |-> h.torn, last |-> h.last]
    BY <2>2
  <2> HIDE DEF y
  <2>4. z = [applied |-> a, undone |-> h.undone, disturbed |-> h.disturbed,
             overlapped |-> h.overlapped, order |-> o, outOfOrder |-> h.outOfOrder,
             torn |-> h.torn, last |-> h.last]
    BY <2>3
  <2> HIDE DEF z
  <2>5. history' = [applied |-> a, undone |-> h.undone, disturbed |-> h.disturbed,
             overlapped |-> h.overlapped, order |-> o, outOfOrder |-> h.outOfOrder,
             torn |-> h.torn, last |-> l]
    BY <2>1, <2>4
  <2> QED
    BY <2>5 DEF HistoryIs, h, a, o
<1>5. CASE ~ r.ok
  <2>1. p = "fail" /\ history' = history
    BY <1>1, <1>5 DEF p
  <2> QED
    BY <1>1, <1>3, <1>5, <2>1 DEF r, id
<1>6. CASE r.ok
  <2>1. p \in {"load", "record"} /\ p = IF Refreshes(Action(id).kind) THEN "load" ELSE "record"
    BY <1>6 DEF p
  <2> QED
    BY <1>1, <1>3, <1>4, <1>6, <2>1 DEF r, id, l
<1> QED
  BY <1>5, <1>6

(* An executor that fails halfway.                                         *)
LEMMA BreakDoes ==
    ASSUME Shapes, NEW w \in Workers, WriteBreaks(w)
    PROVE  LET x == workers[w] IN After(w, "fail", x.op, x.queue, Empty, NoUndo, x.snap)
<1> DEFINE x == workers[w]
           y == [x EXCEPT !.pc = "fail"]
           z == [y EXCEPT !.undo = NoUndo]
<1>1. workers' = [workers EXCEPT ![w].pc = "fail", ![w].undo = NoUndo, ![w].seen = Empty]
  BY DEF WriteBreaks
<1>2. WorkerShape(x)
  BY DEF Shapes
<1>3. workers' = [workers EXCEPT ![w] = [z EXCEPT !.seen = Empty]]
  BY <1>1 DEF Shapes
<1> HIDE DEF x
<1>4. y = [pc |-> "fail", op |-> x.op, queue |-> x.queue, seen |-> x.seen, undo |-> x.undo,
           snap |-> x.snap]
  BY <1>2 DEF WorkerShape
<1> HIDE DEF y
<1>5. z = [pc |-> "fail", op |-> x.op, queue |-> x.queue, seen |-> x.seen, undo |-> NoUndo,
           snap |-> x.snap]
  BY <1>4
<1> HIDE DEF z
<1>6. [z EXCEPT !.seen = Empty] =
      [pc |-> "fail", op |-> x.op, queue |-> x.queue, seen |-> Empty, undo |-> NoUndo,
       snap |-> x.snap]
  BY <1>5
<1>7. After(w, "fail", x.op, x.queue, Empty, NoUndo, x.snap)
  BY <1>3, <1>6, WorkerBecomes
<1> QED
  BY <1>7 DEF x

LEMMA UndoWriteDoes ==
    ASSUME Shapes, NEW w \in Workers, Row(w).id \in Rows, UndoWrite(w)
    PROVE  LET id == Row(w).id
               x == workers[w]
               h == history
               r == ApplyUndo(Row(w).undo, x.seen, cur)
           IN  /\ cur' = r.cur
               /\ \/ /\ ~ r.ok /\ AfterAdvance(w)
                     /\ HistoryIs(h.applied, h.undone, h.disturbed, h.overlapped, h.order,
                                  h.outOfOrder \/ (cur' # cur /\ ~ Latest(id)),
                                  h.torn \/ cur' # cur, IF cur' = cur THEN h.last ELSE NoRow)
                  \/ /\ r.ok
                     /\ \E p \in {"load", "undone"} :
                           /\ p = IF UndoRefreshes(Row(w).undo, cur) THEN "load" ELSE "undone"
                           /\ After(w, p, x.op, x.queue, Empty, x.undo, x.snap)
                     /\ HistoryIs(h.applied, [h.undone EXCEPT ![id] = @ + 1], h.disturbed,
                                  h.overlapped, IF Latest(id) THEN Front(h.order) ELSE h.order,
                                  h.outOfOrder \/ ~ Latest(id), h.torn, NoRow)
<1> DEFINE id == Row(w).id
           x == workers[w]
           h == history
           r == ApplyUndo(Row(w).undo, x.seen, cur)
           L == Latest(id)
           p == IF UndoRefreshes(Row(w).undo, cur) THEN "load" ELSE "undone"
<1>1. /\ cur' = r.cur
      /\ IF r.ok
         THEN /\ workers' = [workers EXCEPT ![w].seen = Empty, ![w].pc = p]
              /\ history' = [history EXCEPT !.undone[id] = @ + 1, !.last = NoRow,
                       !.outOfOrder = @ \/ ~ L, !.order = IF L THEN Front(@) ELSE @]
         ELSE /\ Advance(w)
              /\ history' = [history EXCEPT !.last = IF cur' = cur THEN @ ELSE NoRow,
                       !.outOfOrder = @ \/ (cur' # cur /\ ~ L), !.torn = @ \/ cur' # cur]
  BY DEF UndoWrite
<1>2. /\ WorkerShape(x) /\ id \in Rows
      /\ h = [applied |-> h.applied, undone |-> h.undone, disturbed |-> h.disturbed,
              overlapped |-> h.overlapped, order |-> h.order, outOfOrder |-> h.outOfOrder,
              torn |-> h.torn, last |-> h.last]
  BY DEF Shapes, HistoryShape
<1> HIDE DEF id, r, p, L
<1>3. CASE ~ r.ok
  <2> DEFINE c == cur' # cur
             l == IF cur' = cur THEN h.last ELSE NoRow
             f == h.outOfOrder \/ (cur' # cur /\ ~ L)
             t == h.torn \/ c
             y == [h EXCEPT !.last = l]
             z == [y EXCEPT !.outOfOrder = f]
  <2>1. history' = [z EXCEPT !.torn = t]
    BY <1>1, <1>2, <1>3
  <2> HIDE DEF h, c, l, f, t
  <2>2. y = [applied |-> h.applied, undone |-> h.undone, disturbed |-> h.disturbed,
             overlapped |-> h.overlapped, order |-> h.order, outOfOrder |-> h.outOfOrder,
             torn |-> h.torn, last |-> l]
    BY <1>2
  <2> HIDE DEF y
  <2>3. z = [applied |-> h.applied, undone |-> h.undone, disturbed |-> h.disturbed,
             overlapped |-> h.overlapped, order |-> h.order, outOfOrder |-> f,
             torn |-> h.torn, last |-> l]
    BY <2>2
  <2> HIDE DEF z
  <2>4. history' = [applied |-> h.applied, undone |-> h.undone, disturbed |-> h.disturbed,
             overlapped |-> h.overlapped, order |-> h.order, outOfOrder |-> f,
             torn |-> t, last |-> l]
    BY <2>1, <2>3
  <2>5. AfterAdvance(w)
    BY <1>1, <1>3, AdvanceDoes
  <2> QED
    BY <1>1, <1>3, <2>4, <2>5 DEF HistoryIs, h, c, l, f, t, r, id, L
<1>4. CASE r.ok
  <2>1. After(w, p, x.op, x.queue, Empty, x.undo, x.snap)
    <3> DEFINE y == [x EXCEPT !.seen = Empty]
    <3>1. workers' = [workers EXCEPT ![w] = [y EXCEPT !.pc = p]]
      BY <1>1, <1>4 DEF Shapes
    <3> HIDE DEF x
    <3>2. y = [pc |-> x.pc, op |-> x.op, queue |-> x.queue, seen |-> Empty, undo |-> x.undo,
               snap |-> x.snap]
      BY <1>2 DEF WorkerShape
    <3> HIDE DEF y
    <3>3. [y EXCEPT !.pc = p] =
          [pc |-> p, op |-> x.op, queue |-> x.queue, seen |-> Empty, undo |-> x.undo,
           snap |-> x.snap]
      BY <3>2
    <3> QED
      BY <3>1, <3>3, WorkerBecomes
  <2> DEFINE u == [h.undone EXCEPT ![id] = @ + 1]
             f == h.outOfOrder \/ ~ L
             o == IF L THEN Front(h.order) ELSE h.order
             y == [h EXCEPT !.undone = u]
             z == [y EXCEPT !.last = NoRow]
             v == [z EXCEPT !.outOfOrder = f]
  <2>2. history' = [v EXCEPT !.order = o]
    BY <1>1, <1>2, <1>4
  <2> HIDE DEF h, u, f, o
  <2>3. y = [applied |-> h.applied, undone |-> u, disturbed |-> h.disturbed,
             overlapped |-> h.overlapped, order |-> h.order, outOfOrder |-> h.outOfOrder,
             torn |-> h.torn, last |-> h.last]
    BY <1>2
  <2> HIDE DEF y
  <2>4. z = [applied |-> h.applied, undone |-> u, disturbed |-> h.disturbed,
             overlapped |-> h.overlapped, order |-> h.order, outOfOrder |-> h.outOfOrder,
             torn |-> h.torn, last |-> NoRow]
    BY <2>3
  <2> HIDE DEF z
  <2>5. v = [applied |-> h.applied, undone |-> u, disturbed |-> h.disturbed,
             overlapped |-> h.overlapped, order |-> h.order, outOfOrder |-> f,
             torn |-> h.torn, last |-> NoRow]
    BY <2>4
  <2> HIDE DEF v
  <2>6. history' = [applied |-> h.applied, undone |-> u, disturbed |-> h.disturbed,
             overlapped |-> h.overlapped, order |-> o, outOfOrder |-> f,
             torn |-> h.torn, last |-> NoRow]
    BY <2>2, <2>5
  <2>7. p \in {"load", "undone"}
    BY DEF p
  <2> QED
    BY <1>1, <1>4, <2>1, <2>6, <2>7 DEF HistoryIs, h, u, f, o, r, p, id, L
<1> QED
  BY <1>3, <1>4

LEMMA BusyServes ==
    ASSUME LogInv, NEW w \in Workers, workers[w].pc # "idle"
    PROVE  Serves(workers[w], Rows)
BY DEF LogInv, Idle

LEMMA IdleIs ==
    ASSUME LogInv, NEW w \in Workers, w \notin Busy
    PROVE  workers[w] = Idle
BY DEF LogInv, Busy, Serves, PcFits

(* Steps that change neither the log nor what is counted: all that they    *)
(* note is whether the copy lags behind.                                   *)
Looks(w) ==
    Read(w) \/ UndoRead(w) \/ LoadSnapshot(w) \/ RefreshSnapshot(w) \/ RefreshFails(w)

LEMMA LooksNote ==
    ASSUME Shapes, NEW w \in Workers, Looks(w)
    PROVE  /\ log' = log /\ script' = script /\ cur' = cur
           /\ \E t : LET h == history IN
                     HistoryIs(h.applied, h.undone, h.disturbed, h.overlapped, h.order,
                               h.outOfOrder, t, h.last)
<1>1. log' = log /\ script' = script /\ cur' = cur
  BY DEF Looks, Read, UndoRead, LoadSnapshot, RefreshSnapshot, RefreshFails
<1>2. CASE Read(w) \/ UndoRead(w) \/ LoadSnapshot(w)
  <2>1. history' = history
    BY <1>2 DEF Read, UndoRead, LoadSnapshot
  <2> QED
    BY <1>1, <2>1, TornIs
<1>3. CASE RefreshSnapshot(w)
  <2>1. history' = [history EXCEPT !.torn = FALSE]
    BY <1>3 DEF RefreshSnapshot
  <2> QED
    BY <1>1, <2>1, TornIs
<1>4. CASE RefreshFails(w)
  <2>1. history' = [history EXCEPT !.torn = TRUE]
    BY <1>4 DEF RefreshFails
  <2> QED
    BY <1>1, <2>1, TornIs
<1> QED
  BY <1>2, <1>3, <1>4 DEF Looks

LEMMA LookKeeps ==
    ASSUME LogInv, NEW w \in Workers, workers[w].pc # "idle",
           NEW pc, NEW seen, NEW snap, NEW t,
           LET x == workers[w] IN
           /\ After(w, pc, x.op, x.queue, seen, x.undo, snap)
           /\ PcFits([x EXCEPT !.pc = pc])
           /\ pc \in {"load", "refresh", "record", "undone"} <=>
              x.pc \in {"load", "refresh", "record", "undone"},
           LET h == history IN
           HistoryIs(h.applied, h.undone, h.disturbed, h.overlapped, h.order, h.outOfOrder, t,
                     h.last),
           log' = log, script' = script
    PROVE  LogInv'
<1> DEFINE x == workers[w]
           y == workers'[w]
<1>1. Serves(x, Rows) /\ Shapes
  BY BusyServes DEF LogInv
<1>2. WorkerShape(x)
  BY <1>1 DEF Shapes
<1>3. WorkersShape'
  BY <1>1, <1>2, WorkersNext DEF WorkerShape
<1>4. LogShape' /\ Rows' = Rows
  BY <1>1, LogStays
<1>41. /\ HistoryShape'
       /\ history'.applied = history.applied /\ history'.undone = history.undone
       /\ history'.disturbed = history.disturbed
  BY <1>1, <1>4, HistoryNext, CountsAre
<1>5. Shapes'
  BY <1>3, <1>4, <1>41, ShapesNext
<1>6. Others(w) /\ y.queue = x.queue /\ y.op = x.op /\ y.pc = pc
  BY DEF After, Others
<1>7. PcFits(y)
  <2>1. [x EXCEPT !.pc = pc].pc = pc /\ [x EXCEPT !.pc = pc].op = x.op
    BY <1>2 DEF WorkerShape
  <2> HIDE DEF x
  <2>2. PcFits([x EXCEPT !.pc = pc])
    BY DEF x
  <2> QED
    BY <1>6, <2>1, <2>2 DEF PcFits
<1>8. \A s, a, u : Served(x, 1, s, a, u) => Served(y, 1, s, a, u)
  BY <1>6 DEF Served, Took
<1>9. \A k \in Rows : Same(k)
  BY <1>41 DEF Same
<1> QED
  BY <1>1, <1>4, <1>41, <1>5, <1>6, <1>7, <1>8, <1>9, StepOn

LEMMA LooksKeep ==
    ASSUME LogInv, NEW w \in Workers, Looks(w)
    PROVE  LogInv'
<1> DEFINE x == workers[w]
<1>1. Shapes /\ WorkerShape(x)
  BY DEF LogInv, Shapes
<1>2. x.pc # "idle"
  BY DEF Looks, Read, UndoRead, LoadSnapshot, RefreshSnapshot, RefreshFails
<1>3. Serves(x, Rows)
  BY <1>2, BusyServes
<1>4. PcFits(x)
  BY <1>3 DEF Serves
<1>5. \A pc : [x EXCEPT !.pc = pc].pc = pc /\ [x EXCEPT !.pc = pc].op = x.op
  BY <1>1 DEF WorkerShape
<1>6. PICK t : /\ log' = log /\ script' = script
               /\ LET h == history IN
                  HistoryIs(h.applied, h.undone, h.disturbed, h.overlapped, h.order,
                            h.outOfOrder, t, h.last)
  BY <1>1, LooksNote
<1>7. CASE Read(w)
  <2>1. x.pc = "read"
    BY <1>7 DEF Read
  <2>2. PcFits([x EXCEPT !.pc = "write"])
    BY <1>4, <1>5, <2>1 DEF PcFits
  <2> QED
    BY <1>1, <1>2, <1>6, <1>7, <2>1, <2>2, ReadDoes, LookKeeps
<1>8. CASE UndoRead(w)
  <2>1. x.pc = "undoRead"
    BY <1>8 DEF UndoRead
  <2>2. PcFits([x EXCEPT !.pc = "undoWrite"])
    BY <1>4, <1>5, <2>1 DEF PcFits
  <2> QED
    BY <1>1, <1>2, <1>6, <1>8, <2>1, <2>2, UndoReadDoes, LookKeeps
<1>9. CASE LoadSnapshot(w)
  <2>1. x.pc = "load"
    BY <1>9 DEF LoadSnapshot
  <2>2. PcFits([x EXCEPT !.pc = "refresh"])
    BY <1>4, <1>5, <2>1 DEF PcFits
  <2> QED
    BY <1>1, <1>2, <1>6, <1>9, <2>1, <2>2, LoadDoes, LookKeeps
<1>10. CASE RefreshSnapshot(w) \/ RefreshFails(w)
  <2> DEFINE p == IF x.op = "undo" THEN "undone" ELSE "record"
  <2>1. x.pc = "refresh" /\ Refreshed(w)
    BY <1>10 DEF RefreshSnapshot, RefreshFails
  <2>2. PcFits([x EXCEPT !.pc = p])
    BY <1>4, <1>5, <2>1 DEF PcFits
  <2>3. p \in {"undone", "record"}
    OBVIOUS
  <2>4. After(w, p, x.op, x.queue, x.seen, x.undo, {})
    BY <1>1, <2>1, RefreshDoes
  <2> HIDE DEF p
  <2> QED
    BY <1>1, <1>2, <1>6, <2>1, <2>2, <2>3, <2>4, LookKeeps
<1> QED
  BY <1>7, <1>8, <1>9, <1>10 DEF Looks

(* Steps that end the work on a row, and put its status on record.         *)
LEMMA RecordKeeps ==
    ASSUME LogInv, NEW w \in Workers, workers[w].pc # "idle", AfterAdvance(w),
           NEW s \in Statuses, NEW u, LogIs(Row(w).id, s, u),
           \A b, a, n : Served(workers[w], 1, b, a, n) => Settled(s, a, n),
           history' = history, script' = script
    PROVE  LogInv'
<1> DEFINE id == Row(w).id
<1>1. Serves(workers[w], Rows) /\ Shapes
  BY BusyServes DEF LogInv
<1>2. id \in Rows
  BY <1>1, QueueOf
<1>3. LogShape' /\ Rows' = Rows /\ log'[id].status = s /\ \A k \in Rows : k # id => log'[k] = log[k]
  BY <1>1, <1>2, LogNext
<1>4. WorkersShape'
  BY <1>1, WorkersAdvance
<1>5. HistoryShape'
  BY <1>1, <1>3, HistoryStays DEF LogIs
<1>6. Shapes'
  BY <1>3, <1>4, <1>5, ShapesNext
<1>7. \A k \in Rows : k # id => Same(k)
  BY <1>3 DEF Same
<1> QED
  BY <1>1, <1>3, <1>6, <1>7, StepOff

LEMMA RecordsKeep ==
    ASSUME LogInv, NEW w \in Workers, RecordResult(w) \/ SetRejected(w) \/ SetUndone(w)
    PROVE  LogInv'
<1> DEFINE x == workers[w]
           id == Row(w).id
<1>1. Shapes /\ x.pc # "idle" /\ history' = history /\ script' = script
  BY DEF LogInv, RecordResult, SetRejected, SetUndone
<1>2. Serves(x, Rows)
  BY <1>1, BusyServes
<1>3. id \in Rows /\ PcFits(x)
  BY <1>1, <1>2, QueueOf DEF Serves
<1>4. AfterAdvance(w)
  BY <1>1, AdvanceDoes DEF RecordResult, SetRejected, SetUndone
<1>5. CASE RecordResult(w)
  <2> DEFINE s == IF x.pc = "record" THEN "applied" ELSE "failed"
  <2>1. x.pc \in {"record", "fail"} /\ LogIs(id, s, x.undo)
    BY <1>1, <1>3, <1>5, RecordDoes DEF RecordResult
  <2>2. s \in Statuses
    BY DEF Statuses
  <2>3. \A b, a, n : Served(x, 1, b, a, n) => Settled(s, a, n)
    BY <1>3, <2>1 DEF PcFits, Served, Settled, Took
  <2> HIDE DEF s
  <2> QED
    BY <1>1, <1>4, <2>1, <2>2, <2>3, RecordKeeps
<1>6. CASE SetRejected(w)
  <2>1. x.pc = "reject" /\ LogIs(id, "rejected", log[id].undo)
    BY <1>1, <1>3, <1>6, StatusDoes DEF SetRejected
  <2>2. \A b, a, n : Served(x, 1, b, a, n) => Settled("rejected", a, n)
    BY <1>3, <2>1 DEF PcFits, Served, Settled, Took
  <2> QED
    BY <1>1, <1>4, <2>1, <2>2, RecordKeeps DEF Statuses
<1>7. CASE SetUndone(w)
  <2>1. x.pc = "undone" /\ LogIs(id, "undone", log[id].undo)
    BY <1>1, <1>3, <1>7, StatusDoes DEF SetUndone
  <2>2. \A b, a, n : Served(x, 1, b, a, n) => Settled("undone", a, n)
    BY <1>3, <2>1 DEF PcFits, Served, Settled, Took
  <2> QED
    BY <1>1, <1>4, <2>1, <2>2, RecordKeeps DEF Statuses
<1> QED
  BY <1>5, <1>6, <1>7

LEMMA WriteKeeps ==
    ASSUME LogInv, NEW w \in Workers, Write(w)
    PROVE  LogInv'
<1> DEFINE x == workers[w]
           y == workers'[w]
           id == Row(w).id
           h == history
           r == Outcome(Action(id), x.seen, cur)
<1>1. Shapes /\ x.pc = "write" /\ log' = log /\ script' = script
  BY DEF LogInv, Write
<1>2. Serves(x, Rows)
  BY <1>1, BusyServes
<1>3. id \in Rows /\ x.op = "execute" /\ IsSeq(x.queue)
  BY <1>1, <1>2, QueueOf DEF Serves, PcFits
<1>4. LogShape' /\ Rows' = Rows
  BY <1>1, LogStays
<1>5. \/ /\ ~ r.ok /\ history' = history
         /\ After(w, "fail", x.op, x.queue, Empty, r.undo, x.snap)
      \/ \E p \in {"load", "record"} : \E o, l :
            /\ After(w, p, x.op, x.queue, Empty, r.undo, x.snap)
            /\ HistoryIs([h.applied EXCEPT ![id] = @ + 1], h.undone, h.disturbed,
                         h.overlapped, o, h.outOfOrder, h.torn, l)
  BY <1>1, <1>3, WriteDoes
<1> HIDE DEF r
<1>6. CASE ~ r.ok /\ history' = history /\ After(w, "fail", x.op, x.queue, Empty, r.undo, x.snap)
  <2>1. Shapes'
    BY <1>1, <1>3, <1>4, <1>6, WorkersNext, HistoryStays, ShapesNext
  <2>2. Others(w) /\ y.queue = x.queue /\ y.op = x.op /\ y.pc = "fail"
    BY <1>6 DEF After, Others
  <2>3. PcFits(y)
    BY <1>3, <2>2 DEF PcFits
  <2>4. \A s, a, u : Served(x, 1, s, a, u) => Served(y, 1, s, a, u)
    BY <1>1, <2>2 DEF Served, Took
  <2>5. \A k \in Rows : Same(k)
    BY <1>1, <1>6 DEF Same
  <2> QED
    BY <1>1, <1>2, <1>4, <1>6, <2>1, <2>2, <2>3, <2>4, <2>5, StepOn
<1>7. ASSUME NEW p \in {"load", "record"}, NEW o, NEW l,
             After(w, p, x.op, x.queue, Empty, r.undo, x.snap),
             HistoryIs([h.applied EXCEPT ![id] = @ + 1], h.undone, h.disturbed,
                         h.overlapped, o, h.outOfOrder, h.torn, l)
      PROVE  LogInv'
  <2> DEFINE t == [h.applied EXCEPT ![id] = @ + 1]
  <2>1. Counts(t) /\ t[id] = h.applied[id] + 1 /\ \A k \in Rows : k # id => t[k] = h.applied[k]
    <3> DEFINE s == h.applied
    <3>1. Counts(s)
      BY <1>1, CountsAre
    <3>2. t = [k \in DOMAIN s |-> t[k]] /\ \A k \in DOMAIN s : t[k] = IF k = id THEN s[k] + 1 ELSE s[k]
      OBVIOUS
    <3> HIDE DEF s, t
    <3>3. Counts(t) /\ t[id] = s[id] + 1 /\ \A k \in Rows : k # id => t[k] = s[k]
      BY <1>1, <1>3, <3>1, <3>2, CountOne
    <3> QED
      BY <3>3 DEF s
  <2> HIDE DEF t
  <2>2. /\ HistoryShape'
        /\ history'.applied = t /\ history'.undone = h.undone /\ history'.disturbed = h.disturbed
    BY <1>1, <1>4, <1>7, <2>1, HistoryNext, CountsAre DEF t
  <2>3. Shapes'
    BY <1>1, <1>3, <1>4, <1>7, <2>2, WorkersNext, ShapesNext
  <2>4. Others(w) /\ y.queue = x.queue /\ y.op = x.op /\ y.pc = p
    BY <1>7 DEF After, Others
  <2>5. PcFits(y)
    BY <1>3, <2>4 DEF PcFits
  <2>6. \A s, a, u : Served(x, 1, s, a, u) => Served(y, 1, s, a + 1, u)
    BY <1>1, <1>3, <2>4 DEF Served, Took
  <2>7. \A k \in Rows : k # id => Same(k)
    BY <1>1, <2>1, <2>2 DEF Same
  <2>8. Served(x, 1, log[id].status, h.applied[id], h.undone[id]) =>
        Served(y, 1, log'[id].status, history'.applied[id], history'.undone[id])
    BY <1>1, <2>1, <2>2, <2>6
  <2> QED
    BY <1>2, <1>4, <2>2, <2>3, <2>4, <2>5, <2>7, <2>8, StepOn
<1> QED
  BY <1>5, <1>6, <1>7

LEMMA UndoWriteKeeps ==
    ASSUME LogInv, NEW w \in Workers, UndoWrite(w)
    PROVE  LogInv'
<1> DEFINE x == workers[w]
           y == workers'[w]
           id == Row(w).id
           h == history
<1>1. Shapes /\ x.pc = "undoWrite" /\ log' = log /\ script' = script
  BY DEF LogInv, UndoWrite
<1>2. Serves(x, Rows)
  BY <1>1, BusyServes
<1>3. id \in Rows /\ x.op = "undo" /\ IsSeq(x.queue)
  BY <1>1, <1>2, QueueOf DEF Serves, PcFits
<1>4. LogShape' /\ Rows' = Rows
  BY <1>1, LogStays
<1>5. \/ AfterAdvance(w) /\ \E f, t, l :
            HistoryIs(h.applied, h.undone, h.disturbed, h.overlapped, h.order, f, t, l)
      \/ \E p \in {"load", "undone"} : \E o, f :
            /\ After(w, p, x.op, x.queue, Empty, x.undo, x.snap)
            /\ HistoryIs(h.applied, [h.undone EXCEPT ![id] = @ + 1], h.disturbed,
                         h.overlapped, o, f, h.torn, NoRow)
  BY <1>1, <1>3, UndoWriteDoes
<1>6. ASSUME AfterAdvance(w), NEW f, NEW t, NEW l,
             HistoryIs(h.applied, h.undone, h.disturbed, h.overlapped, h.order, f, t, l)
      PROVE  LogInv'
  <2>1. /\ HistoryShape'
        /\ history'.applied = h.applied /\ history'.undone = h.undone
        /\ history'.disturbed = h.disturbed
    BY <1>1, <1>4, <1>6, HistoryNext, CountsAre
  <2>2. Shapes'
    BY <1>1, <1>2, <1>4, <1>6, <2>1, WorkersAdvance, ShapesNext
  <2>3. \A k \in Rows : Same(k)
    BY <1>1, <2>1 DEF Same
  <2>4. \A s, a, u : Served(x, 1, s, a, u) => Settled(s, a, u)
    BY <1>1, <1>3 DEF Served, Settled, Took
  <2>5. Served(x, 1, log[id].status, h.applied[id], h.undone[id]) =>
        Settled(log'[id].status, history'.applied[id], history'.undone[id])
    BY <1>1, <2>1, <2>4
  <2> QED
    BY <1>2, <1>4, <1>6, <2>1, <2>2, <2>3, <2>5, StepOff
<1>7. ASSUME NEW p \in {"load", "undone"}, NEW o, NEW f,
             After(w, p, x.op, x.queue, Empty, x.undo, x.snap),
             HistoryIs(h.applied, [h.undone EXCEPT ![id] = @ + 1], h.disturbed,
                         h.overlapped, o, f, h.torn, NoRow)
      PROVE  LogInv'
  <2> DEFINE t == [h.undone EXCEPT ![id] = @ + 1]
  <2>1. Counts(t) /\ t[id] = h.undone[id] + 1 /\ \A k \in Rows : k # id => t[k] = h.undone[k]
    <3> DEFINE s == h.undone
    <3>1. Counts(s)
      BY <1>1, CountsAre
    <3>2. t = [k \in DOMAIN s |-> t[k]] /\ \A k \in DOMAIN s : t[k] = IF k = id THEN s[k] + 1 ELSE s[k]
      OBVIOUS
    <3> HIDE DEF s, t
    <3>3. Counts(t) /\ t[id] = s[id] + 1 /\ \A k \in Rows : k # id => t[k] = s[k]
      BY <1>1, <1>3, <3>1, <3>2, CountOne
    <3> QED
      BY <3>3 DEF s
  <2> HIDE DEF t
  <2>2. /\ HistoryShape'
        /\ history'.applied = h.applied /\ history'.undone = t /\ history'.disturbed = h.disturbed
    BY <1>1, <1>4, <1>7, <2>1, HistoryNext, CountsAre DEF t
  <2>3. Shapes'
    BY <1>1, <1>3, <1>4, <1>7, <2>2, WorkersNext, ShapesNext
  <2>4. Others(w) /\ y.queue = x.queue /\ y.op = x.op /\ y.pc = p
    BY <1>7 DEF After, Others
  <2>5. PcFits(y)
    BY <1>3, <2>4 DEF PcFits
  <2>6. \A s, a, u : Served(x, 1, s, a, u) => Served(y, 1, s, a, u + 1)
    BY <1>1, <1>3, <2>4 DEF Served, Took
  <2>7. \A k \in Rows : k # id => Same(k)
    BY <1>1, <2>1, <2>2 DEF Same
  <2>8. Served(x, 1, log[id].status, h.applied[id], h.undone[id]) =>
        Served(y, 1, log'[id].status, history'.applied[id], history'.undone[id])
    BY <1>1, <2>1, <2>2, <2>6
  <2> QED
    BY <1>2, <1>4, <2>2, <2>3, <2>4, <2>5, <2>7, <2>8, StepOn
<1> QED
  BY <1>5, <1>6, <1>7

(* Executors and undos that fail halfway leave a row that may lie.         *)
LEMMA BreaksKeep ==
    ASSUME LogInv, NEW w \in Workers, WriteBreaks(w) \/ UndoBreaks(w)
    PROVE  LogInv'
<1> DEFINE x == workers[w]
           y == workers'[w]
           id == Row(w).id
           h == history
<1>1. /\ Shapes /\ log' = log /\ script' = script /\ x.pc # "idle"
      /\ history' = Halved(id)
  BY DEF LogInv, WriteBreaks, UndoBreaks
<1>2. Serves(x, Rows)
  BY <1>1, BusyServes
<1>3. id \in Rows /\ IsSeq(x.queue)
  BY <1>1, <1>2, QueueOf
<1>4. LogShape' /\ Rows' = Rows
  BY <1>1, LogStays
<1>5. HistoryIs(h.applied, h.undone, h.disturbed \cup {id}, TRUE, h.order, h.outOfOrder, h.torn,
                NoRow)
  BY <1>1, HalvedIs
<1> HIDE DEF id
<1>6. /\ HistoryShape'
      /\ history'.applied = h.applied /\ history'.undone = h.undone
      /\ history'.disturbed = h.disturbed \cup {id}
  <2> DEFINE D == h.disturbed \cup {id}
             o == TRUE
             l == NoRow
  <2>1. HistoryIs(h.applied, h.undone, D, o, h.order, h.outOfOrder, h.torn, l)
    BY <1>5
  <2> HIDE DEF D, o, l
  <2>2. HistoryShape' /\ history'.applied = h.applied /\ history'.undone = h.undone
        /\ history'.disturbed = D
    BY <1>1, <1>4, <2>1, HistoryNext, CountsAre
  <2> QED
    BY <2>2 DEF D
<1>7. \A k \in Rows : Same(k)
  BY <1>1, <1>6 DEF Same
<1>8. h.disturbed \subseteq history'.disturbed /\ id \in history'.disturbed
  BY <1>6
<1>9. CASE WriteBreaks(w)
  <2>1. x.pc = "write" /\ After(w, "fail", x.op, x.queue, Empty, NoUndo, x.snap)
    BY <1>1, <1>9, BreakDoes DEF WriteBreaks
  <2>2. Shapes'
    BY <1>1, <1>3, <1>4, <1>6, <2>1, WorkersNext, ShapesNext
  <2>3. Others(w) /\ y.queue = x.queue /\ y.op = x.op /\ y.pc = "fail"
    BY <2>1 DEF After, Others
  <2>4. PcFits(y)
    BY <1>2, <2>1, <2>3 DEF PcFits, Serves
  <2> QED
    BY <1>2, <1>4, <1>7, <1>8, <2>2, <2>3, <2>4, StepOn DEF id
<1>10. CASE UndoBreaks(w)
  <2>1. AfterAdvance(w)
    BY <1>1, <1>10, AdvanceDoes DEF UndoBreaks
  <2>2. Shapes'
    BY <1>1, <1>2, <1>4, <1>6, <2>1, WorkersAdvance, ShapesNext
  <2> QED
    BY <1>2, <1>4, <1>7, <1>8, <2>1, <2>2, StepOff DEF id
<1> QED
  BY <1>9, <1>10

LEMMA StartedIs ==
    ASSUME NEW p, NEW o, NEW q
    PROVE  [Idle EXCEPT !.pc = p, !.op = o, !.queue = q] =
           [pc |-> p, op |-> o, queue |-> q, seen |-> Empty, undo |-> NoUndo, snap |-> {}]
<1> DEFINE a == [Idle EXCEPT !.pc = p]
           b == [a EXCEPT !.op = o]
<1>1. [Idle EXCEPT !.pc = p, !.op = o, !.queue = q] = [b EXCEPT !.queue = q]
  OBVIOUS
<1> DEFINE n == "none"
           e == <<>>
           z == {}
<1>2. a = [pc |-> p, op |-> n, queue |-> e, seen |-> Empty, undo |-> NoUndo, snap |-> z]
  BY DEF Idle
<1> HIDE DEF a, n, e, z
<1>3. b = [pc |-> p, op |-> o, queue |-> e, seen |-> Empty, undo |-> NoUndo, snap |-> z]
  BY <1>2
<1> HIDE DEF b
<1>4. [b EXCEPT !.queue = q] =
      [pc |-> p, op |-> o, queue |-> q, seen |-> Empty, undo |-> NoUndo, snap |-> z]
  BY <1>3
<1> QED
  BY <1>1, <1>4 DEF z

LEMMA TakeDoes ==
    ASSUME Shapes, NEW w \in Workers, NEW op, NEW ids, IsSeq(ids), Take(w, op, ids)
    PROVE  \E q :
              /\ After(w, First(op), op, q, Empty, NoUndo, {})
              /\ IsSeq(q) /\ Len(q) = Len(ids)
              /\ \A i \in 1..Len(ids) : q[i] = [id |-> ids[i], undo |-> log[ids[i]].undo]
<1> DEFINE p == First(op)
           q == [i \in DOMAIN ids |-> [id |-> ids[i], undo |-> log[ids[i]].undo]]
<1>1. workers' = [workers EXCEPT ![w] = [Idle EXCEPT !.pc = p, !.op = op, !.queue = q]]
  BY DEF Take, Shapes
<1>2. Len(ids) \in Nat /\ DOMAIN ids = 1..Len(ids)
  BY SeqFacts
<1>3. IsSeq(q) /\ Len(q) = Len(ids)
  <2>1. q = [i \in 1..Len(ids) |-> q[i]]
    BY <1>2
  <2> HIDE DEF q
  <2> QED
    BY <1>2, <2>1, SeqMade
<1>4. \A i \in 1..Len(ids) : q[i] = [id |-> ids[i], undo |-> log[ids[i]].undo]
  BY <1>2
<1> HIDE DEF p, q
<1>5. workers' = [workers EXCEPT ![w] = [pc |-> p, op |-> op, queue |-> q, seen |-> Empty,
                                         undo |-> NoUndo, snap |-> {}]]
  <2> DEFINE a == [Idle EXCEPT !.pc = p, !.op = op, !.queue = q]
  <2>1. a = [pc |-> p, op |-> op, queue |-> q, seen |-> Empty, undo |-> NoUndo, snap |-> {}]
    BY StartedIs
  <2>2. workers' = [workers EXCEPT ![w] = a]
    BY <1>1
  <2> HIDE DEF a
  <2> QED
    BY <2>1, <2>2
<1>6. After(w, p, op, q, Empty, NoUndo, {})
  BY <1>5, WorkerBecomes
<1> QED
  BY <1>3, <1>4, <1>6 DEF p

(* Requests that take up rows.                                             *)
LEMMA TakeKeeps ==
    ASSUME LogInv, NEW w \in Workers, w \notin Busy, NEW op \in {"execute", "undo", "reject"},
           NEW ids, IsSeq(ids), ids # <<>>, NEW S, S \subseteq Rows,
           \A i \in DOMAIN ids : ids[i] \in S,
           \A i, j \in DOMAIN ids : ids[i] = ids[j] => i = j,
           \A id \in S : log[id].status = IF op = "undo" THEN "applied" ELSE "proposed",
           Take(w, op, ids), history' = Began(S), log' = log, script' = script
    PROVE  LogInv'
<1> DEFINE h == history
           D == {id \in S : \E v \in Busy : id \in Queued(v)}
           T == Range(ids)
           y == workers'[w]
<1>1. Shapes /\ workers[w] = Idle
  BY IdleIs DEF LogInv
<1>2. PICK q : /\ After(w, First(op), op, q, Empty, NoUndo, {})
               /\ IsSeq(q) /\ Len(q) = Len(ids)
               /\ \A i \in 1..Len(ids) : q[i] = [id |-> ids[i], undo |-> log[ids[i]].undo]
  BY <1>1, TakeDoes
<1>3. LogShape' /\ Rows' = Rows
  BY <1>1, LogStays
<1>4. /\ HistoryShape'
      /\ history'.applied = h.applied /\ history'.undone = h.undone
      /\ history'.disturbed = h.disturbed \cup D
  <2>1. HistoryIs(h.applied, h.undone, h.disturbed \cup D, h.overlapped \/ Busy # {}, h.order,
                  h.outOfOrder, h.torn, h.last)
    BY <1>1, BeganIs
  <2> HIDE DEF D, h
  <2>2. Counts(h.applied) /\ Counts(h.undone) /\ Len(log') = Len(log)
    BY <1>1, CountsAre DEF h
  <2> QED
    BY <1>1, <1>3, <2>1, <2>2, HistoryNext
<1>5. Shapes'
  BY <1>1, <1>2, <1>3, <1>4, WorkersNext, ShapesNext
<1>6. Others(w) /\ y.op = op /\ y.pc = First(op) /\ y.queue = q
  BY <1>2 DEF After, Others
<1>7. Len(y.queue) = Len(ids) /\ \A i \in 1..Len(ids) : y.queue[i].id = ids[i]
  <2>1. ASSUME NEW i \in 1..Len(ids) PROVE q[i].id = ids[i]
    <3>1. q[i] = [id |-> ids[i], undo |-> log[ids[i]].undo]
      BY <1>2
    <3>2. [id |-> ids[i], undo |-> log[ids[i]].undo].id = ids[i]
      OBVIOUS
    <3> QED
      BY <3>1, <3>2, Zenon
  <2> HIDE DEF y
  <2> QED
    BY <1>2, <1>6, <2>1
<1>8. T \subseteq S
  BY DEF Range
<1>9. h.disturbed \cup {id \in T : \E v \in Busy : id \in Queued(v)} \subseteq history'.disturbed
  BY <1>4, <1>8
<1>10. \A id \in T : log[id].status = IF op = "undo" THEN "applied" ELSE "proposed"
  BY <1>8
<1>11. T \subseteq Rows
  BY <1>8
<1> HIDE DEF T, D
<1>12. T = Range(ids)
  BY DEF T
<1> QED
  BY <1>1, <1>4, <1>5, <1>6, <1>7, <1>9, <1>10, <1>11, <1>12, StepTake

LEMMA RowsFinite ==
    ASSUME Shapes, NEW S, S \subseteq Rows
    PROVE  S \in SUBSET Nat /\ IsFiniteSet(S)
<1>1. Rows = 1..Len(log) /\ Len(log) \in Nat
  BY RowsAre DEF Shapes
<1>2. IsFiniteSet(Rows) /\ S \in SUBSET Rows
  BY <1>1, FS_Interval
<1>3. IsFiniteSet(S)
  BY <1>2, FS_Subset
<1>4. \A s \in S : s \in Nat
  BY <1>1
<1> QED
  BY <1>3, <1>4

LEMMA OneRow ==
    ASSUME NEW id
    PROVE  /\ IsSeq(<<id>>) /\ <<id>> # <<>> /\ DOMAIN <<id>> = {1} /\ <<id>>[1] = id
           /\ Range(<<id>>) = {id}
<1>1. <<id>> \in Seq({id})
  OBVIOUS
<1>2. IsSeq(<<id>>)
  BY <1>1 DEF IsSeq
<1> QED
  BY <1>2 DEF Range

LEMMA ReviewsKeep ==
    ASSUME LogInv, NEW w \in Workers,
           \/ \E id \in Rows : Approve(w, id) \/ Reject(w, id) \/ Undo(w, id)
           \/ ApproveAll(w) \/ RejectAll(w) \/ UndoAll(w)
    PROVE  LogInv'
<1>1. Shapes
  BY DEF LogInv
<1>2. ASSUME NEW id \in Rows, Approve(w, id) \/ Reject(w, id) \/ Undo(w, id)
      PROVE  LogInv'
  <2> DEFINE ids == <<id>>
             S == {id}
  <2>1. /\ IsSeq(ids) /\ ids # <<>> /\ Range(ids) = S
        /\ \A i \in DOMAIN ids : ids[i] \in S
        /\ \A i, j \in DOMAIN ids : ids[i] = ids[j] => i = j
    BY OneRow
  <2>2. S \subseteq Rows
    OBVIOUS
  <2>3. CASE Approve(w, id)
    <3>1. /\ w \notin Busy /\ log[id].status = "proposed" /\ Take(w, "execute", ids)
          /\ history' = Began(Range(ids)) /\ log' = log /\ script' = script
      BY <2>3 DEF Approve, Review
    <3> HIDE DEF ids
    <3> QED
      BY <2>1, <2>2, <3>1, TakeKeeps
  <2>4. CASE Reject(w, id)
    <3>1. /\ w \notin Busy /\ log[id].status = "proposed" /\ Take(w, "reject", ids)
          /\ history' = Began(Range(ids)) /\ log' = log /\ script' = script
      BY <2>4 DEF Reject, Review
    <3> HIDE DEF ids
    <3> QED
      BY <2>1, <2>2, <3>1, TakeKeeps
  <2>5. CASE Undo(w, id)
    <3>1. /\ w \notin Busy /\ log[id].status = "applied" /\ Take(w, "undo", ids)
          /\ history' = Began(S) /\ log' = log /\ script' = script
      BY <2>5 DEF Undo, CanUndo
    <3> HIDE DEF ids
    <3> QED
      BY <2>1, <2>2, <3>1, TakeKeeps
  <2> QED
    BY <1>2, <2>3, <2>4, <2>5
<1>3. ASSUME NEW op \in {"execute", "reject"}, NEW S, S \subseteq With("proposed"),
             Review(w, op, Ascending(S))
      PROVE  LogInv'
  <2> DEFINE ids == Ascending(S)
             T == Range(ids)
  <2>1. S \subseteq Rows /\ \A id \in S : log[id].status = "proposed"
    BY <1>3 DEF With
  <2>2. Lists(ids, S)
    BY <1>1, <2>1, RowsFinite, AscendingLists
  <2>3. /\ w \notin Busy /\ ids # <<>> /\ Take(w, op, ids)
        /\ history' = Began(T) /\ log' = log /\ script' = script
    BY <1>3 DEF Review
  <2> HIDE DEF ids
  <2>4. /\ IsSeq(ids) /\ T \subseteq S
        /\ \A i \in DOMAIN ids : ids[i] \in T
        /\ \A i, j \in DOMAIN ids : ids[i] = ids[j] => i = j
    BY <2>2 DEF Lists, Range
  <2>5. T \subseteq Rows /\ \A id \in T : log[id].status = IF op = "undo" THEN "applied" ELSE "proposed"
    BY <2>1, <2>4
  <2> HIDE DEF T
  <2> QED
    BY <2>3, <2>4, <2>5, TakeKeeps
<1>4. CASE ApproveAll(w)
  BY <1>3, <1>4 DEF ApproveAll
<1>5. CASE RejectAll(w)
  BY <1>3, <1>5 DEF RejectAll, PendingRows
<1>6. CASE UndoAll(w)
  <2> DEFINE S == RunRows
             ids == Descending(S)
  <2>1. S \subseteq Rows /\ \A id \in S : log[id].status = "applied"
    BY DEF RunRows, CanUndo
  <2>2. Lists(ids, S) /\ S # {} /\ Cardinality(S) # 0
    <3>1. S # {}
      BY <1>6 DEF UndoAll
    <3> HIDE DEF S
    <3>2. IsFiniteSet(S)
      BY <1>1, <2>1, RowsFinite
    <3> QED
      BY <1>1, <2>1, <3>1, <3>2, RowsFinite, DescendingLists, FS_EmptySet
  <2>3. /\ w \notin Busy /\ Take(w, "undo", ids)
        /\ history' = Began(S) /\ log' = log /\ script' = script
    BY <1>6 DEF UndoAll
  <2> HIDE DEF ids, S
  <2>4. /\ IsSeq(ids) /\ ids # <<>>
        /\ \A i \in DOMAIN ids : ids[i] \in S
        /\ \A i, j \in DOMAIN ids : ids[i] = ids[j] => i = j
    BY <2>2, EmptySeq DEF Lists
  <2> QED
    BY <2>1, <2>3, <2>4, TakeKeeps
<1> QED
  BY <1>2, <1>4, <1>5, <1>6

LEMMA StopKeeps ==
    ASSUME LogInv, NEW w \in Workers, Stop(w)
    PROVE  LogInv'
<1> DEFINE h == history
           id == Row(w).id
<1>1. Shapes /\ workers[w].pc # "idle" /\ log' = log /\ script' = script
  BY DEF LogInv, Stop, Busy
<1>2. Serves(workers[w], Rows)
  BY <1>1, BusyServes
<1>3. LogShape' /\ Rows' = Rows
  BY <1>1, LogStays
<1>4. workers'[w] = Idle /\ Others(w) /\ WorkersShape'
  <2>1. workers' = [workers EXCEPT ![w] = [pc |-> "idle", op |-> "none", queue |-> <<>>,
                        seen |-> Empty, undo |-> NoUndo, snap |-> {}]]
    BY DEF Stop, Idle
  <2>2. After(w, "idle", "none", <<>>, Empty, NoUndo, {})
    BY <1>1, <2>1, WorkerBecomes
  <2>3. IsSeq(<<>>)
    BY EmptySeq DEF IsSeq
  <2> QED
    BY <1>1, <2>2, <2>3, WorkersNext DEF After, Others, Idle
<1>5. HistoryShape' /\ history'.applied = h.applied /\ history'.undone = h.undone
      /\ history'.disturbed = h.disturbed \cup {id}
  <2> DEFINE o == TRUE
             D == h.disturbed \cup {id}
             g == history
             z == [g EXCEPT !.disturbed = D]
  <2>1. history' = [z EXCEPT !.overlapped = TRUE]
    BY <1>1 DEF Stop, Shapes, HistoryShape
  <2>2. g = [applied |-> g.applied, undone |-> g.undone, disturbed |-> g.disturbed,
             overlapped |-> g.overlapped, order |-> g.order, outOfOrder |-> g.outOfOrder,
             torn |-> g.torn, last |-> g.last]
    BY <1>1 DEF Shapes, HistoryShape
  <2> HIDE DEF D, g
  <2>3. z = [applied |-> g.applied, undone |-> g.undone, disturbed |-> D,
             overlapped |-> g.overlapped, order |-> g.order, outOfOrder |-> g.outOfOrder,
             torn |-> g.torn, last |-> g.last]
    BY <2>2
  <2> HIDE DEF z
  <2>4. HistoryIs(g.applied, g.undone, D, o, g.order, g.outOfOrder, g.torn, g.last)
    BY <2>1, <2>3 DEF HistoryIs
  <2>5. Counts(g.applied) /\ Counts(g.undone) /\ Len(log') = Len(log)
    BY <1>1, CountsAre DEF g
  <2> HIDE DEF o
  <2>6. HistoryShape' /\ history'.applied = g.applied /\ history'.undone = g.undone
        /\ history'.disturbed = D
    BY <1>1, <1>3, <2>4, <2>5, HistoryNext
  <2> QED
    BY <2>6 DEF g, D
<1>6. Shapes'
  BY <1>3, <1>4, <1>5, ShapesNext
<1>7. \A k \in Rows : Same(k)
  BY <1>1, <1>5 DEF Same
<1> QED
  BY <1>2, <1>3, <1>4, <1>5, <1>6, <1>7, StepStop

LEMMA NothingKeeps ==
    ASSUME LogInv, log' = log, history' = history, script' = script, workers' = workers
    PROVE  LogInv'
<1>1. Shapes
  BY DEF LogInv
<1>2. LogShape' /\ Rows' = Rows /\ HistoryShape'
  BY <1>1, LogStays, HistoryStays
<1>3. WorkersShape'
  BY <1>1 DEF Shapes, WorkersShape
<1>4. Shapes'
  BY <1>2, <1>3, ShapesNext
<1>5. \A id \in Rows : RowTrue(id)'
  BY DEF LogInv, RowTrue
<1> QED
  BY <1>2, <1>4, <1>5 DEF LogInv

LEMMA CountsGrow ==
    ASSUME Shapes, NEW s, Counts(s), NEW t, t = Append(s, 0), Len(log') = Len(log) + 1, IsSeq(log')
    PROVE  /\ Counts(t)' /\ t[Len(log) + 1] = 0 /\ \A k \in Rows : t[k] = s[k]
           /\ Rows' = Rows \cup {Len(log) + 1}
<1>1. IsSeq(s) /\ Len(s) = Len(log) /\ Len(log) \in Nat /\ Rows = 1..Len(log)
  BY RowsAre DEF Counts, Shapes
<1>2. /\ IsSeq(t) /\ Len(t) = Len(s) + 1 /\ t[Len(s) + 1] = 0
      /\ \A i \in 1..Len(s) : t[i] = s[i]
  BY <1>1, SeqAppend
<1>3. Rows' = 1..Len(log) + 1
  BY SeqFacts DEF Rows
<1>4. Rows' = Rows \cup {Len(log) + 1}
  BY <1>1, <1>3
<1>5. \A k \in Rows' : t[k] \in Nat
  BY <1>1, <1>2, <1>4 DEF Counts
<1> QED
  BY <1>1, <1>2, <1>4, <1>5 DEF Counts

LEMMA DispatchDoes ==
    ASSUME LogInv, NEW w \in Workers, NEW r \in Requests, Dispatch(w, r), ~ Logged(r),
           NEW n, n = Len(log) + 1
    PROVE  LET h == history
           IN  /\ workers[w] = Idle /\ Others(w) /\ WorkersShape'
               /\ LogShape' /\ Rows' = Rows \cup {n} /\ n \notin Rows
               /\ \A k \in Rows : log'[k] = log[k]
               /\ log'[n] = [request |-> r, status |-> InitialStatus(script[r]), undo |-> NoUndo]
               /\ \/ /\ log'[n].status = "proposed" /\ workers'[w] = Idle
                     /\ HistoryIs(Append(h.applied, 0), Append(h.undone, 0), h.disturbed,
                                  h.overlapped, h.order, h.outOfOrder, h.torn, h.last)
                  \/ /\ log'[n].status # "proposed"
                     /\ workers'[w] = [pc |-> "read", op |-> "execute",
                                       queue |-> <<[id |-> n, undo |-> NoUndo]>>, seen |-> Empty,
                                       undo |-> NoUndo, snap |-> {}]
                     /\ \E D : /\ h.disturbed \subseteq D /\ (Busy = {} => D = h.disturbed)
                               /\ HistoryIs(Append(h.applied, 0), Append(h.undone, 0), D,
                                            h.overlapped \/ Busy # {}, h.order, h.outOfOrder, h.torn,
                                            h.last)
<1> DEFINE h == history
           s == InitialStatus(script[r])
           x == [request |-> r, status |-> s, undo |-> NoUndo]
           q == <<[id |-> n, undo |-> NoUndo]>>
           a == Append(h.applied, 0)
           u == Append(h.undone, 0)
<1>1. Shapes /\ workers[w] = Idle /\ IsSeq(log)
  BY IdleIs DEF LogInv, Shapes, Dispatch
<1>2. log' = Append(log, x) /\ script' = script
  BY DEF Dispatch, InsertAction
<1>3. Rows = 1..Len(log) /\ Len(log) \in Nat
  BY <1>1, RowsAre
<1>4. /\ IsSeq(log') /\ Len(log') = n /\ \A k \in Rows : log'[k] = log[k]
      /\ log'[n] = x
  <2> HIDE DEF x
  <2> QED
    BY <1>1, <1>2, <1>3, SeqAppend
<1>5. Rows' = Rows \cup {n} /\ n \notin Rows
  <2>1. Rows' = 1..n
    BY <1>4, SeqFacts DEF Rows
  <2> QED
    BY <1>3, <2>1
<1>6. s \in Statuses /\ (s = "proposed" \/ s # "proposed")
  BY DEF InitialStatus, Statuses
<1> HIDE DEF s
<1>7. log'[n].status = s /\ log'[n].request = r /\ log'[n].undo = NoUndo
  BY <1>4
<1>8. LogShape'
  <2>1. RowShape(log[n])'
    <3> DEFINE y == log'[n]
    <3>1. y.request = r /\ y.status = s /\ y.undo = NoUndo /\ y = x
      BY <1>4, <1>7
    <3>2. y = [request |-> y.request, status |-> y.status, undo |-> y.undo]
      BY <3>1
    <3>3. Requests' = Requests
      BY <1>2 DEF Requests
    <3> HIDE DEF y
    <3>4. /\ y.status \in Statuses /\ y.request \in Requests'
      BY <1>6, <3>1, <3>3
    <3> QED
      BY <3>2, <3>4 DEF RowShape, y
  <2>2. \A k \in Rows : RowShape(log[k])'
    BY <1>1, <1>2, <1>4 DEF Shapes, RowShape, Requests
  <2> QED
    BY <1>4, <1>5, <2>1, <2>2 DEF LogShape
<1>9. CASE s = "proposed"
  <2>1. /\ history' = [h EXCEPT !.applied = Append(@, 0), !.undone = Append(@, 0)]
        /\ workers' = workers
    BY <1>4, <1>7, <1>9 DEF Dispatch
  <2>2. h = [applied |-> h.applied, undone |-> h.undone, disturbed |-> h.disturbed,
             overlapped |-> h.overlapped, order |-> h.order, outOfOrder |-> h.outOfOrder,
             torn |-> h.torn, last |-> h.last]
    BY <1>1 DEF Shapes, HistoryShape
  <2> DEFINE y == [h EXCEPT !.applied = a]
  <2>3. history' = [y EXCEPT !.undone = u]
    BY <2>1, <2>2
  <2> HIDE DEF h, a, u
  <2>4. y = [applied |-> a, undone |-> h.undone, disturbed |-> h.disturbed,
             overlapped |-> h.overlapped, order |-> h.order, outOfOrder |-> h.outOfOrder,
             torn |-> h.torn, last |-> h.last]
    BY <2>2
  <2> HIDE DEF y
  <2>5. HistoryIs(a, u, h.disturbed, h.overlapped, h.order, h.outOfOrder, h.torn, h.last)
    BY <2>3, <2>4 DEF HistoryIs
  <2>6. Others(w) /\ WorkersShape' /\ workers'[w] = Idle
    BY <1>1, <2>1 DEF Others, Shapes, WorkersShape
  <2> QED
    BY <1>1, <1>4, <1>5, <1>7, <1>8, <1>9, <2>5, <2>6 DEF h, a, u, s
<1>10. CASE s # "proposed"
  <2> DEFINE D == h.disturbed \cup {id \in {n} : \E v \in Busy : id \in Queued(v)}
             o == h.overlapped \/ Busy # {}
  <2>1. /\ history' = [[h EXCEPT !.disturbed = D, !.overlapped = o]
                         EXCEPT !.applied = Append(@, 0), !.undone = Append(@, 0)]
        /\ workers' = [workers EXCEPT ![w] =
                         [Idle EXCEPT !.pc = "read", !.op = "execute", !.queue = q]]
    BY <1>4, <1>7, <1>10 DEF Dispatch, Began
  <2>2. h = [applied |-> h.applied, undone |-> h.undone, disturbed |-> h.disturbed,
             overlapped |-> h.overlapped, order |-> h.order, outOfOrder |-> h.outOfOrder,
             torn |-> h.torn, last |-> h.last]
    BY <1>1 DEF Shapes, HistoryShape
  <2>3. h.disturbed \subseteq D /\ (Busy = {} => D = h.disturbed)
    OBVIOUS
  <2> DEFINE e == [h EXCEPT !.disturbed = D]
             f == [e EXCEPT !.overlapped = o]
             y == [f EXCEPT !.applied = a]
  <2>4. /\ history' = [f EXCEPT !.applied = Append(@, 0), !.undone = Append(@, 0)]
    BY <2>1
  <2> HIDE DEF h, D, o
  <2>5. e = [applied |-> h.applied, undone |-> h.undone, disturbed |-> D,
             overlapped |-> h.overlapped, order |-> h.order, outOfOrder |-> h.outOfOrder,
             torn |-> h.torn, last |-> h.last]
    BY <2>2
  <2> HIDE DEF e
  <2>6. f = [applied |-> h.applied, undone |-> h.undone, disturbed |-> D,
             overlapped |-> o, order |-> h.order, outOfOrder |-> h.outOfOrder,
             torn |-> h.torn, last |-> h.last]
    BY <2>5
  <2> HIDE DEF f
  <2>7. history' = [y EXCEPT !.undone = u]
    BY <2>4, <2>6
  <2> HIDE DEF a, u
  <2>8. y = [applied |-> a, undone |-> h.undone, disturbed |-> D,
             overlapped |-> o, order |-> h.order, outOfOrder |-> h.outOfOrder,
             torn |-> h.torn, last |-> h.last]
    BY <2>6
  <2> HIDE DEF y
  <2>9. HistoryIs(a, u, D, o, h.order, h.outOfOrder, h.torn, h.last)
    BY <2>7, <2>8 DEF HistoryIs
  <2> DEFINE z == [Idle EXCEPT !.pc = "read", !.op = "execute", !.queue = q]
  <2>10. z = [pc |-> "read", op |-> "execute", queue |-> q, seen |-> Empty, undo |-> NoUndo,
              snap |-> {}]
    BY StartedIs
  <2>11. IsSeq(q)
    BY OneRow
  <2> HIDE DEF q
  <2>12. After(w, "read", "execute", q, Empty, NoUndo, {})
    <3>1. workers' = [workers EXCEPT ![w] = z]
      BY <2>1
    <3> HIDE DEF z
    <3>2. workers' = [workers EXCEPT ![w] = [pc |-> "read", op |-> "execute", queue |-> q,
                          seen |-> Empty, undo |-> NoUndo, snap |-> {}]]
      BY <2>10, <3>1
    <3> QED
      BY <1>1, <3>2, WorkerBecomes
  <2>13. /\ workers'[w] = [pc |-> "read", op |-> "execute", queue |-> q, seen |-> Empty,
                           undo |-> NoUndo, snap |-> {}]
         /\ Others(w) /\ WorkersShape'
    BY <1>1, <2>11, <2>12, WorkersNext DEF After, Others
  <2> QED
    BY <1>1, <1>4, <1>5, <1>7, <1>8, <1>10, <2>3, <2>9, <2>13 DEF h, a, u, s, q, o
<1> QED
  BY <1>6, <1>9, <1>10

LEMMA DispatchKeeps ==
    ASSUME LogInv, NEW w \in Workers, NEW r \in Requests, Dispatch(w, r)
    PROVE  LogInv'
<1>1. CASE Logged(r)
  <2>1. log' = log /\ script' = script
    BY <1>1 DEF Dispatch, InsertAction
  <2>2. workers' = workers /\ history' = history
    BY <2>1 DEF Dispatch
  <2> QED
    BY <2>1, <2>2, NothingKeeps
<1>2. CASE ~ Logged(r)
  <2> DEFINE h == history
             a == Append(h.applied, 0)
             u == Append(h.undone, 0)
  <2>1. PICK n : n = Len(log) + 1
    OBVIOUS
  <2>2. /\ workers[w] = Idle /\ Others(w) /\ WorkersShape'
        /\ LogShape' /\ Rows' = Rows \cup {n} /\ n \notin Rows
        /\ \A k \in Rows : log'[k] = log[k]
        /\ \/ log'[n].status = "proposed" /\ workers'[w] = Idle
           \/ workers'[w] = [pc |-> "read", op |-> "execute",
                             queue |-> <<[id |-> n, undo |-> NoUndo]>>, seen |-> Empty,
                             undo |-> NoUndo, snap |-> {}]
        /\ \E D, o : h.disturbed \subseteq D /\
               HistoryIs(a, u, D, o, h.order, h.outOfOrder, h.torn, h.last)
    BY <1>2, <2>1, DispatchDoes
  <2>3. PICK D, o : h.disturbed \subseteq D /\
               HistoryIs(a, u, D, o, h.order, h.outOfOrder, h.torn, h.last)
    BY <2>2
  <2>4. Shapes
    BY DEF LogInv
  <2>5. Counts(h.applied) /\ Counts(h.undone)
    BY <2>4, CountsAre
  <2>6. IsSeq(log') /\ Len(log') = Len(log) + 1
    <3>1. Len(log') = n
      <4>1. IsSeq(log') /\ IsSeq(log)
        BY <2>2, <2>4 DEF LogShape, Shapes
      <4>2. Rows' = 1..Len(log') /\ Rows = 1..Len(log) /\ Len(log') \in Nat /\ Len(log) \in Nat
        BY <4>1, SeqFacts DEF Rows
      <4>3. 1..Len(log') = 1..Len(log) + 1
        BY <2>1, <2>2, <4>2
      <4> QED
        BY <2>1, <4>2, <4>3
    <3> QED
      BY <2>1, <2>2, <3>1 DEF LogShape
  <2>7. /\ history'.applied = a /\ history'.undone = u /\ history'.disturbed = D
        /\ history' = [applied |-> history'.applied, undone |-> history'.undone,
                disturbed |-> history'.disturbed, overlapped |-> history'.overlapped,
                order |-> history'.order, outOfOrder |-> history'.outOfOrder,
                torn |-> history'.torn, last |-> history'.last]
    <3> HIDE DEF h, a, u
    <3> QED
      BY <2>3 DEF HistoryIs
  <2>8. /\ Counts(history.applied)' /\ Counts(history.undone)'
        /\ a[n] = 0 /\ u[n] = 0 /\ \A k \in Rows : a[k] = h.applied[k] /\ u[k] = h.undone[k]
    <3> DEFINE p == h.applied
               m == h.undone
    <3> HIDE DEF p, m
    <3>1. /\ Counts(history.applied)' /\ a[Len(log) + 1] = 0 /\ \A k \in Rows : a[k] = p[k]
      BY <2>4, <2>5, <2>6, <2>7, CountsGrow DEF p, Counts
    <3>2. /\ Counts(history.undone)' /\ u[Len(log) + 1] = 0 /\ \A k \in Rows : u[k] = m[k]
      BY <2>4, <2>5, <2>6, <2>7, CountsGrow DEF m, Counts
    <3> QED
      BY <2>1, <3>1, <3>2 DEF p, m
  <2>9. Shapes'
    <3>1. HistoryShape'
      BY <2>7, <2>8 DEF HistoryShape
    <3> QED
      BY <2>2, <3>1, ShapesNext
  <2>10. \A k \in Rows : Same(k)
    BY <2>2, <2>7, <2>8 DEF Same
  <2>11. \/ workers'[w] = Idle /\ log'[n].status = "proposed"
         \/ /\ workers'[w].op = "execute" /\ workers'[w].pc = "read"
            /\ Len(workers'[w].queue) = 1 /\ workers'[w].queue[1].id = n
    BY <2>2
  <2> QED
    BY <2>1, <2>2, <2>3, <2>7, <2>8, <2>9, <2>10, <2>11, StepLogged
<1> QED
  BY <1>1, <1>2

LEMMA InitLog == Init => LogInv
<1> SUFFICES ASSUME Init PROVE LogInv
  OBVIOUS
<1>1. IsSeq(<<>>) /\ Len(<<>>) = 0 /\ DOMAIN <<>> = {}
  BY EmptySeq DEF IsSeq
<1>2. \A w \in Workers : workers[w] = Idle
  BY DEF Init
<1>3. WorkerShape(Idle)
  BY <1>1 DEF WorkerShape, Idle
<1>4. Rows = {} /\ IsSeq(log)
  BY <1>1 DEF Init, Rows
<1>5. HistoryShape
  BY <1>1, <1>4 DEF Init, HistoryShape, Counts
<1>6. Shapes
  BY <1>2, <1>3, <1>4, <1>5 DEF Init, Shapes
<1> QED
  BY <1>2, <1>4, <1>6 DEF LogInv

LEMMA LogStep == LogInv /\ [Next]_vars => LogInv'
<1> SUFFICES ASSUME LogInv, [Next]_vars PROVE LogInv'
  OBVIOUS
<1>1. CASE UNCHANGED vars
  BY <1>1, NothingKeeps DEF vars
<1>2. CASE Next
  <2>1. PICK w \in Workers :
        \/ \E r \in Requests : Dispatch(w, r)
        \/ \E id \in Rows : Approve(w, id) \/ Reject(w, id) \/ Undo(w, id)
        \/ ApproveAll(w) \/ RejectAll(w) \/ UndoAll(w)
        \/ Looks(w) \/ Write(w) \/ RecordResult(w) \/ SetRejected(w) \/ UndoWrite(w)
        \/ SetUndone(w) \/ WriteBreaks(w) \/ UndoBreaks(w) \/ Stop(w)
    BY <1>2 DEF Next, Looks
  <2> QED
    BY <2>1, DispatchKeeps, ReviewsKeep, LooksKeep, WriteKeeps, RecordsKeep, UndoWriteKeeps,
       BreaksKeep, StopKeeps
<1> QED
  BY <1>1, <1>2

(* The row of a request nobody works on tells what happened to it.         *)
LEMMA LogInvTells == LogInv => LogTellsTruth
<1> SUFFICES ASSUME LogInv, NEW id \in Rows, id \notin history.disturbed,
                    ~ \E w \in Busy : id \in Queued(w)
             PROVE  /\ log[id].status \in Statuses
                    /\ history.applied[id] = (IF log[id].status \in {"applied", "undone"} THEN 1 ELSE 0)
                    /\ history.undone[id] = (IF log[id].status = "undone" THEN 1 ELSE 0)
  BY DEF LogTellsTruth
<1>1. \A w \in Workers : ~ QueuedAt(workers[w], id)
  BY BusyQueue
<1>2. Settled(log[id].status, history.applied[id], history.undone[id])
  BY <1>1 DEF LogInv, RowTrue
<1>3. log[id].status \in Statuses
  BY DEF LogInv, Shapes, RowShape
<1> QED
  BY <1>2, <1>3 DEF Settled

(* The log says what happened: a row no request works on is applied        *)
(* exactly if its action took effect once, undone exactly if it was also   *)
(* taken back once, and otherwise had no effect, whatever approvals,       *)
(* rejections, undos, stops and failing statements meet; a row two         *)
(* requests held at once, or at which one stopped or failed after its      *)
(* first statement, is excepted.  (LogTellsTruth of action_log.)           *)
THEOREM LogHolds == Spec => []LogTellsTruth
<1>1. Spec => []LogInv
  BY InitLog, LogStep, PTL DEF Spec
<1> QED
  BY <1>1, LogInvTells, PTL

----------------------------------------------------------------------------
(* The curated state: what its parts are after a change to one of them.    *)
StateIs(d, vocab, next, verdicts, suppressed, views, opinions, settings) ==
    /\ d = [vocab |-> vocab, nextId |-> next, verdicts |-> verdicts, suppressed |-> suppressed,
            views |-> views, opinions |-> opinions, settings |-> settings]

LEMMA StateExcept ==
    ASSUME NEW c, IsState(c), NEW x
    PROVE  /\ StateIs([c EXCEPT !.vocab = x], x, c.nextId, c.verdicts, c.suppressed, c.views, c.opinions, c.settings)
           /\ StateIs([c EXCEPT !.nextId = x], c.vocab, x, c.verdicts, c.suppressed, c.views, c.opinions, c.settings)
           /\ StateIs([c EXCEPT !.verdicts = x], c.vocab, c.nextId, x, c.suppressed, c.views, c.opinions, c.settings)
           /\ StateIs([c EXCEPT !.suppressed = x], c.vocab, c.nextId, c.verdicts, x, c.views, c.opinions, c.settings)
           /\ StateIs([c EXCEPT !.views = x], c.vocab, c.nextId, c.verdicts, c.suppressed, x, c.opinions, c.settings)
           /\ StateIs([c EXCEPT !.opinions = x], c.vocab, c.nextId, c.verdicts, c.suppressed, c.views, x, c.settings)
           /\ StateIs([c EXCEPT !.settings = x], c.vocab, c.nextId, c.verdicts, c.suppressed, c.views, c.opinions, x)
BY DEF IsState, StateIs

LEMMA StateParts ==
    ASSUME NEW d, NEW a, NEW b, NEW e, NEW f, NEW g, NEW h, NEW i, StateIs(d, a, b, e, f, g, h, i)
    PROVE  /\ IsState(d) /\ d.vocab = a /\ d.nextId = b /\ d.verdicts = e /\ d.suppressed = f
           /\ d.views = g /\ d.opinions = h /\ d.settings = i
BY DEF IsState, StateIs

(* Up to the counter, equal parts make equal states.                       *)
LEMMA SameButCounter ==
    ASSUME NEW c, NEW d, IsState(c), IsState(d), c.vocab = d.vocab, c.verdicts = d.verdicts,
           c.suppressed = d.suppressed, c.views = d.views, c.opinions = d.opinions,
           c.settings = d.settings
    PROVE  [c EXCEPT !.nextId = 0] = [d EXCEPT !.nextId = 0]
<1> DEFINE z == 0
<1>1. StateIs([c EXCEPT !.nextId = z], c.vocab, z, c.verdicts, c.suppressed, c.views, c.opinions, c.settings)
  BY StateExcept
<1>2. StateIs([d EXCEPT !.nextId = z], d.vocab, z, d.verdicts, d.suppressed, d.views, d.opinions, d.settings)
  BY StateExcept
<1> HIDE DEF z
<1>3. [c EXCEPT !.nextId = z] = [d EXCEPT !.nextId = z]
  BY <1>1, <1>2 DEF StateIs
<1> QED
  BY <1>3 DEF z

----------------------------------------------------------------------------
(* Entries and views, put in and taken out.                                *)
LEMMA KeysPut ==
    ASSUME NEW R, NEW n \in Nat, Keys(R, n), NEW r, r.id \in Nat, r.id < n
    PROVE  Keys({o \in R : o.id # r.id} \cup {r}, n)
BY DEF Keys

LEMMA KeysLater ==
    ASSUME NEW R, NEW n \in Nat, Keys(R, n), NEW m \in Nat, n <= m, NEW S \in SUBSET R
    PROVE  Keys(S, m)
BY DEF Keys

LEMMA VocabularyLater ==
    ASSUME NEW V, NEW n \in Nat, VocabularyKept(V, n), NEW m \in Nat, n <= m, NEW S \in SUBSET V
    PROVE  VocabularyKept(S, m)
BY KeysLater, FS_Subset DEF VocabularyKept

LEMMA VocabularyPut ==
    ASSUME NEW V, NEW n \in Nat, VocabularyKept(V, n), NEW e, IsEntry(e), e.id \in Nat, e.id < n,
           \A o \in V : o.kind = e.kind /\ o.parent = e.parent /\ o.name = e.name => o.id = e.id
    PROVE  VocabularyKept({o \in V : o.id # e.id} \cup {e}, n)
<1> DEFINE W == {o \in V : o.id # e.id}
<1>1. IsFiniteSet(W \cup {e})
  BY FS_Subset, FS_AddElement DEF VocabularyKept
<1>2. Keys(W \cup {e}, n)
  BY KeysPut DEF VocabularyKept
<1> QED
  BY <1>1, <1>2 DEF VocabularyKept

LEMMA PutIs ==
    ASSUME NEW c, IsState(c), NEW e
    PROVE  StateIs(Put(c, e), {o \in c.vocab : o.id # e.id} \cup {e}, c.nextId, c.verdicts,
                   c.suppressed, c.views, c.opinions, c.settings)
BY StateExcept DEF Put

LEMMA DropIs ==
    ASSUME NEW c, IsState(c), NEW ids
    PROVE  StateIs(Drop(c, ids), {o \in c.vocab : o.id \notin ids}, c.nextId, c.verdicts,
                   c.suppressed, c.views, c.opinions, c.settings)
BY StateExcept DEF Drop

LEMMA PutKeeps ==
    ASSUME NEW c, WellFormed(c), NEW e, IsEntry(e), e.id \in Nat, e.id < c.nextId,
           ~ Taken(c, e, e.name)
    PROVE  WellFormed(Put(c, e)) /\ Put(c, e).nextId = c.nextId
<1>1. IsState(c) /\ VocabularyKept(c.vocab, c.nextId) /\ c.nextId \in Nat
  BY DEF WellFormed
<1>2. \A o \in c.vocab : o.kind = e.kind /\ o.parent = e.parent /\ o.name = e.name => o.id = e.id
  BY DEF Taken, Named, Level
<1>3. VocabularyKept({o \in c.vocab : o.id # e.id} \cup {e}, c.nextId)
  BY <1>1, <1>2, VocabularyPut
<1> DEFINE d == Put(c, e)
           W == {o \in c.vocab : o.id # e.id} \cup {e}
<1>4. StateIs(d, W, c.nextId, c.verdicts, c.suppressed, c.views, c.opinions, c.settings)
  BY <1>1, PutIs
<1> HIDE DEF d, W
<1>5. /\ IsState(d) /\ d.vocab = W /\ d.nextId = c.nextId /\ d.verdicts = c.verdicts
      /\ d.views = c.views /\ d.opinions = c.opinions /\ d.settings = c.settings
  BY <1>4, StateParts
<1>6. VocabularyKept(W, c.nextId)
  BY <1>3 DEF W
<1>7. WellFormed(d)
  BY <1>5, <1>6 DEF WellFormed
<1> QED
  BY <1>5, <1>7 DEF d

LEMMA DropKeeps ==
    ASSUME NEW c, WellFormed(c), NEW ids
    PROVE  WellFormed(Drop(c, ids)) /\ Drop(c, ids).nextId = c.nextId
<1>1. IsState(c) /\ VocabularyKept(c.vocab, c.nextId) /\ c.nextId \in Nat
  BY DEF WellFormed
<1>2. VocabularyKept({o \in c.vocab : o.id \notin ids}, c.nextId)
  BY <1>1, VocabularyLater
<1> QED
  BY <1>1, <1>2, DropIs, StateParts DEF WellFormed

(* An entry is the only one of its id.                                     *)
LEMMA TheEntry ==
    ASSUME NEW c, WellFormed(c), NEW id, ById(c, id) # {}
    PROVE  LET e == CHOOSE e \in ById(c, id) : TRUE IN
           /\ e \in c.vocab /\ e.id = id /\ ById(c, id) = {e} /\ IsEntry(e)
           /\ e.id \in Nat /\ e.id < c.nextId
           /\ {o \in c.vocab : o.id # e.id} \cup {e} = c.vocab
<1> DEFINE e == CHOOSE e \in ById(c, id) : TRUE
<1>1. e \in ById(c, id)
  OBVIOUS
<1> HIDE DEF e
<1>2. e \in c.vocab /\ e.id = id
  BY <1>1 DEF ById
<1>3. \A o \in c.vocab : o.id = id => o = e
  BY <1>2 DEF WellFormed, VocabularyKept, Keys
<1> QED
  BY <1>2, <1>3 DEF e, ById, WellFormed, VocabularyKept, Keys

----------------------------------------------------------------------------
(* Outcomes that keep the state well formed.                               *)
UndoOps == {"nothing", "restore", "frozen", "recreate", "verdict", "unsuppress", "deleteView",
            "restoreView", "opinion", "opinions", "settings"}

UndoFits(u, n) ==
    /\ u.op \in UndoOps
    /\ u.op = "nothing" => u = NoUndo
    /\ u.op = "recreate" =>
          IsSeq(u.rows) /\ \A i \in 1..Len(u.rows) :
             IsEntry(u.rows[i]) /\ u.rows[i].id \in Nat /\ u.rows[i].id < n
    /\ u.op = "restoreView" => IsView(u.row) /\ u.row.id \in Nat /\ u.row.id < n

(* The same but for the vocabulary and the counter of ids; the same but    *)
(* for the counter.                                                        *)
SameRest(d, c) ==
    /\ d.verdicts = c.verdicts /\ d.suppressed = c.suppressed /\ d.views = c.views
    /\ d.opinions = c.opinions /\ d.settings = c.settings
Alike(d, c) == d.vocab = c.vocab /\ SameRest(d, c)

Kept(r, c) ==
    /\ r.ok \in BOOLEAN
    /\ WellFormed(r.cur) /\ c.nextId <= r.cur.nextId
    /\ UndoFits(r.undo, r.cur.nextId)
    /\ ~ r.ok => Alike(r.cur, c) /\ r.undo = NoUndo

LEMMA KeptIs ==
    ASSUME NEW r, NEW c, NEW d, NEW u, r.cur = d, r.undo = u, WellFormed(d), c.nextId <= d.nextId,
           UndoFits(u, d.nextId), r.ok = TRUE \/ (r.ok = FALSE /\ d = c /\ u = NoUndo)
    PROVE  Kept(r, c)
<1>1. r.ok \in BOOLEAN /\ (~ r.ok => d = c /\ u = NoUndo)
  OBVIOUS
<1>2. WellFormed(r.cur) /\ UndoFits(r.undo, r.cur.nextId)
  OBVIOUS
<1> QED
  BY <1>1, <1>2 DEF Kept, Alike, SameRest

LEMMA FailedKeeps == ASSUME NEW c, WellFormed(c) PROVE Kept(Failed(c), c)
<1>1. c.nextId \in Nat
  BY DEF WellFormed
<1>2. UndoFits(NoUndo, c.nextId)
  BY DEF UndoFits, UndoOps, NoUndo
<1>3. c.nextId <= c.nextId
  BY <1>1
<1>4. Failed(c).ok = FALSE /\ Failed(c).cur = c /\ Failed(c).undo = NoUndo
  BY DEF Failed
<1> QED
  BY <1>2, <1>3, <1>4, KeptIs

LEMMA DoneKeeps ==
    ASSUME NEW c, NEW d, WellFormed(d), c.nextId <= d.nextId, NEW u, UndoFits(u, d.nextId)
    PROVE  Kept(Done(d, u), c)
<1>1. Done(d, u).ok = TRUE /\ Done(d, u).cur = d /\ Done(d, u).undo = u
  BY DEF Done
<1> QED
  BY <1>1, KeptIs

LEMMA UndoLater ==
    ASSUME NEW n \in Nat, NEW m \in Nat, n <= m, NEW u, UndoFits(u, n)
    PROVE  UndoFits(u, m)
BY DEF UndoFits

(* The copy a function keeps does not show names, spellings or flags.      *)
LEMMA SnapshotOf == ASSUME NEW c, NEW d, c.vocab = d.vocab PROVE Snapshot(c) = Snapshot(d)
BY DEF Snapshot

Likes(e, f) == e.id = f.id /\ e.kind = f.kind /\ e.parent = f.parent /\ e.descr = f.descr

LEMMA SnapshotLike ==
    ASSUME NEW c, NEW d,
           \A e \in c.vocab : \E f \in d.vocab : Likes(e, f),
           \A f \in d.vocab : \E e \in c.vocab : Likes(e, f)
    PROVE  Snapshot(c) = Snapshot(d)
<1> DEFINE C(x) == {e \in x.vocab : e.kind = "category"}
           S(x) == {e \in x.vocab : /\ e.kind = "subcategory"
                                    /\ e.parent = 0 \/ \E p \in C(x) : p.id = e.parent}
           Row3(e) == [id |-> e.id, parent |-> e.parent, descr |-> e.descr]
<1>1. ASSUME NEW x, NEW y, \A e \in x.vocab : \E f \in y.vocab : Likes(e, f)
      PROVE  \A e \in C(x) \cup S(x) : \E f \in C(y) \cup S(y) : Row3(f) = Row3(e)
  <2> SUFFICES ASSUME NEW e \in C(x) \cup S(x) PROVE \E f \in C(y) \cup S(y) : Row3(f) = Row3(e)
    OBVIOUS
  <2>1. PICK f \in y.vocab : Likes(e, f)
    BY <1>1
  <2>2. Row3(f) = Row3(e)
    BY <2>1 DEF Likes
  <2>3. f \in C(y) \cup S(y)
    <3>1. CASE e.kind = "category"
      BY <2>1, <3>1 DEF Likes
    <3>2. CASE e.kind # "category"
      <4>1. e.kind = "subcategory" /\ (e.parent = 0 \/ \E p \in C(x) : p.id = e.parent)
        BY <3>2
      <4>2. CASE e.parent = 0
        BY <2>1, <4>1, <4>2 DEF Likes
      <4>3. CASE e.parent # 0
        <5>1. PICK p \in C(x) : p.id = e.parent
          BY <4>1, <4>3
        <5>2. PICK q \in y.vocab : Likes(p, q)
          BY <1>1
        <5>3. q \in C(y) /\ q.id = f.parent
          BY <2>1, <5>1, <5>2 DEF Likes
        <5> QED
          BY <2>1, <4>1, <5>3 DEF Likes
      <4> QED
        BY <4>2, <4>3
    <3> QED
      BY <3>1, <3>2
  <2> QED
    BY <2>2, <2>3
<1>2. \A e, f : Likes(e, f) <=> Likes(f, e)
  BY DEF Likes
<1>3. \A e \in C(c) \cup S(c) : \E f \in C(d) \cup S(d) : Row3(f) = Row3(e)
  <2> HIDE DEF C, S, Row3
  <2> QED
    BY <1>1
<1>4. \A f \in d.vocab : \E e \in c.vocab : Likes(f, e)
  BY <1>2
<1>5. \A e \in C(d) \cup S(d) : \E f \in C(c) \cup S(c) : Row3(f) = Row3(e)
  <2> HIDE DEF C, S, Row3
  <2> QED
    BY <1>1, <1>4
<1>6. Snapshot(c) = {Row3(e) : e \in C(c) \cup S(c)} /\ Snapshot(d) = {Row3(e) : e \in C(d) \cup S(d)}
  BY DEF Snapshot
<1> HIDE DEF C, S, Row3
<1> QED
  BY <1>3, <1>5, <1>6

LEMMA SnapshotPut ==
    ASSUME NEW c, WellFormed(c), NEW p \in c.vocab, NEW e, Likes(p, e)
    PROVE  Snapshot(Put(c, e)) = Snapshot(c)
<1> DEFINE d == Put(c, e)
           W == {o \in c.vocab : o.id # e.id} \cup {e}
<1>1. d.vocab = W
  <2>1. StateIs(d, W, c.nextId, c.verdicts, c.suppressed, c.views, c.opinions, c.settings)
    BY PutIs DEF WellFormed
  <2> HIDE DEF d, W
  <2> QED
    BY <2>1, StateParts
<1> HIDE DEF d
<1>2. \A o \in c.vocab : o.id = e.id => o = p
  BY DEF WellFormed, VocabularyKept, Keys, Likes
<1>3. \A o : Likes(o, o)
  BY DEF Likes
<1>4. \A o \in c.vocab : \E f \in W : Likes(o, f)
  BY <1>2, <1>3
<1>5. \A f \in W : \E o \in c.vocab : Likes(o, f)
  BY <1>2, <1>3
<1>6. Snapshot(c) = Snapshot(d)
  BY <1>1, <1>4, <1>5, SnapshotLike
<1> QED
  BY <1>6 DEF d

(* A changed entry keeps the rest of it.                                   *)
LEMMA EntryExcept ==
    ASSUME NEW e, IsEntry(e), NEW x
    PROVE  /\ [e EXCEPT !.name = x] = [id |-> e.id, kind |-> e.kind, parent |-> e.parent,
                   name |-> x, descr |-> e.descr, frozen |-> e.frozen, aliases |-> e.aliases]
           /\ [e EXCEPT !.descr = x] = [id |-> e.id, kind |-> e.kind, parent |-> e.parent,
                   name |-> e.name, descr |-> x, frozen |-> e.frozen, aliases |-> e.aliases]
           /\ [e EXCEPT !.frozen = x] = [id |-> e.id, kind |-> e.kind, parent |-> e.parent,
                   name |-> e.name, descr |-> e.descr, frozen |-> x, aliases |-> e.aliases]
           /\ [e EXCEPT !.aliases = x] = [id |-> e.id, kind |-> e.kind, parent |-> e.parent,
                   name |-> e.name, descr |-> e.descr, frozen |-> e.frozen, aliases |-> x]
BY DEF IsEntry

EntryIs(e, id, kind, parent, name, descr, frozen, aliases) ==
    e = [id |-> id, kind |-> kind, parent |-> parent, name |-> name, descr |-> descr,
         frozen |-> frozen, aliases |-> aliases]

LEMMA EntryParts ==
    ASSUME NEW e, NEW a, NEW b, NEW c, NEW d, NEW f, NEW g, NEW h, EntryIs(e, a, b, c, d, f, g, h)
    PROVE  IsEntry(e) /\ e.id = a /\ e.kind = b /\ e.parent = c /\ e.name = d /\ e.descr = f
           /\ e.frozen = g /\ e.aliases = h
BY DEF IsEntry, EntryIs

LEMMA NotTaken ==
    ASSUME NEW c, WellFormed(c), NEW p \in c.vocab, NEW e, e.id = p.id, e.kind = p.kind,
           e.parent = p.parent, e.name = p.name
    PROVE  ~ Taken(c, e, e.name)
BY DEF Taken, Named, Level, WellFormed, VocabularyKept

(* A finite set made a sequence, in some order.                            *)
Enumerates(q, S) ==
    /\ IsSeq(q) /\ DOMAIN q = 1..Len(q)
    /\ \A i \in 1..Len(q) : q[i] \in S
    /\ \A x \in S : \E i \in 1..Len(q) : q[i] = x

LEMMA SetToSeqIs ==
    ASSUME NEW S, IsFiniteSet(S)
    PROVE  SetToSeq(S) \in Seq(S) /\ Enumerates(SetToSeq(S), S)
<1> DEFINE n == Cardinality(S)
           f == SetToSeq(S)
<1>1. n \in Nat /\ ExistsBijection(1..n, S)
  BY FS_CardinalityType
<1>2. \E g \in [1..n -> S] : IsInjective(g)
  BY <1>1 DEF ExistsBijection, Bijection, Injection
<1>3. f \in [1..n -> S] /\ IsInjective(f)
  BY <1>2 DEF SetToSeq
<1> HIDE DEF f
<1>4. f \in Injection(1..n, S) /\ IsFiniteSet(1..n) /\ Cardinality(1..n) = n
  BY <1>1, <1>3, FS_Interval DEF Injection
<1> HIDE DEF n
<1>5. n = Cardinality(S)
  BY DEF n
<1>6. f \in Surjection(1..n, S)
  BY <1>4, <1>5, FS_Injection
<1>7. \A x \in S : \E i \in 1..n : f[i] = x
  BY <1>6 DEF Surjection
<1>8. f \in Seq(S) /\ Len(f) = n
  BY <1>1, <1>3, IsASeq
<1>9. IsSeq(f) /\ DOMAIN f = 1..Len(f)
  BY <1>1, <1>3, <1>8 DEF IsSeq
<1> QED
  BY <1>3, <1>7, <1>8, <1>9 DEF Enumerates, f

LEMMA BothEnumerate ==
    ASSUME NEW S, NEW T, NEW p \in Seq(S), NEW q \in Seq(T), Enumerates(p, S), Enumerates(q, T)
    PROVE  Enumerates(p \o q, S \cup T)
<1> DEFINE r == p \o q
<1>1. p \in Seq(S \cup T) /\ q \in Seq(S \cup T)
  OBVIOUS
<1>2. /\ r \in Seq(S \cup T) /\ Len(r) = Len(p) + Len(q) /\ Len(p) \in Nat /\ Len(q) \in Nat
      /\ \A i \in 1..Len(p) + Len(q) : r[i] = IF i <= Len(p) THEN p[i] ELSE q[i - Len(p)]
  <2> HIDE DEF r
  <2>1. r = p \o q
    BY DEF r
  <2> QED
    BY <1>1, <2>1, ConcatProperties
<1> HIDE DEF r
<1>3. IsSeq(r) /\ DOMAIN r = 1..Len(r)
  BY <1>2 DEF IsSeq
<1>4. \A i \in 1..Len(r) : r[i] \in S \cup T
  BY <1>2
<1>5. ASSUME NEW x \in S PROVE \E i \in 1..Len(r) : r[i] = x
  <2>1. PICK i \in 1..Len(p) : p[i] = x
    BY DEF Enumerates
  <2> QED
    BY <1>2, <2>1
<1>6. ASSUME NEW x \in T PROVE \E i \in 1..Len(r) : r[i] = x
  <2>1. PICK i \in 1..Len(q) : q[i] = x
    BY DEF Enumerates
  <2>2. Len(p) + i \in 1..Len(r) /\ ~ (Len(p) + i <= Len(p)) /\ (Len(p) + i) - Len(p) = i
    BY <1>2
  <2>3. r[Len(p) + i] = x
    BY <1>2, <2>1, <2>2
  <2> QED
    BY <2>2, <2>3
<1> QED
  BY <1>3, <1>4, <1>5, <1>6 DEF Enumerates, r

Cleared(s, kind) == ClearRoots(s, kind) \cup ClearChildren(s, kind)

LEMMA ClearOrderIs ==
    ASSUME NEW s, WellFormed(s), NEW kind
    PROVE  Enumerates(ClearOrder(s, kind), Cleared(s, kind)) /\ Cleared(s, kind) \subseteq s.vocab
<1>1. ClearRoots(s, kind) \subseteq s.vocab /\ ClearChildren(s, kind) \subseteq s.vocab
  BY DEF ClearRoots, ClearChildren, Level
<1>2. IsFiniteSet(ClearRoots(s, kind)) /\ IsFiniteSet(ClearChildren(s, kind))
  BY <1>1, FS_Subset DEF WellFormed, VocabularyKept
<1> DEFINE p == SetToSeq(ClearRoots(s, kind))
           q == SetToSeq(ClearChildren(s, kind))
<1>3. p \in Seq(ClearRoots(s, kind)) /\ Enumerates(p, ClearRoots(s, kind))
  BY <1>2, SetToSeqIs
<1>4. q \in Seq(ClearChildren(s, kind)) /\ Enumerates(q, ClearChildren(s, kind))
  BY <1>2, SetToSeqIs
<1> HIDE DEF p, q
<1>5. Enumerates(p \o q, Cleared(s, kind))
  BY <1>3, <1>4, BothEnumerate DEF Cleared
<1> QED
  BY <1>1, <1>5 DEF ClearOrder, Cleared, p, q

----------------------------------------------------------------------------
(* The vocabulary actions.  What they read, s, is not newer than what they *)
(* write to, c.                                                            *)
LEMMA OpsDiffer ==
    /\ \A id, cr, n, d, m : UndoFits([op |-> "restore", id |-> id, created |-> cr, name |-> n, descr |-> d], m)
    /\ \A id, f, m : UndoFits([op |-> "frozen", id |-> id, frozen |-> f], m)
    /\ \A f, v, m : UndoFits([op |-> "verdict", fingerprint |-> f, verdict |-> v], m)
    /\ \A t, m : UndoFits([op |-> "unsuppress", target |-> t], m)
    /\ \A i, m : UndoFits([op |-> "deleteView", id |-> i], m)
    /\ \A p, r, m : UndoFits([op |-> "opinion", actor |-> p, row |-> r], m)
    /\ \A r, m : UndoFits([op |-> "opinions", rows |-> r], m)
    /\ \A p, r, m : UndoFits([op |-> "settings", actor |-> p, row |-> r], m)
    /\ \A m : UndoFits(NoUndo, m)
BY DEF UndoFits, UndoOps, NoUndo

LEMMA RecreateFits ==
    ASSUME NEW q, IsSeq(q), NEW n,
           \A i \in 1..Len(q) : IsEntry(q[i]) /\ q[i].id \in Nat /\ q[i].id < n
    PROVE  UndoFits([op |-> "recreate", rows |-> q], n)
BY DEF UndoFits, UndoOps

LEMMA ViewFits ==
    ASSUME NEW v, NEW n, IsView(v), v.id \in Nat, v.id < n
    PROVE  UndoFits([op |-> "restoreView", row |-> v], n)
BY DEF UndoFits, UndoOps

(* One entry changed in place.                                             *)
LEMMA InPlaceKeeps ==
    ASSUME NEW c, WellFormed(c), NEW id, ById(c, id) # {}, NEW p, p = CHOOSE e \in ById(c, id) : TRUE,
           NEW e, IsEntry(e), e.id = p.id, e.kind = p.kind, e.parent = p.parent, ~ Taken(c, e, e.name),
           NEW u, UndoFits(u, c.nextId)
    PROVE  /\ Kept(Done(Put(c, e), u), c)
           /\ e.descr = p.descr => Snapshot(Put(c, e)) = Snapshot(c)
<1>1. p \in c.vocab /\ p.id \in Nat /\ p.id < c.nextId
  BY TheEntry
<1> DEFINE d == Put(c, e)
<1>2. WellFormed(d) /\ d.nextId = c.nextId
  BY <1>1, PutKeeps
<1>3. e.descr = p.descr => Snapshot(d) = Snapshot(c)
  BY <1>1, SnapshotPut DEF Likes
<1> HIDE DEF d
<1>4. c.nextId <= d.nextId /\ UndoFits(u, d.nextId)
  BY <1>2 DEF WellFormed
<1>5. Kept(Done(d, u), c)
  BY <1>2, <1>4, DoneKeeps
<1> QED
  BY <1>3, <1>5 DEF d

LEMMA RenameKeeps ==
    ASSUME NEW s, NEW c, WellFormed(c), NEW a, NEW r, r = Rename(a, s, c)
    PROVE  Kept(r, c) /\ Snapshot(r.cur) = Snapshot(c)
<1>1. CASE r = Failed(c)
  BY <1>1, FailedKeeps DEF Failed
<1>2. CASE r # Failed(c)
  <2> DEFINE p == Previous(c, a)
             e == [p EXCEPT !.name = a.name]
             u == Restore(Previous(s, a))
  <2>1. ById(c, a.id) # {} /\ ~ Taken(c, p, a.name) /\ r = Done(Put(c, e), u)
    BY <1>2 DEF Rename
  <2>2. p = CHOOSE o \in ById(c, a.id) : TRUE
    BY DEF Previous
  <2>3. UndoFits(u, c.nextId)
    BY OpsDiffer DEF Restore
  <2>4. IsEntry(p)
    BY <2>1, <2>2, TheEntry
  <2> HIDE DEF p, u
  <2>5. EntryIs(e, p.id, p.kind, p.parent, a.name, p.descr, p.frozen, p.aliases)
    BY <2>4, EntryExcept DEF EntryIs
  <2> HIDE DEF e
  <2>6. IsEntry(e) /\ e.id = p.id /\ e.kind = p.kind /\ e.parent = p.parent /\ e.name = a.name /\ e.descr = p.descr
    BY <2>5, EntryParts
  <2>7. ~ Taken(c, e, e.name)
    BY <2>1, <2>6 DEF Taken, Named
  <2>8. Kept(Done(Put(c, e), u), c) /\ Snapshot(Put(c, e)) = Snapshot(c)
    BY <2>1, <2>2, <2>3, <2>6, <2>7, InPlaceKeeps
  <2> QED
    BY <2>1, <2>8 DEF Done
<1> QED
  BY <1>1, <1>2

LEMMA RedefineKeeps ==
    ASSUME NEW s, NEW c, WellFormed(c), NEW a, NEW r, r = Redefine(a, s, c)
    PROVE  Kept(r, c)
<1>1. CASE r = Failed(c)
  BY <1>1, FailedKeeps
<1>2. CASE r # Failed(c)
  <2> DEFINE p == Previous(c, a)
             e == [p EXCEPT !.descr = a.descr]
             u == Restore(Previous(s, a))
  <2>1. ById(c, a.id) # {} /\ r = Done(Put(c, e), u)
    BY <1>2 DEF Redefine
  <2>2. p = CHOOSE o \in ById(c, a.id) : TRUE
    BY DEF Previous
  <2>3. UndoFits(u, c.nextId)
    BY OpsDiffer DEF Restore
  <2>4. IsEntry(p) /\ p \in c.vocab
    BY <2>1, <2>2, TheEntry
  <2> HIDE DEF p, u
  <2>5. EntryIs(e, p.id, p.kind, p.parent, p.name, a.descr, p.frozen, p.aliases)
    BY <2>4, EntryExcept DEF EntryIs
  <2> HIDE DEF e
  <2>6. IsEntry(e) /\ e.id = p.id /\ e.kind = p.kind /\ e.parent = p.parent /\ e.name = p.name
    BY <2>5, EntryParts
  <2>7. ~ Taken(c, e, e.name)
    BY <2>4, <2>6, NotTaken
  <2> QED
    BY <2>1, <2>2, <2>3, <2>6, <2>7, InPlaceKeeps
<1> QED
  BY <1>1, <1>2

LEMMA FreezeKeeps ==
    ASSUME NEW s, NEW c, WellFormed(c), NEW a, NEW r, r = Freeze(a, s, c)
    PROVE  Kept(r, c) /\ Snapshot(r.cur) = Snapshot(c)
<1>1. CASE r = Failed(c)
  BY <1>1, FailedKeeps DEF Failed
<1>2. CASE r # Failed(c)
  <2> DEFINE p == Previous(c, a)
             e == [p EXCEPT !.frozen = a.frozen]
             u == [op |-> "frozen", id |-> a.id, frozen |-> Previous(s, a).frozen]
  <2>1. ById(c, a.id) # {} /\ r = Done(Put(c, e), u)
    BY <1>2 DEF Freeze
  <2>2. p = CHOOSE o \in ById(c, a.id) : TRUE
    BY DEF Previous
  <2>3. UndoFits(u, c.nextId)
    BY OpsDiffer
  <2>4. IsEntry(p) /\ p \in c.vocab
    BY <2>1, <2>2, TheEntry
  <2> HIDE DEF p, u
  <2>5. EntryIs(e, p.id, p.kind, p.parent, p.name, p.descr, a.frozen, p.aliases)
    BY <2>4, EntryExcept DEF EntryIs
  <2> HIDE DEF e
  <2>6. IsEntry(e) /\ e.id = p.id /\ e.kind = p.kind /\ e.parent = p.parent /\ e.name = p.name /\ e.descr = p.descr
    BY <2>5, EntryParts
  <2>7. ~ Taken(c, e, e.name)
    BY <2>4, <2>6, NotTaken
  <2>8. Kept(Done(Put(c, e), u), c) /\ Snapshot(Put(c, e)) = Snapshot(c)
    BY <2>1, <2>2, <2>3, <2>6, <2>7, InPlaceKeeps
  <2> QED
    BY <2>1, <2>8 DEF Done
<1> QED
  BY <1>1, <1>2

(* Entries taken out, and kept for the undo.                               *)
LEMMA RemovalKeeps ==
    ASSUME NEW s, NEW c, WellFormed(s), WellFormed(c), s.nextId <= c.nextId,
           NEW q, IsSeq(q), \A i \in 1..Len(q) : q[i] \in s.vocab, NEW ids
    PROVE  Kept(Done(Drop(c, ids), [op |-> "recreate", rows |-> q]), c)
<1> DEFINE d == Drop(c, ids)
           u == [op |-> "recreate", rows |-> q]
<1>1. WellFormed(d) /\ d.nextId = c.nextId
  BY DropKeeps
<1>2. UndoFits(u, c.nextId)
  <2>1. \A e \in s.vocab : IsEntry(e) /\ e.id \in Nat /\ e.id < s.nextId
    BY DEF WellFormed, VocabularyKept, Keys
  <2>2. s.nextId \in Nat /\ c.nextId \in Nat
    BY DEF WellFormed
  <2> QED
    BY <2>1, <2>2, RecreateFits
<1> HIDE DEF d, u
<1>3. c.nextId <= d.nextId /\ UndoFits(u, d.nextId)
  BY <1>1, <1>2 DEF WellFormed
<1>4. Kept(Done(d, u), c)
  BY <1>1, <1>3, DoneKeeps
<1> QED
  BY <1>4 DEF d, u

LEMMA SeqOne == ASSUME NEW x PROVE IsSeq(<<x>>) /\ Len(<<x>>) = 1 /\ <<x>>[1] = x
<1>1. <<x>> \in Seq({x})
  OBVIOUS
<1> QED
  BY <1>1 DEF IsSeq

LEMMA DeleteKeeps ==
    ASSUME NEW s, NEW c, WellFormed(s), WellFormed(c), s.nextId <= c.nextId, NEW a,
           NEW r, r = Delete(a, s, c)
    PROVE  Kept(r, c)
<1>1. CASE r = Failed(c)
  BY <1>1, FailedKeeps
<1>2. CASE r # Failed(c)
  <2> DEFINE p == Previous(s, a)
             q == <<p>>
  <2>1. ById(s, a.id) # {} /\ r = Done(Drop(c, {a.id}), [op |-> "recreate", rows |-> q])
    BY <1>2 DEF Delete
  <2>2. p \in s.vocab
    BY <2>1, TheEntry DEF Previous
  <2> HIDE DEF p
  <2>3. IsSeq(q) /\ \A i \in 1..Len(q) : q[i] \in s.vocab
    BY <2>2, SeqOne
  <2> HIDE DEF q
  <2> QED
    BY <2>1, <2>3, RemovalKeeps
<1> QED
  BY <1>1, <1>2

LEMMA ClearKeeps ==
    ASSUME NEW s, NEW c, WellFormed(s), WellFormed(c), s.nextId <= c.nextId, NEW a,
           NEW r, r = Clear(a, s, c)
    PROVE  Kept(r, c)
<1> DEFINE q == ClearOrder(s, a.vocab)
           ids == {q[i].id : i \in DOMAIN q}
<1>1. r = Done(Drop(c, ids), [op |-> "recreate", rows |-> q])
  BY DEF Clear
<1>2. IsSeq(q) /\ \A i \in 1..Len(q) : q[i] \in s.vocab
  BY ClearOrderIs DEF Enumerates
<1> HIDE DEF q, ids
<1> QED
  BY <1>1, <1>2, RemovalKeeps

(* A definition: an entry of its own or one of the same name filled in.    *)
LEMMA UpsertKeeps ==
    ASSUME NEW c, WellFormed(c), NEW a, NEW name, NEW up, up = Upsert(c, a, name)
    PROVE  /\ WellFormed(up.cur) /\ c.nextId <= up.cur.nextId
           /\ IsEntry(up.row) /\ up.row \in up.cur.vocab
<1> DEFINE hit == Named(c, a.vocab, a.parent, name)
<1>0. c.nextId \in Nat /\ IsState(c)
  BY DEF WellFormed
<1>1. CASE hit = {}
  <2> DEFINE e == Entry(c.nextId, a.vocab, a.parent, name, a.descr)
             n == c.nextId + 1
             b == [c EXCEPT !.nextId = n]
             d == Put(b, e)
             f == [Put(c, e) EXCEPT !.nextId = n]
  <2>1. up = [cur |-> [Put(c, e) EXCEPT !.nextId = @ + 1], row |-> e]
    BY <1>1 DEF Upsert
  <2>2. StateIs(Put(c, e), {o \in c.vocab : o.id # e.id} \cup {e}, c.nextId, c.verdicts, c.suppressed,
                c.views, c.opinions, c.settings)
    BY <1>0, PutIs
  <2>3. StateIs(b, c.vocab, n, c.verdicts, c.suppressed, c.views, c.opinions, c.settings)
    BY <1>0, StateExcept
  <2> DEFINE no == FALSE
             empty == {}
  <2>4. EntryIs(e, c.nextId, a.vocab, a.parent, name, a.descr, no, empty)
    BY DEF EntryIs, Entry
  <2>5. ~ \E o \in c.vocab : o.kind = a.vocab /\ o.parent = a.parent /\ o.name = name
    BY <1>1 DEF Named, Level
  <2> HIDE DEF e, no, empty
  <2>6. IsEntry(e) /\ e.id = c.nextId /\ e.kind = a.vocab /\ e.parent = a.parent /\ e.name = name
    BY <2>4, EntryParts
  <2>7. WellFormed(b)
    <3>1. IsState(b) /\ b.vocab = c.vocab /\ b.nextId = n /\ b.verdicts = c.verdicts
          /\ b.views = c.views /\ b.opinions = c.opinions /\ b.settings = c.settings
      BY <2>3, StateParts
    <3> HIDE DEF b
    <3>2. n \in Nat /\ c.nextId <= n
      BY <1>0
    <3> HIDE DEF n
    <3>3. VocabularyKept(c.vocab, n) /\ Keys(c.views, n)
      BY <1>0, <3>2, VocabularyLater, KeysLater DEF WellFormed
    <3> QED
      BY <3>1, <3>2, <3>3 DEF WellFormed
  <2>8. b.vocab = c.vocab /\ b.nextId = n
    BY <2>3, StateParts
  <2>9. ~ Taken(b, e, e.name)
    <3> HIDE DEF b
    <3> QED
      BY <2>5, <2>6, <2>8 DEF Taken, Named, Level
  <2>10. WellFormed(d) /\ d.nextId = n
    <3>1. e.id \in Nat /\ e.id < n
      BY <1>0, <2>6
    <3> HIDE DEF b, n
    <3> QED
      BY <2>6, <2>7, <2>8, <2>9, <3>1, PutKeeps
  <2>11. StateIs(d, {o \in c.vocab : o.id # e.id} \cup {e}, n, c.verdicts, c.suppressed, c.views,
                 c.opinions, c.settings)
    <3>1. IsState(b) /\ b.vocab = c.vocab /\ b.nextId = n /\ b.verdicts = c.verdicts
          /\ b.suppressed = c.suppressed
          /\ b.views = c.views /\ b.opinions = c.opinions /\ b.settings = c.settings
      BY <2>3, StateParts
    <3> HIDE DEF b, n
    <3> QED
      BY <3>1, PutIs
  <2>12. f = d
    <3>1. Put(c, e).nextId = c.nextId /\ IsState(Put(c, e))
      BY <2>2, StateParts
    <3>2. StateIs(f, {o \in c.vocab : o.id # e.id} \cup {e}, n, c.verdicts, c.suppressed, c.views,
                  c.opinions, c.settings)
      <4> DEFINE g == Put(c, e)
                 W == {o \in c.vocab : o.id # e.id} \cup {e}
      <4>1. IsState(g) /\ g.vocab = W /\ g.verdicts = c.verdicts /\ g.suppressed = c.suppressed
            /\ g.views = c.views /\ g.opinions = c.opinions /\ g.settings = c.settings
        BY <2>2, StateParts
      <4> HIDE DEF g, W, n
      <4>2. StateIs([g EXCEPT !.nextId = n], W, n, c.verdicts, c.suppressed, c.views, c.opinions, c.settings)
        BY <4>1, StateExcept
      <4> QED
        BY <4>2 DEF g, W
    <3> HIDE DEF f, d
    <3> QED
      BY <2>11, <3>2 DEF StateIs
  <2>13. up.cur = f /\ up.row = e
    <3>1. Put(c, e).nextId = c.nextId
      BY <2>2, StateParts
    <3> QED
      BY <2>1, <3>1
  <2>14. e \in d.vocab
    <3> DEFINE W == {o \in c.vocab : o.id # e.id} \cup {e}
    <3>1. d.vocab = W
      <4> HIDE DEF d, W, n
      <4> QED
        BY <2>11, StateParts DEF W
    <3> QED
      BY <3>1
  <2> HIDE DEF d, f
  <2>15. c.nextId <= n
    BY <1>0
  <2> HIDE DEF n
  <2> QED
    BY <2>6, <2>10, <2>12, <2>13, <2>14, <2>15
<1>2. CASE hit # {}
  <2> DEFINE o == CHOOSE x \in hit : TRUE
             e == [o EXCEPT !.descr = Coalesce(a.descr, @)]
             v == Coalesce(a.descr, o.descr)
             d == Put(c, e)
             f == [d EXCEPT !.nextId = @]
  <2>1. up = [cur |-> f, row |-> e]
    BY <1>2 DEF Upsert
  <2>2. o \in hit
    BY <1>2
  <2> HIDE DEF o
  <2>3. o \in c.vocab
    BY <2>2 DEF Named, Level
  <2>4. IsEntry(o) /\ o.id \in Nat /\ o.id < c.nextId
    BY <2>3 DEF WellFormed, VocabularyKept, Keys
  <2>5. e = [o EXCEPT !.descr = v]
    OBVIOUS
  <2>6. EntryIs(e, o.id, o.kind, o.parent, o.name, v, o.frozen, o.aliases)
    <3> HIDE DEF e, v
    <3> QED
      BY <2>4, <2>5, EntryExcept DEF EntryIs
  <2> HIDE DEF e, v
  <2>7. IsEntry(e) /\ e.id = o.id /\ e.kind = o.kind /\ e.parent = o.parent /\ e.name = o.name
    BY <2>6, EntryParts
  <2>8. ~ Taken(c, e, e.name)
    BY <2>3, <2>7, NotTaken
  <2>9. WellFormed(d) /\ d.nextId = c.nextId
    BY <2>4, <2>7, <2>8, PutKeeps
  <2>10. e \in d.vocab
    <3> DEFINE W == {x \in c.vocab : x.id # e.id} \cup {e}
    <3>1. StateIs(d, W, c.nextId, c.verdicts, c.suppressed, c.views, c.opinions, c.settings)
      BY <1>0, PutIs
    <3>2. d.vocab = W
      <4> HIDE DEF d, W
      <4> QED
        BY <3>1, StateParts
    <3> QED
      BY <3>2
  <2> HIDE DEF d
  <2>11. f = d
    BY <2>9 DEF WellFormed, IsState
  <2> HIDE DEF f
  <2>12. up.cur = d /\ up.row = e
    BY <2>1, <2>11
  <2>13. c.nextId <= d.nextId
    BY <1>0, <2>9
  <2> QED
    BY <2>7, <2>9, <2>10, <2>12, <2>13
<1> QED
  BY <1>1, <1>2

LEMMA DefineKeeps ==
    ASSUME NEW s, NEW c, WellFormed(c), NEW a, NEW r, r = Define(a, s, c)
    PROVE  Kept(r, c)
<1> DEFINE level == Level(s, a.vocab, a.parent)
           previous == {e \in level : SameWord(e.name, a.name)}
           first == CHOOSE e \in previous : \A o \in previous : e.id <= o.id
           stored == IF previous = {} THEN a.name ELSE first.name
           up == Upsert(c, a, stored)
           x == up.row.aliases \cup a.aliases
           e == [up.row EXCEPT !.aliases = x]
           d == Put(up.cur, e)
           u == [op |-> "restore", id |-> up.row.id, created |-> previous = {},
                 name |-> IF previous = {} THEN NoName ELSE first.name,
                 descr |-> IF previous = {} THEN None ELSE first.descr]
<1>1. CASE r = Failed(c)
  BY <1>1, FailedKeeps
<1>2. CASE r # Failed(c)
  <2>1. r = Done(Put(up.cur, AppendAliases(up.row, a.aliases)), u)
    BY <1>2 DEF Define
  <2>2. r = Done(d, u)
    BY <2>1 DEF AppendAliases
  <2>3. \A m : UndoFits(u, m)
    BY OpsDiffer
  <2>4. /\ WellFormed(up.cur) /\ c.nextId <= up.cur.nextId
        /\ IsEntry(up.row) /\ up.row \in up.cur.vocab
    BY UpsertKeeps
  <2> HIDE DEF up, u, x
  <2>5. up.row.id \in Nat /\ up.row.id < up.cur.nextId
    BY <2>4 DEF WellFormed, VocabularyKept, Keys
  <2>6. EntryIs(e, up.row.id, up.row.kind, up.row.parent, up.row.name, up.row.descr, up.row.frozen, x)
    BY <2>4, EntryExcept DEF EntryIs
  <2> HIDE DEF e
  <2>7. IsEntry(e) /\ e.id = up.row.id /\ e.kind = up.row.kind /\ e.parent = up.row.parent
        /\ e.name = up.row.name
    BY <2>6, EntryParts
  <2>8. ~ Taken(up.cur, e, e.name)
    BY <2>4, <2>7, NotTaken
  <2>9. WellFormed(d) /\ d.nextId = up.cur.nextId
    BY <2>4, <2>5, <2>7, <2>8, PutKeeps
  <2> HIDE DEF d
  <2> QED
    BY <2>2, <2>3, <2>4, <2>9, DoneKeeps
<1> QED
  BY <1>1, <1>2

(* What touches the vocabulary does not touch the rest, and the reverse.   *)
RestFits(n, verdicts, views, opinions, settings) ==
    /\ IsMap(verdicts) /\ IsMap(opinions) /\ IsMap(settings)
    /\ Keys(views, n) /\ \A v \in views : IsView(v)

LEMMA RestOf ==
    ASSUME NEW c, WellFormed(c)
    PROVE  /\ IsState(c) /\ c.nextId \in Nat /\ c.nextId <= c.nextId
           /\ RestFits(c.nextId, c.verdicts, c.views, c.opinions, c.settings)
BY DEF WellFormed, RestFits

LEMMA RestKeeps ==
    ASSUME NEW c, WellFormed(c), NEW d, IsState(d), d.vocab = c.vocab, d.nextId \in Nat,
           c.nextId <= d.nextId, RestFits(d.nextId, d.verdicts, d.views, d.opinions, d.settings),
           NEW u, UndoFits(u, d.nextId)
    PROVE  Kept(Done(d, u), c) /\ Snapshot(Done(d, u).cur) = Snapshot(c)
<1>1. VocabularyKept(d.vocab, d.nextId)
  BY VocabularyLater DEF WellFormed
<1>2. WellFormed(d)
  BY <1>1 DEF WellFormed, RestFits
<1>3. Kept(Done(d, u), c)
  BY <1>2, DoneKeeps
<1>4. Done(d, u).cur = d
  BY DEF Done
<1> QED
  BY <1>3, <1>4, SnapshotOf

LEMMA MapExcept == ASSUME NEW f, IsMap(f), NEW x, NEW v PROVE IsMap([f EXCEPT ![x] = v])
BY DEF IsMap

LEMMA VerdictKeeps ==
    ASSUME NEW c, WellFormed(c), NEW f, NEW v, NEW u, UndoFits(u, c.nextId),
           NEW r, r = Done(WithVerdict(c, f, v), u)
    PROVE  Kept(r, c) /\ Snapshot(r.cur) = Snapshot(c)
<1> DEFINE x == [c.verdicts EXCEPT ![f] = v]
           d == WithVerdict(c, f, v)
<1>1. /\ IsState(c) /\ c.nextId \in Nat /\ c.nextId <= c.nextId
      /\ RestFits(c.nextId, c.verdicts, c.views, c.opinions, c.settings)
  BY RestOf
<1>2. d = [c EXCEPT !.verdicts = x]
  BY DEF WithVerdict
<1>3. RestFits(c.nextId, x, c.views, c.opinions, c.settings)
  BY <1>1, MapExcept DEF RestFits
<1> HIDE DEF x, d
<1>4. StateIs(d, c.vocab, c.nextId, x, c.suppressed, c.views, c.opinions, c.settings)
  BY <1>1, <1>2, StateExcept
<1>5. r = Done(d, u)
  BY DEF d
<1>6. IsState(d) /\ d.vocab = c.vocab /\ d.nextId = c.nextId /\ d.verdicts = x /\ d.views = c.views
      /\ d.opinions = c.opinions /\ d.settings = c.settings
  BY <1>4, StateParts
<1> QED
  BY <1>1, <1>3, <1>5, <1>6, RestKeeps

LEMMA VerdictsKeep ==
    ASSUME NEW s, NEW c, WellFormed(c), NEW a, NEW r,
           r \in {Dismiss(a, s, c), Pin(a, s, c), Annotate(a, s, c)}
    PROVE  Kept(r, c) /\ Snapshot(r.cur) = Snapshot(c)
<1>1. UndoFits(UndoForState(a, s), c.nextId)
  BY OpsDiffer DEF UndoForState
<1>2. \E v : r = Done(WithVerdict(c, a.fingerprint, v), UndoForState(a, s))
  BY DEF Dismiss, Pin, Annotate
<1> QED
  BY <1>1, <1>2, VerdictKeeps

LEMMA SuppressedKeeps ==
    ASSUME NEW c, WellFormed(c), NEW x, NEW u, UndoFits(u, c.nextId),
           NEW r, r = Done([c EXCEPT !.suppressed = x], u)
    PROVE  Kept(r, c) /\ Snapshot(r.cur) = Snapshot(c)
<1> DEFINE d == [c EXCEPT !.suppressed = x]
<1>1. /\ IsState(c) /\ c.nextId \in Nat /\ c.nextId <= c.nextId
      /\ RestFits(c.nextId, c.verdicts, c.views, c.opinions, c.settings)
  BY RestOf
<1>2. StateIs(d, c.vocab, c.nextId, c.verdicts, x, c.views, c.opinions, c.settings)
  BY <1>1, StateExcept
<1> HIDE DEF d
<1>3. r = Done(d, u)
  BY DEF d
<1>4. IsState(d) /\ d.vocab = c.vocab /\ d.nextId = c.nextId /\ d.verdicts = c.verdicts /\ d.views = c.views
      /\ d.opinions = c.opinions /\ d.settings = c.settings
  BY <1>2, StateParts
<1> QED
  BY <1>1, <1>3, <1>4, RestKeeps

LEMMA SuppressKeeps ==
    ASSUME NEW c, WellFormed(c), NEW a, NEW r, r = Suppress(a, c)
    PROVE  Kept(r, c) /\ Snapshot(r.cur) = Snapshot(c)
<1> DEFINE x == c.suppressed \cup {a.target}
           u == [op |-> "unsuppress", target |-> a.target]
<1>1. r = Done([c EXCEPT !.suppressed = x], u)
  BY DEF Suppress
<1>2. UndoFits(u, c.nextId)
  BY OpsDiffer
<1> HIDE DEF x, u
<1> QED
  BY <1>1, <1>2, SuppressedKeeps

(* Opinions and settings: maps from actors.                                *)
LEMMA OpinionsKeep ==
    ASSUME NEW c, WellFormed(c), NEW x, IsMap(x), NEW u, UndoFits(u, c.nextId),
           NEW r, r = Done([c EXCEPT !.opinions = x], u)
    PROVE  Kept(r, c) /\ Snapshot(r.cur) = Snapshot(c)
<1> DEFINE d == [c EXCEPT !.opinions = x]
<1>1. /\ IsState(c) /\ c.nextId \in Nat /\ c.nextId <= c.nextId
      /\ RestFits(c.nextId, c.verdicts, c.views, c.opinions, c.settings)
  BY RestOf
<1>2. StateIs(d, c.vocab, c.nextId, c.verdicts, c.suppressed, c.views, x, c.settings)
  BY <1>1, StateExcept
<1> HIDE DEF d
<1>3. r = Done(d, u)
  BY DEF d
<1>4. RestFits(c.nextId, c.verdicts, c.views, x, c.settings)
  BY <1>1 DEF RestFits
<1>5. IsState(d) /\ d.vocab = c.vocab /\ d.nextId = c.nextId /\ d.verdicts = c.verdicts /\ d.views = c.views
      /\ d.opinions = x /\ d.settings = c.settings
  BY <1>2, StateParts
<1> QED
  BY <1>1, <1>3, <1>4, <1>5, RestKeeps

LEMMA SettingsKeep ==
    ASSUME NEW c, WellFormed(c), NEW x, IsMap(x), NEW u, UndoFits(u, c.nextId),
           NEW r, r = Done([c EXCEPT !.settings = x], u)
    PROVE  Kept(r, c) /\ Snapshot(r.cur) = Snapshot(c)
<1> DEFINE d == [c EXCEPT !.settings = x]
<1>1. /\ IsState(c) /\ c.nextId \in Nat /\ c.nextId <= c.nextId
      /\ RestFits(c.nextId, c.verdicts, c.views, c.opinions, c.settings)
  BY RestOf
<1>2. StateIs(d, c.vocab, c.nextId, c.verdicts, c.suppressed, c.views, c.opinions, x)
  BY <1>1, StateExcept
<1> HIDE DEF d
<1>3. r = Done(d, u)
  BY DEF d
<1>4. RestFits(c.nextId, c.verdicts, c.views, c.opinions, x)
  BY <1>1 DEF RestFits
<1>5. IsState(d) /\ d.vocab = c.vocab /\ d.nextId = c.nextId /\ d.verdicts = c.verdicts /\ d.views = c.views
      /\ d.opinions = c.opinions /\ d.settings = x
  BY <1>2, StateParts
<1> QED
  BY <1>1, <1>3, <1>4, <1>5, RestKeeps

LEMMA MutatesKeep ==
    ASSUME NEW s, NEW c, WellFormed(c), NEW a, NEW r,
           r \in {SetKpi(a, s, c), SetPolarity(a, s, c), SetRole(a, s, c), SetLabel(a, s, c),
                  SetDescr(a, s, c)}
    PROVE  Kept(r, c) /\ Snapshot(r.cur) = Snapshot(c)
<1>1. PICK o : r = Mutate(a, s, c, o)
  BY DEF SetKpi, SetPolarity, SetRole, SetLabel, SetDescr
<1> DEFINE x == [c.opinions EXCEPT ![a.actor] = o]
           u == OpinionUndo(a, s)
<1>2. r = Done([c EXCEPT !.opinions = x], u)
  BY <1>1 DEF Mutate
<1>3. IsMap(x)
  BY MapExcept DEF WellFormed
<1>4. UndoFits(u, c.nextId)
  BY OpsDiffer DEF OpinionUndo
<1> HIDE DEF x, u
<1> QED
  BY <1>2, <1>3, <1>4, OpinionsKeep

LEMMA ResetKeeps ==
    ASSUME NEW c, WellFormed(c), NEW r, r = ResetColumn(c)
    PROVE  Kept(r, c) /\ Snapshot(r.cur) = Snapshot(c)
<1> DEFINE x == [p \in DOMAIN c.opinions |-> NoOpinion]
           u == [op |-> "opinions", rows |-> c.opinions]
<1>1. r = Done([c EXCEPT !.opinions = x], u)
  BY DEF ResetColumn
<1>2. IsMap(x)
  BY DEF IsMap
<1>3. UndoFits(u, c.nextId)
  BY OpsDiffer
<1> HIDE DEF x, u
<1> QED
  BY <1>1, <1>2, <1>3, OpinionsKeep

LEMMA SetSettingsKeeps ==
    ASSUME NEW s, NEW c, WellFormed(c), NEW a, NEW r, r = SetSettings(a, s, c)
    PROVE  Kept(r, c) /\ Snapshot(r.cur) = Snapshot(c)
<1> DEFINE p == s.settings[a.actor]
           o == [display |-> Coalesce(a.display, p.display),
                 descr |-> Coalesce(a.descr, p.descr), period |-> Coalesce(a.period, p.period)]
           x == [c.settings EXCEPT ![a.actor] = o]
           u == [op |-> "settings", actor |-> a.actor, row |-> p]
<1>1. r = Done([c EXCEPT !.settings = x], u)
  BY DEF SetSettings
<1>2. IsMap(x)
  <2> HIDE DEF o
  <2> QED
    BY MapExcept DEF WellFormed
<1>3. UndoFits(u, c.nextId)
  BY OpsDiffer
<1> HIDE DEF x, u
<1> QED
  BY <1>1, <1>2, <1>3, SettingsKeep

----------------------------------------------------------------------------
(* The views.                                                              *)
LEMMA ViewExcept ==
    ASSUME NEW v, IsView(v), NEW n, NEW p
    PROVE  LET x == [v EXCEPT !.name = n]
               y == [v EXCEPT !.name = n, !.spec = p]
           IN  IsView(x) /\ x.id = v.id /\ IsView(y) /\ y.id = v.id
<1> DEFINE x == [v EXCEPT !.name = n]
           y == [x EXCEPT !.spec = p]
<1>1. x = [id |-> v.id, name |-> n, spec |-> v.spec, by |-> v.by]
  BY DEF IsView
<1> HIDE DEF x
<1>2. y = [id |-> v.id, name |-> n, spec |-> p, by |-> v.by]
  BY <1>1
<1>3. y = [v EXCEPT !.name = n, !.spec = p]
  BY DEF x
<1> HIDE DEF y
<1>4. IsView(x) /\ x.id = v.id
  BY <1>1 DEF IsView
<1>5. IsView(y) /\ y.id = v.id
  BY <1>2 DEF IsView
<1> QED
  BY <1>3, <1>4, <1>5 DEF x

LEMMA ViewsKeep ==
    ASSUME NEW c, WellFormed(c), NEW x, NEW n \in Nat, c.nextId <= n, Keys(x, n),
           \A v \in x : IsView(v), NEW u, UndoFits(u, n),
           NEW d, StateIs(d, c.vocab, n, c.verdicts, c.suppressed, x, c.opinions, c.settings)
    PROVE  Kept(Done(d, u), c) /\ Snapshot(Done(d, u).cur) = Snapshot(c)
<1>1. /\ IsState(c) /\ c.nextId \in Nat /\ c.nextId <= c.nextId
      /\ RestFits(c.nextId, c.verdicts, c.views, c.opinions, c.settings)
  BY RestOf
<1>2. IsState(d) /\ d.vocab = c.vocab /\ d.nextId = n /\ d.verdicts = c.verdicts /\ d.views = x
      /\ d.opinions = c.opinions /\ d.settings = c.settings
  BY StateParts
<1>3. RestFits(n, c.verdicts, x, c.opinions, c.settings)
  BY <1>1 DEF RestFits
<1> QED
  BY <1>1, <1>2, <1>3, RestKeeps

LEMMA PutViewKeeps ==
    ASSUME NEW c, WellFormed(c), NEW v, IsView(v), v.id \in Nat, v.id < c.nextId,
           NEW u, UndoFits(u, c.nextId)
    PROVE  Kept(Done(PutView(c, v), u), c) /\ Snapshot(Done(PutView(c, v), u).cur) = Snapshot(c)
<1> DEFINE x == {w \in c.views : w.id # v.id} \cup {v}
           d == PutView(c, v)
<1>1. Keys(x, c.nextId)
  BY KeysPut DEF WellFormed
<1>2. \A w \in x : IsView(w)
  BY DEF WellFormed
<1>3. d = [c EXCEPT !.views = x]
  BY DEF PutView
<1> HIDE DEF x, d
<1>4. StateIs(d, c.vocab, c.nextId, c.verdicts, c.suppressed, x, c.opinions, c.settings)
  BY <1>3, StateExcept DEF WellFormed
<1>5. c.nextId \in Nat /\ c.nextId <= c.nextId
  BY RestOf
<1>6. Kept(Done(d, u), c) /\ Snapshot(Done(d, u).cur) = Snapshot(c)
  BY <1>1, <1>2, <1>4, <1>5, ViewsKeep
<1> QED
  BY <1>6 DEF d

LEMMA UpsertViewKeeps ==
    ASSUME NEW c, WellFormed(c), NEW v, IsView(v), v.id \in Nat, v.id < c.nextId,
           NEW u, UndoFits(u, c.nextId), NEW r, r = UpsertView(c, v, u)
    PROVE  Kept(r, c) /\ Snapshot(r.cur) = Snapshot(c)
<1>1. CASE NameFree(c, v.name, v.id)
  BY <1>1, PutViewKeeps DEF UpsertView
<1>2. CASE ~ NameFree(c, v.name, v.id)
  <2>1. r = Failed(c) /\ r.cur = c
    BY <1>2 DEF UpsertView, Failed
  <2> QED
    BY <2>1, FailedKeeps
<1> QED
  BY <1>1, <1>2

(* A view the table had when the request looked.                           *)
LEMMA TheView ==
    ASSUME NEW s, WellFormed(s), NEW n \in Nat, s.nextId <= n, NEW id, View(s, id) # {},
           NEW v, v = CHOOSE o \in View(s, id) : TRUE
    PROVE  /\ v \in s.views /\ v.id = id /\ IsView(v) /\ v.id \in Nat /\ v.id < n
           /\ View(s, id) = {v}
<1>1. v \in View(s, id)
  OBVIOUS
<1>2. v \in s.views /\ v.id = id
  BY <1>1 DEF View
<1>3. IsView(v) /\ v.id \in Nat /\ v.id < s.nextId /\ s.nextId \in Nat
  BY <1>2 DEF WellFormed, Keys
<1>4. \A o \in View(s, id) : o = v
  BY <1>2 DEF WellFormed, Keys, View
<1>5. v.id < n
  BY <1>3
<1> QED
  BY <1>1, <1>2, <1>3, <1>4, <1>5

LEMMA NewViewKeeps ==
    ASSUME NEW c, WellFormed(c), NEW n \in Nat, n = c.nextId + 1,
           NEW u, \A m : UndoFits(u, m), NEW v, IsView(v), v.id = c.nextId,
           NEW d, StateIs(d, c.vocab, n, c.verdicts, c.suppressed, c.views, c.opinions, c.settings),
           NEW r, r = UpsertView(d, v, u)
    PROVE  Kept(r, c) /\ Snapshot(r.cur) = Snapshot(c)
<1>1. /\ IsState(c) /\ c.nextId \in Nat /\ c.nextId <= n /\ c.nextId < n
      /\ RestFits(c.nextId, c.verdicts, c.views, c.opinions, c.settings)
  BY RestOf
<1>2. IsState(d) /\ d.vocab = c.vocab /\ d.nextId = n /\ d.verdicts = c.verdicts /\ d.views = c.views
      /\ d.suppressed = c.suppressed /\ d.opinions = c.opinions /\ d.settings = c.settings
  BY StateParts
<1>3. RestFits(n, c.verdicts, c.views, c.opinions, c.settings)
  BY <1>1, KeysLater DEF RestFits
<1>4. WellFormed(d)
  <2>1. VocabularyKept(c.vocab, n)
    BY <1>1, VocabularyLater DEF WellFormed
  <2> QED
    BY <1>1, <1>2, <1>3, <2>1 DEF WellFormed, RestFits
<1>5. Kept(r, d) /\ Snapshot(r.cur) = Snapshot(d)
  <2>1. v.id \in Nat /\ v.id < d.nextId
    BY <1>1, <1>2
  <2> QED
    BY <1>4, <2>1, UpsertViewKeeps
<1>6. c.nextId <= r.cur.nextId
  BY <1>1, <1>2, <1>5 DEF Kept, WellFormed
<1>7. Alike(r.cur, d) => Alike(r.cur, c)
  BY <1>2 DEF Alike, SameRest
<1> QED
  BY <1>2, <1>5, <1>6, <1>7, SnapshotOf DEF Kept

LEMMA SaveViewKeeps ==
    ASSUME NEW s, NEW c, WellFormed(s), WellFormed(c), s.nextId <= c.nextId, NEW a,
           NEW r, r = SaveView(a, s, c)
    PROVE  Kept(r, c) /\ Snapshot(r.cur) = Snapshot(c)
<1> DEFINE p == CHOOSE v \in View(s, a.id) : TRUE
           d == [c EXCEPT !.nextId = @ + 1]
           v == [id |-> c.nextId, name |-> a.name, spec |-> a.spec, by |-> a.actor]
           u == [op |-> "deleteView", id |-> c.nextId]
           e == [p EXCEPT !.name = a.name, !.spec = a.spec]
           w == [op |-> "restoreView", row |-> p]
<1>1. CASE r = Failed(c)
  BY <1>1, FailedKeeps DEF Failed
<1>2. CASE r # Failed(c) /\ a.id = 0
  <2>1. r = UpsertView(d, v, u)
    BY <1>2 DEF SaveView
  <2> DEFINE n == c.nextId + 1
  <2>2. IsState(c) /\ n \in Nat /\ d = [c EXCEPT !.nextId = n]
    BY DEF WellFormed
  <2>3. IsView(v) /\ v.id = c.nextId
    BY DEF IsView
  <2>4. \A m : UndoFits(u, m)
    BY OpsDiffer
  <2>5. n = c.nextId + 1
    OBVIOUS
  <2> HIDE DEF d, v, u, n
  <2>6. StateIs(d, c.vocab, n, c.verdicts, c.suppressed, c.views, c.opinions, c.settings)
    BY <2>2, StateExcept
  <2> QED
    BY <2>1, <2>2, <2>3, <2>4, <2>5, <2>6, NewViewKeeps
<1>3. CASE r # Failed(c) /\ a.id # 0
  <2>1. r = UpsertView(c, e, w) /\ View(s, a.id) # {}
    BY <1>3 DEF SaveView
  <2>2. c.nextId \in Nat
    BY DEF WellFormed
  <2> HIDE DEF w
  <2>3. IsView(p) /\ p.id \in Nat /\ p.id < c.nextId
    BY <2>1, <2>2, TheView
  <2>4. UndoFits(w, c.nextId)
    BY <2>3, ViewFits DEF w
  <2> HIDE DEF p
  <2>5. IsView(e) /\ e.id = p.id
    BY ZenonT(30), <2>3, ViewExcept
  <2> HIDE DEF e
  <2> QED
    BY <2>1, <2>3, <2>4, <2>5, UpsertViewKeeps
<1> QED
  BY <1>1, <1>2, <1>3

LEMMA RenameViewKeeps ==
    ASSUME NEW s, NEW c, WellFormed(s), WellFormed(c), s.nextId <= c.nextId, NEW a,
           NEW r, r = RenameView(a, s, c)
    PROVE  Kept(r, c) /\ Snapshot(r.cur) = Snapshot(c)
<1> DEFINE p == CHOOSE v \in View(s, a.id) : TRUE
           e == [p EXCEPT !.name = a.name]
           w == [op |-> "restoreView", row |-> p]
<1>1. CASE r = Failed(c)
  BY <1>1, FailedKeeps DEF Failed
<1>2. CASE r # Failed(c)
  <2>1. r = UpsertView(c, e, w) /\ View(s, a.id) # {}
    BY <1>2 DEF RenameView
  <2>2. c.nextId \in Nat
    BY DEF WellFormed
  <2> HIDE DEF w
  <2>3. IsView(p) /\ p.id \in Nat /\ p.id < c.nextId
    BY <2>1, <2>2, TheView
  <2>4. UndoFits(w, c.nextId)
    BY <2>3, ViewFits DEF w
  <2> HIDE DEF p
  <2>5. IsView(e) /\ e.id = p.id
    BY <2>3, ViewExcept
  <2> HIDE DEF e
  <2> QED
    BY <2>1, <2>3, <2>4, <2>5, UpsertViewKeeps
<1> QED
  BY <1>1, <1>2

LEMMA DropViewKeeps ==
    ASSUME NEW c, WellFormed(c), NEW id, NEW u, UndoFits(u, c.nextId), NEW r,
           r = Done([c EXCEPT !.views = {v \in @ : v.id # id}], u)
    PROVE  Kept(r, c) /\ Snapshot(r.cur) = Snapshot(c)
<1> DEFINE x == {v \in c.views : v.id # id}
           d == [c EXCEPT !.views = x]
<1>1. Keys(x, c.nextId) /\ \A v \in x : IsView(v)
  BY KeysLater DEF WellFormed
<1>2. r = Done(d, u)
  OBVIOUS
<1> HIDE DEF x
<1>3. StateIs(d, c.vocab, c.nextId, c.verdicts, c.suppressed, x, c.opinions, c.settings)
  BY StateExcept DEF WellFormed
<1> HIDE DEF d
<1>4. c.nextId \in Nat /\ c.nextId <= c.nextId
  BY RestOf
<1> QED
  BY <1>1, <1>2, <1>3, <1>4, ViewsKeep

LEMMA DeleteViewKeeps ==
    ASSUME NEW s, NEW c, WellFormed(s), WellFormed(c), s.nextId <= c.nextId, NEW a,
           NEW r, r = DeleteView(a, s, c)
    PROVE  Kept(r, c) /\ Snapshot(r.cur) = Snapshot(c)
<1> DEFINE p == CHOOSE v \in View(s, a.id) : TRUE
           w == [op |-> "restoreView", row |-> p]
<1>1. CASE View(s, a.id) = {}
  BY <1>1, FailedKeeps DEF Failed, DeleteView
<1>2. CASE View(s, a.id) # {}
  <2>1. r = Done([c EXCEPT !.views = {v \in @ : v.id # a.id}], w)
    BY <1>2 DEF DeleteView
  <2>2. c.nextId \in Nat
    BY DEF WellFormed
  <2> HIDE DEF w
  <2>3. IsView(p) /\ p.id \in Nat /\ p.id < c.nextId
    BY <1>2, <2>2, TheView
  <2>4. UndoFits(w, c.nextId)
    BY <2>3, ViewFits DEF w
  <2> QED
    BY <2>1, <2>4, DropViewKeeps
<1> QED
  BY <1>1, <1>2

(* Every action keeps the state well formed, leaves an undo that fits it,  *)
(* and shows in the copies only if its kind is one that refreshes them.    *)
LEMMA ExecuteKeeps ==
    ASSUME NEW s, NEW c, WellFormed(s), WellFormed(c), s.nextId <= c.nextId,
           NEW a, a.kind \in Kinds, NEW r, r = Outcome(a, s, c)
    PROVE  /\ Kept(r, c)
           /\ ~ r.ok \/ ~ Refreshes(a.kind) => Snapshot(r.cur) = Snapshot(c)
<1> SUFFICES Kept(r, c) /\ (~ Refreshes(a.kind) => Snapshot(r.cur) = Snapshot(c))
  BY SnapshotOf DEF Kept, Alike
<1>1. CASE a.kind = "rebuild"
  <2>1. r = Done(c, NoUndo) /\ c.nextId <= c.nextId /\ r.cur = c
    BY <1>1, RestOf DEF Outcome, Done
  <2> QED
    BY <2>1, DoneKeeps, OpsDiffer
<1>2. CASE a.kind # "rebuild"
  <2>1. r = Execute(a, s, c)
    BY <1>2 DEF Outcome
  <2>2. CASE a.kind = "define"
    BY <2>1, <2>2, DefineKeeps DEF Execute, Refreshes
  <2>3. CASE a.kind = "rename"
    BY <2>1, <2>3, RenameKeeps DEF Execute
  <2>4. CASE a.kind = "redefine"
    BY <2>1, <2>4, RedefineKeeps DEF Execute, Refreshes
  <2>5. CASE a.kind = "freeze"
    BY <2>1, <2>5, FreezeKeeps DEF Execute
  <2>6. CASE a.kind = "delete"
    BY <2>1, <2>6, DeleteKeeps DEF Execute, Refreshes
  <2>7. CASE a.kind = "clear"
    BY <2>1, <2>7, ClearKeeps DEF Execute, Refreshes
  <2>8. CASE a.kind \in {"dismiss", "pin", "annotate"}
    <3>1. r \in {Dismiss(a, s, c), Pin(a, s, c), Annotate(a, s, c)}
      BY <2>1, <2>8 DEF Execute
    <3> QED
      BY <3>1, VerdictsKeep
  <2>9. CASE a.kind = "suppress"
    BY <2>1, <2>9, SuppressKeeps DEF Execute
  <2>10. CASE a.kind = "save_view"
    BY <2>1, <2>10, SaveViewKeeps DEF Execute
  <2>11. CASE a.kind = "rename_view"
    BY <2>1, <2>11, RenameViewKeeps DEF Execute
  <2>12. CASE a.kind = "delete_view"
    BY <2>1, <2>12, DeleteViewKeeps DEF Execute
  <2>13. CASE a.kind \in {"kpi", "polarity", "role", "label", "description"}
    <3>1. r \in {SetKpi(a, s, c), SetPolarity(a, s, c), SetRole(a, s, c), SetLabel(a, s, c),
                 SetDescr(a, s, c)}
      BY <2>1, <2>13 DEF Execute
    <3> QED
      BY <3>1, MutatesKeep
  <2>14. CASE a.kind = "reset"
    BY <2>1, <2>14, ResetKeeps DEF Execute
  <2>15. CASE a.kind = "settings"
    BY <2>1, <2>15, SetSettingsKeeps DEF Execute
  <2> QED
    BY <1>2, <2>2, <2>3, <2>4, <2>5, <2>6, <2>7, <2>8, <2>9, <2>10, <2>11, <2>12, <2>13, <2>14,
       <2>15 DEF Kinds
<1> QED
  BY <1>1, <1>2

----------------------------------------------------------------------------
(* The undos.                                                              *)
LEMMA UndoRestoreKeeps ==
    ASSUME NEW s, NEW c, WellFormed(c), NEW u, NEW r, r = UndoRestore(u, s, c)
    PROVE  Kept(r, c) /\ (ById(c, u.id) = {} => Snapshot(r.cur) = Snapshot(c))
<1> DEFINE e == CHOOSE e \in ById(c, u.id) : TRUE
           d == [e EXCEPT !.name = u.name]
           f == [d EXCEPT !.descr = u.descr]
<1>0. c.nextId \in Nat /\ c.nextId <= c.nextId /\ IsState(c)
  BY RestOf
<1>1. CASE r = Failed(c)
  BY <1>1, FailedKeeps DEF Failed
<1>2. CASE r = Done(c, NoUndo)
  <2>1. r.cur = c
    BY <1>2 DEF Done
  <2> QED
    BY <1>0, <1>2, <2>1, DoneKeeps, OpsDiffer
<1>3. CASE r = Done(Drop(c, {u.id}), NoUndo)
  <2> DEFINE x == Drop(c, {u.id})
             V == {o \in c.vocab : o.id \notin {u.id}}
  <2>1. WellFormed(x) /\ x.nextId = c.nextId
    BY DropKeeps
  <2>2. StateIs(x, V, c.nextId, c.verdicts, c.suppressed, c.views, c.opinions, c.settings)
    BY <1>0, DropIs
  <2>3. ById(c, u.id) = {} => V = c.vocab
    BY DEF ById
  <2> HIDE DEF x, V
  <2>4. x.vocab = V
    BY <2>2, StateParts
  <2>5. r.cur = x
    BY <1>3 DEF Done, x
  <2> QED
    BY <1>0, <1>3, <2>1, <2>3, <2>4, <2>5, DoneKeeps, OpsDiffer, SnapshotOf DEF x
<1>4. CASE /\ r = Done(Put(c, f), NoUndo) /\ ById(c, u.id) # {} /\ ~ Taken(c, e, u.name)
  <2>1. e \in c.vocab /\ IsEntry(e) /\ e.id \in Nat /\ e.id < c.nextId
    BY <1>4, TheEntry
  <2> HIDE DEF e
  <2>2. EntryIs(d, e.id, e.kind, e.parent, u.name, e.descr, e.frozen, e.aliases)
    BY <2>1, EntryExcept DEF EntryIs
  <2> HIDE DEF d
  <2>3. IsEntry(d) /\ d.id = e.id /\ d.kind = e.kind /\ d.parent = e.parent /\ d.name = u.name
        /\ d.frozen = e.frozen /\ d.aliases = e.aliases
    BY <2>2, EntryParts
  <2>4. EntryIs(f, e.id, e.kind, e.parent, u.name, u.descr, e.frozen, e.aliases)
    BY <2>2 DEF EntryIs
  <2> HIDE DEF f
  <2>5. IsEntry(f) /\ f.id = e.id /\ f.kind = e.kind /\ f.parent = e.parent /\ f.name = u.name
    BY <2>4, EntryParts
  <2>6. ~ Taken(c, f, f.name)
    BY <1>4, <2>5 DEF Taken, Named, Level
  <2> DEFINE x == Put(c, f)
  <2>7. WellFormed(x) /\ x.nextId = c.nextId
    BY <2>1, <2>5, <2>6, PutKeeps
  <2> HIDE DEF x
  <2> QED
    BY <1>0, <1>4, <2>7, DoneKeeps, OpsDiffer DEF x
<1>5. [e EXCEPT !.name = u.name, !.descr = u.descr] = f
  OBVIOUS
<1> HIDE DEF d, f
<1> QED
  BY <1>1, <1>2, <1>3, <1>4, <1>5 DEF UndoRestore

LEMMA UndoFrozenKeeps ==
    ASSUME NEW c, WellFormed(c), NEW u, NEW r, r = UndoFrozen(u, c)
    PROVE  Kept(r, c) /\ Snapshot(r.cur) = Snapshot(c)
<1> DEFINE g(e) == IF e.id = u.id THEN [e EXCEPT !.frozen = u.frozen] ELSE e
           V == {g(e) : e \in c.vocab}
           d == [c EXCEPT !.vocab = V]
<1>0. /\ c.nextId \in Nat /\ c.nextId <= c.nextId /\ IsState(c)
      /\ RestFits(c.nextId, c.verdicts, c.views, c.opinions, c.settings)
  BY RestOf
<1>1. r = Done(d, NoUndo)
  BY DEF UndoFrozen
<1>2. ASSUME NEW e \in c.vocab
      PROVE  /\ IsEntry(g(e)) /\ g(e).id = e.id /\ g(e).kind = e.kind /\ g(e).parent = e.parent
             /\ g(e).name = e.name /\ g(e).descr = e.descr
  <2>1. IsEntry(e)
    BY DEF WellFormed, VocabularyKept
  <2> DEFINE f == [e EXCEPT !.frozen = u.frozen]
  <2>2. EntryIs(f, e.id, e.kind, e.parent, e.name, e.descr, u.frozen, e.aliases)
    BY <2>1, EntryExcept DEF EntryIs
  <2> HIDE DEF f
  <2>3. IsEntry(f) /\ f.id = e.id /\ f.kind = e.kind /\ f.parent = e.parent /\ f.name = e.name
        /\ f.descr = e.descr
    BY <2>2, EntryParts
  <2> QED
    BY <2>1, <2>3 DEF f
<1> HIDE DEF g
<1>3. IsFiniteSet(V)
  <2> DEFINE h == [e \in c.vocab |-> g(e)]
  <2>1. h \in Surjection(c.vocab, V)
    BY DEF Surjection
  <2> HIDE DEF h, V
  <2> QED
    BY <2>1, FS_Surjection DEF WellFormed, VocabularyKept
<1>4. Keys(V, c.nextId)
  BY <1>2 DEF WellFormed, VocabularyKept, Keys
<1>5. VocabularyKept(V, c.nextId)
  <2>1. \A e \in V : IsEntry(e)
    BY <1>2
  <2>2. ASSUME NEW x \in V, NEW y \in V, x.kind = y.kind /\ x.parent = y.parent /\ x.name = y.name
        PROVE  x = y
    <3>1. PICK e \in c.vocab : x = g(e)
      OBVIOUS
    <3>2. PICK o \in c.vocab : y = g(o)
      OBVIOUS
    <3>3. e = o
      BY <1>2, <2>2, <3>1, <3>2 DEF WellFormed, VocabularyKept
    <3> QED
      BY <3>1, <3>2, <3>3
  <2> QED
    BY <1>3, <1>4, <2>1, <2>2 DEF VocabularyKept
<1>6. /\ \A e \in c.vocab : \E f \in V : Likes(e, f)
      /\ \A f \in V : \E e \in c.vocab : Likes(e, f)
  <2>1. \A e \in c.vocab : Likes(e, g(e)) /\ g(e) \in V
    BY <1>2 DEF Likes
  <2>2. \A f \in V : \E e \in c.vocab : f = g(e)
    OBVIOUS
  <2> QED
    BY <2>1, <2>2
<1> HIDE DEF V
<1>7. StateIs(d, V, c.nextId, c.verdicts, c.suppressed, c.views, c.opinions, c.settings)
  BY <1>0, StateExcept
<1> HIDE DEF d
<1>8. IsState(d) /\ d.vocab = V /\ d.nextId = c.nextId /\ d.verdicts = c.verdicts /\ d.views = c.views
      /\ d.opinions = c.opinions /\ d.settings = c.settings
  BY <1>7, StateParts
<1>9. WellFormed(d)
  BY <1>0, <1>5, <1>8 DEF WellFormed, RestFits
<1>10. Snapshot(c) = Snapshot(d)
  BY <1>6, <1>8, SnapshotLike
<1>11. r.cur = d
  BY <1>1 DEF Done
<1> QED
  BY <1>0, <1>1, <1>8, <1>9, <1>10, <1>11, DoneKeeps, OpsDiffer

(* One row put back.                                                       *)
LEMMA RecreateKeeps ==
    ASSUME NEW c, WellFormed(c), NEW row, IsEntry(row), row.id \in Nat, row.id < c.nextId,
           NEW r, r = Recreate(c, row)
    PROVE  r.ok \in BOOLEAN /\ WellFormed(r.cur) /\ r.cur.nextId = c.nextId /\ r.undo = NoUndo
<1> DEFINE old == ById(c, row.id)
           o == CHOOSE o \in old : TRUE
           f == [row EXCEPT !.kind = o.kind, !.parent = o.parent]
           e == IF old = {} THEN row ELSE f
<1>1. CASE r = Failed(c)
  BY <1>1 DEF Failed
<1>2. CASE r # Failed(c)
  <2>1. r = Done(Put(c, e), NoUndo) /\ ~ Taken(c, e, e.name)
    BY <1>2 DEF Recreate
  <2>2. IsEntry(e) /\ e.id = row.id
    <3> DEFINE x == o.kind
               y == o.parent
               h == [row EXCEPT !.kind = x]
               i == [h EXCEPT !.parent = y]
    <3>1. f = i
      OBVIOUS
    <3> HIDE DEF o, x, y
    <3>2. EntryIs(h, row.id, x, row.parent, row.name, row.descr, row.frozen, row.aliases)
      BY DEF IsEntry, EntryIs
    <3> HIDE DEF h
    <3>3. EntryIs(i, row.id, x, y, row.name, row.descr, row.frozen, row.aliases)
      BY <3>2 DEF EntryIs
    <3> HIDE DEF i
    <3>4. IsEntry(i) /\ i.id = row.id
      BY <3>3, EntryParts
    <3> HIDE DEF f
    <3> QED
      BY <3>1, <3>4
  <2> HIDE DEF e
  <2> DEFINE d == Put(c, e)
  <2>3. WellFormed(d) /\ d.nextId = c.nextId
    BY <2>1, <2>2, PutKeeps
  <2>4. r.cur = d /\ r.ok = TRUE /\ r.undo = NoUndo
    BY <2>1 DEF Done
  <2> HIDE DEF d
  <2> QED
    BY <2>3, <2>4
<1> QED
  BY <1>1, <1>2

(* Rows put back one after another.                                        *)
Rebuilds(f, c, q, n) ==
    f = [k \in 0..n |-> IF k = 0 THEN Done(c, NoUndo) ELSE RecreateNext(f[k - 1], q[k])]

LEMMA RebuildExists ==
    ASSUME NEW c, NEW q, NEW n \in Nat
    PROVE  \E f : Rebuilds(f, c, q, n)
<1> DEFINE T == {m \in Nat : ~ \E f : Rebuilds(f, c, q, m)}
<1>1. SUFFICES ASSUME T # {} PROVE FALSE
  OBVIOUS
<1>2. PICK m \in T : \A k \in T : m <= k
  <2> HIDE DEF T
  <2>1. T \in SUBSET Nat
    BY DEF T
  <2> QED
    BY <1>1, <2>1, Least
<1>3. m \in Nat /\ ~ \E f : Rebuilds(f, c, q, m)
  OBVIOUS
<1>4. CASE m = 0
  <2> DEFINE b == Done(c, NoUndo)
             f == [k \in 0..0 |-> b]
  <2>1. Rebuilds(f, c, q, 0)
    <3> HIDE DEF b
    <3>1. f = [k \in 0..0 |-> IF k = 0 THEN b ELSE RecreateNext(f[k - 1], q[k])]
      BY \A k \in 0..0 : k = 0
    <3> QED
      BY <3>1 DEF Rebuilds, b
  <2> QED
    BY <1>3, <1>4, <2>1
<1>5. CASE m # 0
  <2>1. m - 1 \in Nat /\ m - 1 \notin T
    BY <1>2, <1>3, <1>5
  <2>2. PICK g : Rebuilds(g, c, q, m - 1)
    BY <2>1
  <2> DEFINE f == [k \in 0..m |-> IF k = m THEN RecreateNext(g[m - 1], q[m]) ELSE g[k]]
  <2>3. \A k \in 0..m : f[k] = IF k = 0 THEN Done(c, NoUndo) ELSE RecreateNext(f[k - 1], q[k])
    <3> SUFFICES ASSUME NEW k \in 0..m
                 PROVE  f[k] = IF k = 0 THEN Done(c, NoUndo) ELSE RecreateNext(f[k - 1], q[k])
      OBVIOUS
    <3>1. CASE k = m
      <4>1. k - 1 \in 0..m /\ k - 1 # m /\ k # 0
        BY <1>3, <1>5, <3>1
      <4> QED
        BY <3>1, <4>1
    <3>2. CASE k # m
      <4>1. k \in 0..m - 1
        BY <1>3, <3>2
      <4>2. g[k] = IF k = 0 THEN Done(c, NoUndo) ELSE RecreateNext(g[k - 1], q[k])
        BY <2>2, <4>1 DEF Rebuilds
      <4>3. k # 0 => k - 1 \in 0..m /\ k - 1 # m
        BY <1>3, <4>1
      <4> QED
        BY <3>2, <4>2, <4>3
    <3> QED
      BY <3>1, <3>2
  <2>4. f = [k \in 0..m |-> f[k]]
    OBVIOUS
  <2> HIDE DEF f
  <2>5. Rebuilds(f, c, q, m)
    BY <2>3, <2>4 DEF Rebuilds
  <2> QED
    BY <1>3, <2>5
<1> QED
  BY <1>4, <1>5

LEMMA RebuildIs ==
    ASSUME NEW c, NEW u, NEW n \in Nat, n = Len(u.rows)
    PROVE  \E f : Rebuilds(f, c, u.rows, n) /\ UndoRecreate(u, c) = f[n]
<1> DEFINE q == u.rows
           g == CHOOSE f : Rebuilds(f, c, q, n)
<1>1. Rebuilds(g, c, q, n)
  BY RebuildExists
<1>2. UndoRecreate(u, c) = g[n]
  BY DEF UndoRecreate, Rebuilds
<1> QED
  BY <1>1, <1>2

LEMMA UndoRecreateKeeps ==
    ASSUME NEW c, WellFormed(c), NEW u, UndoFits(u, c.nextId), u.op = "recreate",
           NEW r, r = UndoRecreate(u, c)
    PROVE  /\ r.ok \in BOOLEAN /\ WellFormed(r.cur) /\ r.cur.nextId = c.nextId
           /\ u.rows = <<>> => r.cur = c
<1> DEFINE q == u.rows
           n == Len(q)
<1>1. IsSeq(q) /\ \A i \in 1..n : IsEntry(q[i]) /\ q[i].id \in Nat /\ q[i].id < c.nextId
  BY DEF UndoFits
<1>2. n \in Nat
  BY <1>1, SeqFacts
<1>3. PICK f : Rebuilds(f, c, q, n) /\ r = f[n]
  BY <1>2, RebuildIs
<1>4. q = <<>> => n = 0
  OBVIOUS
<1> HIDE DEF q, n
<1> DEFINE Good(x) == x.ok \in BOOLEAN /\ WellFormed(x.cur) /\ x.cur.nextId = c.nextId
           T == {k \in 0..n : ~ Good(f[k])}
<1>5. f[0].ok = TRUE /\ f[0].cur = c
  <2>1. f[0] = Done(c, NoUndo)
    BY <1>2, <1>3 DEF Rebuilds
  <2> QED
    BY <2>1 DEF Done
<1>6. T = {}
  <2> SUFFICES ASSUME T # {} PROVE FALSE
    OBVIOUS
  <2>1. PICK k \in T : \A j \in T : k <= j
    <3>1. T \in SUBSET Nat
      BY <1>2
    <3> HIDE DEF T
    <3> QED
      BY <3>1, Least
  <2>2. k \in 0..n /\ ~ Good(f[k])
    OBVIOUS
  <2>3. k # 0
    BY <1>5, <2>2
  <2>4. k - 1 \in 0..n /\ k - 1 \notin T /\ k \in 1..n
    BY <1>2, <2>1, <2>2, <2>3
  <2>5. Good(f[k - 1])
    BY <2>4
  <2>6. f[k] = RecreateNext(f[k - 1], q[k])
    BY <1>3, <2>2, <2>3 DEF Rebuilds
  <2> DEFINE x == f[k - 1]
  <2>7. CASE x.ok
    <3>1. f[k] = Recreate(x.cur, q[k])
      BY <2>6, <2>7 DEF RecreateNext
    <3>2. WellFormed(x.cur) /\ x.cur.nextId = c.nextId
      BY <2>5
    <3>3. IsEntry(q[k]) /\ q[k].id \in Nat /\ q[k].id < x.cur.nextId
      BY <1>1, <2>4, <3>2 DEF n, q
    <3> HIDE DEF x
    <3>4. Good(f[k])
      BY <3>1, <3>2, <3>3, RecreateKeeps
    <3> QED
      BY <2>2, <3>4
  <2>8. CASE ~ x.ok
    <3>1. f[k] = x
      BY <2>6, <2>8 DEF RecreateNext
    <3> QED
      BY <2>2, <2>5, <3>1
  <2> QED
    BY <2>7, <2>8
<1>7. Good(r)
  BY <1>2, <1>3, <1>6
<1> QED
  BY <1>3, <1>4, <1>5, <1>7 DEF q

LEMMA UndoViewKeeps ==
    ASSUME NEW c, WellFormed(c), NEW u, UndoFits(u, c.nextId), u.op = "restoreView",
           NEW r, r = UndoRestoreView(u, c)
    PROVE  Kept(r, c) /\ Snapshot(r.cur) = Snapshot(c)
<1>1. IsView(u.row) /\ u.row.id \in Nat /\ u.row.id < c.nextId
  BY DEF UndoFits
<1>2. r = UpsertView(c, u.row, NoUndo)
  BY DEF UndoRestoreView
<1> QED
  BY <1>1, <1>2, OpsDiffer, UpsertViewKeeps

LEMMA UndoOpinionKeeps ==
    ASSUME NEW c, WellFormed(c), NEW u, NEW r, r \in {UndoOpinion(u, c), UndoOpinions(u, c)}
    PROVE  Kept(r, c) /\ Snapshot(r.cur) = Snapshot(c)
<1> DEFINE x == [c.opinions EXCEPT ![u.actor] = u.row]
           y == [p \in DOMAIN c.opinions |->
                    IF u.rows[p] = NoOpinion THEN c.opinions[p] ELSE u.rows[p]]
<1>1. r = Done([c EXCEPT !.opinions = x], NoUndo) \/ r = Done([c EXCEPT !.opinions = y], NoUndo)
  BY DEF UndoOpinion, UndoOpinions
<1>2. IsMap(x)
  BY MapExcept DEF WellFormed
<1>3. IsMap(y)
  BY DEF IsMap
<1> HIDE DEF x, y
<1> QED
  BY <1>1, <1>2, <1>3, OpsDiffer, OpinionsKeep

LEMMA UndoSettingsKeeps ==
    ASSUME NEW c, WellFormed(c), NEW u, NEW r, r = UndoSettings(u, c)
    PROVE  Kept(r, c) /\ Snapshot(r.cur) = Snapshot(c)
<1> DEFINE x == [c.settings EXCEPT ![u.actor] = u.row]
<1>1. r = Done([c EXCEPT !.settings = x], NoUndo)
  BY DEF UndoSettings
<1>2. IsMap(x)
  BY MapExcept DEF WellFormed
<1> HIDE DEF x
<1> QED
  BY <1>1, <1>2, OpsDiffer, SettingsKeep

LEMMA UndoSuppressKeeps ==
    ASSUME NEW c, WellFormed(c), NEW u, NEW r, r = UndoSuppress(u, c)
    PROVE  Kept(r, c) /\ Snapshot(r.cur) = Snapshot(c)
<1> DEFINE x == c.suppressed \ {u.target}
<1>1. r = Done([c EXCEPT !.suppressed = x], NoUndo)
  BY DEF UndoSuppress
<1> HIDE DEF x
<1> QED
  BY <1>1, OpsDiffer, SuppressedKeeps

(* Every undo keeps the state well formed, and shows in the copies only if *)
(* it refreshes them.                                                      *)
LEMMA UndoKeeps ==
    ASSUME NEW s, NEW c, WellFormed(c), NEW u, UndoFits(u, c.nextId), u # NoUndo,
           NEW r, r = ApplyUndo(u, s, c)
    PROVE  /\ r.ok \in BOOLEAN /\ WellFormed(r.cur) /\ c.nextId <= r.cur.nextId
           /\ ~ UndoRefreshes(u, c) => Snapshot(r.cur) = Snapshot(c)
<1>0. c.nextId \in Nat /\ u.op \in UndoOps /\ u.op # "nothing"
  BY DEF WellFormed, UndoFits
<1>1. CASE u.op = "restore"
  <2>1. r = UndoRestore(u, s, c)
    BY <1>1 DEF ApplyUndo
  <2> QED
    BY <1>1, <2>1, UndoRestoreKeeps DEF UndoRefreshes, Kept
<1>2. CASE u.op = "frozen"
  <2>1. r = UndoFrozen(u, c)
    BY <1>2 DEF ApplyUndo
  <2> QED
    BY <2>1, UndoFrozenKeeps DEF Kept
<1>3. CASE u.op = "recreate"
  <2>1. r = UndoRecreate(u, c)
    BY <1>3 DEF ApplyUndo
  <2> QED
    BY <1>0, <1>3, <2>1, UndoRecreateKeeps DEF UndoRefreshes
<1>4. CASE u.op = "verdict"
  <2>1. r = Done(WithVerdict(c, u.fingerprint, u.verdict), NoUndo)
    BY <1>4 DEF ApplyUndo, UndoVerdict
  <2> QED
    BY <2>1, VerdictKeeps, OpsDiffer DEF Kept
<1>5. CASE u.op = "unsuppress"
  <2>1. r = UndoSuppress(u, c)
    BY <1>5 DEF ApplyUndo
  <2> QED
    BY <2>1, UndoSuppressKeeps DEF Kept
<1>6. CASE u.op = "deleteView"
  <2> DEFINE i == u.id
  <2>1. r = Done([c EXCEPT !.views = {v \in @ : v.id # i}], NoUndo)
    BY <1>6 DEF ApplyUndo, UndoDeleteView
  <2>2. UndoFits(NoUndo, c.nextId)
    BY OpsDiffer
  <2> HIDE DEF i
  <2>3. Kept(r, c) /\ Snapshot(r.cur) = Snapshot(c)
    BY <2>1, <2>2, DropViewKeeps
  <2> QED
    BY <2>3 DEF Kept
<1>7. CASE u.op = "restoreView"
  <2>1. r = UndoRestoreView(u, c)
    BY <1>7 DEF ApplyUndo
  <2> QED
    BY <1>7, <2>1, UndoViewKeeps DEF Kept
<1>8. CASE u.op \in {"opinion", "opinions"}
  <2>1. r \in {UndoOpinion(u, c), UndoOpinions(u, c)}
    BY <1>8 DEF ApplyUndo
  <2> QED
    BY <2>1, UndoOpinionKeeps DEF Kept
<1>9. CASE u.op = "settings"
  <2>1. r = UndoSettings(u, c)
    BY <1>9 DEF ApplyUndo
  <2> QED
    BY <2>1, UndoSettingsKeeps DEF Kept
<1> QED
  BY <1>0, <1>1, <1>2, <1>3, <1>4, <1>5, <1>6, <1>7, <1>8, <1>9 DEF UndoOps

----------------------------------------------------------------------------
(* What is left when a statement fails after others took effect.           *)
LEMMA HalfwayKeeps ==
    ASSUME NEW s, NEW c, WellFormed(c), NEW a, NEW d \in Halfway(a, s, c)
    PROVE  WellFormed(d) /\ c.nextId <= d.nextId
<1>1. c.nextId \in Nat /\ c.nextId <= c.nextId
  BY RestOf
<1>2. CASE a.kind = "define"
  <2>1. PICK b : d = Define(b, s, c).cur
    BY <1>2 DEF Halfway
  <2> DEFINE r == Define(b, s, c)
  <2>2. Kept(r, c)
    BY DefineKeeps
  <2> HIDE DEF r
  <2> QED
    BY <2>1, <2>2 DEF Kept, r
<1>3. CASE a.kind = "clear"
  <2>1. PICK ids : d = Drop(c, ids)
    BY <1>3 DEF Halfway
  <2> QED
    BY <1>1, <2>1, DropKeeps
<1>4. CASE a.kind = "reset"
  <2> DEFINE r == ResetColumn(c)
  <2>1. d = r.cur
    BY <1>4 DEF Halfway
  <2>2. Kept(r, c)
    BY ResetKeeps
  <2> HIDE DEF r
  <2> QED
    BY <2>1, <2>2 DEF Kept
<1>5. a.kind \in {"define", "clear", "reset"}
  <2> SUFFICES ASSUME a.kind \notin {"define", "clear", "reset"} PROVE FALSE
    OBVIOUS
  <2>1. Halfway(a, s, c) = {}
    BY DEF Halfway
  <2> QED
    BY <2>1
<1> QED
  BY <1>2, <1>3, <1>4, <1>5

LEMMA HalfUndoneKeeps ==
    ASSUME NEW c, WellFormed(c), NEW u, UndoFits(u, c.nextId), NEW d \in HalfUndone(u, c)
    PROVE  WellFormed(d) /\ c.nextId <= d.nextId
<1>1. c.nextId \in Nat /\ c.nextId <= c.nextId
  BY RestOf
<1>2. CASE u.op = "recreate"
  <2>1. PICK k \in 1..Len(u.rows) - 1 :
             d = UndoRecreate([op |-> "recreate", rows |-> SubSeq(u.rows, 1, k)], c).cur
    BY <1>2 DEF HalfUndone
  <2> DEFINE q == SubSeq(u.rows, 1, k)
             v == [op |-> "recreate", rows |-> q]
             r == UndoRecreate(v, c)
  <2>2. /\ IsSeq(u.rows) /\ Len(u.rows) \in Nat
        /\ \A i \in 1..Len(u.rows) :
              IsEntry(u.rows[i]) /\ u.rows[i].id \in Nat /\ u.rows[i].id < c.nextId
    BY <1>2, SeqFacts DEF UndoFits
  <2>3. k \in Nat /\ 1..k \subseteq 1..Len(u.rows)
    BY <2>1, <2>2
  <2>4. PICK S : u.rows \in Seq(S)
    BY <2>2 DEF IsSeq
  <2>5. IsSeq(q) /\ Len(q) = k /\ \A i \in 1..k : q[i] = u.rows[i]
    <3>1. k \in Int /\ 1 \in Int /\ k >= 1 /\ \A i \in 1..k : u.rows[i] \in S
      BY <2>1, <2>3, <2>4
    <3>2. /\ q \in Seq(S) /\ Len(q) = IF 1 <= k THEN k - 1 + 1 ELSE 0
          /\ \A i \in 1..k - 1 + 1 : q[i] = u.rows[1 + i - 1]
      BY <3>1, SubSeqProperties
    <3> HIDE DEF q
    <3>3. Len(q) = k /\ \A i \in 1..k : q[i] = u.rows[i]
      BY <3>1, <3>2
    <3> QED
      BY <3>2, <3>3 DEF IsSeq
  <2> HIDE DEF q
  <2>6. UndoFits(v, c.nextId)
    BY <2>2, <2>3, <2>5, RecreateFits
  <2>7. v.op = "recreate"
    OBVIOUS
  <2> HIDE DEF v
  <2>8. WellFormed(r.cur) /\ r.cur.nextId = c.nextId
    BY <2>6, <2>7, UndoRecreateKeeps
  <2> HIDE DEF r
  <2>9. d = r.cur
    BY <2>1 DEF r, v, q
  <2> QED
    BY <1>1, <2>8, <2>9
<1>3. CASE u.op = "opinions"
  <2>1. PICK v : d = UndoOpinions(v, c).cur
    BY <1>3 DEF HalfUndone
  <2> DEFINE r == UndoOpinions(v, c)
  <2>2. Kept(r, c)
    BY UndoOpinionKeeps
  <2> HIDE DEF r
  <2> QED
    BY <2>1, <2>2 DEF Kept, r
<1>4. u.op \in {"recreate", "opinions"}
  <2> SUFFICES ASSUME u.op \notin {"recreate", "opinions"} PROVE FALSE
    OBVIOUS
  <2>1. HalfUndone(u, c) = {}
    BY DEF HalfUndone
  <2> QED
    BY <2>1
<1> QED
  BY <1>2, <1>3, <1>4

----------------------------------------------------------------------------
(* What the requests carry fits the curated state they will meet.          *)
WorkerFits(x, n) ==
    /\ x.pc \in {"write", "undoWrite"} => WellFormed(x.seen) /\ x.seen.nextId <= n
    /\ UndoFits(x.undo, n)
    /\ \A i \in 1..Len(x.queue) :
          UndoFits(x.queue[i].undo, n) /\ (x.op = "undo" => x.queue[i].undo # NoUndo)

StateInv ==
    /\ WellFormed(cur)
    /\ \A i \in Requests : script[i].kind \in Kinds
    /\ \A id \in Rows : UndoFits(log[id].undo, cur.nextId)
    /\ \A w \in Workers : WorkerFits(workers[w], cur.nextId)

(* A request that runs alone is the only one that can leave the copies     *)
(* behind, and brings them up to date before it records its outcome, or    *)
(* they are known to lag.                                                  *)
Alone == \A w, v \in Workers : workers[w].pc # "idle" /\ workers[v].pc # "idle" => w = v

Fresh == history.torn \/ copy = Snapshot(cur)

SnapInv ==
    \/ history.overlapped
    \/ /\ Alone
       /\ \A w \in Workers : workers[w].pc = "refresh" => workers[w].snap = Snapshot(cur)
       /\ \/ Fresh
          \/ \E w \in Workers : workers[w].pc \in {"load", "refresh"}

LEMMA WorkerLater ==
    ASSUME NEW n \in Nat, NEW m \in Nat, n <= m, NEW x, WorkerFits(x, n)
    PROVE  WorkerFits(x, m)
<1>1. \A s : WellFormed(s) /\ s.nextId <= n => s.nextId <= m
  BY DEF WellFormed
<1> QED
  BY <1>1, UndoLater DEF WorkerFits

LEMMA StateOn ==
    ASSUME StateInv, WellFormed(cur'), cur.nextId <= cur'.nextId, script' = script,
           \A id \in Rows' : UndoFits(log'[id].undo, cur'.nextId),
           NEW w \in Workers, Others(w), WorkerFits(workers'[w], cur'.nextId)
    PROVE  StateInv'
<1>1. cur.nextId \in Nat /\ cur'.nextId \in Nat
  BY DEF StateInv, WellFormed
<1>2. \A v \in Workers : WorkerFits(workers'[v], cur'.nextId)
  BY <1>1, WorkerLater DEF StateInv, Others
<1>3. Requests' = Requests
  BY DEF Requests
<1> QED
  BY <1>2, <1>3 DEF StateInv

LEMMA LogFits ==
    ASSUME StateInv, log' = log, WellFormed(cur'), cur.nextId <= cur'.nextId
    PROVE  \A id \in Rows' : UndoFits(log'[id].undo, cur'.nextId)
<1>1. cur.nextId \in Nat /\ cur'.nextId \in Nat
  BY DEF StateInv, WellFormed
<1>2. Rows' = Rows
  BY DEF Rows
<1> QED
  BY <1>1, <1>2, UndoLater DEF StateInv

LEMMA SnapWas ==
    ASSUME SnapInv, ~ history.overlapped, NEW w \in Workers,
           workers[w].pc # "idle" \/ Busy = {}
    PROVE  /\ Alone /\ \A v \in Workers : v # w => workers[v].pc = "idle"
           /\ workers[w].pc = "refresh" => workers[w].snap = Snapshot(cur)
           /\ workers[w].pc \notin {"load", "refresh"} => Fresh
<1>1. \A v \in Workers : v # w => workers[v].pc = "idle"
  BY DEF SnapInv, Alone, Busy
<1> QED
  BY <1>1 DEF SnapInv

LEMMA SnapOn ==
    ASSUME SnapInv, NEW w \in Workers, Others(w),
           \/ history'.overlapped
           \/ /\ ~ history.overlapped
              /\ workers[w].pc # "idle" \/ Busy = {}
              /\ \/ workers'[w].pc = "load"
                 \/ workers'[w].pc = "refresh" /\ workers'[w].snap = Snapshot(cur)'
                 \/ workers'[w].pc \notin {"load", "refresh"} /\ Fresh'
    PROVE  SnapInv'
<1>1. CASE history'.overlapped
  BY <1>1 DEF SnapInv
<1>2. CASE ~ history'.overlapped
  <2>1. \A v \in Workers : v # w => workers'[v].pc = "idle"
    BY <1>2, SnapWas DEF Others
  <2>2. Alone'
    BY <2>1 DEF Alone
  <2>3. \A v \in Workers : workers'[v].pc = "refresh" => workers'[v].snap = Snapshot(cur)'
    BY <1>2, <2>1
  <2>4. Fresh' \/ \E v \in Workers : workers'[v].pc \in {"load", "refresh"}
    BY <1>2
  <2> QED
    BY <2>2, <2>3, <2>4 DEF SnapInv
<1> QED
  BY <1>1, <1>2

LEMMA SnapshotNext == ASSUME cur' = cur PROVE Snapshot(cur)' = Snapshot(cur)
BY DEF Snapshot

LEMMA FreshStays ==
    ASSUME Fresh, copy' = copy, Snapshot(cur)' = Snapshot(cur), history.torn => history'.torn
    PROVE  Fresh'
BY DEF Fresh

----------------------------------------------------------------------------
(* The steps.                                                              *)
LEMMA ReadsFit ==
    ASSUME LogInv, StateInv, SnapInv, NEW w \in Workers, Read(w) \/ UndoRead(w)
    PROVE  StateInv' /\ SnapInv'
<1> DEFINE x == workers[w]
           y == workers'[w]
<1>1. /\ Shapes /\ x.pc \in {"read", "undoRead"} /\ log' = log /\ script' = script
      /\ cur' = cur /\ copy' = copy /\ history' = history
  BY DEF LogInv, Read, UndoRead
<1>2. PICK p \in {"write", "undoWrite"} : After(w, p, x.op, x.queue, cur, x.undo, x.snap)
  BY <1>1, ReadDoes, UndoReadDoes
<1>3. Others(w) /\ y.pc = p /\ y.op = x.op /\ y.queue = x.queue /\ y.seen = cur /\ y.undo = x.undo
  BY <1>2 DEF After, Others
<1>4. WellFormed(cur) /\ cur.nextId \in Nat /\ cur.nextId <= cur.nextId
  BY RestOf DEF StateInv
<1>5. WorkerFits(y, cur.nextId)
  BY <1>3, <1>4 DEF WorkerFits, StateInv
<1>6. StateInv'
  BY <1>1, <1>3, <1>4, <1>5, LogFits, StateOn
<1>7. ~ history.overlapped => Fresh'
  BY <1>1, SnapWas, SnapshotNext, FreshStays
<1>8. SnapInv'
  BY <1>1, <1>3, <1>7, SnapOn
<1> QED
  BY <1>6, <1>8

LEMMA RefreshesFit ==
    ASSUME LogInv, StateInv, SnapInv, NEW w \in Workers,
           LoadSnapshot(w) \/ RefreshSnapshot(w) \/ RefreshFails(w)
    PROVE  StateInv' /\ SnapInv'
<1> DEFINE x == workers[w]
           y == workers'[w]
<1>1. /\ Shapes /\ x.pc \in {"load", "refresh"} /\ log' = log /\ script' = script
      /\ cur' = cur
  BY DEF LogInv, LoadSnapshot, RefreshSnapshot, RefreshFails
<1>11. history'.overlapped = history.overlapped
  BY <1>1, LooksNote DEF Looks, HistoryIs
<1>2. PICK p, n : /\ After(w, p, x.op, x.queue, x.seen, x.undo, n)
                  /\ \/ p = "refresh" /\ n = Snapshot(cur)
                     \/ /\ x.pc = "refresh" /\ p \in {"undone", "record"}
                        /\ copy' = x.snap \/ history'.torn
  <2>1. CASE LoadSnapshot(w)
    BY <1>1, <2>1, LoadDoes
  <2>2. CASE RefreshSnapshot(w) \/ RefreshFails(w)
    <3> DEFINE p == IF x.op = "undo" THEN "undone" ELSE "record"
    <3>1. p \in {"undone", "record"} /\ x.pc = "refresh" /\ Refreshed(w)
      BY <2>2 DEF RefreshSnapshot, RefreshFails
    <3>2. After(w, p, x.op, x.queue, x.seen, x.undo, {})
      BY <1>1, <3>1, RefreshDoes
    <3> HIDE DEF p
    <3>3. copy' = x.snap \/ history'.torn
      <4>1. CASE RefreshSnapshot(w)
        BY <4>1 DEF RefreshSnapshot
      <4>2. CASE RefreshFails(w)
        BY <1>1, <4>2 DEF RefreshFails, Shapes, HistoryShape
      <4> QED
        BY <2>2, <4>1, <4>2
    <3> QED
      BY <3>1, <3>2, <3>3
  <2> QED
    BY <2>1, <2>2
<1>3. Others(w) /\ y.pc = p /\ y.op = x.op /\ y.queue = x.queue /\ y.undo = x.undo /\ y.snap = n
  BY <1>2 DEF After, Others
<1>4. WellFormed(cur) /\ cur.nextId \in Nat /\ cur.nextId <= cur.nextId
  BY RestOf DEF StateInv
<1>5. WorkerFits(y, cur.nextId)
  BY <1>2, <1>3 DEF WorkerFits, StateInv
<1>6. StateInv'
  BY <1>1, <1>3, <1>4, <1>5, LogFits, StateOn
<1>7. ~ history.overlapped /\ x.pc = "refresh" => x.snap = Snapshot(cur)
  BY SnapWas
<1>8. SnapInv'
  <2>1. Snapshot(cur)' = Snapshot(cur)
    BY <1>1, SnapshotNext
  <2>2. CASE p = "refresh" /\ n = Snapshot(cur)
    BY <1>1, <1>11, <1>3, <2>1, <2>2, SnapOn
  <2>3. CASE /\ x.pc = "refresh" /\ p \in {"undone", "record"}
             /\ copy' = x.snap \/ history'.torn
    <3>1. ~ history.overlapped => Fresh'
      BY <1>7, <2>1, <2>3 DEF Fresh
    <3> QED
      BY <1>1, <1>11, <1>3, <2>3, <3>1, SnapOn
  <2> QED
    BY <1>2, <2>2, <2>3
<1> QED
  BY <1>6, <1>8

(* On to the next row: what comes after fits as before.                    *)
LEMMA AdvanceFits ==
    ASSUME LogInv, StateInv, NEW w \in Workers, workers[w].pc # "idle", AfterAdvance(w),
           NEW n \in Nat, cur.nextId <= n
    PROVE  /\ Others(w) /\ WorkerFits(workers'[w], n)
           /\ workers'[w].pc \in {"idle", "read", "undoRead", "reject"}
<1> DEFINE x == workers[w]
           y == workers'[w]
<1>1. Shapes /\ Serves(x, Rows)
  BY BusyServes DEF LogInv
<1>2. IsSeq(x.queue) /\ Len(x.queue) \in Nat /\ x.queue # <<>> /\ x.op \in {"execute", "undo", "reject"}
  BY <1>1, QueueOf DEF Serves, PcFits
<1>3. cur.nextId \in Nat /\ WorkerFits(x, cur.nextId)
  BY DEF StateInv, WellFormed
<1>4. UndoFits(NoUndo, n)
  BY OpsDiffer
<1>5. CASE Len(x.queue) = 1
  <2> DEFINE e == <<>>
  <2>1. Others(w) /\ y.pc = "idle" /\ y.queue = e /\ y.undo = NoUndo
    BY <1>5 DEF AfterAdvance, After, Others
  <2>2. Len(e) = 0
    OBVIOUS
  <2> HIDE DEF e
  <2> QED
    BY <1>4, <2>1, <2>2 DEF WorkerFits
<1>6. CASE Len(x.queue) # 1
  <2> DEFINE q == Tail(x.queue)
  <2>1. After(w, First(x.op), x.op, q, Empty, NoUndo, {})
    BY <1>6 DEF AfterAdvance
  <2>2. First(x.op) \in {"read", "undoRead", "reject"}
    BY <1>2 DEF First
  <2>3. Len(q) = Len(x.queue) - 1 /\ \A i \in 1..Len(x.queue) - 1 : q[i] = x.queue[i + 1]
    BY <1>2, SeqTail
  <2> HIDE DEF q
  <2>4. /\ Others(w) /\ y.pc = First(x.op) /\ y.queue = q /\ y.undo = NoUndo /\ y.op = x.op
    BY <2>1 DEF After, Others
  <2>5. ASSUME NEW i \in 1..Len(q)
        PROVE  UndoFits(q[i].undo, n) /\ (x.op = "undo" => q[i].undo # NoUndo)
    <3>1. q[i] = x.queue[i + 1] /\ i + 1 \in 1..Len(x.queue)
      BY <1>2, <2>3
    <3>2. UndoFits(q[i].undo, cur.nextId) /\ (x.op = "undo" => q[i].undo # NoUndo)
      BY <1>3, <3>1 DEF WorkerFits
    <3> QED
      BY <1>3, <3>2, UndoLater
  <2> QED
    BY <1>4, <2>2, <2>4, <2>5 DEF WorkerFits
<1> QED
  BY <1>5, <1>6

LEMMA RecordsFit ==
    ASSUME LogInv, StateInv, SnapInv, NEW w \in Workers,
           RecordResult(w) \/ SetRejected(w) \/ SetUndone(w)
    PROVE  StateInv' /\ SnapInv'
<1> DEFINE x == workers[w]
           id == Row(w).id
<1>1. /\ Shapes /\ x.pc \in {"record", "fail", "reject", "undone"} /\ script' = script
      /\ cur' = cur /\ copy' = copy /\ history' = history
  BY DEF LogInv, RecordResult, SetRejected, SetUndone
<1>2. Serves(x, Rows)
  BY <1>1, BusyServes
<1>3. id \in Rows
  BY <1>1, <1>2, QueueOf
<1>4. AfterAdvance(w)
  BY <1>1, AdvanceDoes DEF RecordResult, SetRejected, SetUndone
<1>5. PICK s, u : LogIs(id, s, u) /\ u \in {x.undo, log[id].undo}
  BY <1>1, <1>3, RecordDoes, StatusDoes DEF RecordResult, SetRejected, SetUndone
<1>6. WellFormed(cur) /\ cur.nextId \in Nat /\ cur.nextId <= cur.nextId
  BY RestOf DEF StateInv
<1>7. /\ Others(w) /\ WorkerFits(workers'[w], cur.nextId)
      /\ workers'[w].pc \in {"idle", "read", "undoRead", "reject"}
  BY <1>1, <1>4, <1>6, AdvanceFits
<1>8. \A k \in Rows' : UndoFits(log'[k].undo, cur.nextId)
  <2>1. Rows' = Rows
    <3>1. Rows = 1..Len(log) /\ Rows' = 1..Len(log')
      BY <1>1, <1>5, RowsAre, SeqFacts DEF LogIs, Shapes, Rows
    <3> QED
      BY <1>5, <3>1 DEF LogIs
  <2>2. UndoFits(u, cur.nextId)
    BY <1>3, <1>5 DEF StateInv, WorkerFits
  <2>3. log'[id].undo = u
    BY <1>5 DEF LogIs
  <2> QED
    BY <1>5, <2>1, <2>2, <2>3 DEF LogIs, StateInv
<1>9. StateInv'
  BY <1>1, <1>6, <1>7, <1>8, StateOn
<1>10. ~ history.overlapped => Fresh'
  BY <1>1, SnapWas, SnapshotNext, FreshStays
<1>11. SnapInv'
  BY <1>1, <1>7, <1>10, SnapOn
<1> QED
  BY <1>9, <1>11

LEMMA WriteFits ==
    ASSUME LogInv, StateInv, SnapInv, NEW w \in Workers, Write(w)
    PROVE  StateInv' /\ SnapInv'
<1> DEFINE x == workers[w]
           y == workers'[w]
           id == Row(w).id
           a == Action(id)
           h == history
           r == Outcome(a, x.seen, cur)
<1>1. /\ Shapes /\ x.pc = "write" /\ log' = log /\ script' = script /\ copy' = copy
  BY DEF LogInv, Write
<1>2. Serves(x, Rows)
  BY <1>1, BusyServes
<1>3. id \in Rows /\ x.op = "execute"
  BY <1>1, <1>2, QueueOf DEF Serves, PcFits
<1>4. a.kind \in Kinds
  BY <1>1, <1>3 DEF StateInv, Action, Shapes, RowShape
<1>5. WellFormed(x.seen) /\ x.seen.nextId <= cur.nextId /\ WellFormed(cur)
  BY <1>1 DEF StateInv, WorkerFits
<1>6. /\ Kept(r, cur)
      /\ ~ r.ok \/ ~ Refreshes(a.kind) => Snapshot(r.cur) = Snapshot(cur)
  BY <1>4, <1>5, ExecuteKeeps
<1>7. /\ cur' = r.cur
      /\ \E p : /\ After(w, p, x.op, x.queue, Empty, r.undo, x.snap)
                /\ \/ ~ r.ok /\ p = "fail"
                   \/ r.ok /\ p = IF Refreshes(a.kind) THEN "load" ELSE "record"
      /\ history'.overlapped = h.overlapped /\ history'.torn = h.torn
  BY <1>1, <1>3, WriteDoes DEF HistoryIs
<1>8. PICK p : /\ After(w, p, x.op, x.queue, Empty, r.undo, x.snap)
               /\ \/ ~ r.ok /\ p = "fail"
                  \/ r.ok /\ p = IF Refreshes(a.kind) THEN "load" ELSE "record"
  BY <1>7
<1> HIDE DEF r
<1>9. Others(w) /\ y.pc = p /\ y.op = x.op /\ y.queue = x.queue /\ y.undo = r.undo
  BY <1>8 DEF After, Others
<1>10. WellFormed(cur') /\ cur.nextId <= cur'.nextId /\ UndoFits(r.undo, cur'.nextId)
  BY <1>6, <1>7 DEF Kept
<1>11. cur.nextId \in Nat /\ cur'.nextId \in Nat
  BY <1>5, <1>10 DEF WellFormed
<1>12. WorkerFits(y, cur'.nextId)
  <2>1. WorkerFits(x, cur'.nextId)
    BY <1>10, <1>11, WorkerLater DEF StateInv
  <2> QED
    BY <1>8, <1>9, <1>10, <2>1 DEF WorkerFits
<1>13. StateInv'
  BY <1>1, <1>9, <1>10, <1>12, LogFits, StateOn
<1>14. p \notin {"load", "refresh"} => Snapshot(cur)' = Snapshot(cur)
  <2>1. Snapshot(cur)' = Snapshot(r.cur)
    BY <1>7 DEF Snapshot
  <2> QED
    BY <1>6, <1>8, <2>1
<1>15. ~ h.overlapped => Fresh
  BY <1>1, SnapWas
<1>16. p = "load" \/ p \notin {"load", "refresh"}
  BY <1>8
<1>17. SnapInv'
  <2>1. ~ h.overlapped /\ p \notin {"load", "refresh"} => Fresh'
    BY <1>1, <1>7, <1>14, <1>15, FreshStays
  <2> QED
    BY <1>1, <1>7, <1>9, <1>16, <2>1, SnapOn
<1> QED
  BY <1>13, <1>17

LEMMA UndoWriteFits ==
    ASSUME LogInv, StateInv, SnapInv, NEW w \in Workers, UndoWrite(w)
    PROVE  StateInv' /\ SnapInv'
<1> DEFINE x == workers[w]
           y == workers'[w]
           id == Row(w).id
           u == Row(w).undo
           h == history
           r == ApplyUndo(u, x.seen, cur)
<1>1. /\ Shapes /\ x.pc = "undoWrite" /\ log' = log /\ script' = script /\ copy' = copy
  BY DEF LogInv, UndoWrite
<1>2. Serves(x, Rows)
  BY <1>1, BusyServes
<1>3. id \in Rows /\ x.op = "undo" /\ IsSeq(x.queue) /\ Len(x.queue) >= 1 /\ x.queue # <<>>
  BY <1>1, <1>2, QueueOf DEF Serves, PcFits
<1>4. UndoFits(u, cur.nextId) /\ u # NoUndo /\ WellFormed(cur)
  <2>1. u = x.queue[1].undo /\ 1 \in 1..Len(x.queue)
    <3>1. Row(w) = x.queue[1]
      BY <1>3, SeqTail DEF Row
    <3> QED
      BY <1>1, <1>2, <1>3, <3>1, QueueOf
  <2> QED
    BY <1>3, <2>1 DEF StateInv, WorkerFits
<1>5. /\ r.ok \in BOOLEAN /\ WellFormed(r.cur) /\ cur.nextId <= r.cur.nextId
      /\ ~ UndoRefreshes(u, cur) => Snapshot(r.cur) = Snapshot(cur)
  BY <1>4, UndoKeeps
<1>6. /\ cur' = r.cur
      /\ \/ /\ ~ r.ok /\ AfterAdvance(w)
            /\ history'.overlapped = h.overlapped /\ history'.torn = (h.torn \/ cur' # cur)
         \/ /\ r.ok
            /\ \E p : /\ p = IF UndoRefreshes(u, cur) THEN "load" ELSE "undone"
                      /\ After(w, p, x.op, x.queue, Empty, x.undo, x.snap)
            /\ history'.overlapped = h.overlapped /\ history'.torn = h.torn
  BY <1>1, <1>3, UndoWriteDoes DEF HistoryIs
<1> HIDE DEF r, u
<1>7. /\ WellFormed(cur') /\ cur.nextId <= cur'.nextId /\ cur.nextId \in Nat /\ cur'.nextId \in Nat
  BY <1>4, <1>5, <1>6 DEF WellFormed
<1>8. Snapshot(cur)' = Snapshot(r.cur)
  BY <1>6 DEF Snapshot
<1>9. ~ h.overlapped => Fresh
  BY <1>1, SnapWas
<1>10. CASE /\ ~ r.ok /\ AfterAdvance(w)
            /\ history'.overlapped = h.overlapped /\ history'.torn = (h.torn \/ cur' # cur)
  <2>1. /\ Others(w) /\ WorkerFits(y, cur'.nextId)
        /\ y.pc \in {"idle", "read", "undoRead", "reject"}
    BY <1>1, <1>7, <1>10, AdvanceFits
  <2>2. StateInv'
    BY <1>1, <1>7, <2>1, LogFits, StateOn
  <2>3. cur' = cur => Snapshot(cur)' = Snapshot(cur)
    BY SnapshotNext
  <2>31. ~ h.overlapped => Fresh'
    <3>1. CASE cur' = cur
      BY <1>1, <1>9, <1>10, <2>3, <3>1, FreshStays
    <3>2. CASE cur' # cur
      BY <1>10, <3>2 DEF Fresh
    <3> QED
      BY <3>1, <3>2
  <2>4. SnapInv'
    BY <1>1, <1>10, <2>1, <2>31, SnapOn
  <2> QED
    BY <2>2, <2>4
<1>11. CASE /\ r.ok
            /\ \E p : /\ p = IF UndoRefreshes(u, cur) THEN "load" ELSE "undone"
                      /\ After(w, p, x.op, x.queue, Empty, x.undo, x.snap)
            /\ history'.overlapped = h.overlapped /\ history'.torn = h.torn
  <2>1. PICK p : /\ p = IF UndoRefreshes(u, cur) THEN "load" ELSE "undone"
                 /\ After(w, p, x.op, x.queue, Empty, x.undo, x.snap)
    BY <1>11
  <2>2. Others(w) /\ y.pc = p /\ y.op = x.op /\ y.queue = x.queue /\ y.undo = x.undo
    BY <2>1 DEF After, Others
  <2>3. p = "load" \/ (p = "undone" /\ Snapshot(cur)' = Snapshot(cur))
    BY <1>5, <1>8, <2>1
  <2>4. WorkerFits(y, cur'.nextId)
    <3>1. WorkerFits(x, cur'.nextId)
      BY <1>7, WorkerLater DEF StateInv
    <3> QED
      BY <2>2, <2>3, <3>1 DEF WorkerFits
  <2>5. StateInv'
    BY <1>1, <1>7, <2>2, <2>4, LogFits, StateOn
  <2>51. ~ h.overlapped /\ p = "undone" => Fresh'
    BY <1>1, <1>9, <1>11, <2>3, FreshStays
  <2>6. SnapInv'
    BY <1>1, <1>11, <2>2, <2>3, <2>51, SnapOn
  <2> QED
    BY <2>5, <2>6
<1> QED
  BY <1>6, <1>10, <1>11

(* What every review does: a request takes up rows of the log, each with   *)
(* the undo it has there.                                                  *)
LEMMA ReviewDoes ==
    ASSUME LogInv, NEW w \in Workers,
           \/ \E id \in Rows : Approve(w, id) \/ Reject(w, id) \/ Undo(w, id)
           \/ ApproveAll(w) \/ RejectAll(w) \/ UndoAll(w)
    PROVE  \E op \in {"execute", "undo", "reject"} : \E ids, S :
              /\ w \notin Busy /\ Take(w, op, ids) /\ history' = Began(S)
              /\ IsSeq(ids) /\ \A i \in DOMAIN ids : ids[i] \in S
              /\ S \subseteq Rows
              /\ op = "undo" => \A id \in S : CanUndo(id)
              /\ op # "undo" => \A id \in S : log[id].status = "proposed"
              /\ log' = log /\ script' = script /\ cur' = cur /\ copy' = copy
<1>1. Shapes
  BY DEF LogInv
<1>2. ASSUME NEW id \in Rows, NEW op \in {"execute", "undo", "reject"}, NEW S, S = {id},
             w \notin Busy, Take(w, op, <<id>>), history' = Began(S),
             op = "undo" => CanUndo(id), op # "undo" => log[id].status = "proposed",
             log' = log, script' = script, cur' = cur, copy' = copy
      PROVE  \E o \in {"execute", "undo", "reject"} : \E ids, R :
              /\ w \notin Busy /\ Take(w, o, ids) /\ history' = Began(R)
              /\ IsSeq(ids) /\ \A i \in DOMAIN ids : ids[i] \in R
              /\ R \subseteq Rows
              /\ o = "undo" => \A k \in R : CanUndo(k)
              /\ o # "undo" => \A k \in R : log[k].status = "proposed"
              /\ log' = log /\ script' = script /\ cur' = cur /\ copy' = copy
  <2> DEFINE ids == <<id>>
  <2>1. IsSeq(ids) /\ \A i \in DOMAIN ids : ids[i] \in S
    BY <1>2, OneRow
  <2>2. Take(w, op, ids)
    BY <1>2
  <2>3. S \subseteq Rows /\ (op = "undo" => \A k \in S : CanUndo(k))
        /\ (op # "undo" => \A k \in S : log[k].status = "proposed")
    BY <1>2
  <2> HIDE DEF ids
  <2> QED
    BY <1>2, <2>1, <2>2, <2>3
<1>3. ASSUME NEW id \in Rows, Approve(w, id) \/ Reject(w, id) \/ Undo(w, id)
      PROVE  \E op \in {"execute", "undo", "reject"} : \E S :
              /\ S = {id} /\ w \notin Busy /\ Take(w, op, <<id>>) /\ history' = Began(S)
              /\ op = "undo" => CanUndo(id)
              /\ op # "undo" => log[id].status = "proposed"
              /\ log' = log /\ script' = script /\ cur' = cur /\ copy' = copy
  <2>1. Range(<<id>>) = {id}
    BY OneRow
  <2>2. CASE Approve(w, id) \/ Reject(w, id)
    <3>1. PICK op \in {"execute", "reject"} : Review(w, op, <<id>>) /\ log[id].status = "proposed"
      BY <2>2 DEF Approve, Reject
    <3>2. /\ w \notin Busy /\ Take(w, op, <<id>>) /\ history' = Began(Range(<<id>>))
          /\ log' = log /\ script' = script /\ cur' = cur /\ copy' = copy
      BY <3>1 DEF Review
    <3> QED
      BY <2>1, <3>1, <3>2
  <2>3. CASE Undo(w, id)
    <3>1. /\ CanUndo(id) /\ w \notin Busy /\ Take(w, "undo", <<id>>) /\ history' = Began({id})
          /\ log' = log /\ script' = script /\ cur' = cur /\ copy' = copy
      BY <2>3 DEF Undo
    <3> QED
      BY <3>1
  <2> QED
    BY <1>3, <2>2, <2>3
<1>4. ASSUME NEW op \in {"execute", "reject"}, NEW S, S \subseteq With("proposed"),
             Review(w, op, Ascending(S))
      PROVE  \E o \in {"execute", "undo", "reject"} : \E ids, R :
              /\ w \notin Busy /\ Take(w, o, ids) /\ history' = Began(R)
              /\ IsSeq(ids) /\ \A i \in DOMAIN ids : ids[i] \in R
              /\ R \subseteq Rows
              /\ o = "undo" => \A k \in R : CanUndo(k)
              /\ o # "undo" => \A k \in R : log[k].status = "proposed"
              /\ log' = log /\ script' = script /\ cur' = cur /\ copy' = copy
  <2> DEFINE ids == Ascending(S)
             T == Range(ids)
  <2>1. S \subseteq Rows /\ \A id \in S : log[id].status = "proposed"
    BY <1>4 DEF With
  <2>2. Lists(ids, S)
    BY <1>1, <2>1, RowsFinite, AscendingLists
  <2>3. /\ w \notin Busy /\ Take(w, op, ids) /\ history' = Began(T)
        /\ log' = log /\ script' = script /\ cur' = cur /\ copy' = copy
    BY <1>4 DEF Review
  <2> HIDE DEF ids
  <2>4. IsSeq(ids) /\ T \subseteq S /\ \A i \in DOMAIN ids : ids[i] \in T
    BY <2>2 DEF Lists, Range
  <2>5. T \subseteq Rows /\ \A id \in T : log[id].status = "proposed"
    BY <2>1, <2>4
  <2> HIDE DEF T
  <2>6. op \in {"execute", "undo", "reject"} /\ op # "undo"
    OBVIOUS
  <2> QED
    BY <2>3, <2>4, <2>5, <2>6
<1>5. CASE \E id \in Rows : Approve(w, id) \/ Reject(w, id) \/ Undo(w, id)
  <2>1. PICK id \in Rows : Approve(w, id) \/ Reject(w, id) \/ Undo(w, id)
    BY <1>5
  <2> QED
    BY <1>2, <1>3, <2>1
<1>6. CASE ApproveAll(w)
  BY <1>4, <1>6 DEF ApproveAll
<1>7. CASE RejectAll(w)
  BY <1>4, <1>7 DEF RejectAll, PendingRows
<1>8. CASE UndoAll(w)
  <2> DEFINE S == RunRows
             ids == Descending(S)
  <2>1. S \subseteq Rows /\ \A id \in S : CanUndo(id)
    BY DEF RunRows
  <2>2. Lists(ids, S)
    BY <1>1, <2>1, RowsFinite, DescendingLists
  <2>3. /\ w \notin Busy /\ Take(w, "undo", ids) /\ history' = Began(S)
        /\ log' = log /\ script' = script /\ cur' = cur /\ copy' = copy
    BY <1>8 DEF UndoAll
  <2> HIDE DEF ids, S
  <2>4. IsSeq(ids) /\ \A i \in DOMAIN ids : ids[i] \in S
    BY <2>2 DEF Lists
  <2> QED
    BY <2>1, <2>3, <2>4
<1> QED
  BY <1>5, <1>6, <1>7, <1>8

LEMMA ReviewsFit ==
    ASSUME LogInv, StateInv, SnapInv, NEW w \in Workers,
           \/ \E id \in Rows : Approve(w, id) \/ Reject(w, id) \/ Undo(w, id)
           \/ ApproveAll(w) \/ RejectAll(w) \/ UndoAll(w)
    PROVE  StateInv' /\ SnapInv'
<1> DEFINE y == workers'[w]
<1>1. PICK op, ids, S :
              /\ op \in {"execute", "undo", "reject"}
              /\ w \notin Busy /\ Take(w, op, ids) /\ history' = Began(S)
              /\ IsSeq(ids) /\ \A i \in DOMAIN ids : ids[i] \in S
              /\ S \subseteq Rows
              /\ op = "undo" => \A id \in S : CanUndo(id)
              /\ log' = log /\ script' = script /\ cur' = cur /\ copy' = copy
  BY ReviewDoes
<1>2. Shapes
  BY DEF LogInv
<1>3. PICK q : /\ After(w, First(op), op, q, Empty, NoUndo, {})
               /\ IsSeq(q) /\ Len(q) = Len(ids)
               /\ \A i \in 1..Len(ids) : q[i] = [id |-> ids[i], undo |-> log[ids[i]].undo]
  BY <1>1, <1>2, TakeDoes
<1>4. /\ Others(w) /\ y.pc = First(op) /\ y.queue = q /\ y.undo = NoUndo /\ y.op = op
  BY <1>3 DEF After, Others
<1>5. First(op) \in {"read", "undoRead", "reject"}
  BY <1>1 DEF First
<1>6. WellFormed(cur) /\ cur.nextId \in Nat /\ cur.nextId <= cur.nextId
  BY RestOf DEF StateInv
<1>7. WorkerFits(y, cur.nextId)
  <2>1. UndoFits(NoUndo, cur.nextId)
    BY OpsDiffer
  <2>2. ASSUME NEW i \in 1..Len(q)
        PROVE  UndoFits(q[i].undo, cur.nextId) /\ (op = "undo" => q[i].undo # NoUndo)
    <3>1. q[i].undo = log[ids[i]].undo
      <4> DEFINE z == [id |-> ids[i], undo |-> log[ids[i]].undo]
      <4>1. q[i] = z /\ z.undo = log[ids[i]].undo
        BY <1>3
      <4> HIDE DEF z
      <4> QED
        BY <4>1
    <3>2. i \in DOMAIN ids
      BY <1>1, <1>3, SeqFacts
    <3> QED
      BY <1>1, <3>1, <3>2 DEF StateInv, CanUndo
  <2> QED
    BY <1>4, <1>5, <2>1, <2>2 DEF WorkerFits
<1>8. StateInv'
  BY <1>1, <1>4, <1>6, <1>7, LogFits, StateOn
<1>9. history'.overlapped = (history.overlapped \/ Busy # {}) /\ history'.torn = history.torn
  BY <1>1, <1>2, BeganIs DEF HistoryIs
<1>10. workers[w].pc = "idle"
  BY <1>1 DEF Busy
<1>11. ~ history.overlapped /\ Busy = {} => Fresh'
  BY <1>1, <1>9, <1>10, SnapWas, SnapshotNext, FreshStays
<1>12. SnapInv'
  BY <1>1, <1>4, <1>5, <1>9, <1>11, SnapOn
<1> QED
  BY <1>8, <1>12

LEMMA NothingFits ==
    ASSUME StateInv, SnapInv, log' = log, history' = history, script' = script,
           workers' = workers, cur' = cur, copy' = copy
    PROVE  StateInv' /\ SnapInv'
<1>1. Snapshot(cur)' = Snapshot(cur)
  BY SnapshotNext
<1>2. Rows' = Rows /\ Requests' = Requests
  BY DEF Rows, Requests
<1> QED
  BY <1>1, <1>2 DEF StateInv, SnapInv, Alone, Fresh

LEMMA DispatchFits ==
    ASSUME LogInv, StateInv, SnapInv, NEW w \in Workers, NEW r \in Requests, Dispatch(w, r)
    PROVE  StateInv' /\ SnapInv'
<1>1. script' = script /\ cur' = cur /\ copy' = copy /\ w \notin Busy
  BY DEF Dispatch
<1>2. CASE Logged(r)
  <2>1. log' = log
    BY <1>2 DEF Dispatch, InsertAction
  <2>2. workers' = workers /\ history' = history
    BY <2>1 DEF Dispatch
  <2> QED
    BY <1>1, <2>1, <2>2, NothingFits
<1>3. CASE ~ Logged(r)
  <2> DEFINE h == history
             y == workers'[w]
  <2>1. PICK n : n = Len(log) + 1
    OBVIOUS
  <2>2. /\ workers[w] = Idle /\ Others(w) /\ Rows' = Rows \cup {n}
        /\ \A k \in Rows : log'[k] = log[k]
        /\ log'[n] = [request |-> r, status |-> InitialStatus(script[r]), undo |-> NoUndo]
        /\ history'.torn = h.torn
        /\ \/ y = Idle /\ history'.overlapped = h.overlapped
           \/ /\ y = [pc |-> "read", op |-> "execute", queue |-> <<[id |-> n, undo |-> NoUndo]>>,
                      seen |-> Empty, undo |-> NoUndo, snap |-> {}]
              /\ history'.overlapped = (h.overlapped \/ Busy # {})
    BY <1>3, <2>1, DispatchDoes DEF HistoryIs
  <2>3. WellFormed(cur) /\ cur.nextId \in Nat /\ cur.nextId <= cur.nextId
    BY RestOf DEF StateInv
  <2>4. UndoFits(NoUndo, cur.nextId)
    BY OpsDiffer
  <2>5. \A k \in Rows' : UndoFits(log'[k].undo, cur.nextId)
    BY <2>2, <2>4 DEF StateInv
  <2>6. y = workers[w] \/ /\ y.pc = "read" /\ y.op = "execute" /\ y.undo = NoUndo
                          /\ y.queue = <<[id |-> n, undo |-> NoUndo]>>
    BY <2>2
  <2>7. WorkerFits(y, cur.nextId)
    <3>1. CASE y = workers[w]
      BY <3>1 DEF StateInv
    <3>2. CASE /\ y.pc = "read" /\ y.op = "execute" /\ y.undo = NoUndo
               /\ y.queue = <<[id |-> n, undo |-> NoUndo]>>
      <4> DEFINE q == <<[id |-> n, undo |-> NoUndo]>>
      <4>1. Len(q) = 1 /\ q[1].undo = NoUndo
        OBVIOUS
      <4>2. y.queue = q
        BY <3>2
      <4> HIDE DEF q
      <4> QED
        BY <2>4, <3>2, <4>1, <4>2 DEF WorkerFits
    <3> QED
      BY <2>6, <3>1, <3>2
  <2>8. StateInv'
    BY <1>1, <2>2, <2>3, <2>5, <2>7, StateOn
  <2>9. workers[w].pc = "idle" /\ Snapshot(cur)' = Snapshot(cur)
    BY <1>1, SnapshotNext DEF Busy
  <2>10. CASE y = Idle /\ history'.overlapped = h.overlapped
    <3>1. y = workers[w]
      BY <2>2, <2>10
    <3>2. workers' = workers
      <4>1. Shapes /\ WorkersShape'
        BY <1>3, <2>1, DispatchDoes DEF LogInv
      <4>2. \A v \in Workers : workers'[v] = workers[v]
        BY <2>2, <3>1 DEF Others
      <4> QED
        BY <4>1, <4>2 DEF Shapes, WorkersShape
    <3> QED
      BY <1>1, <2>2, <2>8, <2>9, <2>10, <3>2 DEF SnapInv, Alone, Fresh
  <2>11. CASE y.pc = "read" /\ history'.overlapped = (h.overlapped \/ Busy # {})
    <3>1. ~ h.overlapped /\ Busy = {} => Fresh'
      BY <1>1, <2>2, <2>9, SnapWas, FreshStays
    <3>2. SnapInv'
      BY <1>1, <2>2, <2>9, <2>11, <3>1, SnapOn
    <3> QED
      BY <2>8, <3>2
  <2> QED
    BY <2>2, <2>10, <2>11
<1> QED
  BY <1>2, <1>3

LEMMA BreaksFit ==
    ASSUME LogInv, StateInv, SnapInv, NEW w \in Workers, WriteBreaks(w) \/ UndoBreaks(w)
    PROVE  StateInv' /\ SnapInv'
<1> DEFINE x == workers[w]
           y == workers'[w]
           id == Row(w).id
           u == Row(w).undo
<1>1. /\ Shapes /\ x.pc \in {"write", "undoWrite"} /\ log' = log /\ script' = script
      /\ history' = Halved(id)
  BY DEF LogInv, WriteBreaks, UndoBreaks
<1>2. Serves(x, Rows)
  BY <1>1, BusyServes
<1>3. WellFormed(cur) /\ cur.nextId \in Nat
  BY RestOf DEF StateInv
<1>4. SnapInv'
  <2>1. history'.overlapped = TRUE
    BY <1>1, HalvedFields
  <2> QED
    BY <2>1 DEF SnapInv
<1>5. CASE WriteBreaks(w)
  <2>1. cur' \in Halfway(Action(id), x.seen, cur)
    BY <1>5 DEF WriteBreaks
  <2>2. WellFormed(cur') /\ cur.nextId <= cur'.nextId
    BY <1>3, <2>1, HalfwayKeeps
  <2>3. cur'.nextId \in Nat
    BY <2>2 DEF WellFormed
  <2>4. After(w, "fail", x.op, x.queue, Empty, NoUndo, x.snap)
    BY <1>1, <1>5, BreakDoes
  <2>5. Others(w) /\ y.pc = "fail" /\ y.op = x.op /\ y.queue = x.queue /\ y.undo = NoUndo
    BY <2>4 DEF After, Others
  <2>6. WorkerFits(y, cur'.nextId)
    <3>1. WorkerFits(x, cur'.nextId)
      BY <1>3, <2>2, <2>3, WorkerLater DEF StateInv
    <3>2. UndoFits(NoUndo, cur'.nextId)
      BY OpsDiffer
    <3> QED
      BY <2>5, <3>1, <3>2 DEF WorkerFits
  <2> QED
    BY <1>1, <1>4, <2>2, <2>5, <2>6, LogFits, StateOn
<1>6. CASE UndoBreaks(w)
  <2>1. cur' \in HalfUndone(u, cur) /\ x.pc = "undoWrite"
    BY <1>6 DEF UndoBreaks
  <2>2. IsSeq(x.queue) /\ Len(x.queue) >= 1 /\ x.queue # <<>> /\ Len(x.queue) \in Nat
    BY <1>1, <1>2, QueueOf
  <2>3. UndoFits(u, cur.nextId)
    <3>1. u = x.queue[1].undo /\ 1 \in 1..Len(x.queue)
      <4>1. Row(w) = x.queue[1]
        BY <2>2, SeqTail DEF Row
      <4> QED
        BY <2>2, <4>1
    <3> QED
      BY <3>1 DEF StateInv, WorkerFits
  <2>4. WellFormed(cur') /\ cur.nextId <= cur'.nextId
    BY <1>3, <2>1, <2>3, HalfUndoneKeeps
  <2>5. cur'.nextId \in Nat
    BY <2>4 DEF WellFormed
  <2>6. AfterAdvance(w)
    BY <1>1, <1>6, AdvanceDoes DEF UndoBreaks
  <2>7. Others(w) /\ WorkerFits(y, cur'.nextId)
    BY <1>1, <2>4, <2>5, <2>6, AdvanceFits
  <2> QED
    BY <1>1, <1>4, <2>4, <2>7, LogFits, StateOn
<1> QED
  BY <1>5, <1>6

LEMMA StopFits ==
    ASSUME LogInv, StateInv, SnapInv, NEW w \in Workers, Stop(w)
    PROVE  StateInv' /\ SnapInv'
<1>1. /\ Shapes /\ log' = log /\ script' = script /\ cur' = cur
      /\ workers' = [workers EXCEPT ![w] = Idle]
  BY DEF LogInv, Stop
<1>2. Others(w) /\ workers'[w] = Idle
  BY <1>1, WorkerSet DEF Others
<1>3. WellFormed(cur) /\ cur.nextId \in Nat /\ cur.nextId <= cur.nextId
  BY RestOf DEF StateInv
<1>4. WorkerFits(Idle, cur.nextId)
  <2> DEFINE e == <<>>
  <2>1. Idle.pc = "idle" /\ Idle.queue = e /\ Idle.undo = NoUndo /\ Len(e) = 0
    BY DEF Idle
  <2>2. UndoFits(NoUndo, cur.nextId)
    BY OpsDiffer
  <2> HIDE DEF e
  <2> QED
    BY <2>1, <2>2 DEF WorkerFits
<1>5. StateInv'
  BY <1>1, <1>2, <1>3, <1>4, LogFits, StateOn
<1>6. history'.overlapped = TRUE
  BY <1>1 DEF Stop, Shapes, HistoryShape
<1> QED
  BY <1>5, <1>6 DEF SnapInv

LEMMA InitFits == Init => StateInv /\ SnapInv
<1> SUFFICES ASSUME Init PROVE StateInv /\ SnapInv
  OBVIOUS
<1>1. PICK s \in Scripts : script = s.requests /\ cur = s.start /\ copy = Snapshot(s.start)
  BY DEF Init
<1>2. WellFormed(cur) /\ \A i \in Requests : script[i].kind \in Kinds
  BY <1>1, ActionLogAssumption DEF IsAction, Requests
<1>3. Rows = {} /\ \A w \in Workers : workers[w] = Idle
  BY EmptySeq DEF Init, Rows
<1>4. WorkerFits(Idle, cur.nextId) /\ Idle.pc = "idle"
  <2> DEFINE e == <<>>
  <2>1. Idle.pc = "idle" /\ Idle.queue = e /\ Idle.undo = NoUndo /\ Len(e) = 0
    BY DEF Idle
  <2>2. UndoFits(NoUndo, cur.nextId)
    BY OpsDiffer
  <2> HIDE DEF e
  <2> QED
    BY <2>1, <2>2 DEF WorkerFits
<1> QED
  BY <1>1, <1>2, <1>3, <1>4 DEF StateInv, SnapInv, Alone, Fresh

LEMMA FitStep == LogInv /\ StateInv /\ SnapInv /\ [Next]_vars => StateInv' /\ SnapInv'
<1> SUFFICES ASSUME LogInv, StateInv, SnapInv, [Next]_vars PROVE StateInv' /\ SnapInv'
  OBVIOUS
<1>1. CASE UNCHANGED vars
  BY <1>1, NothingFits DEF vars
<1>2. CASE Next
  <2>1. PICK w \in Workers :
        \/ \E r \in Requests : Dispatch(w, r)
        \/ \E id \in Rows : Approve(w, id) \/ Reject(w, id) \/ Undo(w, id)
        \/ ApproveAll(w) \/ RejectAll(w) \/ UndoAll(w)
        \/ Looks(w) \/ Write(w) \/ RecordResult(w) \/ SetRejected(w) \/ UndoWrite(w)
        \/ SetUndone(w) \/ WriteBreaks(w) \/ UndoBreaks(w) \/ Stop(w)
    BY <1>2 DEF Next, Looks
  <2> QED
    BY <2>1, DispatchFits, ReviewsFit, ReadsFit, RefreshesFit, WriteFits, RecordsFit, UndoWriteFits,
       BreaksFit, StopFits DEF Looks
<1> QED
  BY <1>1, <1>2

(* Whatever curation actions and their undos do to the vocabulary, the     *)
(* copy a classification function keeps is the vocabulary again when the   *)
(* request has ended, as long as requests did not overlap, stop or fail    *)
(* halfway, and once a refresh has succeeded since the last undo that was  *)
(* refused halfway or refresh that failed.  (SnapshotCurrent of            *)
(* action_log.)                                                            *)
THEOREM CopiesAreCurrent == Spec => []SnapshotCurrent
<1>1. Init => LogInv /\ StateInv /\ SnapInv
  BY InitLog, InitFits
<1>2. LogInv /\ StateInv /\ SnapInv /\ [Next]_vars => (LogInv /\ StateInv /\ SnapInv)'
  BY LogStep, FitStep
<1>3. LogInv /\ StateInv /\ SnapInv => SnapshotCurrent
  BY DEF SnapInv, SnapshotCurrent, Busy, Fresh
<1>4. Spec => [](LogInv /\ StateInv /\ SnapInv)
  BY <1>1, <1>2, PTL DEF Spec
<1> QED
  BY <1>3, <1>4, PTL

----------------------------------------------------------------------------
(* What an undo takes back.  r is the outcome of an action on b, c the     *)
(* state its undo meets: r's, but for the counter of ids.                  *)
Replaced(V, e) == {o \in V : o.id # e.id} \cup {e}
Without(V, ids) == {o \in V : o.id \notin ids}

LEMMA PutOnly ==
    ASSUME NEW c, IsState(c), NEW e, NEW d, d = Put(c, e)
    PROVE  d.vocab = Replaced(c.vocab, e) /\ SameRest(d, c) /\ IsState(d)
<1> DEFINE V == {o \in c.vocab : o.id # e.id} \cup {e}
<1>1. StateIs(d, V, c.nextId, c.verdicts, c.suppressed, c.views, c.opinions, c.settings)
  BY PutIs
<1> HIDE DEF V
<1>2. d.vocab = V /\ SameRest(d, c) /\ IsState(d)
  BY <1>1, StateParts DEF SameRest
<1> QED
  BY <1>2 DEF V, Replaced

LEMMA DropOnly ==
    ASSUME NEW c, IsState(c), NEW ids, NEW d, d = Drop(c, ids)
    PROVE  d.vocab = Without(c.vocab, ids) /\ SameRest(d, c) /\ IsState(d)
<1> DEFINE V == {o \in c.vocab : o.id \notin ids}
<1>1. StateIs(d, V, c.nextId, c.verdicts, c.suppressed, c.views, c.opinions, c.settings)
  BY DropIs
<1> HIDE DEF V
<1>2. d.vocab = V /\ SameRest(d, c) /\ IsState(d)
  BY <1>1, StateParts DEF SameRest
<1> QED
  BY <1>2 DEF V, Without

LEMMA RestSame ==
    ASSUME NEW d, NEW c, NEW b, SameRest(d, c), SameRest(c, b)
    PROVE  SameRest(d, b)
BY DEF SameRest

(* One entry changed in place, and its name and definition put back.       *)
LEMMA InPlaceBack ==
    ASSUME NEW b, WellFormed(b), NEW p \in b.vocab,
           NEW e, IsEntry(e), e.id = p.id, e.kind = p.kind, e.parent = p.parent,
           e.frozen = p.frozen, e.aliases = p.aliases,
           NEW d, d = Put(b, e), NEW c, WellFormed(c), Alike(c, d),
           NEW u, u.created = FALSE, u.id = p.id, u.name = p.name, u.descr = p.descr,
           NEW s, NEW q, q = UndoRestore(u, s, c), q.ok
    PROVE  Alike(q.cur, b)
<1> DEFINE o == CHOOSE o \in ById(c, u.id) : TRUE
           g == [o EXCEPT !.name = u.name]
           f == [g EXCEPT !.descr = u.descr]
<1>1. IsState(b) /\ IsState(c)
  BY DEF WellFormed
<1>2. d.vocab = Replaced(b.vocab, e) /\ SameRest(d, b)
  BY <1>1, PutOnly
<1>3. c.vocab = Replaced(b.vocab, e) /\ SameRest(c, b)
  BY <1>2, RestSame DEF Alike
<1>4. ById(c, u.id) = {e}
  BY <1>3 DEF ById, Replaced
<1>5. o = e
  BY <1>4
<1>6. q = Done(Put(c, f), NoUndo)
  <2>1. [o EXCEPT !.name = u.name, !.descr = u.descr] = f
    OBVIOUS
  <2>2. q # Failed(c)
    BY DEF Failed
  <2> HIDE DEF f
  <2> QED
    BY <1>4, <2>1, <2>2 DEF UndoRestore
<1>7. f = p
  <2>1. IsEntry(p)
    BY DEF WellFormed, VocabularyKept
  <2> DEFINE n == u.name
  <2>2. g = [e EXCEPT !.name = n]
    BY <1>5
  <2> HIDE DEF o, n
  <2>3. EntryIs(g, p.id, p.kind, p.parent, p.name, e.descr, p.frozen, p.aliases)
    <3>1. EntryIs(g, e.id, e.kind, e.parent, n, e.descr, e.frozen, e.aliases)
      <4> HIDE DEF g
      <4> QED
        BY <2>2, EntryExcept DEF EntryIs
    <3> QED
      BY <3>1 DEF n
  <2> HIDE DEF g
  <2>4. EntryIs(f, p.id, p.kind, p.parent, p.name, p.descr, p.frozen, p.aliases)
    BY <2>3 DEF EntryIs
  <2> HIDE DEF f
  <2> QED
    BY <2>1, <2>4 DEF IsEntry, EntryIs
<1> HIDE DEF f
<1> DEFINE z == Put(c, p)
<1>8. q.cur = z
  BY <1>6, <1>7 DEF Done
<1>9. z.vocab = Replaced(c.vocab, p) /\ SameRest(z, c)
  BY <1>1, PutOnly
<1> HIDE DEF z
<1>10. Replaced(c.vocab, p) = b.vocab
  BY <1>3 DEF Replaced, WellFormed, VocabularyKept, Keys
<1> QED
  BY <1>3, <1>8, <1>9, <1>10, RestSame DEF Alike

LEMMA RenameBack ==
    ASSUME NEW b, WellFormed(b), NEW a, NEW r, r = Rename(a, b, b), r.ok,
           NEW c, WellFormed(c), Alike(c, r.cur), NEW s, NEW q, q = ApplyUndo(r.undo, s, c), q.ok
    PROVE  Alike(q.cur, b)
<1> DEFINE p == Previous(b, a)
           e == [p EXCEPT !.name = a.name]
           d == Put(b, e)
           u == Restore(p)
<1>1. ById(b, a.id) # {} /\ r = Done(d, u)
  <2>1. r # Failed(b)
    BY DEF Failed
  <2> QED
    BY <2>1 DEF Rename
<1>2. r.cur = d /\ r.undo = u
  BY <1>1 DEF Done
<1>3. u.op = "restore" /\ u.created = FALSE /\ u.id = p.id /\ u.name = p.name /\ u.descr = p.descr
  BY DEF Restore
<1>4. q = UndoRestore(u, s, c)
  BY <1>2, <1>3 DEF ApplyUndo
<1>5. p \in b.vocab /\ IsEntry(p)
  BY <1>1, TheEntry DEF Previous
<1> HIDE DEF p, u
<1>6. EntryIs(e, p.id, p.kind, p.parent, a.name, p.descr, p.frozen, p.aliases)
  BY <1>5, EntryExcept DEF EntryIs
<1> HIDE DEF e
<1>7. IsEntry(e) /\ e.id = p.id /\ e.kind = p.kind /\ e.parent = p.parent /\ e.frozen = p.frozen
      /\ e.aliases = p.aliases
  BY <1>6, EntryParts
<1>8. d = Put(b, e)
  OBVIOUS
<1> HIDE DEF d
<1>9. Alike(c, d)
  BY <1>2
<1> QED
  BY <1>3, <1>4, <1>5, <1>7, <1>8, <1>9, InPlaceBack

LEMMA RedefineBack ==
    ASSUME NEW b, WellFormed(b), NEW a, NEW r, r = Redefine(a, b, b), r.ok,
           NEW c, WellFormed(c), Alike(c, r.cur), NEW s, NEW q, q = ApplyUndo(r.undo, s, c), q.ok
    PROVE  Alike(q.cur, b)
<1> DEFINE p == Previous(b, a)
           e == [p EXCEPT !.descr = a.descr]
           d == Put(b, e)
           u == Restore(p)
<1>1. ById(b, a.id) # {} /\ r = Done(d, u)
  <2>1. r # Failed(b)
    BY DEF Failed
  <2> QED
    BY <2>1 DEF Redefine
<1>2. r.cur = d /\ r.undo = u
  BY <1>1 DEF Done
<1>3. u.op = "restore" /\ u.created = FALSE /\ u.id = p.id /\ u.name = p.name /\ u.descr = p.descr
  BY DEF Restore
<1>4. q = UndoRestore(u, s, c)
  BY <1>2, <1>3 DEF ApplyUndo
<1>5. p \in b.vocab /\ IsEntry(p)
  BY <1>1, TheEntry DEF Previous
<1> HIDE DEF p, u
<1>6. EntryIs(e, p.id, p.kind, p.parent, p.name, a.descr, p.frozen, p.aliases)
  BY <1>5, EntryExcept DEF EntryIs
<1> HIDE DEF e
<1>7. IsEntry(e) /\ e.id = p.id /\ e.kind = p.kind /\ e.parent = p.parent /\ e.frozen = p.frozen
      /\ e.aliases = p.aliases
  BY <1>6, EntryParts
<1>8. d = Put(b, e)
  OBVIOUS
<1> HIDE DEF d
<1>9. Alike(c, d)
  BY <1>2
<1> QED
  BY <1>3, <1>4, <1>5, <1>7, <1>8, <1>9, InPlaceBack

LEMMA FreezeBack ==
    ASSUME NEW b, WellFormed(b), NEW a, NEW r, r = Freeze(a, b, b), r.ok,
           NEW c, WellFormed(c), Alike(c, r.cur), NEW s, NEW q, q = ApplyUndo(r.undo, s, c), q.ok
    PROVE  Alike(q.cur, b)
<1> DEFINE p == Previous(b, a)
           e == [p EXCEPT !.frozen = a.frozen]
           d == Put(b, e)
           u == [op |-> "frozen", id |-> a.id, frozen |-> p.frozen]
           g(o) == IF o.id = u.id THEN [o EXCEPT !.frozen = u.frozen] ELSE o
           V == {g(o) : o \in c.vocab}
           z == [c EXCEPT !.vocab = V]
<1>1. ById(b, a.id) # {} /\ r = Done(d, u)
  <2>1. r # Failed(b)
    BY DEF Failed
  <2> QED
    BY <2>1 DEF Freeze
<1>2. r.cur = d /\ r.undo = u
  BY <1>1 DEF Done
<1>3. u.op = "frozen" /\ u.id = a.id /\ u.frozen = p.frozen
  OBVIOUS
<1>4. q = Done(z, NoUndo)
  <2>1. q = UndoFrozen(u, c)
    BY <1>2, <1>3 DEF ApplyUndo
  <2> QED
    BY <2>1 DEF UndoFrozen
<1>5. p \in b.vocab /\ IsEntry(p) /\ p.id = a.id
  BY <1>1, TheEntry DEF Previous
<1> HIDE DEF p, u
<1>6. EntryIs(e, p.id, p.kind, p.parent, p.name, p.descr, a.frozen, p.aliases)
  BY <1>5, EntryExcept DEF EntryIs
<1> HIDE DEF e
<1>7. IsEntry(e) /\ e.id = p.id
  BY <1>6, EntryParts
<1>8. IsState(b) /\ IsState(c)
  BY DEF WellFormed
<1>9. c.vocab = Replaced(b.vocab, e) /\ SameRest(c, b)
  BY <1>2, <1>8, PutOnly, RestSame DEF Alike
<1>10. g(e) = p
  <2> DEFINE f == [e EXCEPT !.frozen = u.frozen]
  <2>1. g(e) = f
    BY <1>3, <1>5, <1>7
  <2>2. EntryIs(f, p.id, p.kind, p.parent, p.name, p.descr, p.frozen, p.aliases)
    BY <1>3, <1>6 DEF EntryIs
  <2> HIDE DEF f
  <2>3. f = p
    BY <1>5, <2>2 DEF EntryIs, IsEntry
  <2> HIDE DEF g
  <2> QED
    BY <2>1, <2>3
<1>11. \A o \in b.vocab : o.id # e.id => g(o) = o
  BY <1>3, <1>5, <1>7
<1>12. \A o \in b.vocab : o.id = e.id => o = p
  BY <1>5, <1>7 DEF WellFormed, VocabularyKept, Keys
<1> HIDE DEF g
<1>13. V = b.vocab
  BY <1>5, <1>9, <1>10, <1>11, <1>12 DEF Replaced
<1> HIDE DEF V
<1>14. StateIs(z, V, c.nextId, c.verdicts, c.suppressed, c.views, c.opinions, c.settings)
  BY <1>8, StateExcept
<1> HIDE DEF z
<1>15. z.vocab = V /\ SameRest(z, c)
  BY <1>14, StateParts DEF SameRest
<1>16. q.cur = z
  BY <1>4 DEF Done
<1> QED
  BY <1>9, <1>13, <1>15, <1>16, RestSame DEF Alike

LEMMA NextOnly ==
    ASSUME NEW c, IsState(c), NEW n, NEW d, d = [c EXCEPT !.nextId = n]
    PROVE  d.vocab = c.vocab /\ SameRest(d, c) /\ IsState(d)
<1>1. StateIs(d, c.vocab, n, c.verdicts, c.suppressed, c.views, c.opinions, c.settings)
  BY StateExcept
<1> QED
  BY <1>1, StateParts DEF SameRest

(* An entry put where it is already, and one put twice.                    *)
LEMMA UpsertOnly ==
    ASSUME NEW b, WellFormed(b), NEW a, NEW name, NEW up, up = Upsert(b, a, name),
           NEW hit, hit = Named(b, a.vocab, a.parent, name)
    PROVE  /\ up.cur.vocab = Replaced(b.vocab, up.row) /\ SameRest(up.cur, b) /\ IsState(up.cur)
           /\ hit = {} => up.row = Entry(b.nextId, a.vocab, a.parent, name, a.descr)
           /\ \A o : hit = {o} => up.row = [o EXCEPT !.descr = Coalesce(a.descr, o.descr)]
<1> DEFINE o == CHOOSE o \in hit : TRUE
           e == IF hit = {} THEN Entry(b.nextId, a.vocab, a.parent, name, a.descr)
                ELSE [o EXCEPT !.descr = Coalesce(a.descr, @)]
           p == Put(b, e)
           d == [p EXCEPT !.nextId = IF hit = {} THEN @ + 1 ELSE @]
           n == IF hit = {} THEN p.nextId + 1 ELSE p.nextId
<1>1. up = [cur |-> d, row |-> e]
  BY DEF Upsert
<1>2. hit = {} => e = Entry(b.nextId, a.vocab, a.parent, name, a.descr)
  OBVIOUS
<1>3. ASSUME NEW x, hit = {x}
      PROVE  e = [x EXCEPT !.descr = Coalesce(a.descr, x.descr)]
  <2>1. hit # {} /\ o = x
    BY <1>3
  <2>2. e = [o EXCEPT !.descr = Coalesce(a.descr, o.descr)]
    BY <2>1
  <2> HIDE DEF e, o
  <2> QED
    BY <2>1, <2>2
<1>4. d = [p EXCEPT !.nextId = n]
  OBVIOUS
<1> HIDE DEF e, d, n
<1>5. IsState(b)
  BY DEF WellFormed
<1>6. p.vocab = Replaced(b.vocab, e) /\ SameRest(p, b) /\ IsState(p)
  BY <1>5, PutOnly
<1> HIDE DEF p
<1>7. d.vocab = p.vocab /\ SameRest(d, p) /\ IsState(d)
  BY <1>4, <1>6, NextOnly
<1>8. up.cur = d /\ up.row = e
  BY <1>1
<1> QED
  BY <1>2, <1>3, <1>6, <1>7, <1>8, RestSame

LEMMA DefineBack ==
    ASSUME NEW b, WellFormed(b), NEW a, a.aliases = {}, NEW r, r = Define(a, b, b), r.ok,
           NEW c, WellFormed(c), Alike(c, r.cur), NEW s, NEW q, q = ApplyUndo(r.undo, s, c), q.ok
    PROVE  Alike(q.cur, b)
<1> DEFINE level == Level(b, a.vocab, a.parent)
           previous == {e \in level : SameWord(e.name, a.name)}
           first == CHOOSE e \in previous : \A o \in previous : e.id <= o.id
           stored == IF previous = {} THEN a.name ELSE first.name
           up == Upsert(b, a, stored)
           e == up.row
           d == Put(up.cur, AppendAliases(e, a.aliases))
           hit == Named(b, a.vocab, a.parent, stored)
           u == [op |-> "restore", id |-> e.id, created |-> previous = {},
                 name |-> IF previous = {} THEN NoName ELSE first.name,
                 descr |-> IF previous = {} THEN None ELSE first.descr]
<1>1. r = Done(d, u)
  <2>1. r # Failed(b)
    BY DEF Failed
  <2> QED
    BY <2>1 DEF Define
<1>2. r.cur = d /\ r.undo = u
  <2> HIDE DEF d, u
  <2> QED
    BY <1>1 DEF Done
<1>3. u.op = "restore" /\ u.id = e.id /\ u.created = (previous = {})
      /\ (previous # {} => u.name = first.name /\ u.descr = first.descr)
  OBVIOUS
<1>4. q = UndoRestore(u, s, c)
  BY <1>2, <1>3 DEF ApplyUndo
<1> HIDE DEF u
<1>5. /\ up.cur.vocab = Replaced(b.vocab, e) /\ SameRest(up.cur, b) /\ IsState(up.cur)
      /\ hit = {} => e = Entry(b.nextId, a.vocab, a.parent, stored, a.descr)
      /\ \A o : hit = {o} => e = [o EXCEPT !.descr = Coalesce(a.descr, o.descr)]
  <2> HIDE DEF up, hit, stored
  <2> QED
    BY UpsertOnly DEF up, hit
<1>6. /\ IsEntry(e) /\ WellFormed(up.cur)
  <2> HIDE DEF up, stored
  <2> QED
    BY UpsertKeeps DEF up
<1> HIDE DEF up, stored, hit
<1>7. AppendAliases(e, a.aliases) = e
  <2> DEFINE x == e
             y == [x EXCEPT !.aliases = @ \cup a.aliases]
  <2>1. y = [x EXCEPT !.aliases = x.aliases]
    BY <1>6
  <2>2. [x EXCEPT !.aliases = x.aliases] = x
    <3> HIDE DEF x
    <3> QED
      BY <1>6 DEF x, IsEntry
  <2> QED
    BY <2>1, <2>2 DEF AppendAliases
<1>8. d.vocab = Replaced(b.vocab, e) /\ SameRest(d, b)
  <2>1. d.vocab = Replaced(up.cur.vocab, e) /\ SameRest(d, up.cur)
    BY <1>5, <1>7, PutOnly
  <2>2. Replaced(Replaced(b.vocab, e), e) = Replaced(b.vocab, e)
    BY DEF Replaced
  <2> HIDE DEF d
  <2> QED
    BY <1>5, <2>1, <2>2, RestSame
<1> HIDE DEF d
<1>9. c.vocab = Replaced(b.vocab, e) /\ SameRest(c, b) /\ IsState(c) /\ IsState(b)
  BY <1>2, <1>8, RestSame DEF Alike, WellFormed
<1>10. CASE previous = {}
  <2>1. hit = {}
    BY <1>10 DEF hit, Named, stored, SameWord
  <2>2. e.id = b.nextId
    BY <1>5, <2>1 DEF Entry
  <2>3. q = Done(Drop(c, {e.id}), NoUndo)
    <3>1. q # Failed(c)
      BY DEF Failed
    <3> QED
      BY <1>3, <1>4, <1>10, <3>1 DEF UndoRestore
  <2> DEFINE z == Drop(c, {e.id})
  <2>4. q.cur = z
    BY <2>3 DEF Done
  <2>5. z.vocab = Without(c.vocab, {e.id}) /\ SameRest(z, c)
    BY <1>9, DropOnly
  <2> HIDE DEF z
  <2>6. Without(c.vocab, {e.id}) = b.vocab
    <3>1. \A o \in b.vocab : o.id # e.id
      BY <2>2 DEF WellFormed, VocabularyKept, Keys
    <3> QED
      BY <1>9, <3>1 DEF Replaced, Without
  <2> QED
    BY <1>9, <2>4, <2>5, <2>6, RestSame DEF Alike
<1>11. CASE previous # {}
  <2>1. first \in previous
    <3> DEFINE T == {o.id : o \in previous}
    <3>1. T \in SUBSET Nat /\ T # {}
      BY <1>11 DEF Level, WellFormed, VocabularyKept, Keys
    <3>2. \E m \in T : \A k \in T : m <= k
      <4> HIDE DEF T
      <4> QED
        BY <3>1, Least
    <3>3. \E o \in previous : \A k \in previous : o.id <= k.id
      BY <3>2
    <3> QED
      BY <3>3
  <2> HIDE DEF first
  <2>2. first \in b.vocab /\ first.kind = a.vocab /\ first.parent = a.parent /\ stored = first.name
    BY <1>11, <2>1 DEF Level, stored
  <2>3. hit = {first}
    BY <2>2 DEF hit, Named, Level, WellFormed, VocabularyKept
  <2> DEFINE x == Coalesce(a.descr, first.descr)
  <2>4. e = [first EXCEPT !.descr = x] /\ IsEntry(first)
    BY <1>5, <2>2, <2>3 DEF WellFormed, VocabularyKept
  <2> HIDE DEF x, e
  <2>5. EntryIs(e, first.id, first.kind, first.parent, first.name, x, first.frozen, first.aliases)
    BY <2>4, EntryExcept DEF EntryIs
  <2>6. /\ IsEntry(e) /\ e.id = first.id /\ e.kind = first.kind /\ e.parent = first.parent
        /\ e.frozen = first.frozen /\ e.aliases = first.aliases
    BY <2>5, EntryParts
  <2> DEFINE w == Put(b, e)
  <2>7. w.vocab = Replaced(b.vocab, e) /\ SameRest(w, b)
    BY <1>9, PutOnly
  <2>8. w = Put(b, e)
    OBVIOUS
  <2> HIDE DEF w
  <2>9. Alike(c, w)
    BY <1>9, <2>7 DEF Alike, SameRest
  <2>10. u.created = FALSE /\ u.id = first.id /\ u.name = first.name /\ u.descr = first.descr
    BY <1>3, <1>11, <2>6
  <2> QED
    BY <1>4, <2>2, <2>6, <2>8, <2>9, <2>10, InPlaceBack
<1> QED
  BY <1>10, <1>11

(* Rows put back where they were.                                          *)
LEMMA RecreateBack ==
    ASSUME NEW b, WellFormed(b), NEW row \in b.vocab, NEW c, IsState(c), c.vocab \subseteq b.vocab,
           NEW q, q = Recreate(c, row), q.ok
    PROVE  q.cur.vocab = c.vocab \cup {row} /\ SameRest(q.cur, c) /\ IsState(q.cur)
<1> DEFINE old == ById(c, row.id)
           o == CHOOSE o \in old : TRUE
           e == IF old = {} THEN row ELSE [row EXCEPT !.kind = o.kind, !.parent = o.parent]
           d == Put(c, e)
<1>1. q = Done(d, NoUndo)
  <2>1. q # Failed(c)
    BY DEF Failed
  <2> QED
    BY <2>1 DEF Recreate
<1>2. q.cur = d
  <2> HIDE DEF d
  <2> QED
    BY <1>1 DEF Done
<1>3. IsEntry(row) /\ \A x \in b.vocab : x.id = row.id => x = row
  BY DEF WellFormed, VocabularyKept, Keys
<1>4. e = row
  <2>1. CASE old = {}
    BY <2>1
  <2>2. CASE old # {}
    <3>1. o \in old
      BY <2>2
    <3>2. o = row
      BY <1>3, <3>1 DEF ById
    <3>3. e = [row EXCEPT !.kind = o.kind, !.parent = o.parent]
      BY <2>2
    <3> HIDE DEF o, e
    <3> DEFINE k == row.kind
               p == row.parent
               g == [row EXCEPT !.kind = k]
               f == [g EXCEPT !.parent = p]
    <3>4. e = f
      BY <3>2, <3>3
    <3>5. g = row
      BY <1>3 DEF IsEntry
    <3> HIDE DEF g
    <3>6. f = row
      BY <1>3, <3>5 DEF IsEntry
    <3> QED
      BY <3>4, <3>6
  <2> QED
    BY <2>1, <2>2
<1> HIDE DEF e
<1>5. d.vocab = Replaced(c.vocab, row) /\ SameRest(d, c) /\ IsState(d)
  BY <1>4, PutOnly
<1> HIDE DEF d
<1>6. Replaced(c.vocab, row) = c.vocab \cup {row}
  BY <1>3 DEF Replaced
<1> QED
  BY <1>2, <1>5, <1>6

LEMMA RowsBack ==
    ASSUME NEW b, WellFormed(b), NEW S \in SUBSET b.vocab, NEW rows, Enumerates(rows, S),
           NEW c, IsState(c), c.vocab = Without(b.vocab, {rows[i].id : i \in 1..Len(rows)}),
           SameRest(c, b), NEW u, u.rows = rows, NEW q, q = UndoRecreate(u, c), q.ok
    PROVE  Alike(q.cur, b)
<1> DEFINE n == Len(rows)
           ids == {rows[i].id : i \in 1..n}
<1>1. n \in Nat /\ n = Len(u.rows)
  BY SeqFacts DEF Enumerates
<1>2. PICK f : Rebuilds(f, c, rows, n) /\ q = f[n]
  BY <1>1, RebuildIs
<1>3. \A i \in 1..n : rows[i] \in S
  BY DEF Enumerates
<1>4. \A x \in S : \E i \in 1..n : rows[i] = x
  BY DEF Enumerates
<1>5. c.vocab \subseteq b.vocab
  BY DEF Without
<1> DEFINE Upto(k) == {rows[i] : i \in 1..k}
           Good(k) == f[k].ok => /\ f[k].cur.vocab = c.vocab \cup Upto(k)
                                 /\ SameRest(f[k].cur, c) /\ IsState(f[k].cur)
           T == {k \in 0..n : ~ Good(k)}
<1>6. Good(0)
  <2>1. f[0] = Done(c, NoUndo)
    BY <1>1, <1>2 DEF Rebuilds
  <2>2. f[0].cur = c
    BY <2>1 DEF Done
  <2>3. Upto(0) = {}
    OBVIOUS
  <2> HIDE DEF Upto
  <2> QED
    BY <2>2, <2>3 DEF SameRest
<1>7. T = {}
  <2> SUFFICES ASSUME T # {} PROVE FALSE
    OBVIOUS
  <2>1. PICK k \in T : \A j \in T : k <= j
    <3>1. T \in SUBSET Nat
      BY <1>1
    <3> HIDE DEF T
    <3> QED
      BY <3>1, Least
  <2>2. k \in 0..n /\ ~ Good(k)
    OBVIOUS
  <2>3. k # 0
    BY <1>6, <2>2
  <2> HIDE DEF Good
  <2>4. k - 1 \in 0..n /\ k - 1 \notin T /\ k \in 1..n
    BY <1>1, <2>1, <2>2, <2>3
  <2>5. Good(k - 1)
    BY <2>4
  <2>6. f[k] = RecreateNext(f[k - 1], rows[k])
    BY <1>2, <2>2, <2>3 DEF Rebuilds
  <2> DEFINE x == f[k - 1]
             y == f[k]
             row == rows[k]
  <2>7. y.ok
    BY <2>2 DEF Good
  <2>8. x.ok /\ y = Recreate(x.cur, row)
    BY <2>6, <2>7 DEF RecreateNext
  <2>9. x.cur.vocab = c.vocab \cup Upto(k - 1) /\ SameRest(x.cur, c) /\ IsState(x.cur)
    BY <2>5, <2>8 DEF Good
  <2>10. row \in b.vocab /\ Upto(k - 1) \subseteq b.vocab
    BY <1>1, <1>3, <2>4
  <2>11. Upto(k) = Upto(k - 1) \cup {row}
    <3>1. 1..k = (1..k - 1) \cup {k}
      BY <2>4
    <3> QED
      BY <3>1
  <2>12. ~ (y.cur.vocab = c.vocab \cup Upto(k) /\ SameRest(y.cur, c) /\ IsState(y.cur))
    BY <2>2 DEF Good
  <2> HIDE DEF x, y, row, Upto
  <2>13. x.cur.vocab \subseteq b.vocab
    BY <1>5, <2>9, <2>10
  <2> DEFINE v == x.cur
  <2>14. row \in b.vocab /\ IsState(v) /\ v.vocab \subseteq b.vocab /\ y = Recreate(v, row) /\ y.ok
    BY <2>7, <2>8, <2>9, <2>10, <2>13
  <2> HIDE DEF v
  <2>15. y.cur.vocab = v.vocab \cup {row} /\ SameRest(y.cur, v) /\ IsState(y.cur)
    BY <2>14, RecreateBack
  <2> QED
    BY <2>9, <2>11, <2>12, <2>15, RestSame DEF v
<1>8. Good(n)
  BY <1>1, <1>7
<1>9. q.cur.vocab = c.vocab \cup Upto(n) /\ SameRest(q.cur, c)
  <2> HIDE DEF Upto
  <2> QED
    BY <1>2, <1>8
<1>10. c.vocab \cup Upto(n) = b.vocab
  <2>1. ASSUME NEW x \in b.vocab, x \notin c.vocab PROVE x \in Upto(n)
    <3>1. PICK i \in 1..n : x.id = rows[i].id
      BY <2>1 DEF Without
    <3>2. rows[i] \in b.vocab
      BY <1>3
    <3>3. x = rows[i]
      BY <3>1, <3>2 DEF WellFormed, VocabularyKept, Keys
    <3> QED
      BY <3>3
  <2>2. Upto(n) \subseteq b.vocab
    BY <1>3
  <2> HIDE DEF Upto
  <2> QED
    BY <1>5, <2>1, <2>2
<1> HIDE DEF Upto, Good, T
<1>11. SameRest(q.cur, b)
  BY <1>9, RestSame
<1> QED
  BY <1>9, <1>10, <1>11 DEF Alike

LEMMA DeleteBack ==
    ASSUME NEW b, WellFormed(b), NEW a, NEW r, r = Delete(a, b, b), r.ok,
           NEW c, WellFormed(c), Alike(c, r.cur), NEW s, NEW q, q = ApplyUndo(r.undo, s, c), q.ok
    PROVE  Alike(q.cur, b)
<1> DEFINE p == Previous(b, a)
           rows == <<p>>
           d == Drop(b, {a.id})
           u == [op |-> "recreate", rows |-> rows]
<1>1. ById(b, a.id) # {} /\ r = Done(d, u)
  <2>1. r # Failed(b)
    BY DEF Failed
  <2> QED
    BY <2>1 DEF Delete
<1>2. p \in b.vocab /\ p.id = a.id
  BY <1>1, TheEntry DEF Previous
<1>3. d.vocab = Without(b.vocab, {a.id}) /\ SameRest(d, b)
  BY DropOnly DEF WellFormed
<1> HIDE DEF d
<1>4. Enumerates(rows, {p}) /\ {rows[i].id : i \in 1..Len(rows)} = {a.id}
  <2> HIDE DEF p
  <2>1. rows \in Seq({p}) /\ Len(rows) = 1 /\ rows[1] = p /\ 1..Len(rows) = {1}
    OBVIOUS
  <2> QED
    BY <1>2, <2>1 DEF Enumerates, IsSeq
<1> HIDE DEF p, rows
<1>5. u.op = "recreate" /\ u.rows = rows
  OBVIOUS
<1> HIDE DEF u
<1>6. r.cur = d /\ r.undo = u
  BY <1>1 DEF Done
<1>7. q = UndoRecreate(u, c)
  BY <1>5, <1>6 DEF ApplyUndo
<1>8. c.vocab = Without(b.vocab, {rows[i].id : i \in 1..Len(rows)}) /\ SameRest(c, b) /\ IsState(c)
  BY <1>3, <1>4, <1>6, RestSame DEF Alike, WellFormed
<1>9. {p} \in SUBSET b.vocab
  BY <1>2
<1> QED
  BY <1>4, <1>5, <1>7, <1>8, <1>9, RowsBack

LEMMA ClearBack ==
    ASSUME NEW b, WellFormed(b), NEW a, NEW r, r = Clear(a, b, b), r.ok,
           NEW c, WellFormed(c), Alike(c, r.cur), NEW s, NEW q, q = ApplyUndo(r.undo, s, c), q.ok
    PROVE  Alike(q.cur, b)
<1> DEFINE rows == ClearOrder(b, a.vocab)
           S == Cleared(b, a.vocab)
           ids == {rows[i].id : i \in DOMAIN rows}
           d == Drop(b, ids)
           u == [op |-> "recreate", rows |-> rows]
<1>1. r = Done(d, u)
  BY DEF Clear
<1>2. Enumerates(rows, S) /\ S \in SUBSET b.vocab
  BY ClearOrderIs
<1> HIDE DEF rows, S
<1>3. ids = {rows[i].id : i \in 1..Len(rows)}
  BY <1>2 DEF Enumerates
<1> HIDE DEF ids
<1>4. d.vocab = Without(b.vocab, ids) /\ SameRest(d, b)
  BY DropOnly DEF WellFormed
<1> HIDE DEF d
<1>5. u.op = "recreate" /\ u.rows = rows
  OBVIOUS
<1> HIDE DEF u
<1>6. r.cur = d /\ r.undo = u
  BY <1>1 DEF Done
<1>7. q = UndoRecreate(u, c)
  BY <1>5, <1>6 DEF ApplyUndo
<1>8. c.vocab = Without(b.vocab, {rows[i].id : i \in 1..Len(rows)}) /\ SameRest(c, b) /\ IsState(c)
  BY <1>3, <1>4, <1>6, RestSame DEF Alike, WellFormed
<1> QED
  BY <1>2, <1>5, <1>7, <1>8, RowsBack

(* Verdicts, suppressed targets, opinions and settings.                    *)
LEMMA MapBack ==
    ASSUME NEW f, IsMap(f), NEW x, NEW v, NEW g, g = [f EXCEPT ![x] = v], NEW u, u = f[x]
    PROVE  [g EXCEPT ![x] = u] = f
BY DEF IsMap

LEMMA VerdictBack ==
    ASSUME NEW b, WellFormed(b), NEW a, NEW v, NEW r,
           r = Done(WithVerdict(b, a.fingerprint, v), UndoForState(a, b)),
           NEW c, WellFormed(c), Alike(c, r.cur), NEW s, NEW q, q = ApplyUndo(r.undo, s, c), q.ok
    PROVE  Alike(q.cur, b)
<1> DEFINE x == [b.verdicts EXCEPT ![a.fingerprint] = v]
           d == [b EXCEPT !.verdicts = x]
           t == b.verdicts[a.fingerprint]
           u == [op |-> "verdict", fingerprint |-> a.fingerprint, verdict |-> t]
           y == [c.verdicts EXCEPT ![a.fingerprint] = t]
           z == [c EXCEPT !.verdicts = y]
<1>1. r = Done(d, u)
  BY DEF WithVerdict, UndoForState
<1>2. r.cur = d /\ r.undo = u
  <2> HIDE DEF d, u
  <2> QED
    BY <1>1 DEF Done
<1>3. q.cur = z
  <2>1. q = UndoVerdict(u, c) /\ u.fingerprint = a.fingerprint /\ u.verdict = t
    BY <1>2 DEF ApplyUndo
  <2> HIDE DEF u, t
  <2>2. q = Done(z, NoUndo)
    BY <2>1 DEF UndoVerdict, WithVerdict
  <2> HIDE DEF z
  <2> QED
    BY <2>2 DEF Done
<1> HIDE DEF u
<1>4. IsState(b) /\ IsState(c) /\ IsMap(b.verdicts)
  BY DEF WellFormed
<1> HIDE DEF x, y
<1>5. StateIs(d, b.vocab, b.nextId, x, b.suppressed, b.views, b.opinions, b.settings)
  BY <1>4, StateExcept
<1>6. StateIs(z, c.vocab, c.nextId, y, c.suppressed, c.views, c.opinions, c.settings)
  BY <1>4, StateExcept
<1> HIDE DEF d, z
<1>7. /\ d.vocab = b.vocab /\ d.verdicts = x /\ d.suppressed = b.suppressed /\ d.views = b.views
      /\ d.opinions = b.opinions /\ d.settings = b.settings
  BY <1>5, StateParts
<1>8. /\ z.vocab = c.vocab /\ z.verdicts = y /\ z.suppressed = c.suppressed /\ z.views = c.views
      /\ z.opinions = c.opinions /\ z.settings = c.settings
  BY <1>6, StateParts
<1>9. c.verdicts = x
  BY <1>2, <1>7 DEF Alike, SameRest
<1>10. y = b.verdicts
  BY <1>4, <1>9, MapBack DEF x, y
<1> QED
  BY <1>2, <1>3, <1>7, <1>8, <1>10 DEF Alike, SameRest

LEMMA SuppressBack ==
    ASSUME NEW b, WellFormed(b), NEW a, a.target \notin b.suppressed, NEW r, r = Suppress(a, b),
           NEW c, WellFormed(c), Alike(c, r.cur), NEW s, NEW q, q = ApplyUndo(r.undo, s, c), q.ok
    PROVE  Alike(q.cur, b)
<1> DEFINE t == a.target
           x == b.suppressed \cup {t}
           d == [b EXCEPT !.suppressed = x]
           u == [op |-> "unsuppress", target |-> t]
           y == c.suppressed \ {t}
           z == [c EXCEPT !.suppressed = y]
<1>1. r = Done(d, u)
  BY DEF Suppress
<1>2. r.cur = d /\ r.undo = u
  <2> HIDE DEF d, u
  <2> QED
    BY <1>1 DEF Done
<1>3. q.cur = z
  <2>1. q = Done(z, NoUndo)
    BY <1>2 DEF ApplyUndo, UndoSuppress
  <2> HIDE DEF z
  <2> QED
    BY <2>1 DEF Done
<1> HIDE DEF u
<1>4. IsState(b) /\ IsState(c)
  BY DEF WellFormed
<1> HIDE DEF x, y
<1>5. StateIs(d, b.vocab, b.nextId, b.verdicts, x, b.views, b.opinions, b.settings)
  BY <1>4, StateExcept
<1>6. StateIs(z, c.vocab, c.nextId, c.verdicts, y, c.views, c.opinions, c.settings)
  BY <1>4, StateExcept
<1> HIDE DEF d, z
<1>7. /\ d.vocab = b.vocab /\ d.verdicts = b.verdicts /\ d.suppressed = x /\ d.views = b.views
      /\ d.opinions = b.opinions /\ d.settings = b.settings
  BY <1>5, StateParts
<1>8. /\ z.vocab = c.vocab /\ z.verdicts = c.verdicts /\ z.suppressed = y /\ z.views = c.views
      /\ z.opinions = c.opinions /\ z.settings = c.settings
  BY <1>6, StateParts
<1>9. c.suppressed = x
  BY <1>2, <1>7 DEF Alike, SameRest
<1>10. y = b.suppressed
  BY <1>9 DEF x, y
<1> QED
  BY <1>2, <1>3, <1>7, <1>8, <1>10 DEF Alike, SameRest

(* What an opinion's undo, one or all of them, and a setting's make of it. *)
LEMMA OpinionsBack ==
    ASSUME NEW b, WellFormed(b), NEW x, NEW y, NEW d, d = [b EXCEPT !.opinions = x],
           NEW c, WellFormed(c), Alike(c, d), NEW z, z = [c EXCEPT !.opinions = y],
           c.opinions = x => y = b.opinions
    PROVE  Alike(z, b)
<1>4. IsState(b) /\ IsState(c)
  BY DEF WellFormed
<1>5. StateIs(d, b.vocab, b.nextId, b.verdicts, b.suppressed, b.views, x, b.settings)
  BY <1>4, StateExcept
<1>6. StateIs(z, c.vocab, c.nextId, c.verdicts, c.suppressed, c.views, y, c.settings)
  BY <1>4, StateExcept
<1>7. /\ d.vocab = b.vocab /\ d.verdicts = b.verdicts /\ d.suppressed = b.suppressed
      /\ d.views = b.views /\ d.opinions = x /\ d.settings = b.settings
  BY <1>5, StateParts
<1>8. /\ z.vocab = c.vocab /\ z.verdicts = c.verdicts /\ z.suppressed = c.suppressed
      /\ z.views = c.views /\ z.opinions = y /\ z.settings = c.settings
  BY <1>6, StateParts
<1> QED
  BY <1>7, <1>8 DEF Alike, SameRest

LEMMA MutateBack ==
    ASSUME NEW b, WellFormed(b), NEW a, NEW o, NEW r, r = Mutate(a, b, b, o),
           NEW c, WellFormed(c), Alike(c, r.cur), NEW s, NEW q, q = ApplyUndo(r.undo, s, c), q.ok
    PROVE  Alike(q.cur, b)
<1> DEFINE x == [b.opinions EXCEPT ![a.actor] = o]
           d == [b EXCEPT !.opinions = x]
           t == b.opinions[a.actor]
           u == [op |-> "opinion", actor |-> a.actor, row |-> t]
           y == [c.opinions EXCEPT ![a.actor] = t]
           z == [c EXCEPT !.opinions = y]
<1>1. r = Done(d, u)
  BY DEF Mutate, OpinionUndo
<1>2. r.cur = d /\ r.undo = u
  <2> HIDE DEF d, u
  <2> QED
    BY <1>1 DEF Done
<1>3. q.cur = z
  <2>1. q = Done(z, NoUndo)
    BY <1>2 DEF ApplyUndo, UndoOpinion
  <2> HIDE DEF z
  <2> QED
    BY <2>1 DEF Done
<1> HIDE DEF u
<1>4. c.opinions = x => y = b.opinions
  <2>1. IsMap(b.opinions)
    BY DEF WellFormed
  <2> SUFFICES ASSUME c.opinions = x PROVE y = b.opinions
    OBVIOUS
  <2> HIDE DEF x, y, d, z
  <2> QED
    BY <2>1, MapBack DEF x, y
<1> HIDE DEF x, y
<1>5. d = [b EXCEPT !.opinions = x] /\ z = [c EXCEPT !.opinions = y]
  OBVIOUS
<1>6. Alike(c, d)
  <2> HIDE DEF d
  <2> QED
    BY <1>2
<1> HIDE DEF d, z
<1>7. Alike(z, b)
  BY <1>4, <1>5, <1>6, OpinionsBack
<1> QED
  BY <1>3, <1>7

LEMMA ResetBack ==
    ASSUME NEW b, WellFormed(b), NEW r, r = ResetColumn(b),
           NEW c, WellFormed(c), Alike(c, r.cur), NEW s, NEW q, q = ApplyUndo(r.undo, s, c), q.ok
    PROVE  Alike(q.cur, b)
<1> DEFINE x == [p \in DOMAIN b.opinions |-> NoOpinion]
           d == [b EXCEPT !.opinions = x]
           t == b.opinions
           u == [op |-> "opinions", rows |-> t]
           y == [p \in DOMAIN c.opinions |-> IF t[p] = NoOpinion THEN c.opinions[p] ELSE t[p]]
           z == [c EXCEPT !.opinions = y]
<1>1. r = Done(d, u)
  BY DEF ResetColumn
<1>2. r.cur = d /\ r.undo = u
  <2> HIDE DEF d, u
  <2> QED
    BY <1>1 DEF Done
<1>3. q.cur = z
  <2>1. q = Done(z, NoUndo)
    BY <1>2 DEF ApplyUndo, UndoOpinions
  <2> HIDE DEF z
  <2> QED
    BY <2>1 DEF Done
<1> HIDE DEF u
<1>4. c.opinions = x => y = b.opinions
  <2>1. b.opinions = [p \in DOMAIN b.opinions |-> b.opinions[p]]
    BY DEF WellFormed, IsMap
  <2> SUFFICES ASSUME c.opinions = x PROVE y = b.opinions
    OBVIOUS
  <2>2. DOMAIN c.opinions = DOMAIN b.opinions /\ \A p \in DOMAIN b.opinions : c.opinions[p] = NoOpinion
    OBVIOUS
  <2>3. y = [p \in DOMAIN b.opinions |-> b.opinions[p]]
    <3> HIDE DEF x
    <3> QED
      BY <2>2
  <2> QED
    BY <2>1, <2>3
<1> HIDE DEF x, y
<1>5. d = [b EXCEPT !.opinions = x] /\ z = [c EXCEPT !.opinions = y]
  OBVIOUS
<1>6. Alike(c, d)
  <2> HIDE DEF d
  <2> QED
    BY <1>2
<1> HIDE DEF d, z
<1>7. Alike(z, b)
  BY <1>4, <1>5, <1>6, OpinionsBack
<1> QED
  BY <1>3, <1>7

LEMMA SettingsBack ==
    ASSUME NEW b, WellFormed(b), NEW a, NEW r, r = SetSettings(a, b, b),
           NEW c, WellFormed(c), Alike(c, r.cur), NEW s, NEW q, q = ApplyUndo(r.undo, s, c), q.ok
    PROVE  Alike(q.cur, b)
<1> DEFINE t == b.settings[a.actor]
           o == [display |-> Coalesce(a.display, t.display),
                 descr |-> Coalesce(a.descr, t.descr), period |-> Coalesce(a.period, t.period)]
           x == [b.settings EXCEPT ![a.actor] = o]
           d == [b EXCEPT !.settings = x]
           u == [op |-> "settings", actor |-> a.actor, row |-> t]
           y == [c.settings EXCEPT ![a.actor] = t]
           z == [c EXCEPT !.settings = y]
<1>1. r = Done(d, u)
  BY DEF SetSettings
<1>2. r.cur = d /\ r.undo = u
  <2> HIDE DEF d, u
  <2> QED
    BY <1>1 DEF Done
<1>3. q.cur = z
  <2>1. q = Done(z, NoUndo)
    BY <1>2 DEF ApplyUndo, UndoSettings
  <2> HIDE DEF z
  <2> QED
    BY <2>1 DEF Done
<1> HIDE DEF u, o
<1>4. IsState(b) /\ IsState(c) /\ IsMap(b.settings)
  BY DEF WellFormed
<1> HIDE DEF x, y
<1>5. StateIs(d, b.vocab, b.nextId, b.verdicts, b.suppressed, b.views, b.opinions, x)
  BY <1>4, StateExcept
<1>6. StateIs(z, c.vocab, c.nextId, c.verdicts, c.suppressed, c.views, c.opinions, y)
  BY <1>4, StateExcept
<1> HIDE DEF d, z
<1>7. /\ d.vocab = b.vocab /\ d.verdicts = b.verdicts /\ d.suppressed = b.suppressed
      /\ d.views = b.views /\ d.opinions = b.opinions /\ d.settings = x
  BY <1>5, StateParts
<1>8. /\ z.vocab = c.vocab /\ z.verdicts = c.verdicts /\ z.suppressed = c.suppressed
      /\ z.views = c.views /\ z.opinions = c.opinions /\ z.settings = y
  BY <1>6, StateParts
<1>9. c.settings = x
  BY <1>2, <1>7 DEF Alike, SameRest
<1>10. y = b.settings
  BY <1>4, <1>9, MapBack DEF x, y
<1> QED
  BY <1>2, <1>3, <1>7, <1>8, <1>10 DEF Alike, SameRest

(* Saved views.                                                            *)
SameButViews(d, c) ==
    /\ d.vocab = c.vocab /\ d.verdicts = c.verdicts /\ d.suppressed = c.suppressed
    /\ d.opinions = c.opinions /\ d.settings = c.settings

LEMMA ViewsOnly ==
    ASSUME NEW c, IsState(c), NEW x, NEW d, d = [c EXCEPT !.views = x]
    PROVE  d.views = x /\ SameButViews(d, c)
<1>1. StateIs(d, c.vocab, c.nextId, c.verdicts, c.suppressed, x, c.opinions, c.settings)
  BY StateExcept
<1> QED
  BY <1>1, StateParts DEF SameButViews

LEMMA PutViewOnly ==
    ASSUME NEW c, IsState(c), NEW v, NEW d, d = PutView(c, v)
    PROVE  d.views = Replaced(c.views, v) /\ SameButViews(d, c)
<1> DEFINE x == {w \in c.views : w.id # v.id} \cup {v}
<1>1. d = [c EXCEPT !.views = x]
  BY DEF PutView
<1> HIDE DEF x
<1>2. d.views = x /\ SameButViews(d, c)
  BY <1>1, ViewsOnly
<1> QED
  BY <1>2 DEF x, Replaced

LEMMA RestoreViewBack ==
    ASSUME NEW b, WellFormed(b), NEW p \in b.views, NEW c, WellFormed(c), SameButViews(c, b),
           {o \in c.views : o.id # p.id} = {o \in b.views : o.id # p.id},
           NEW u, u.op = "restoreView", u.row = p, NEW s, NEW q, q = ApplyUndo(u, s, c), q.ok
    PROVE  Alike(q.cur, b)
<1> DEFINE z == PutView(c, p)
<1>1. q = UpsertView(c, p, NoUndo)
  BY DEF ApplyUndo, UndoRestoreView
<1>2. q = Done(z, NoUndo)
  <2>1. q # Failed(c)
    BY DEF Failed
  <2> QED
    BY <1>1, <2>1 DEF UpsertView
<1>3. z.views = Replaced(c.views, p) /\ SameButViews(z, c)
  BY PutViewOnly DEF WellFormed
<1> HIDE DEF z
<1>4. q.cur = z
  BY <1>2 DEF Done
<1>5. Replaced(c.views, p) = b.views
  <2>1. Replaced(b.views, p) = b.views
    BY DEF Replaced, WellFormed, Keys
  <2> QED
    BY <2>1 DEF Replaced
<1> QED
  BY <1>3, <1>4, <1>5 DEF Alike, SameRest, SameButViews

LEMMA ChangedViewBack ==
    ASSUME NEW b, WellFormed(b), NEW p \in b.views, NEW e, e.id = p.id,
           NEW u, u.op = "restoreView", u.row = p, NEW r, r = UpsertView(b, e, u), r.ok,
           NEW c, WellFormed(c), Alike(c, r.cur), NEW s, NEW q, q = ApplyUndo(r.undo, s, c), q.ok
    PROVE  Alike(q.cur, b)
<1> DEFINE d == PutView(b, e)
<1>1. r = Done(d, u)
  <2>1. r # Failed(b)
    BY DEF Failed
  <2> QED
    BY <2>1 DEF UpsertView
<1>2. d.views = Replaced(b.views, e) /\ SameButViews(d, b)
  BY PutViewOnly DEF WellFormed
<1> HIDE DEF d
<1>3. r.cur = d /\ r.undo = u
  BY <1>1 DEF Done
<1>4. c.views = Replaced(b.views, e) /\ SameButViews(c, b)
  BY <1>2, <1>3 DEF Alike, SameRest, SameButViews
<1>5. {o \in c.views : o.id # p.id} = {o \in b.views : o.id # p.id}
  BY <1>4 DEF Replaced
<1> QED
  BY <1>3, <1>4, <1>5, RestoreViewBack

LEMMA SaveViewBack ==
    ASSUME NEW b, WellFormed(b), NEW a, NEW r, r = SaveView(a, b, b), r.ok,
           NEW c, WellFormed(c), Alike(c, r.cur), NEW s, NEW q, q = ApplyUndo(r.undo, s, c), q.ok
    PROVE  Alike(q.cur, b)
<1> DEFINE p == CHOOSE v \in View(b, a.id) : TRUE
           d == [b EXCEPT !.nextId = @ + 1]
           v == [id |-> b.nextId, name |-> a.name, spec |-> a.spec, by |-> a.actor]
           u == [op |-> "deleteView", id |-> b.nextId]
           e == [p EXCEPT !.name = a.name, !.spec = a.spec]
           w == [op |-> "restoreView", row |-> p]
<1>1. r # Failed(b)
  BY DEF Failed
<1>2. CASE a.id = 0
  <2>1. r = UpsertView(d, v, u)
    BY <1>1, <1>2 DEF SaveView
  <2> DEFINE n == b.nextId + 1
             m == PutView(d, v)
  <2>2. IsState(b) /\ IsState(c) /\ d = [b EXCEPT !.nextId = n]
    BY DEF WellFormed
  <2>3. v.id = b.nextId /\ u.op = "deleteView" /\ u.id = b.nextId
    OBVIOUS
  <2> HIDE DEF v, u, n, d
  <2>4. d.views = b.views /\ SameButViews(d, b) /\ IsState(d)
    BY <2>2, NextOnly DEF SameRest, SameButViews
  <2>5. r = Done(m, u)
    <3>1. r # Failed(d)
      BY DEF Failed
    <3> QED
      BY <2>1, <3>1 DEF UpsertView
  <2>6. m.views = Replaced(d.views, v) /\ SameButViews(m, d)
    BY <2>4, PutViewOnly
  <2> HIDE DEF m
  <2>7. r.cur = m /\ r.undo = u
    BY <2>5 DEF Done
  <2>8. c.views = Replaced(b.views, v) /\ SameButViews(c, b)
    BY <2>4, <2>6, <2>7 DEF Alike, SameRest, SameButViews
  <2> DEFINE x == {o \in c.views : o.id # b.nextId}
             z == [c EXCEPT !.views = x]
  <2>9. q = Done(z, NoUndo)
    BY <2>3, <2>7 DEF ApplyUndo, UndoDeleteView
  <2>10. x = b.views
    <3>1. \A o \in b.views : o.id # b.nextId
      BY DEF WellFormed, Keys
    <3> QED
      BY <2>3, <2>8, <3>1 DEF Replaced
  <2> HIDE DEF x
  <2>11. z.views = x /\ SameButViews(z, c)
    BY <2>2, ViewsOnly
  <2> HIDE DEF z
  <2>12. q.cur = z
    BY <2>9 DEF Done
  <2> QED
    BY <2>8, <2>10, <2>11, <2>12 DEF Alike, SameRest, SameButViews
<1>3. CASE a.id # 0
  <2>1. r = UpsertView(b, e, w) /\ View(b, a.id) # {}
    BY <1>1, <1>3 DEF SaveView
  <2>2. w.op = "restoreView" /\ w.row = p
    OBVIOUS
  <2> HIDE DEF w
  <2>3. IsView(p) /\ p \in b.views
    BY <2>1, TheView DEF WellFormed
  <2> HIDE DEF p
  <2>4. e.id = p.id
    BY <2>3 DEF IsView
  <2> HIDE DEF e
  <2> QED
    BY <2>1, <2>2, <2>3, <2>4, ChangedViewBack
<1> QED
  BY <1>2, <1>3

LEMMA RenameViewBack ==
    ASSUME NEW b, WellFormed(b), NEW a, NEW r, r = RenameView(a, b, b), r.ok,
           NEW c, WellFormed(c), Alike(c, r.cur), NEW s, NEW q, q = ApplyUndo(r.undo, s, c), q.ok
    PROVE  Alike(q.cur, b)
<1> DEFINE p == CHOOSE v \in View(b, a.id) : TRUE
           e == [p EXCEPT !.name = a.name]
           w == [op |-> "restoreView", row |-> p]
<1>1. r # Failed(b)
  BY DEF Failed
<1>2. r = UpsertView(b, e, w) /\ View(b, a.id) # {}
  BY <1>1 DEF RenameView
<1>3. w.op = "restoreView" /\ w.row = p
  OBVIOUS
<1> HIDE DEF w
<1>4. IsView(p) /\ p \in b.views
  BY <1>2, TheView DEF WellFormed
<1> HIDE DEF p
<1>5. e.id = p.id
  BY <1>4, ViewExcept
<1> HIDE DEF e
<1> QED
  BY <1>2, <1>3, <1>4, <1>5, ChangedViewBack

LEMMA DeleteViewBack ==
    ASSUME NEW b, WellFormed(b), NEW a, NEW r, r = DeleteView(a, b, b), r.ok,
           NEW c, WellFormed(c), Alike(c, r.cur), NEW s, NEW q, q = ApplyUndo(r.undo, s, c), q.ok
    PROVE  Alike(q.cur, b)
<1> DEFINE p == CHOOSE v \in View(b, a.id) : TRUE
           x == {v \in b.views : v.id # a.id}
           d == [b EXCEPT !.views = x]
           w == [op |-> "restoreView", row |-> p]
<1>1. r # Failed(b)
  BY DEF Failed
<1>2. r = Done(d, w) /\ View(b, a.id) # {}
  BY <1>1 DEF DeleteView
<1>3. w.op = "restoreView" /\ w.row = p
  OBVIOUS
<1>4. p \in b.views /\ p.id = a.id
  BY <1>2, TheView DEF WellFormed
<1> HIDE DEF w, p, x
<1>5. d.views = x /\ SameButViews(d, b)
  BY ViewsOnly DEF WellFormed
<1> HIDE DEF d
<1>6. r.cur = d /\ r.undo = w
  BY <1>2 DEF Done
<1>7. c.views = x /\ SameButViews(c, b)
  BY <1>5, <1>6 DEF Alike, SameRest, SameButViews
<1>8. {o \in c.views : o.id # p.id} = {o \in b.views : o.id # p.id}
  BY <1>4, <1>7 DEF x
<1> QED
  BY <1>3, <1>4, <1>6, <1>7, <1>8, RestoreViewBack

(* Every undo takes back exactly what its action did, but for the two that *)
(* do not and an action that has none.                                     *)
LEMMA OutcomeBack ==
    ASSUME NEW b, WellFormed(b), NEW a, a.kind \in Kinds, ~ Inexact(a, b),
           NEW r, r = Outcome(a, b, b), r.ok, r.undo # NoUndo,
           NEW c, WellFormed(c), Alike(c, r.cur), NEW s, NEW q, q = ApplyUndo(r.undo, s, c), q.ok
    PROVE  Alike(q.cur, b)
<1>1. a.kind # "rebuild"
  BY DEF Outcome, Done
<1>2. r = Execute(a, b, b)
  BY <1>1 DEF Outcome
<1>3. CASE a.kind = "define"
  <2>1. r = Define(a, b, b) /\ a.aliases = {}
    BY <1>2, <1>3 DEF Execute, Inexact
  <2> QED
    BY <2>1, DefineBack
<1>4. CASE a.kind = "rename"
  <2>1. r = Rename(a, b, b)
    BY <1>2, <1>4 DEF Execute
  <2> QED
    BY <2>1, RenameBack
<1>5. CASE a.kind = "redefine"
  <2>1. r = Redefine(a, b, b)
    BY <1>2, <1>5 DEF Execute
  <2> QED
    BY <2>1, RedefineBack
<1>6. CASE a.kind = "freeze"
  <2>1. r = Freeze(a, b, b)
    BY <1>2, <1>6 DEF Execute
  <2> QED
    BY <2>1, FreezeBack
<1>7. CASE a.kind = "delete"
  <2>1. r = Delete(a, b, b)
    BY <1>2, <1>7 DEF Execute
  <2> QED
    BY <2>1, DeleteBack
<1>8. CASE a.kind = "clear"
  <2>1. r = Clear(a, b, b)
    BY <1>2, <1>8 DEF Execute
  <2> QED
    BY <2>1, ClearBack
<1>9. CASE a.kind \in {"dismiss", "pin", "annotate"}
  <2>1. r \in {Dismiss(a, b, b), Pin(a, b, b), Annotate(a, b, b)}
    BY <1>2, <1>9 DEF Execute
  <2>2. \E v : r = Done(WithVerdict(b, a.fingerprint, v), UndoForState(a, b))
    BY <2>1 DEF Dismiss, Pin, Annotate
  <2> QED
    BY <2>2, VerdictBack
<1>10. CASE a.kind = "suppress"
  <2>1. r = Suppress(a, b) /\ a.target \notin b.suppressed
    BY <1>2, <1>10 DEF Execute, Inexact
  <2> QED
    BY <2>1, SuppressBack
<1>11. CASE a.kind = "save_view"
  <2>1. r = SaveView(a, b, b)
    BY <1>2, <1>11 DEF Execute
  <2> QED
    BY <2>1, SaveViewBack
<1>12. CASE a.kind = "rename_view"
  <2>1. r = RenameView(a, b, b)
    BY <1>2, <1>12 DEF Execute
  <2> QED
    BY <2>1, RenameViewBack
<1>13. CASE a.kind = "delete_view"
  <2>1. r = DeleteView(a, b, b)
    BY <1>2, <1>13 DEF Execute
  <2> QED
    BY <2>1, DeleteViewBack
<1>14. CASE a.kind \in {"kpi", "polarity", "role", "label", "description"}
  <2>1. r \in {SetKpi(a, b, b), SetPolarity(a, b, b), SetRole(a, b, b), SetLabel(a, b, b),
               SetDescr(a, b, b)}
    BY <1>2, <1>14 DEF Execute
  <2>2. \E o : r = Mutate(a, b, b, o)
    BY <2>1 DEF SetKpi, SetPolarity, SetRole, SetLabel, SetDescr
  <2> QED
    BY <2>2, MutateBack
<1>15. CASE a.kind = "reset"
  <2>1. r = ResetColumn(b)
    BY <1>2, <1>15 DEF Execute
  <2> QED
    BY <2>1, ResetBack
<1>16. CASE a.kind = "settings"
  <2>1. r = SetSettings(a, b, b)
    BY <1>2, <1>16 DEF Execute
  <2> QED
    BY <2>1, SettingsBack
<1> QED
  BY <1>1, <1>3, <1>4, <1>5, <1>6, <1>7, <1>8, <1>9, <1>10, <1>11, <1>12, <1>13, <1>14, <1>15, <1>16
  DEF Kinds

----------------------------------------------------------------------------
(* The undo of an action: its executor holds it from its write until it is *)
(* recorded, then it is on record, and a request that undoes the row has   *)
(* it.                                                                     *)
Known(x, i, u) ==
    \/ x.op = "execute" /\ i = 1 /\ x.pc \in {"load", "refresh", "record"} /\ x.undo = u
    \/ x.op = "undo" /\ x.queue[i].undo = u
Knows(x, id, u) == \A i \in 1..Len(x.queue) : x.queue[i].id = id => Known(x, i, u)
Executes(x, id) == x.op = "execute" /\ QueuedAt(x, id)
Recorded(id, u) == log[id].undo = u \/ \E w \in Workers : Executes(workers[w], id)

Traced(id, u) == (\A w \in Workers : Knows(workers[w], id, u)) /\ Recorded(id, u)

LEMMA ActionStays ==
    ASSUME NEW id, log'[id].request = log[id].request, script' = script
    PROVE  Action(id)' = Action(id)
BY DEF Action

(* Off its head, a queue still knows; the executor of the latest change is *)
(* at its head.                                                            *)
LEMMA AdvanceKnows ==
    ASSUME LogInv, NEW w \in Workers, workers[w].pc # "idle", AfterAdvance(w), NEW id, NEW u,
           Knows(workers[w], id, u)
    PROVE  /\ Others(w) /\ Knows(workers'[w], id, u)
           /\ Executes(workers[w], id) =>
                 /\ Row(w).id = id /\ workers[w].pc \in {"load", "refresh", "record"}
                 /\ workers[w].undo = u
<1> DEFINE x == workers[w]
           y == workers'[w]
<1>1. Shapes /\ Serves(x, Rows)
  BY BusyServes DEF LogInv
<1>2. IsSeq(x.queue) /\ Len(x.queue) \in Nat /\ x.queue # <<>> /\ Row(w).id = x.queue[1].id
  BY <1>1, QueueOf
<1>3. Others(w) /\ Knows(y, id, u)
  <2>1. CASE Len(x.queue) = 1
    <3> DEFINE e == <<>>
    <3>1. Others(w) /\ y.queue = e
      BY <2>1 DEF AfterAdvance, After, Others
    <3>2. Len(e) = 0
      OBVIOUS
    <3> HIDE DEF e
    <3> QED
      BY <3>1, <3>2 DEF Knows
  <2>2. CASE Len(x.queue) # 1
    <3> DEFINE q == Tail(x.queue)
    <3>1. After(w, First(x.op), x.op, q, Empty, NoUndo, {})
      BY <2>2 DEF AfterAdvance
    <3>2. Len(q) = Len(x.queue) - 1 /\ \A i \in 1..Len(x.queue) - 1 : q[i] = x.queue[i + 1]
      BY <1>2, SeqTail
    <3> HIDE DEF q
    <3>3. Others(w) /\ y.queue = q /\ y.op = x.op
      BY <3>1 DEF After, Others
    <3>4. ASSUME NEW i \in 1..Len(q), q[i].id = id PROVE x.op = "undo" /\ q[i].undo = u
      <4>1. q[i] = x.queue[i + 1] /\ i + 1 \in 1..Len(x.queue) /\ i + 1 # 1
        BY <1>2, <3>2
      <4> QED
        BY <3>4, <4>1 DEF Knows, Known
    <3> QED
      BY <3>3, <3>4 DEF Knows, Known
  <2> QED
    BY <2>1, <2>2
<1>4. ASSUME Executes(x, id)
      PROVE  Row(w).id = id /\ x.pc \in {"load", "refresh", "record"} /\ x.undo = u
  <2>1. PICK i \in 1..Len(x.queue) : x.queue[i].id = id
    BY <1>4 DEF Executes, QueuedAt
  <2>2. i = 1 /\ x.pc \in {"load", "refresh", "record"} /\ x.undo = u
    BY <1>4, <2>1 DEF Knows, Known, Executes
  <2> QED
    BY <1>2, <2>1, <2>2
<1> QED
  BY <1>3, <1>4

(* Executors other than w remain.                                          *)
LEMMA RecordedStays ==
    ASSUME NEW w \in Workers, Others(w), NEW id, NEW u, log'[id] = log[id], Recorded(id, u),
           ~ Executes(workers[w], id)
    PROVE  Recorded(id, u)'
<1>1. \A v \in Workers : Executes(workers[v], id) => Executes(workers'[v], id)
  BY DEF Others
<1>2. log'[id].undo = u \/ \E v \in Workers : Executes(workers'[v], id)
  BY <1>1 DEF Recorded
<1> QED
  BY <1>2 DEF Recorded

LEMMA TracedBy ==
    ASSUME NEW w \in Workers, Others(w), NEW id, NEW u, Traced(id, u),
           Knows(workers'[w], id, u), Recorded(id, u)'
    PROVE  Traced(id, u)'
<1>1. \A v \in Workers : Knows(workers'[v], id, u)
  BY DEF Traced, Others
<1> QED
  BY <1>1 DEF Traced

LEMMA LooksTrace ==
    ASSUME NEW w \in Workers, Others(w), log' = log,
           workers'[w].queue = workers[w].queue, workers'[w].op = workers[w].op,
           workers[w].op = "execute" /\ workers[w].pc \in {"load", "refresh", "record"} =>
              workers'[w].pc \in {"load", "refresh", "record"} /\ workers'[w].undo = workers[w].undo,
           NEW id, NEW u, Traced(id, u)
    PROVE  Traced(id, u)'
<1>1. Knows(workers'[w], id, u)
  BY DEF Traced, Knows, Known
<1>2. \A v \in Workers : Executes(workers[v], id) => Executes(workers'[v], id)
  BY DEF Executes, QueuedAt, Others
<1>3. log'[id].undo = u \/ \E v \in Workers : Executes(workers'[v], id)
  BY <1>2 DEF Traced, Recorded
<1>4. Recorded(id, u)'
  BY <1>3 DEF Recorded
<1> QED
  BY <1>1, <1>4, TracedBy

LEMMA RefusedTrace ==
    ASSUME LogInv, NEW w \in Workers, workers[w].pc = "undoWrite", AfterAdvance(w), log' = log,
           NEW id, NEW u, Traced(id, u)
    PROVE  Others(w) /\ Traced(id, u)'
<1>1. Others(w)
  BY DEF AfterAdvance, After, Others
<1>2. Knows(workers'[w], id, u) /\ ~ Executes(workers[w], id)
  BY AdvanceKnows DEF Traced
<1>3. Recorded(id, u)'
  BY <1>1, <1>2, RecordedStays DEF Traced
<1> QED
  BY <1>1, <1>2, <1>3, TracedBy

LEMMA RecordTrace ==
    ASSUME LogInv, NEW w \in Workers,
           RecordResult(w) \/ SetRejected(w) \/ SetUndone(w),
           NEW id \in Rows, NEW u, Traced(id, u)
    PROVE  Traced(id, u)'
<1> DEFINE x == workers[w]
           y == workers'[w]
<1>1. Shapes /\ x.pc \in {"record", "fail", "reject", "undone"}
  BY DEF LogInv, RecordResult, SetRejected, SetUndone
<1>2. Serves(x, Rows)
  BY <1>1, BusyServes
<1>3. Row(w).id \in Rows
  BY <1>1, <1>2, QueueOf
<1>4. AfterAdvance(w)
  BY <1>1, AdvanceDoes DEF RecordResult, SetRejected, SetUndone
<1>5. PICK k, s, t : /\ k = Row(w).id /\ LogIs(k, s, t)
                     /\ t = IF x.pc \in {"record", "fail"} THEN x.undo ELSE log[k].undo
  BY <1>1, <1>3, RecordDoes, StatusDoes DEF RecordResult, SetRejected, SetUndone
<1>6. Others(w)
  BY <1>4 DEF AfterAdvance, After, Others
<1>7. /\ Knows(y, id, u)
      /\ Executes(x, id) => /\ k = id /\ x.pc \in {"load", "refresh", "record"} /\ x.undo = u
  BY <1>1, <1>4, <1>5, AdvanceKnows DEF Traced
<1>8. \A v \in Workers : v # w /\ Executes(workers[v], id) => Executes(workers'[v], id)
  BY <1>6 DEF Others
<1>9. log'[k].undo = t
  BY <1>5 DEF LogIs
<1>10. Executes(x, id) => log'[id].undo = u
  BY <1>1, <1>5, <1>7, <1>9
<1>11. k = id /\ x.op = "undo" => log'[id].undo = log[id].undo
  BY <1>2, <1>5, <1>9 DEF Serves, PcFits
<1>12. k = id => Executes(x, id) \/ x.op = "undo"
  <2>1. 1 \in 1..Len(x.queue) /\ x.queue[1].id = k
    BY <1>1, <1>2, <1>5, QueueOf
  <2> QED
    BY <2>1 DEF Executes, QueuedAt, Knows, Known, Traced
<1>13. k # id => log'[id] = log[id]
  BY <1>5 DEF LogIs
<1>14. log'[id].undo = u \/ \E v \in Workers : Executes(workers'[v], id)
  BY <1>8, <1>10, <1>11, <1>12, <1>13 DEF Recorded, Traced
<1>15. Recorded(id, u)'
  BY <1>14 DEF Recorded
<1> QED
  BY <1>6, <1>7, <1>15, TracedBy

LEMMA ReviewTrace ==
    ASSUME LogInv, NEW w \in Workers,
           \/ \E id \in Rows : Approve(w, id) \/ Reject(w, id) \/ Undo(w, id)
           \/ ApproveAll(w) \/ RejectAll(w) \/ UndoAll(w),
           NEW id \in Rows, id \notin history'.disturbed, history.applied[id] # 0,
           NEW u, Traced(id, u)
    PROVE  Traced(id, u)'
<1> DEFINE y == workers'[w]
           h == history
<1>1. PICK op, ids, S :
              /\ op \in {"execute", "undo", "reject"}
              /\ w \notin Busy /\ Take(w, op, ids) /\ history' = Began(S)
              /\ IsSeq(ids) /\ \A i \in DOMAIN ids : ids[i] \in S
              /\ op # "undo" => \A k \in S : log[k].status = "proposed"
              /\ log' = log
  BY ReviewDoes
<1>2. Shapes
  BY DEF LogInv
<1>3. PICK q : /\ After(w, First(op), op, q, Empty, NoUndo, {})
               /\ IsSeq(q) /\ Len(q) = Len(ids)
               /\ \A i \in 1..Len(ids) : q[i] = [id |-> ids[i], undo |-> log[ids[i]].undo]
  BY <1>1, <1>2, TakeDoes
<1>4. Others(w) /\ y.queue = q /\ y.op = op
  BY <1>3 DEF After, Others
<1>5. PICK D : D = {k \in S : \E v \in Busy : k \in Queued(v)}
  OBVIOUS
<1>6. history'.disturbed = h.disturbed \cup D
  <2>1. LET g == history IN
        HistoryIs(g.applied, g.undone, g.disturbed \cup D, g.overlapped \/ Busy # {}, g.order,
                  g.outOfOrder, g.torn, g.last)
    BY <1>1, <1>2, <1>5, BeganIs
  <2> QED
    BY <2>1 DEF HistoryIs
<1>7. ~ Executes(workers[w], id)
  <2>1. workers[w] = Idle
    BY <1>1, IdleIs
  <2>2. Idle.op = "none"
    BY DEF Idle
  <2> QED
    BY <2>1, <2>2 DEF Executes
<1>8. Recorded(id, u)'
  BY <1>1, <1>4, <1>7, RecordedStays DEF Traced
<1>9. ASSUME NEW i \in 1..Len(q), q[i].id = id PROVE op = "undo" /\ q[i].undo = u
  <2>1. ids[i] = id /\ q[i].undo = log[id].undo
    <3> DEFINE z == [id |-> ids[i], undo |-> log[ids[i]].undo]
    <3>1. q[i] = z /\ z.id = ids[i] /\ z.undo = log[ids[i]].undo
      BY <1>3
    <3> HIDE DEF z
    <3> QED
      BY <1>9, <3>1
  <2>2. id \in S
    BY <1>1, <1>3, <2>1, SeqFacts
  <2>3. \A v \in Workers : ~ QueuedAt(workers[v], id)
    BY <1>5, <1>6, <2>2, BusyQueue
  <2>4. Settled(log[id].status, h.applied[id], h.undone[id])
    BY <1>6, <2>3 DEF LogInv, RowTrue
  <2>5. op = "undo"
    BY <1>1, <2>2, <2>4 DEF Settled
  <2>6. log[id].undo = u
    BY <2>3 DEF Recorded, Executes, Traced
  <2> QED
    BY <2>1, <2>5, <2>6
<1>10. Knows(y, id, u)
  BY <1>4, <1>9 DEF Knows, Known
<1> QED
  BY <1>4, <1>8, <1>10, TracedBy

LEMMA DispatchTrace ==
    ASSUME LogInv, NEW w \in Workers, NEW r \in Requests, Dispatch(w, r), ~ Logged(r),
           NEW id \in Rows, NEW u, Traced(id, u)
    PROVE  Traced(id, u)'
<1> DEFINE y == workers'[w]
<1>1. PICK n : n = Len(log) + 1
  OBVIOUS
<1>2. /\ workers[w] = Idle /\ Others(w) /\ n \notin Rows
      /\ \A k \in Rows : log'[k] = log[k]
      /\ \/ y = Idle
         \/ y = [pc |-> "read", op |-> "execute", queue |-> <<[id |-> n, undo |-> NoUndo]>>,
                 seen |-> Empty, undo |-> NoUndo, snap |-> {}]
  BY <1>1, DispatchDoes
<1>3. ~ QueuedAt(y, id)
  <2>1. CASE y = Idle
    BY <2>1, IdleQueue
  <2>2. CASE y = [pc |-> "read", op |-> "execute", queue |-> <<[id |-> n, undo |-> NoUndo]>>,
                  seen |-> Empty, undo |-> NoUndo, snap |-> {}]
    <3> DEFINE q == <<[id |-> n, undo |-> NoUndo]>>
    <3>1. Len(q) = 1 /\ q[1].id = n
      OBVIOUS
    <3>2. y.queue = q
      BY <2>2
    <3> HIDE DEF q
    <3>3. n # id
      BY <1>2
    <3>4. \A i \in 1..Len(q) : q[i].id = n
      BY <3>1
    <3> QED
      BY <3>2, <3>3, <3>4 DEF QueuedAt
  <2> QED
    BY <1>2, <2>1, <2>2
<1>4. ~ Executes(workers[w], id)
  BY <1>2, IdleQueue DEF Executes
<1>5. Recorded(id, u)'
  BY <1>2, <1>4, RecordedStays DEF Traced
<1>6. Knows(y, id, u)
  BY <1>3 DEF Knows, QueuedAt
<1> QED
  BY <1>2, <1>5, <1>6, TracedBy

(* The undo of an action that has just been executed is with its worker,   *)
(* of a row that no other request has.                                     *)
LEMMA WrittenTrace ==
    ASSUME LogInv, NEW w \in Workers, workers[w].pc = "write",
           NEW k, k = Row(w).id, k \notin history.disturbed, Others(w), NEW u,
           workers'[w].pc \in {"load", "record"}, workers'[w].op = workers[w].op,
           workers'[w].queue = workers[w].queue, workers'[w].undo = u
    PROVE  Traced(k, u)'
<1> DEFINE x == workers[w]
           y == workers'[w]
<1>1. Shapes /\ Serves(x, Rows)
  BY BusyServes DEF LogInv
<1>2. k \in Rows /\ x.op = "execute" /\ 1 \in 1..Len(x.queue) /\ x.queue[1].id = k
  BY <1>1, QueueOf DEF Serves, PcFits
<1>3. RowTrue(k) /\ QueuedAt(x, k)
  BY <1>2 DEF LogInv, QueuedAt
<1>4. \A v \in Workers : v # w => ~ QueuedAt(workers[v], k)
  BY <1>3 DEF RowTrue
<1>5. \A v \in Workers : v # w => Knows(workers'[v], k, u)
  BY <1>4 DEF Others, Knows, QueuedAt
<1>6. Knows(y, k, u)
  <2>1. \A i \in 1..Len(x.queue) : x.queue[i].id = k => i = 1
    BY <1>1, <1>2 DEF Serves
  <2> QED
    BY <1>2, <2>1 DEF Knows, Known
<1>7. Recorded(k, u)'
  <2>1. Executes(y, k)
    BY <1>2 DEF Executes, QueuedAt
  <2> QED
    BY <2>1 DEF Recorded
<1>8. \A v \in Workers : Knows(workers'[v], k, u)
  BY <1>5, <1>6
<1> QED
  BY <1>7, <1>8 DEF Traced

----------------------------------------------------------------------------
(* What the steps do to what the last two arguments are about.             *)
LEMMA LookSteps ==
    ASSUME LogInv, NEW w \in Workers, Looks(w)
    PROVE  /\ Others(w) /\ log' = log /\ script' = script /\ cur' = cur /\ SameButTorn
           /\ workers[w].pc # "idle"
           /\ workers'[w].queue = workers[w].queue /\ workers'[w].op = workers[w].op
           /\ workers[w].op = "execute" /\ workers[w].pc \in {"load", "refresh", "record"} =>
                 /\ workers'[w].pc \in {"load", "refresh", "record"}
                 /\ workers'[w].undo = workers[w].undo
           /\ workers'[w].pc = "write" => workers'[w].seen = cur
<1> DEFINE x == workers[w]
           y == workers'[w]
<1>1. Shapes /\ x.pc # "idle"
  BY DEF LogInv, Looks, Read, UndoRead, LoadSnapshot, RefreshSnapshot, RefreshFails
<1>11. log' = log /\ script' = script /\ cur' = cur /\ SameButTorn
  BY <1>1, LooksNote DEF HistoryIs, SameButTorn
<1>2. PICK p, s, n : /\ After(w, p, x.op, x.queue, s, x.undo, n)
                     /\ p = "write" => s = cur
                     /\ \/ x.pc \notin {"load", "refresh", "record"}
                        \/ x.pc = "load" /\ p = "refresh"
                        \/ x.pc = "refresh" /\ (x.op = "execute" => p = "record")
  <2>1. CASE Read(w)
    BY <1>1, <2>1, ReadDoes DEF Read
  <2>2. CASE UndoRead(w)
    BY <1>1, <2>2, UndoReadDoes DEF UndoRead
  <2>3. CASE LoadSnapshot(w)
    BY <1>1, <2>3, LoadDoes DEF LoadSnapshot
  <2>4. CASE RefreshSnapshot(w) \/ RefreshFails(w)
    <3> DEFINE p == IF x.op = "undo" THEN "undone" ELSE "record"
    <3>1. x.pc = "refresh" /\ (x.op = "execute" => p = "record") /\ p # "write" /\ Refreshed(w)
      BY <2>4 DEF RefreshSnapshot, RefreshFails
    <3>2. After(w, p, x.op, x.queue, x.seen, x.undo, {})
      BY <1>1, <3>1, RefreshDoes
    <3> HIDE DEF p
    <3> QED
      BY <3>1, <3>2
  <2> QED
    BY <2>1, <2>2, <2>3, <2>4 DEF Looks
<1>3. /\ Others(w) /\ y.pc = p /\ y.op = x.op /\ y.queue = x.queue /\ y.undo = x.undo
      /\ y.seen = s
  BY <1>2 DEF After, Others
<1> QED
  BY <1>1, <1>11, <1>2, <1>3

LEMMA RecordSteps ==
    ASSUME LogInv, NEW w \in Workers, RecordResult(w) \/ SetRejected(w) \/ SetUndone(w)
    PROVE  /\ Others(w) /\ script' = script /\ cur' = cur /\ history' = history
           /\ workers[w].pc # "idle" /\ workers'[w].pc # "write"
           /\ Rows' = Rows /\ \A id \in Rows : log'[id].request = log[id].request
<1> DEFINE x == workers[w]
<1>1. /\ Shapes /\ script' = script /\ cur' = cur /\ history' = history
      /\ x.pc \in {"record", "fail", "reject", "undone"}
  BY DEF LogInv, RecordResult, SetRejected, SetUndone
<1>2. Row(w).id \in Rows
  BY <1>1, BusyServes, QueueOf
<1>3. AfterAdvance(w)
  BY <1>1, AdvanceDoes DEF RecordResult, SetRejected, SetUndone
<1>4. PICK k, s, t : LogIs(k, s, t)
  BY <1>1, <1>2, RecordDoes, StatusDoes DEF RecordResult, SetRejected, SetUndone
<1>5. Rows' = Rows /\ \A id \in Rows : log'[id].request = log[id].request
  <2>1. IsSeq(log) /\ IsSeq(log') /\ Len(log') = Len(log)
    BY <1>1, <1>4 DEF LogIs, Shapes
  <2>2. Rows' = 1..Len(log') /\ Rows = 1..Len(log)
    BY <2>1, SeqFacts DEF Rows
  <2>3. log'[k].request = log[k].request
    BY <1>4 DEF LogIs
  <2> QED
    BY <1>4, <2>1, <2>2, <2>3 DEF LogIs
<1>6. Others(w) /\ workers'[w].pc # "write"
  <2>1. x.op \in {"execute", "undo", "reject"}
    BY <1>1, BusyServes DEF Serves, PcFits
  <2>2. First(x.op) # "write"
    BY <2>1 DEF First
  <2> QED
    BY <1>3, <2>2 DEF AfterAdvance, After, Others
<1> QED
  BY <1>1, <1>5, <1>6

LEMMA ReviewSteps ==
    ASSUME LogInv, NEW w \in Workers,
           \/ \E id \in Rows : Approve(w, id) \/ Reject(w, id) \/ Undo(w, id)
           \/ ApproveAll(w) \/ RejectAll(w) \/ UndoAll(w)
    PROVE  LET h == history IN
           /\ Others(w) /\ log' = log /\ script' = script /\ cur' = cur
           /\ workers'[w].pc # "write"
           /\ history'.applied = h.applied /\ history'.last = h.last
           /\ history'.order = h.order /\ history'.outOfOrder = h.outOfOrder
           /\ history'.overlapped = (h.overlapped \/ Busy # {})
           /\ h.disturbed \subseteq history'.disturbed
           /\ Busy = {} => history'.disturbed = h.disturbed
<1> DEFINE h == history
<1>1. PICK op, ids, S :
              /\ op \in {"execute", "undo", "reject"}
              /\ Take(w, op, ids) /\ history' = Began(S)
              /\ IsSeq(ids)
              /\ log' = log /\ script' = script /\ cur' = cur
  BY ReviewDoes
<1>2. Shapes
  BY DEF LogInv
<1>3. PICK q : After(w, First(op), op, q, Empty, NoUndo, {})
  BY <1>1, <1>2, TakeDoes
<1>4. Others(w) /\ workers'[w].pc # "write"
  BY <1>1, <1>3 DEF After, Others, First
<1>5. PICK D : D = {id \in S : \E v \in Busy : id \in Queued(v)}
  OBVIOUS
<1>6. HistoryIs(h.applied, h.undone, h.disturbed \cup D, h.overlapped \/ Busy # {}, h.order,
                h.outOfOrder, h.torn, h.last)
  BY <1>1, <1>2, <1>5, BeganIs
<1>7. Busy = {} => D = {}
  BY <1>5
<1> QED
  BY <1>1, <1>4, <1>6, <1>7 DEF HistoryIs

LEMMA DispatchSteps ==
    ASSUME LogInv, NEW w \in Workers, NEW r \in Requests, Dispatch(w, r), ~ Logged(r)
    PROVE  LET h == history IN
           /\ Others(w) /\ script' = script /\ cur' = cur
           /\ Rows \subseteq Rows' /\ \A id \in Rows : log'[id].request = log[id].request
           /\ \A id \in Rows : history'.applied[id] = h.applied[id]
           /\ history'.last = h.last /\ history'.order = h.order
           /\ history'.outOfOrder = h.outOfOrder
           /\ h.disturbed \subseteq history'.disturbed
           /\ \/ /\ workers'[w] = workers[w]
                 /\ history'.overlapped = h.overlapped /\ history'.disturbed = h.disturbed
              \/ /\ workers'[w].pc # "write" /\ history'.overlapped = (h.overlapped \/ Busy # {})
                 /\ Busy = {} => history'.disturbed = h.disturbed
<1> DEFINE h == history
           y == workers'[w]
<1>1. script' = script /\ cur' = cur
  BY DEF Dispatch
<1>2. PICK n : n = Len(log) + 1
  OBVIOUS
<1>3. PICK a, z : a = Append(h.applied, 0) /\ z = Append(h.undone, 0)
  OBVIOUS
<1>4. /\ workers[w] = Idle /\ Others(w) /\ Rows' = Rows \cup {n}
      /\ \A k \in Rows : log'[k] = log[k]
      /\ \E D, o : /\ HistoryIs(a, z, D, o, h.order, h.outOfOrder, h.torn, h.last)
                   /\ h.disturbed \subseteq D
                   /\ \/ y = Idle /\ D = h.disturbed /\ o = h.overlapped
                      \/ /\ y.pc = "read" /\ o = (h.overlapped \/ Busy # {})
                         /\ Busy = {} => D = h.disturbed
  <2>1. /\ workers[w] = Idle /\ Others(w) /\ Rows' = Rows \cup {n}
        /\ \A k \in Rows : log'[k] = log[k]
        /\ \/ /\ y = Idle
              /\ HistoryIs(a, z, h.disturbed, h.overlapped, h.order, h.outOfOrder, h.torn, h.last)
           \/ /\ y = [pc |-> "read", op |-> "execute", queue |-> <<[id |-> n, undo |-> NoUndo]>>,
                      seen |-> Empty, undo |-> NoUndo, snap |-> {}]
              /\ \E D : /\ h.disturbed \subseteq D /\ (Busy = {} => D = h.disturbed)
                        /\ HistoryIs(a, z, D, h.overlapped \/ Busy # {}, h.order, h.outOfOrder,
                                     h.torn, h.last)
    BY <1>2, <1>3, DispatchDoes
  <2> DEFINE q == <<[id |-> n, undo |-> NoUndo]>>
  <2>2. y = [pc |-> "read", op |-> "execute", queue |-> q, seen |-> Empty, undo |-> NoUndo,
             snap |-> {}] => y.pc = "read"
    <3> HIDE DEF q
    <3> QED
      OBVIOUS
  <2> QED
    BY <2>1, <2>2
<1>5. PICK D, o : /\ HistoryIs(a, z, D, o, h.order, h.outOfOrder, h.torn, h.last)
                  /\ h.disturbed \subseteq D
                  /\ \/ y = Idle /\ D = h.disturbed /\ o = h.overlapped
                     \/ /\ y.pc = "read" /\ o = (h.overlapped \/ Busy # {})
                        /\ Busy = {} => D = h.disturbed
  BY <1>4
<1>6. /\ history'.applied = a /\ history'.disturbed = D /\ history'.overlapped = o
      /\ history'.order = h.order /\ history'.outOfOrder = h.outOfOrder /\ history'.last = h.last
  BY <1>5 DEF HistoryIs
<1>7. \A k \in Rows : a[k] = h.applied[k]
  <2>1. Counts(h.applied) /\ IsSeq(log)
    BY CountsAre DEF LogInv, Shapes
  <2> QED
    BY <1>3, <2>1, SeqAppend, RowsAre DEF Counts
<1>8. y = Idle => y = workers[w]
  BY <1>4
<1> QED
  BY <1>1, <1>4, <1>5, <1>6, <1>7, <1>8

----------------------------------------------------------------------------
(* The latest change: the action that made it, executed on what was there  *)
(* before, made the state what it is, and its undo can be traced.          *)
LastHolds(id, b) ==
    LET o == Outcome(Action(id), b, b)
    IN  /\ WellFormed(b) /\ o.ok /\ Alike(cur, o.cur) /\ history.applied[id] # 0
        /\ Traced(id, o.undo)

LastInv ==
    LET id == history.last.row
    IN  \/ id = 0
        \/ id \in Rows /\ (id \in history.disturbed \/ LastHolds(id, history.last.before))

LEMMA AlikeAlso ==
    ASSUME NEW c, NEW d, NEW e, Alike(c, d), Alike(d, e)
    PROVE  Alike(c, e)
BY DEF Alike, SameRest

LEMMA AlikeSelf == ASSUME NEW c PROVE Alike(c, c)
BY DEF Alike, SameRest

(* A step that leaves the latest change the latest.                        *)
LEMMA LastOn ==
    ASSUME LastInv, history'.last = history.last, history.disturbed \subseteq history'.disturbed,
           script' = script, Rows \subseteq Rows', Alike(cur', cur),
           \A id \in Rows : id \notin history'.disturbed /\ history.applied[id] # 0 =>
              /\ log'[id].request = log[id].request
              /\ history'.applied[id] = history.applied[id]
              /\ \A u : Traced(id, u) => Traced(id, u)'
    PROVE  LastInv'
<1>1. PICK id, b : id = history.last.row /\ b = history.last.before
  OBVIOUS
<1>2. PICK a : a = Action(id)
  OBVIOUS
<1>3. history'.last.row = id /\ history'.last.before = b
  BY <1>1
<1>4. CASE id = 0
  BY <1>3, <1>4 DEF LastInv
<1>5. CASE id # 0 /\ id \in history'.disturbed
  BY <1>1, <1>3, <1>5 DEF LastInv
<1>6. CASE id # 0 /\ id \notin history'.disturbed
  <2>1. id \in Rows /\ LastHolds(id, b)
    BY <1>1, <1>6 DEF LastInv
  <2>2. PICK o : o = Outcome(a, b, b)
    OBVIOUS
  <2>3. /\ WellFormed(b) /\ o.ok /\ Alike(cur, o.cur) /\ history.applied[id] # 0
        /\ Traced(id, o.undo)
    BY <1>2, <2>1, <2>2 DEF LastHolds
  <2>4. log'[id].request = log[id].request /\ history'.applied[id] # 0 /\ Traced(id, o.undo)'
    BY <1>6, <2>1, <2>3
  <2>5. Action(id)' = a
    BY <1>2, <2>4, ActionStays
  <2>6. Alike(cur', o.cur)
    BY <2>3, AlikeAlso
  <2>7. LastHolds(id, b)'
    BY <2>2, <2>3, <2>4, <2>5, <2>6 DEF LastHolds
  <2> QED
    BY <1>3, <1>6, <2>1, <2>7 DEF LastInv
<1> QED
  BY <1>4, <1>5, <1>6

(* A worker goes from one step on a row to the next.                       *)
LEMMA LastLooks ==
    ASSUME LastInv, NEW w \in Workers, Others(w), log' = log, script' = script,
           SameButTorn, Alike(cur', cur),
           workers'[w].queue = workers[w].queue, workers'[w].op = workers[w].op,
           workers[w].op = "execute" /\ workers[w].pc \in {"load", "refresh", "record"} =>
              workers'[w].pc \in {"load", "refresh", "record"} /\ workers'[w].undo = workers[w].undo
    PROVE  LastInv'
<1>1. Rows \subseteq Rows'
  BY DEF Rows
<1>2. \A id, u : Traced(id, u) => Traced(id, u)'
  BY LooksTrace
<1> QED
  BY <1>1, <1>2, LastOn DEF SameButTorn

LEMMA LastRead ==
    ASSUME LogInv, LastInv, NEW w \in Workers, Looks(w)
    PROVE  LastInv'
BY LookSteps, AlikeSelf, LastLooks

LEMMA LastRecord ==
    ASSUME LogInv, LastInv, NEW w \in Workers,
           RecordResult(w) \/ SetRejected(w) \/ SetUndone(w)
    PROVE  LastInv'
BY RecordSteps, RecordTrace, AlikeSelf, LastOn

LEMMA LastReview ==
    ASSUME LogInv, LastInv, NEW w \in Workers,
           \/ \E id \in Rows : Approve(w, id) \/ Reject(w, id) \/ Undo(w, id)
           \/ ApproveAll(w) \/ RejectAll(w) \/ UndoAll(w)
    PROVE  LastInv'
<1>1. Rows' = Rows
  BY ReviewSteps DEF Rows
<1> QED
  BY <1>1, ReviewSteps, ReviewTrace, AlikeSelf, LastOn

LEMMA LastNone == ASSUME history'.last = NoRow PROVE LastInv'
BY DEF LastInv, NoRow

LEMMA LastNothing ==
    ASSUME LastInv, log' = log, history' = history, script' = script, workers' = workers, cur' = cur
    PROVE  LastInv'
<1>1. Rows' = Rows
  BY DEF Rows
<1>2. \A id, u : Traced(id, u) => Traced(id, u)'
  BY DEF Traced, Recorded
<1> QED
  BY <1>1, <1>2, AlikeSelf, LastOn

LEMMA LastDispatch ==
    ASSUME LogInv, LastInv, NEW w \in Workers, NEW r \in Requests, Dispatch(w, r)
    PROVE  LastInv'
<1>1. CASE Logged(r)
  <2>1. log' = log /\ script' = script /\ cur' = cur
    BY <1>1 DEF Dispatch, InsertAction
  <2>2. workers' = workers /\ history' = history
    BY <2>1 DEF Dispatch
  <2> QED
    BY <2>1, <2>2, LastNothing
<1>2. CASE ~ Logged(r)
  <2>1. \A id \in Rows : \A u : Traced(id, u) => Traced(id, u)'
    BY <1>2, DispatchTrace
  <2> QED
    BY <1>2, <2>1, DispatchSteps, AlikeSelf, LastOn
<1> QED
  BY <1>1, <1>2

(* The action that was executed on what it had checked is the latest.      *)
LEMMA LastWritten ==
    ASSUME LogInv, StateInv, NEW w \in Workers, workers[w].pc = "write",
           log' = log, script' = script,
           NEW k, k = Row(w).id, NEW b, b = cur, NEW r, r = Outcome(Action(k), b, b), r.ok,
           cur' = r.cur, NEW p \in {"load", "record"}, Others(w),
           workers'[w].pc = p, workers'[w].op = workers[w].op,
           workers'[w].queue = workers[w].queue, workers'[w].undo = r.undo,
           history'.last.row = k, history'.last.before = b,
           history'.disturbed = history.disturbed, history'.applied[k] # 0
    PROVE  LastInv'
<1>1. k \in Rows
  BY BusyServes, QueueOf DEF LogInv
<1>2. Rows' = Rows /\ Action(k)' = Action(k)
  BY DEF Rows, Action
<1>3. CASE k \in history.disturbed
  BY <1>1, <1>2, <1>3 DEF LastInv
<1>4. CASE k \notin history.disturbed
  <2>1. PICK u : u = r.undo
    OBVIOUS
  <2>2. Traced(k, u)'
    BY <1>4, <2>1, WrittenTrace
  <2>3. WellFormed(b) /\ Alike(cur', r.cur)
    BY AlikeSelf DEF StateInv
  <2>4. r = Outcome(Action(k)', b, b)
    BY <1>2
  <2>5. LastHolds(k, b)'
    BY <2>1, <2>2, <2>3, <2>4 DEF LastHolds
  <2> QED
    BY <1>1, <1>2, <2>5 DEF LastInv
<1> QED
  BY <1>3, <1>4

LEMMA LastWrite ==
    ASSUME LogInv, StateInv, LastInv, NEW w \in Workers, Write(w)
    PROVE  LastInv'
<1> DEFINE x == workers[w]
           y == workers'[w]
           id == Row(w).id
           a == Action(id)
           h == history
           r == Outcome(a, x.seen, cur)
<1>1. /\ Shapes /\ x.pc = "write" /\ log' = log /\ script' = script
  BY DEF LogInv, Write
<1>2. Serves(x, Rows)
  BY <1>1, BusyServes
<1>3. id \in Rows /\ x.op = "execute"
  BY <1>1, <1>2, QueueOf DEF Serves, PcFits
<1>4. a.kind \in Kinds
  BY <1>1, <1>3 DEF StateInv, Action, Shapes, RowShape
<1>5. WellFormed(x.seen) /\ x.seen.nextId <= cur.nextId /\ WellFormed(cur)
  BY <1>1 DEF StateInv, WorkerFits
<1>6. Kept(r, cur)
  BY <1>4, <1>5, ExecuteKeeps
<1>7. /\ cur' = r.cur
      /\ \/ /\ ~ r.ok /\ history' = history
            /\ After(w, "fail", x.op, x.queue, Empty, r.undo, x.snap)
         \/ /\ r.ok
            /\ \E p \in {"load", "record"} : After(w, p, x.op, x.queue, Empty, r.undo, x.snap)
            /\ \E l, o : /\ l = IF x.seen = cur THEN [row |-> id, before |-> cur] ELSE NoRow
                         /\ HistoryIs([h.applied EXCEPT ![id] = @ + 1], h.undone, h.disturbed,
                                      h.overlapped, o, h.outOfOrder, h.torn, l)
  BY <1>1, <1>3, WriteDoes
<1>8. CASE ~ r.ok /\ history' = history /\ After(w, "fail", x.op, x.queue, Empty, r.undo, x.snap)
  <2>1. Alike(cur', cur)
    BY <1>6, <1>7, <1>8 DEF Kept
  <2>2. Others(w) /\ y.queue = x.queue /\ y.op = x.op
    BY <1>8 DEF After, Others
  <2> QED
    BY <1>1, <1>8, <2>1, <2>2, LastLooks DEF SameButTorn
<1>9. ASSUME r.ok, NEW p \in {"load", "record"}, After(w, p, x.op, x.queue, Empty, r.undo, x.snap),
             NEW l, NEW o, l = IF x.seen = cur THEN [row |-> id, before |-> cur] ELSE NoRow,
             HistoryIs([h.applied EXCEPT ![id] = @ + 1], h.undone, h.disturbed,
                       h.overlapped, o, h.outOfOrder, h.torn, l)
      PROVE  LastInv'
  <2>1. /\ Others(w) /\ y.pc = p /\ y.queue = x.queue /\ y.op = x.op /\ y.undo = r.undo
    BY <1>9 DEF After, Others
  <2> DEFINE t == [h.applied EXCEPT ![id] = @ + 1]
  <2>2. t[id] # 0
    <3>1. Counts(h.applied) /\ DOMAIN h.applied = Rows
      BY <1>1, CountsAre, RowsAre, SeqFacts DEF Counts, Shapes
    <3> QED
      BY <1>3, <3>1 DEF Counts
  <2> HIDE DEF t
  <2>3. history'.applied = t /\ history'.disturbed = h.disturbed /\ history'.last = l
    BY <1>9 DEF HistoryIs, t
  <2>4. CASE x.seen # cur
    BY <1>9, <2>3, <2>4, LastNone
  <2>5. CASE x.seen = cur
    <3>1. PICK b : b = cur
      OBVIOUS
    <3>2. PICK k : k = id
      OBVIOUS
    <3>3. history'.last.row = k /\ history'.last.before = b
      BY <1>9, <2>3, <2>5, <3>1, <3>2
    <3>4. PICK d : d = r
      OBVIOUS
    <3>5. d = Outcome(Action(k), b, b) /\ d.ok
      BY <1>9, <2>5, <3>1, <3>2, <3>4
    <3>6. history'.applied[k] # 0 /\ cur' = d.cur /\ y.undo = d.undo
      BY <1>7, <2>1, <2>2, <2>3, <3>2, <3>4
    <3> QED
      BY <1>1, <2>1, <2>3, <3>1, <3>2, <3>3, <3>5, <3>6, LastWritten
  <2> QED
    BY <2>4, <2>5
<1> QED
  BY <1>7, <1>8, <1>9

LEMMA LastUndoWrite ==
    ASSUME LogInv, LastInv, NEW w \in Workers, UndoWrite(w)
    PROVE  LastInv'
<1> DEFINE x == workers[w]
           h == history
<1>1. /\ Shapes /\ x.pc = "undoWrite" /\ log' = log /\ script' = script
  BY DEF LogInv, UndoWrite
<1>2. Row(w).id \in Rows
  BY <1>1, BusyServes, QueueOf
<1>3. \/ history'.last = NoRow
      \/ /\ AfterAdvance(w) /\ cur' = cur /\ history'.last = h.last
         /\ history'.applied = h.applied /\ history'.disturbed = h.disturbed
  BY <1>1, <1>2, UndoWriteDoes DEF HistoryIs
<1>4. CASE /\ AfterAdvance(w) /\ cur' = cur /\ history'.last = h.last
           /\ history'.applied = h.applied /\ history'.disturbed = h.disturbed
  <2>1. Rows' = Rows
    BY <1>1 DEF Rows
  <2>2. \A id, u : Traced(id, u) => Traced(id, u)'
    BY <1>1, <1>4, RefusedTrace
  <2> QED
    BY <1>1, <1>4, <2>1, <2>2, AlikeSelf, LastOn
<1> QED
  BY <1>3, <1>4, LastNone

LEMMA LastStop ==
    ASSUME LogInv, LastInv, NEW w \in Workers, Stop(w)
    PROVE  LastInv'
<1> DEFINE h == history
           x == workers[w]
<1>1. /\ Shapes /\ x.pc # "idle" /\ log' = log /\ script' = script /\ cur' = cur
      /\ workers' = [workers EXCEPT ![w] = Idle]
  BY DEF LogInv, Stop, Busy
<1>2. Others(w) /\ workers'[w] = Idle
  BY <1>1, WorkerSet DEF Others
<1>3. /\ history'.disturbed = h.disturbed \cup {Row(w).id}
      /\ history'.applied = h.applied /\ history'.last = h.last
  BY <1>1 DEF Stop, Shapes, HistoryShape
<1>4. Rows' = Rows
  BY <1>1 DEF Rows
<1>5. ASSUME NEW id, NEW u, id \notin history'.disturbed, Traced(id, u) PROVE Traced(id, u)'
  <2>1. Row(w).id = x.queue[1].id
    BY <1>1, BusyServes, QueueOf
  <2>2. ~ Executes(x, id)
    BY <1>3, <1>5, <2>1 DEF Executes, QueuedAt, Knows, Known, Traced
  <2>3. Knows(workers'[w], id, u)
    BY <1>2, IdleQueue DEF Knows, QueuedAt
  <2>4. Recorded(id, u)'
    BY <1>1, <1>2, <1>5, <2>2, RecordedStays DEF Traced
  <2> QED
    BY <1>2, <1>5, <2>3, <2>4, TracedBy
<1> QED
  BY <1>1, <1>3, <1>4, <1>5, AlikeSelf, LastOn

LEMMA LastBreaks ==
    ASSUME LogInv, NEW w \in Workers, WriteBreaks(w) \/ UndoBreaks(w)
    PROVE  LastInv'
<1>1. Shapes /\ history' = Halved(Row(w).id)
  BY DEF LogInv, WriteBreaks, UndoBreaks
<1> QED
  BY <1>1, HalvedFields, LastNone

LEMMA LastStep == LogInv /\ StateInv /\ LastInv /\ [Next]_vars => LastInv'
<1> SUFFICES ASSUME LogInv, StateInv, LastInv, [Next]_vars PROVE LastInv'
  OBVIOUS
<1>1. CASE UNCHANGED vars
  BY <1>1, LastNothing DEF vars
<1>2. CASE Next
  <2>1. PICK w \in Workers :
        \/ \E r \in Requests : Dispatch(w, r)
        \/ \E id \in Rows : Approve(w, id) \/ Reject(w, id) \/ Undo(w, id)
        \/ ApproveAll(w) \/ RejectAll(w) \/ UndoAll(w)
        \/ Looks(w) \/ Write(w) \/ RecordResult(w) \/ SetRejected(w) \/ UndoWrite(w)
        \/ SetUndone(w) \/ WriteBreaks(w) \/ UndoBreaks(w) \/ Stop(w)
    BY <1>2 DEF Next, Looks
  <2> QED
    BY <2>1, LastDispatch, LastReview, LastRead, LastWrite, LastRecord, LastUndoWrite, LastBreaks,
       LastStop
<1> QED
  BY <1>1, <1>2

(* Only the undo of a row that is carried out takes it back.               *)
LEMMA TakenBack ==
    ASSUME LogInv, [Next]_vars, NEW id \in Rows, history'.undone[id] > history.undone[id]
    PROVE  \E w \in Workers :
              /\ UndoWrite(w) /\ Row(w).id = id
              /\ ApplyUndo(Row(w).undo, workers[w].seen, cur).ok
<1> DEFINE h == history
<1>1. Shapes /\ h.undone[id] \in Nat
  BY DEF LogInv, Shapes, HistoryShape, Counts
<1>2. history'.undone[id] # h.undone[id]
  BY <1>1
<1>3. history' # history /\ \E w \in Workers :
        \/ \E r \in Requests : Dispatch(w, r)
        \/ \E k \in Rows : Approve(w, k) \/ Reject(w, k) \/ Undo(w, k)
        \/ ApproveAll(w) \/ RejectAll(w) \/ UndoAll(w)
        \/ Looks(w) \/ Write(w) \/ UndoWrite(w) \/ WriteBreaks(w) \/ UndoBreaks(w) \/ Stop(w)
  BY <1>2 DEF vars, Next, Looks, RecordResult, SetRejected, SetUndone
<1>4. PICK w \in Workers :
        \/ \E r \in Requests : Dispatch(w, r)
        \/ \E k \in Rows : Approve(w, k) \/ Reject(w, k) \/ Undo(w, k)
        \/ ApproveAll(w) \/ RejectAll(w) \/ UndoAll(w)
        \/ Looks(w) \/ Write(w) \/ UndoWrite(w) \/ WriteBreaks(w) \/ UndoBreaks(w) \/ Stop(w)
  BY <1>3
<1>5. ASSUME NEW r \in Requests, Dispatch(w, r) PROVE FALSE
  <2>1. ~ Logged(r)
    <3>1. CASE Logged(r)
      <4>1. log' = log
        BY <1>5, <3>1 DEF InsertAction, Dispatch
      <4> QED
        BY <1>3, <1>5, <4>1 DEF Dispatch
    <3> QED
      BY <3>1
  <2>2. PICK n : n = Len(log) + 1
    OBVIOUS
  <2>3. PICK u : u = Append(h.undone, 0)
    OBVIOUS
  <2>4. \E a, D, o : HistoryIs(a, u, D, o, h.order, h.outOfOrder, h.torn, h.last)
    BY <1>5, <2>1, <2>2, <2>3, DispatchDoes
  <2>5. history'.undone = u
    BY <2>4 DEF HistoryIs
  <2>6. u[id] = h.undone[id]
    BY <1>1, <2>3, CountsAre, SeqAppend, RowsAre DEF Counts, Shapes
  <2> QED
    BY <1>2, <2>5, <2>6
<1>6. ASSUME \/ \E k \in Rows : Approve(w, k) \/ Reject(w, k) \/ Undo(w, k)
             \/ ApproveAll(w) \/ RejectAll(w) \/ UndoAll(w)
      PROVE  FALSE
  <2>1. PICK S : history' = Began(S)
    BY <1>6, ReviewDoes
  <2>2. history'.undone = h.undone
    BY <1>1, <2>1, BeganIs DEF HistoryIs
  <2> QED
    BY <1>2, <2>2
<1>7. ASSUME Write(w) PROVE FALSE
  <2>1. Row(w).id \in Rows
    BY <1>1, <1>7, BusyServes, QueueOf DEF Write
  <2>2. history'.undone = h.undone
    BY <1>1, <1>7, <2>1, WriteDoes DEF HistoryIs
  <2> QED
    BY <1>2, <2>2
<1>8. ASSUME Stop(w) PROVE FALSE
  <2>1. history'.undone = h.undone
    BY <1>1, <1>8 DEF Stop, Shapes, HistoryShape
  <2> QED
    BY <1>2, <2>1
<1>10. ASSUME Looks(w) PROVE FALSE
  <2>1. history'.undone = h.undone
    BY <1>10, LookSteps DEF SameButTorn
  <2> QED
    BY <1>2, <2>1
<1>11. ASSUME WriteBreaks(w) \/ UndoBreaks(w) PROVE FALSE
  <2>1. history' = Halved(Row(w).id)
    BY <1>11 DEF WriteBreaks, UndoBreaks
  <2>2. history'.undone = h.undone
    BY <1>1, <2>1, HalvedFields
  <2> QED
    BY <1>2, <2>2
<1>9. ASSUME UndoWrite(w)
      PROVE  Row(w).id = id /\ ApplyUndo(Row(w).undo, workers[w].seen, cur).ok
  <2> DEFINE k == Row(w).id
             r == ApplyUndo(Row(w).undo, workers[w].seen, cur)
  <2>1. k \in Rows
    BY <1>1, <1>9, BusyServes, QueueOf DEF UndoWrite
  <2>2. PICK t : t = [h.undone EXCEPT ![k] = @ + 1]
    OBVIOUS
  <2>3. history'.undone = h.undone \/ (r.ok /\ history'.undone = t)
    BY <1>1, <1>9, <2>1, <2>2, UndoWriteDoes DEF HistoryIs
  <2>4. k # id => t[id] = h.undone[id]
    BY <1>1, <2>2, CountsAre, RowsAre, SeqFacts DEF Counts, Shapes
  <2> QED
    BY <1>2, <2>3, <2>4
<1> QED
  BY <1>4, <1>5, <1>6, <1>7, <1>8, <1>9, <1>10, <1>11

LEMMA UndoPutsBack ==
    ASSUME LogInv, StateInv, LastInv, [Next]_vars, NEW id \in DOMAIN history.undone,
           history'.undone[id] > history.undone[id],
           history.last.row = id, id \notin history.disturbed,
           ~ Inexact(Action(id), history.last.before)
    PROVE  [cur' EXCEPT !.nextId = 0] = [history.last.before EXCEPT !.nextId = 0]
<1>1. Shapes /\ Counts(history.undone)
  BY CountsAre DEF LogInv
<1>2. id \in Rows /\ id # 0
  BY <1>1, RowsAre, SeqFacts DEF Counts, Shapes
<1>3. PICK w \in Workers :
              /\ UndoWrite(w) /\ Row(w).id = id
              /\ ApplyUndo(Row(w).undo, workers[w].seen, cur).ok
  BY <1>2, TakenBack
<1> DEFINE x == workers[w]
           u == Row(w).undo
           q == ApplyUndo(u, x.seen, cur)
<1>4. x.pc = "undoWrite" /\ cur' = q.cur
  BY <1>3 DEF UndoWrite
<1>5. Serves(x, Rows)
  BY <1>4, BusyServes
<1>6. x.op = "undo" /\ x.queue # <<>> /\ IsSeq(x.queue) /\ 1 \in 1..Len(x.queue)
  BY <1>1, <1>4, <1>5, QueueOf DEF Serves, PcFits
<1>7. Row(w) = x.queue[1]
  BY <1>6, SeqTail DEF Row
<1>8. PICK b : b = history.last.before
  OBVIOUS
<1>9. PICK r : r = Outcome(Action(id), b, b)
  OBVIOUS
<1>10. LastHolds(id, b)
  BY <1>2, <1>8 DEF LastInv
<1>11. /\ WellFormed(b) /\ r.ok /\ Alike(cur, r.cur)
       /\ \A v \in Workers : Knows(workers[v], id, r.undo)
  BY <1>9, <1>10 DEF LastHolds, Traced
<1>12. u = r.undo
  BY <1>3, <1>6, <1>7, <1>11 DEF Knows, Known
<1>13. u # NoUndo /\ UndoFits(u, cur.nextId) /\ WellFormed(cur)
  BY <1>6, <1>7 DEF StateInv, WorkerFits
<1>14. WellFormed(q.cur)
  BY <1>13, UndoKeeps
<1>15. Action(id).kind \in Kinds
  BY <1>1, <1>2 DEF StateInv, Action, Shapes, RowShape
<1>16. q.ok /\ q = ApplyUndo(r.undo, x.seen, cur)
  BY <1>3, <1>12
<1>17. Alike(q.cur, b)
  BY <1>8, <1>9, <1>11, <1>12, <1>13, <1>15, <1>16, OutcomeBack
<1> HIDE DEF q
<1>18. IsState(q.cur) /\ IsState(b)
  BY <1>11, <1>14 DEF WellFormed
<1>19. [q.cur EXCEPT !.nextId = 0] = [b EXCEPT !.nextId = 0]
  BY <1>17, <1>18, SameButCounter DEF Alike, SameRest
<1> QED
  BY <1>4, <1>8, <1>19

LEMMA InitLast == Init => LastInv
BY DEF Init, LastInv, NoRow

(* Whatever kind an action is, its undo puts back what was there before it *)
(* when nothing was changed in between and no two requests had its row at  *)
(* once; the aliases a definition added and a target suppressed twice are  *)
(* excepted.  (UndoIsExact of action_log.)                                 *)
THEOREM UndosAreExact == Spec => UndoIsExact
<1> DEFINE Inv == LogInv /\ StateInv /\ SnapInv /\ LastInv
<1>1. Init => Inv
  BY InitLog, InitFits, InitLast
<1>2. Inv /\ [Next]_vars => Inv'
  BY LogStep, FitStep, LastStep
<1>3. Inv /\ [Next]_vars =>
      [\A id \in DOMAIN history.undone :
          /\ history'.undone[id] > history.undone[id]
          /\ history.last.row = id /\ id \notin history.disturbed
          /\ ~ Inexact(Action(id), history.last.before)
          => [cur' EXCEPT !.nextId = 0] = [history.last.before EXCEPT !.nextId = 0]]_vars
  BY UndoPutsBack
<1> QED
  BY <1>1, <1>2, <1>3, PTL DEF Spec, UndoIsExact

----------------------------------------------------------------------------
(* The places of the vocabulary: what of its entries the rules are about,  *)
(* and the rules for them.                                                 *)
Place(e) == [id |-> e.id, kind |-> e.kind, parent |-> e.parent, name |-> e.name]
Places(c) == {Place(e) : e \in c.vocab}

LevelOf(P, kind, parent) == {p \in P : p.kind = kind /\ p.parent = parent}
HasParent(P, p) == p.parent = 0 \/ \E q \in P : q.id = p.parent /\ q.kind = ParentKind(p.kind)
Spelt(P, p) == \A q \in LevelOf(P, p.kind, p.parent) : SameWord(q.name, p.name) => q = p

Unique(P) ==
    /\ \A p, q \in P : p.id = q.id => p = q
    /\ \A p, q \in P : p.kind = q.kind /\ p.parent = q.parent /\ p.name = q.name => p = q

Rules(P, renamed) ==
    /\ IsFiniteSet(P) /\ Unique(P)
    /\ \A p \in P : /\ p = Place(p) /\ p.kind \in VocabKinds
                    /\ HasParent(P, p)
                    /\ Cardinality(LevelOf(P, p.kind, p.parent)) <= Cap(p.kind)
                    /\ renamed \/ Spelt(P, p)

LEMMA SameSize ==
    ASSUME NEW S, NEW T, NEW f \in [S -> T], IsFiniteSet(S),
           \A x, y \in S : f[x] = f[y] => x = y, \A t \in T : \E x \in S : f[x] = t
    PROVE  IsFiniteSet(T) /\ Cardinality(T) = Cardinality(S)
<1>1. f \in Bijection(S, T)
  BY DEF Bijection, Injection, IsInjective, Surjection
<1> QED
  BY <1>1, FS_Bijection DEF ExistsBijection

LEMMA PlaceIs ==
    ASSUME NEW e
    PROVE  /\ Place(e).id = e.id /\ Place(e).kind = e.kind /\ Place(e).parent = e.parent
           /\ Place(e).name = e.name /\ Place(Place(e)) = Place(e)
BY DEF Place

LEMMA PlaceOf ==
    ASSUME NEW c, NEW p \in Places(c)
    PROVE  \E e \in c.vocab : /\ p = Place(e) /\ p = Place(p) /\ p.id = e.id /\ p.kind = e.kind
                              /\ p.parent = e.parent /\ p.name = e.name
<1>1. PICK e \in c.vocab : p = Place(e)
  BY DEF Places
<1> QED
  BY <1>1, PlaceIs

LEMMA LevelPlaces ==
    ASSUME NEW c, WellFormed(c), NEW kind, NEW parent
    PROVE  /\ IsFiniteSet(Level(c, kind, parent))
           /\ IsFiniteSet(LevelOf(Places(c), kind, parent))
           /\ Cardinality(LevelOf(Places(c), kind, parent)) = Cardinality(Level(c, kind, parent))
<1> DEFINE S == Level(c, kind, parent)
           T == LevelOf(Places(c), kind, parent)
           f == [e \in S |-> Place(e)]
<1>1. IsFiniteSet(S)
  <2>1. S \in SUBSET c.vocab
    BY DEF Level
  <2> HIDE DEF S
  <2> QED
    BY <2>1, FS_Subset DEF WellFormed, VocabularyKept
<1>2. f \in [S -> T]
  BY PlaceIs DEF Level, LevelOf, Places
<1>3. \A x, y \in S : f[x] = f[y] => x = y
  <2>1. \A x, y \in S : x.id = y.id => x = y
    BY DEF Level, WellFormed, VocabularyKept, Keys
  <2> QED
    BY <2>1, PlaceIs
<1>4. \A t \in T : \E x \in S : f[x] = t
  <2> SUFFICES ASSUME NEW t \in T PROVE \E x \in S : f[x] = t
    OBVIOUS
  <2>1. t \in Places(c) /\ t.kind = kind /\ t.parent = parent
    BY DEF LevelOf
  <2>2. PICK e \in c.vocab : t = Place(e) /\ t.kind = e.kind /\ t.parent = e.parent
    BY <2>1, PlaceOf
  <2>3. e \in S
    BY <2>1, <2>2 DEF Level
  <2> QED
    BY <2>2, <2>3
<1> HIDE DEF S, T, f
<1>5. IsFiniteSet(T) /\ Cardinality(T) = Cardinality(S)
  BY <1>1, <1>2, <1>3, <1>4, SameSize
<1> QED
  BY <1>1, <1>5 DEF S, T

LEMMA PlacesUnique ==
    ASSUME NEW c, WellFormed(c)
    PROVE  IsFiniteSet(Places(c)) /\ Unique(Places(c))
<1>1. /\ \A x, y \in c.vocab : x.id = y.id => x = y
      /\ \A x, y \in c.vocab : x.kind = y.kind /\ x.parent = y.parent /\ x.name = y.name => x = y
      /\ IsFiniteSet(c.vocab)
  BY DEF WellFormed, VocabularyKept, Keys
<1>2. IsFiniteSet(Places(c))
  <2> DEFINE S == c.vocab
             T == Places(c)
             f == [e \in S |-> Place(e)]
  <2>1. f \in [S -> T] /\ \A t \in T : \E x \in S : f[x] = t
    BY DEF Places
  <2>2. \A x, y \in S : f[x] = f[y] => x = y
    BY <1>1, PlaceIs
  <2> HIDE DEF S, T, f
  <2>3. IsFiniteSet(T)
    BY <1>1, <2>1, <2>2, SameSize DEF S
  <2> QED
    BY <2>3 DEF T
<1>3. ASSUME NEW p \in Places(c), NEW q \in Places(c),
             p.id = q.id \/ (p.kind = q.kind /\ p.parent = q.parent /\ p.name = q.name)
      PROVE  p = q
  <2>1. PICK x \in c.vocab : p = Place(x) /\ p.id = x.id /\ p.kind = x.kind /\ p.parent = x.parent
                             /\ p.name = x.name
    BY PlaceOf
  <2>2. PICK y \in c.vocab : q = Place(y) /\ q.id = y.id /\ q.kind = y.kind /\ q.parent = y.parent
                             /\ q.name = y.name
    BY PlaceOf
  <2>3. x = y
    BY <1>1, <1>3, <2>1, <2>2
  <2> QED
    BY <2>1, <2>2, <2>3
<1> QED
  BY <1>2, <1>3 DEF Unique

LEMMA RulesSound ==
    ASSUME NEW c, WellFormed(c), NEW renamed, Rules(Places(c), renamed)
    PROVE  Sound(c, renamed)
<1> SUFFICES ASSUME NEW e \in c.vocab
             PROVE  /\ MayPlace(c, e.kind, e.parent)
                    /\ Cardinality(Level(c, e.kind, e.parent)) <= Cap(e.kind)
                    /\ renamed \/ \A o \in Level(c, e.kind, e.parent) : SameWord(o.name, e.name) => o = e
  BY DEF Sound
<1> DEFINE p == Place(e)
           P == Places(c)
<1>1. p \in P /\ p.id = e.id /\ p.kind = e.kind /\ p.parent = e.parent /\ p.name = e.name
  BY PlaceIs DEF Places
<1> HIDE DEF p, P
<1>2. /\ HasParent(P, p) /\ Cardinality(LevelOf(P, p.kind, p.parent)) <= Cap(p.kind)
      /\ renamed \/ Spelt(P, p)
  BY <1>1 DEF Rules, P
<1>3. MayPlace(c, e.kind, e.parent)
  <2>1. CASE e.parent = 0
    BY <2>1 DEF MayPlace
  <2>2. CASE e.parent # 0
    <3>1. PICK q \in P : q.id = e.parent /\ q.kind = ParentKind(e.kind)
      BY <1>1, <1>2, <2>2 DEF HasParent
    <3>2. PICK o \in c.vocab : q.id = o.id /\ q.kind = o.kind
      BY PlaceOf DEF P
    <3> QED
      BY <3>1, <3>2 DEF MayPlace, ById
  <2> QED
    BY <2>1, <2>2
<1>4. Cardinality(Level(c, e.kind, e.parent)) <= Cap(e.kind)
  BY <1>1, <1>2, LevelPlaces DEF P
<1>5. ASSUME ~ renamed, NEW o \in Level(c, e.kind, e.parent), SameWord(o.name, e.name)
      PROVE  o = e
  <2> DEFINE q == Place(o)
  <2>1. q \in P /\ q.id = o.id /\ q.kind = o.kind /\ q.parent = o.parent /\ q.name = o.name
    BY <1>5, PlaceIs DEF P, Places, Level
  <2> HIDE DEF q
  <2>2. q \in LevelOf(P, p.kind, p.parent) /\ SameWord(q.name, p.name)
    BY <1>1, <1>5, <2>1 DEF LevelOf, Level
  <2>3. q = p
    BY <1>2, <1>5, <2>2 DEF Spelt
  <2> QED
    BY <1>1, <1>5, <2>1, <2>3 DEF Level, WellFormed, VocabularyKept, Keys
<1> QED
  BY <1>3, <1>4, <1>5

LEMMA SoundRules ==
    ASSUME NEW c, WellFormed(c), NEW renamed, Sound(c, renamed),
           \A e \in c.vocab : e.kind \in VocabKinds
    PROVE  Rules(Places(c), renamed)
<1> DEFINE P == Places(c)
<1>1. IsFiniteSet(P) /\ Unique(P)
  BY PlacesUnique
<1>2. ASSUME NEW p \in P
      PROVE  /\ p = Place(p) /\ p.kind \in VocabKinds
             /\ HasParent(P, p)
             /\ Cardinality(LevelOf(P, p.kind, p.parent)) <= Cap(p.kind)
             /\ renamed \/ Spelt(P, p)
  <2>1. PICK e \in c.vocab : /\ p = Place(e) /\ p = Place(p) /\ p.id = e.id /\ p.kind = e.kind
                             /\ p.parent = e.parent /\ p.name = e.name
    BY PlaceOf
  <2>2. /\ MayPlace(c, e.kind, e.parent)
        /\ Cardinality(Level(c, e.kind, e.parent)) <= Cap(e.kind)
        /\ renamed \/ \A o \in Level(c, e.kind, e.parent) : SameWord(o.name, e.name) => o = e
    BY DEF Sound
  <2>3. HasParent(P, p)
    <3>1. CASE e.parent = 0
      BY <2>1, <3>1 DEF HasParent
    <3>2. CASE e.parent # 0
      <4>1. PICK o \in c.vocab : o.id = e.parent /\ o.kind = ParentKind(e.kind)
        BY <2>2, <3>2 DEF MayPlace, ById
      <4>2. Place(o) \in P
        BY DEF Places
      <4> QED
        BY <2>1, <4>1, <4>2, PlaceIs DEF HasParent
    <3> QED
      BY <3>1, <3>2
  <2>4. Cardinality(LevelOf(P, p.kind, p.parent)) <= Cap(p.kind)
    BY <2>1, <2>2, LevelPlaces
  <2>5. ASSUME ~ renamed, NEW q \in LevelOf(P, p.kind, p.parent), SameWord(q.name, p.name)
        PROVE  q = p
    <3>1. q \in P /\ q.kind = p.kind /\ q.parent = p.parent
      BY <2>5 DEF LevelOf
    <3> HIDE DEF P
    <3>2. PICK o \in c.vocab : q = Place(o) /\ q.kind = o.kind /\ q.parent = o.parent /\ q.name = o.name
      BY <3>1, PlaceOf DEF P
    <3>3. o \in Level(c, e.kind, e.parent) /\ SameWord(o.name, e.name)
      BY <2>1, <2>5, <3>1, <3>2 DEF Level
    <3> QED
      BY <2>1, <2>2, <2>5, <3>2, <3>3
  <2> QED
    BY <2>1, <2>3, <2>4, <2>5 DEF Spelt
<1> HIDE DEF P
<1>3. Rules(P, renamed)
  BY <1>1, <1>2 DEF Rules
<1> QED
  BY <1>3 DEF P

LEMMA PlacesPut ==
    ASSUME NEW c, NEW d, NEW e, d.vocab = Replaced(c.vocab, e)
    PROVE  Places(d) = {p \in Places(c) : p.id # e.id} \cup {Place(e)}
<1>1. \A o \in c.vocab : Place(o).id = o.id
  BY PlaceIs
<1> HIDE DEF Replaced
<1>2. Places(d) = {Place(o) : o \in Replaced(c.vocab, e)}
  BY DEF Places
<1>3. {Place(o) : o \in Replaced(c.vocab, e)} = {p \in Places(c) : p.id # e.id} \cup {Place(e)}
  BY <1>1 DEF Places, Replaced
<1> QED
  BY <1>2, <1>3

LEMMA PlacesDrop ==
    ASSUME NEW c, NEW d, NEW ids, d.vocab = Without(c.vocab, ids)
    PROVE  Places(d) = {p \in Places(c) : p.id \notin ids}
<1>1. \A o \in c.vocab : Place(o).id = o.id
  BY PlaceIs
<1>2. Places(d) = {Place(o) : o \in Without(c.vocab, ids)}
  BY DEF Places
<1>3. {Place(o) : o \in Without(c.vocab, ids)} = {p \in Places(c) : p.id \notin ids}
  BY <1>1 DEF Places, Without
<1> QED
  BY <1>2, <1>3

(* An entry changed where it stands.                                       *)
LEMMA PlacesStay ==
    ASSUME NEW c, WellFormed(c), NEW p \in c.vocab, NEW e, e.id = p.id, e.kind = p.kind,
           e.parent = p.parent, e.name = p.name, NEW d, d.vocab = Replaced(c.vocab, e)
    PROVE  Places(d) = Places(c)
<1>1. Place(e) = Place(p) /\ Place(p) \in Places(c)
  BY DEF Place, Places
<1>2. Places(d) = {q \in Places(c) : q.id # e.id} \cup {Place(e)}
  BY PlacesPut
<1>3. \A q \in Places(c) : q.id = e.id => q = Place(p)
  BY <1>1, PlacesUnique, PlaceIs DEF Unique
<1> QED
  BY <1>1, <1>2, <1>3

----------------------------------------------------------------------------
(* Additions, renamings and removals that keep the rules.                  *)
LEMMA CapIs == \A kind : Cap(kind) \in Nat
BY ActionLogAssumption DEF Cap

LEMMA RulesAdd ==
    ASSUME NEW P, NEW renamed, Rules(P, renamed), NEW p, p = Place(p), p.kind \in VocabKinds,
           HasParent(P, p), \A q \in P : q.id # p.id,
           \A q \in LevelOf(P, p.kind, p.parent) : ~ SameWord(q.name, p.name),
           Cardinality(LevelOf(P, p.kind, p.parent)) < Cap(p.kind)
    PROVE  Rules(P \cup {p}, renamed)
<1> DEFINE Q == P \cup {p}
<1>1. IsFiniteSet(Q)
  BY FS_AddElement DEF Rules
<1>2. Unique(Q)
  <2>1. \A q \in P : ~ (q.kind = p.kind /\ q.parent = p.parent /\ q.name = p.name)
    BY DEF LevelOf, SameWord
  <2> QED
    BY <2>1 DEF Rules, Unique
<1>3. ASSUME NEW q \in Q
      PROVE  /\ q = Place(q) /\ q.kind \in VocabKinds /\ HasParent(Q, q)
             /\ Cardinality(LevelOf(Q, q.kind, q.parent)) <= Cap(q.kind)
             /\ renamed \/ Spelt(Q, q)
  <2>1. q = Place(q) /\ q.kind \in VocabKinds /\ HasParent(Q, q)
    BY DEF Rules, HasParent
  <2> DEFINE L == LevelOf(P, q.kind, q.parent)
             M == LevelOf(Q, q.kind, q.parent)
  <2>2. IsFiniteSet(L) /\ Cardinality(L) \in Nat /\ Cap(q.kind) \in Nat
    <3>1. L \in SUBSET P
      BY DEF LevelOf
    <3> HIDE DEF L
    <3> QED
      BY <3>1, FS_Subset, FS_CardinalityType, CapIs DEF Rules
  <2>3. CASE q.kind = p.kind /\ q.parent = p.parent
    <3>1. M = L \cup {p} /\ Cardinality(L) < Cap(q.kind)
      BY <2>3 DEF LevelOf
    <3>2. Cardinality(M) <= Cardinality(L) + 1 /\ Cardinality(M) \in Nat
      <4> HIDE DEF L, M
      <4>1. Cardinality(L \cup {p}) = IF p \in L THEN Cardinality(L) ELSE Cardinality(L) + 1
        BY <2>2, FS_AddElement
      <4> QED
        BY <2>2, <3>1, <4>1
    <3>3. Cardinality(M) <= Cap(q.kind)
      <4> HIDE DEF L, M
      <4> QED
        BY <2>2, <3>1, <3>2
    <3>4. renamed \/ Spelt(Q, q)
      <4> SUFFICES ASSUME ~ renamed, NEW o \in M, SameWord(o.name, q.name) PROVE o = q
        BY DEF Spelt
      <4>1. \A x \in P : x.kind = p.kind /\ x.parent = p.parent => ~ SameWord(x.name, p.name)
                                                               /\ ~ SameWord(p.name, x.name)
        BY DEF LevelOf, SameWord
      <4>2. CASE q \in P /\ o \in P
        <5>1. o \in LevelOf(P, q.kind, q.parent) /\ Spelt(P, q)
          BY <4>2 DEF LevelOf, Rules
        <5> QED
          BY <5>1 DEF Spelt
      <4>3. CASE q = p \/ o = p
        BY <2>3, <4>1, <4>3 DEF LevelOf
      <4> QED
        BY <4>2, <4>3 DEF LevelOf
    <3> QED
      BY <2>1, <3>3, <3>4
  <2>4. CASE ~ (q.kind = p.kind /\ q.parent = p.parent)
    <3>1. M = L /\ q \in P
      BY <2>4 DEF LevelOf
    <3>2. Cardinality(L) <= Cap(q.kind) /\ (renamed \/ Spelt(P, q))
      BY <3>1 DEF Rules
    <3> QED
      BY <2>1, <3>1, <3>2 DEF Spelt
  <2> QED
    BY <2>3, <2>4
<1> QED
  BY <1>1, <1>2, <1>3 DEF Rules

Called(p, name) == [id |-> p.id, kind |-> p.kind, parent |-> p.parent, name |-> name]

LEMMA CalledIs ==
    ASSUME NEW p, NEW n
    PROVE  /\ Called(p, n).id = p.id /\ Called(p, n).kind = p.kind /\ Called(p, n).parent = p.parent
           /\ Called(p, n).name = n /\ Called(p, n) = Place(Called(p, n))
           /\ Called(p, p.name) = Place(p)
BY DEF Called, Place

LEMMA RulesRename ==
    ASSUME NEW P, Rules(P, TRUE), NEW p \in P, NEW n,
           \A q \in LevelOf(P, p.kind, p.parent) : q.name = n => q = p
    PROVE  Rules({q \in P : q.id # p.id} \cup {Called(p, n)}, TRUE)
<1> DEFINE W == {q \in P : q.id # p.id}
           z == Called(p, n)
           Q == W \cup {z}
<1>1. /\ z.id = p.id /\ z.kind = p.kind /\ z.parent = p.parent /\ z.name = n /\ z = Place(z)
  BY CalledIs
<1> HIDE DEF z
<1>2. W = P \ {p}
  BY DEF Rules, Unique
<1>3. IsFiniteSet(Q)
  <2>1. IsFiniteSet(P \ {p})
    BY FS_RemoveElement DEF Rules
  <2> QED
    BY <1>2, <2>1, FS_AddElement
<1>4. Unique(Q)
  <2>1. \A q \in W : ~ (q.kind = z.kind /\ q.parent = z.parent /\ q.name = z.name)
    BY <1>1 DEF LevelOf
  <2> QED
    BY <1>1, <2>1 DEF Rules, Unique
<1>5. ASSUME NEW q \in Q
      PROVE  /\ q = Place(q) /\ q.kind \in VocabKinds /\ HasParent(Q, q)
             /\ Cardinality(LevelOf(Q, q.kind, q.parent)) <= Cap(q.kind)
  <2>1. PICK o \in P : q.kind = o.kind /\ q.parent = o.parent
    BY <1>1
  <2>2. q = Place(q) /\ q.kind \in VocabKinds
    BY <1>1, <2>1 DEF Rules
  <2>3. HasParent(Q, q)
    <3>1. HasParent(P, o)
      BY DEF Rules
    <3>2. \A x \in P : \E y \in Q : y.id = x.id /\ y.kind = x.kind
      BY <1>1, <1>2
    <3> QED
      BY <2>1, <3>1, <3>2 DEF HasParent
  <2> DEFINE L == LevelOf(P, q.kind, q.parent)
             M == LevelOf(Q, q.kind, q.parent)
  <2>4. IsFiniteSet(L) /\ Cardinality(L) \in Nat /\ Cap(q.kind) \in Nat /\ Cardinality(L) <= Cap(q.kind)
    <3>1. L \in SUBSET P
      BY DEF LevelOf
    <3>2. Cardinality(L) <= Cap(q.kind)
      BY <2>1 DEF Rules
    <3> HIDE DEF L
    <3> QED
      BY <3>1, <3>2, FS_Subset, FS_CardinalityType, CapIs DEF Rules
  <2>5. CASE q.kind = p.kind /\ q.parent = p.parent
    <3> DEFINE N == L \ {p}
    <3>1. M = N \cup {z} /\ p \in L
      BY <1>1, <1>2, <2>5 DEF LevelOf
    <3> HIDE DEF L, M
    <3>2. IsFiniteSet(N) /\ Cardinality(N) = Cardinality(L) - 1
      BY <2>4, <3>1, FS_RemoveElement
    <3> HIDE DEF N
    <3>3. Cardinality(M) <= Cardinality(N) + 1
      <4>1. Cardinality(N) \in Nat
        BY <3>2, FS_CardinalityType
      <4>2. Cardinality(N \cup {z}) = IF z \in N THEN Cardinality(N) ELSE Cardinality(N) + 1
        BY <3>2, FS_AddElement
      <4> QED
        BY <3>1, <4>1, <4>2
    <3>4. Cardinality(M) \in Nat
      BY <3>1, <3>2, FS_AddElement, FS_CardinalityType
    <3>5. Cardinality(M) <= Cap(q.kind)
      BY <2>4, <3>2, <3>3, <3>4
    <3> QED
      BY <2>2, <2>3, <3>5 DEF M
  <2>6. CASE ~ (q.kind = p.kind /\ q.parent = p.parent)
    <3>1. M = L
      BY <1>1, <1>2, <2>6 DEF LevelOf
    <3> QED
      BY <2>2, <2>3, <2>4, <3>1
  <2> QED
    BY <2>5, <2>6
<1>6. Rules(Q, TRUE)
  BY <1>3, <1>4, <1>5 DEF Rules
<1> QED
  BY <1>6 DEF z

LEMMA RulesRemove ==
    ASSUME NEW P, NEW renamed, Rules(P, renamed), NEW ids,
           \A p \in P : p.id \notin ids => p.parent = 0 \/ p.parent \notin ids
    PROVE  Rules({p \in P : p.id \notin ids}, renamed)
<1> DEFINE Q == {p \in P : p.id \notin ids}
<1>1. Q \in SUBSET P
  OBVIOUS
<1>2. IsFiniteSet(Q) /\ Unique(Q)
  <2>1. IsFiniteSet(Q)
    <3> HIDE DEF Q
    <3> QED
      BY <1>1, FS_Subset DEF Rules
  <2> QED
    BY <2>1 DEF Rules, Unique
<1>3. ASSUME NEW q \in Q
      PROVE  /\ q = Place(q) /\ q.kind \in VocabKinds /\ HasParent(Q, q)
             /\ Cardinality(LevelOf(Q, q.kind, q.parent)) <= Cap(q.kind)
             /\ renamed \/ Spelt(Q, q)
  <2>1. /\ q = Place(q) /\ q.kind \in VocabKinds /\ HasParent(P, q)
        /\ Cardinality(LevelOf(P, q.kind, q.parent)) <= Cap(q.kind)
        /\ renamed \/ Spelt(P, q)
    BY DEF Rules
  <2>2. HasParent(Q, q)
    BY <2>1 DEF HasParent
  <2> DEFINE L == LevelOf(P, q.kind, q.parent)
             M == LevelOf(Q, q.kind, q.parent)
  <2>3. L \in SUBSET P /\ M \in SUBSET L
    BY DEF LevelOf
  <2>4. renamed \/ Spelt(Q, q)
    BY <2>1, <2>3 DEF Spelt
  <2>5. Cardinality(L) <= Cap(q.kind)
    BY <2>1
  <2> HIDE DEF L, M, Q
  <2>6. IsFiniteSet(L) /\ IsFiniteSet(M) /\ Cardinality(M) <= Cardinality(L)
    BY <2>3, FS_Subset DEF Rules
  <2>7. Cardinality(L) \in Nat /\ Cardinality(M) \in Nat /\ Cap(q.kind) \in Nat
    BY <2>6, FS_CardinalityType, CapIs
  <2>8. Cardinality(M) <= Cap(q.kind)
    BY <2>5, <2>6, <2>7
  <2> QED
    BY <2>1, <2>2, <2>4, <2>8 DEF M
<1> HIDE DEF Q
<1>4. Rules(Q, renamed)
  BY <1>2, <1>3 DEF Rules
<1> QED
  BY <1>4 DEF Q

LEMMA RulesLater ==
    ASSUME NEW P, NEW a, NEW b, Rules(P, a), a => b
    PROVE  Rules(P, b)
BY DEF Rules

(* What undoing u makes of the places P, if it is not refused.             *)
Undone(u, P) ==
    IF u.op = "restore"
    THEN IF u.created THEN {p \in P : p.id # u.id}
         ELSE {IF p.id = u.id THEN Called(p, u.name) ELSE p : p \in P}
    ELSE IF u.op = "recreate" THEN P \cup {Place(u.rows[i]) : i \in 1..Len(u.rows)}
    ELSE P

(* The outcome r of an action keeps the rules, and its undo leads back.    *)
Leads(P, r, renamed) ==
    Rules(Places(r.cur), renamed) /\ Undone(r.undo, Places(r.cur)) = P

LEMMA LeadsSame ==
    ASSUME NEW c, NEW renamed, Rules(Places(c), renamed), NEW r, Places(r.cur) = Places(c),
           r.undo.op # "restore" /\ r.undo.op # "recreate"
    PROVE  Leads(Places(c), r, renamed)
BY DEF Leads, Undone

LEMMA LeadsRestored ==
    ASSUME NEW c, NEW renamed, Rules(Places(c), renamed), NEW r, Places(r.cur) = Places(c),
           r.undo.op = "restore", r.undo.created = FALSE,
           NEW p \in Places(c), r.undo.id = p.id, r.undo.name = p.name
    PROVE  Leads(Places(c), r, renamed)
<1> DEFINE P == Places(c)
           u == r.undo
<1>1. \A q \in P : (IF q.id = u.id THEN Called(q, u.name) ELSE q) = q
  BY CalledIs DEF Rules, Unique
<1>2. Undone(u, P) = {IF q.id = u.id THEN Called(q, u.name) ELSE q : q \in P}
  BY DEF Undone
<1> HIDE DEF P, u
<1>3. {IF q.id = u.id THEN Called(q, u.name) ELSE q : q \in P} = P
  BY <1>1
<1> QED
  BY <1>2, <1>3 DEF Leads, P, u

LEMMA DefineLeads ==
    ASSUME NEW b, WellFormed(b), NEW a, a.vocab \in VocabKinds, NEW r, r = Define(a, b, b), r.ok,
           NEW renamed, Rules(Places(b), renamed)
    PROVE  Leads(Places(b), r, renamed)
<1> DEFINE level == Level(b, a.vocab, a.parent)
           previous == {e \in level : SameWord(e.name, a.name)}
           first == CHOOSE e \in previous : \A o \in previous : e.id <= o.id
           stored == IF previous = {} THEN a.name ELSE first.name
           up == Upsert(b, a, stored)
           e == up.row
           x == e.aliases \cup a.aliases
           f == [e EXCEPT !.aliases = x]
           d == Put(up.cur, AppendAliases(e, a.aliases))
           hit == Named(b, a.vocab, a.parent, stored)
           P == Places(b)
           u == [op |-> "restore", id |-> e.id, created |-> previous = {},
                 name |-> IF previous = {} THEN NoName ELSE first.name,
                 descr |-> IF previous = {} THEN None ELSE first.descr]
<1>1. r = Done(d, u) /\ MayPlace(b, a.vocab, a.parent) /\ MayJoin(a.vocab, a.name, level)
  <2>1. r # Failed(b)
    BY DEF Failed
  <2> QED
    BY <2>1 DEF Define
<1>2. r.cur = d /\ r.undo = u
  <2> HIDE DEF d, u
  <2> QED
    BY <1>1 DEF Done
<1>3. u.op = "restore" /\ u.id = e.id /\ u.created = (previous = {})
      /\ (previous # {} => u.name = first.name)
  OBVIOUS
<1> HIDE DEF u
<1>4. /\ up.cur.vocab = Replaced(b.vocab, e) /\ IsState(up.cur)
      /\ hit = {} => e = Entry(b.nextId, a.vocab, a.parent, stored, a.descr)
      /\ \A o : hit = {o} => e = [o EXCEPT !.descr = Coalesce(a.descr, o.descr)]
  <2> HIDE DEF up, hit, stored
  <2> QED
    BY UpsertOnly DEF up, hit
<1>5. IsEntry(e)
  <2> HIDE DEF up, stored
  <2> QED
    BY UpsertKeeps DEF up
<1> HIDE DEF up, stored, hit
<1>6. d.vocab = Replaced(Replaced(b.vocab, e), f) /\ Place(f) = Place(e) /\ f.id = e.id
  <2>1. AppendAliases(e, a.aliases) = f
    BY DEF AppendAliases
  <2>2. d.vocab = Replaced(up.cur.vocab, f)
    BY <1>4, <2>1, PutOnly
  <2>3. EntryIs(f, e.id, e.kind, e.parent, e.name, e.descr, e.frozen, x)
    <3> HIDE DEF e, x
    <3> QED
      BY <1>5, EntryExcept DEF EntryIs
  <2> HIDE DEF f, d
  <2>4. f.id = e.id /\ f.kind = e.kind /\ f.parent = e.parent /\ f.name = e.name
    BY <2>3, EntryParts
  <2> QED
    BY <1>4, <2>2, <2>4 DEF Place
<1>7. Places(d) = {p \in P : p.id # e.id} \cup {Place(e)}
  <2>1. Places(up.cur) = {p \in P : p.id # e.id} \cup {Place(e)}
    BY <1>4, PlacesPut
  <2>2. d.vocab = Replaced(up.cur.vocab, f)
    BY <1>4, <1>6
  <2> HIDE DEF d, f
  <2>3. Places(d) = {p \in Places(up.cur) : p.id # f.id} \cup {Place(f)}
    BY <2>2, PlacesPut
  <2>4. Place(e).id = e.id
    BY PlaceIs
  <2> HIDE DEF P
  <2> QED
    BY <1>6, <2>1, <2>3, <2>4
<1> HIDE DEF d, f, x
<1>8. CASE previous = {}
  <2> DEFINE p == Place(e)
  <2>1. hit = {}
    BY <1>8 DEF hit, Named, stored, SameWord
  <2>2. /\ e.id = b.nextId /\ e.kind = a.vocab /\ e.parent = a.parent /\ e.name = a.name
    BY <1>4, <1>8, <2>1 DEF Entry, stored
  <2>3. /\ p.id = b.nextId /\ p.kind = a.vocab /\ p.parent = a.parent /\ p.name = a.name
        /\ p = Place(p)
    BY <2>2, PlaceIs
  <2>4. \A q \in P : q.id # p.id
    <3>1. \A o \in b.vocab : o.id # b.nextId
      BY DEF WellFormed, VocabularyKept, Keys
    <3> HIDE DEF p
    <3> QED
      BY <2>3, <3>1, PlaceOf
  <2>5. HasParent(P, p)
    <3>1. CASE a.parent = 0
      BY <2>3, <3>1 DEF HasParent
    <3>2. CASE a.parent # 0
      <4>1. PICK o \in b.vocab : o.id = a.parent /\ o.kind = ParentKind(a.vocab)
        BY <1>1, <3>2 DEF MayPlace, ById
      <4>2. Place(o) \in P
        BY DEF Places
      <4> QED
        BY <2>3, <4>1, <4>2, PlaceIs DEF HasParent
    <3> QED
      BY <3>1, <3>2
  <2>6. \A q \in LevelOf(P, p.kind, p.parent) : ~ SameWord(q.name, p.name)
    <3> SUFFICES ASSUME NEW q \in LevelOf(P, p.kind, p.parent), SameWord(q.name, p.name) PROVE FALSE
      OBVIOUS
    <3>1. q \in P /\ q.kind = a.vocab /\ q.parent = a.parent
      BY <2>3 DEF LevelOf
    <3> HIDE DEF p
    <3>2. PICK o \in b.vocab : q.kind = o.kind /\ q.parent = o.parent /\ q.name = o.name
      BY <3>1, PlaceOf
    <3>3. o \in previous
      BY <2>3, <3>1, <3>2 DEF Level
    <3> QED
      BY <1>8, <3>3
  <2>7. Cardinality(LevelOf(P, p.kind, p.parent)) < Cap(p.kind)
    <3>1. Cardinality(level) < Cap(a.vocab)
      BY <1>1, <1>8 DEF MayJoin
    <3> HIDE DEF p
    <3> QED
      BY <2>3, <3>1, LevelPlaces
  <2>8. Places(d) = P \cup {p}
    BY <1>7, <2>2, <2>3, <2>4
  <2>9. Undone(u, Places(d)) = {q \in Places(d) : q.id # p.id}
    BY <1>3, <1>8, <2>2, <2>3 DEF Undone
  <2>10. Undone(u, Places(d)) = P
    <3> HIDE DEF p, P
    <3> QED
      BY <2>4, <2>8, <2>9
  <2> HIDE DEF p, P
  <2>11. Rules(P, renamed) /\ p.kind \in VocabKinds
    BY <2>3 DEF P
  <2>12. Rules(P \cup {p}, renamed)
    BY <2>3, <2>4, <2>5, <2>6, <2>7, <2>11, RulesAdd
  <2> QED
    BY <1>2, <2>8, <2>10, <2>12 DEF Leads, P
<1>9. CASE previous # {}
  <2>1. first \in previous
    <3> DEFINE T == {o.id : o \in previous}
    <3>1. T \in SUBSET Nat /\ T # {}
      BY <1>9 DEF Level, WellFormed, VocabularyKept, Keys
    <3>2. \E m \in T : \A k \in T : m <= k
      <4> HIDE DEF T
      <4> QED
        BY <3>1, Least
    <3>3. \E o \in previous : \A k \in previous : o.id <= k.id
      BY <3>2
    <3> QED
      BY <3>3
  <2> HIDE DEF first
  <2>2. first \in b.vocab /\ first.kind = a.vocab /\ first.parent = a.parent /\ stored = first.name
    BY <1>9, <2>1 DEF Level, stored
  <2>3. hit = {first}
    BY <2>2 DEF hit, Named, Level, WellFormed, VocabularyKept
  <2> DEFINE y == Coalesce(a.descr, first.descr)
  <2>4. e = [first EXCEPT !.descr = y] /\ IsEntry(first)
    BY <1>4, <2>2, <2>3 DEF WellFormed, VocabularyKept
  <2> HIDE DEF y, e
  <2>5. EntryIs(e, first.id, first.kind, first.parent, first.name, y, first.frozen, first.aliases)
    BY <2>4, EntryExcept DEF EntryIs
  <2>6. /\ e.id = first.id /\ e.kind = first.kind /\ e.parent = first.parent /\ e.name = first.name
    BY <2>5, EntryParts
  <2>7. Places(d) = Places(b)
    <3> DEFINE w == Put(b, e)
    <3>1. w.vocab = Replaced(b.vocab, e)
      BY PutOnly DEF WellFormed
    <3> HIDE DEF w
    <3>2. Places(w) = Places(b)
      BY <2>2, <2>6, <3>1, PlacesStay
    <3>3. Places(w) = {p \in P : p.id # e.id} \cup {Place(e)}
      BY <3>1, PlacesPut
    <3> QED
      BY <1>7, <3>2, <3>3
  <2>8. Place(first) \in Places(b) /\ Place(first).id = first.id /\ Place(first).name = first.name
    BY <2>2, PlaceIs DEF Places
  <2>9. u.op = "restore" /\ u.created = FALSE /\ u.id = first.id /\ u.name = first.name
    BY <1>3, <1>9, <2>6
  <2> QED
    BY <1>2, <2>7, <2>8, <2>9, LeadsRestored
<1> QED
  BY <1>8, <1>9

LEMMA RenameLeads ==
    ASSUME NEW b, WellFormed(b), NEW a, NEW r, r = Rename(a, b, b), r.ok, Rules(Places(b), TRUE)
    PROVE  Leads(Places(b), r, TRUE)
<1> DEFINE p == Previous(b, a)
           e == [p EXCEPT !.name = a.name]
           d == Put(b, e)
           u == Restore(p)
           P == Places(b)
           o == Place(p)
           z == Called(o, a.name)
<1>1. ById(b, a.id) # {} /\ r = Done(d, u) /\ ~ Taken(b, p, a.name)
  <2>1. r # Failed(b)
    BY DEF Failed
  <2> QED
    BY <2>1 DEF Rename
<1>2. r.cur = d /\ r.undo = u
  BY <1>1 DEF Done
<1>3. u.op = "restore" /\ u.created = FALSE /\ u.id = p.id /\ u.name = p.name
  BY DEF Restore
<1>4. p \in b.vocab /\ IsEntry(p)
  BY <1>1, TheEntry DEF Previous
<1> HIDE DEF p, u
<1>5. EntryIs(e, p.id, p.kind, p.parent, a.name, p.descr, p.frozen, p.aliases)
  BY <1>4, EntryExcept DEF EntryIs
<1> HIDE DEF e
<1>6. e.id = p.id /\ e.kind = p.kind /\ e.parent = p.parent /\ e.name = a.name
  BY <1>5, EntryParts
<1>7. d.vocab = Replaced(b.vocab, e)
  BY PutOnly DEF WellFormed
<1> HIDE DEF d
<1>8. o \in P /\ o.id = p.id /\ o.kind = p.kind /\ o.parent = p.parent /\ o.name = p.name
  BY <1>4, PlaceIs DEF Places
<1>9. Place(e) = z
  BY <1>6, <1>8 DEF Place, Called
<1>10. Places(d) = {q \in P : q.id # p.id} \cup {z}
  BY <1>6, <1>7, <1>9, PlacesPut
<1>11. \A q \in LevelOf(P, o.kind, o.parent) : q.name = a.name => q = o
  <2> SUFFICES ASSUME NEW q \in LevelOf(P, o.kind, o.parent), q.name = a.name PROVE q = o
    OBVIOUS
  <2>1. q \in P /\ q.kind = p.kind /\ q.parent = p.parent
    BY <1>8 DEF LevelOf
  <2> HIDE DEF o
  <2>2. PICK x \in b.vocab : q.id = x.id /\ q.kind = x.kind /\ q.parent = x.parent /\ q.name = x.name
    BY <2>1, PlaceOf
  <2>3. x.id = p.id
    BY <1>1, <2>1, <2>2 DEF Taken, Named, Level
  <2> QED
    BY <1>8, <2>1, <2>2, <2>3 DEF Rules, Unique
<1>12. z.id = p.id /\ Called(z, p.name) = o /\ \A q \in P : q = Place(q)
  BY <1>8, CalledIs DEF Rules, Called, Place
<1> HIDE DEF z, o, P
<1>13. Rules(Places(d), TRUE)
  <2>1. Rules(P, TRUE)
    BY DEF P
  <2>2. \A x \in LevelOf(P, o.kind, o.parent) : x.name = a.name => x = o
    BY <1>11
  <2>3. Rules({x \in P : x.id # o.id} \cup {Called(o, a.name)}, TRUE)
    BY <1>8, <2>1, <2>2, RulesRename
  <2>4. Places(d) = {x \in P : x.id # o.id} \cup {Called(o, a.name)}
    BY <1>8, <1>10 DEF z
  <2> QED
    BY <2>3, <2>4
<1>14. Undone(u, Places(d)) = P
  <2>1. Undone(u, Places(d)) = {IF q.id = p.id THEN Called(q, p.name) ELSE q : q \in Places(d)}
    BY <1>3 DEF Undone
  <2>2. \A q \in P : q.id = p.id => q = o
    BY <1>8 DEF Rules, Unique, P
  <2>3. {IF q.id = p.id THEN Called(q, p.name) ELSE q : q \in Places(d)}
        = {q \in P : q.id # p.id} \cup {o}
    BY <1>10, <1>12
  <2> QED
    BY <1>8, <2>1, <2>2, <2>3
<1> QED
  BY <1>2, <1>13, <1>14 DEF Leads, P

LEMMA RedefineLeads ==
    ASSUME NEW b, WellFormed(b), NEW a, NEW r, r = Redefine(a, b, b), r.ok,
           NEW renamed, Rules(Places(b), renamed)
    PROVE  Leads(Places(b), r, renamed)
<1> DEFINE p == Previous(b, a)
           e == [p EXCEPT !.descr = a.descr]
           d == Put(b, e)
           u == Restore(p)
<1>1. ById(b, a.id) # {} /\ r = Done(d, u)
  <2>1. r # Failed(b)
    BY DEF Failed
  <2> QED
    BY <2>1 DEF Redefine
<1>2. r.cur = d /\ r.undo = u
  BY <1>1 DEF Done
<1>3. u.op = "restore" /\ u.created = FALSE /\ u.id = p.id /\ u.name = p.name
  BY DEF Restore
<1>4. p \in b.vocab /\ IsEntry(p)
  BY <1>1, TheEntry DEF Previous
<1> HIDE DEF p, u
<1>5. EntryIs(e, p.id, p.kind, p.parent, p.name, a.descr, p.frozen, p.aliases)
  BY <1>4, EntryExcept DEF EntryIs
<1> HIDE DEF e
<1>6. e.id = p.id /\ e.kind = p.kind /\ e.parent = p.parent /\ e.name = p.name
  BY <1>5, EntryParts
<1>7. d.vocab = Replaced(b.vocab, e)
  BY PutOnly DEF WellFormed
<1> HIDE DEF d
<1>8. Places(d) = Places(b)
  BY <1>4, <1>6, <1>7, PlacesStay
<1>9. Place(p) \in Places(b) /\ Place(p).id = p.id /\ Place(p).name = p.name
  BY <1>4, PlaceIs DEF Places
<1> QED
  BY <1>2, <1>3, <1>8, <1>9, LeadsRestored

LEMMA FreezeLeads ==
    ASSUME NEW b, WellFormed(b), NEW a, NEW r, r = Freeze(a, b, b), r.ok,
           NEW renamed, Rules(Places(b), renamed)
    PROVE  Leads(Places(b), r, renamed)
<1> DEFINE p == Previous(b, a)
           e == [p EXCEPT !.frozen = a.frozen]
           d == Put(b, e)
           u == [op |-> "frozen", id |-> a.id, frozen |-> p.frozen]
<1>1. ById(b, a.id) # {} /\ r = Done(d, u)
  <2>1. r # Failed(b)
    BY DEF Failed
  <2> QED
    BY <2>1 DEF Freeze
<1>2. r.cur = d /\ r.undo = u
  BY <1>1 DEF Done
<1>3. u.op = "frozen"
  OBVIOUS
<1>4. p \in b.vocab /\ IsEntry(p)
  BY <1>1, TheEntry DEF Previous
<1> HIDE DEF p, u
<1>5. EntryIs(e, p.id, p.kind, p.parent, p.name, p.descr, a.frozen, p.aliases)
  BY <1>4, EntryExcept DEF EntryIs
<1> HIDE DEF e
<1>6. e.id = p.id /\ e.kind = p.kind /\ e.parent = p.parent /\ e.name = p.name
  BY <1>5, EntryParts
<1>7. d.vocab = Replaced(b.vocab, e)
  BY PutOnly DEF WellFormed
<1> HIDE DEF d
<1>8. Places(d) = Places(b)
  BY <1>4, <1>6, <1>7, PlacesStay
<1> QED
  BY <1>2, <1>3, <1>8, LeadsSame

LEMMA DeleteLeads ==
    ASSUME NEW b, WellFormed(b), NEW a, NEW r, r = Delete(a, b, b), r.ok,
           NEW renamed, Rules(Places(b), renamed)
    PROVE  Leads(Places(b), r, renamed)
<1>0. PICK ids : ids = {a.id}
  OBVIOUS
<1> DEFINE p == Previous(b, a)
           q == <<p>>
           d == Drop(b, ids)
           u == [op |-> "recreate", rows |-> q]
           P == Places(b)
           o == Place(p)
<1>1. ById(b, a.id) # {} /\ Children(b, a.id) = {} /\ r = Done(d, u)
  <2>1. r # Failed(b)
    BY DEF Failed
  <2> QED
    BY <1>0, <2>1 DEF Delete
<1>2. r.cur = d /\ r.undo = u /\ u.op = "recreate" /\ u.rows = q
  BY <1>1 DEF Done
<1>3. p \in b.vocab /\ p.id = a.id
  BY <1>1, TheEntry DEF Previous
<1> HIDE DEF p
<1>4. Len(q) = 1 /\ q[1] = p
  OBVIOUS
<1>4a. \A x : x \in ids <=> x = a.id
  BY <1>0
<1> HIDE DEF q, u
<1>5. d.vocab = Without(b.vocab, ids)
  BY DropOnly DEF WellFormed
<1> HIDE DEF d
<1>6. Places(d) = {x \in P : x.id \notin ids}
  <2>1. P = Places(b)
    OBVIOUS
  <2> HIDE DEF P, o
  <2> QED
    BY <1>5, <2>1, PlacesDrop
<1>7. o \in P /\ o.id = a.id
  BY <1>3, PlaceIs DEF Places
<1>8. \A x \in P : x.parent # a.id
  <2>1. \A e \in b.vocab : e.parent # a.id
    BY <1>1 DEF Children
  <2> QED
    BY <2>1, PlaceOf
<1>9. \A x \in P : x.id = a.id => x = o
  BY <1>7 DEF Rules, Unique
<1> HIDE DEF P, o
<1>10. Rules(Places(d), renamed)
  <2>1. Rules(P, renamed)
    BY DEF P
  <2>2. \A x \in P : x.id \notin ids => x.parent = 0 \/ x.parent \notin ids
    BY <1>4a, <1>8
  <2>3. Rules({x \in P : x.id \notin ids}, renamed)
    BY <2>1, <2>2, RulesRemove
  <2> QED
    BY <1>6, <2>3
<1>11. Undone(u, Places(d)) = Places(d) \cup {o}
  <2>1. {Place(u.rows[i]) : i \in 1..Len(u.rows)} = {o}
    BY <1>2, <1>4 DEF o
  <2> QED
    BY <1>2, <2>1 DEF Undone
<1>12. Undone(u, Places(d)) = P
  BY <1>4a, <1>6, <1>7, <1>9, <1>11
<1> QED
  BY <1>2, <1>10, <1>12 DEF Leads, P

LEMMA ClearLeads ==
    ASSUME NEW b, WellFormed(b), NEW a, a.vocab \in VocabKinds, NEW r, r = Clear(a, b, b),
           NEW renamed, Rules(Places(b), renamed)
    PROVE  Leads(Places(b), r, renamed)
<1> DEFINE q == ClearOrder(b, a.vocab)
           ids == {q[i].id : i \in DOMAIN q}
           S == Cleared(b, a.vocab)
           d == Drop(b, ids)
           u == [op |-> "recreate", rows |-> q]
           P == Places(b)
<1>1. r.cur = d /\ r.undo = u /\ u.op = "recreate" /\ u.rows = q
  BY DEF Clear, Done
<1>2. Enumerates(q, S) /\ S \subseteq b.vocab
  BY ClearOrderIs
<1> HIDE DEF q, u
<1>3. /\ \A i \in 1..Len(q) : q[i] \in S
      /\ \A x \in S : \E i \in 1..Len(q) : q[i] = x
      /\ ids = {q[i].id : i \in 1..Len(q)}
  BY <1>2 DEF Enumerates
<1>4. \A x \in b.vocab : x.id \in ids <=> x \in S
  <2>1. \A x, y \in b.vocab : x.id = y.id => x = y
    BY DEF WellFormed, VocabularyKept, Keys
  <2> HIDE DEF S, ids
  <2> QED
    BY <1>2, <1>3, <2>1
<1>5. d.vocab = Without(b.vocab, ids)
  <2> HIDE DEF ids
  <2> QED
    BY DropOnly DEF WellFormed
<1> HIDE DEF d
<1>6. Places(d) = {x \in P : x.id \notin ids}
  <2> HIDE DEF ids
  <2> QED
    BY <1>5, PlacesDrop
<1>7. \A x \in P : x.id \notin ids => x.parent = 0 \/ x.parent \notin ids
  <2> SUFFICES ASSUME NEW x \in P, x.id \notin ids, x.parent # 0, x.parent \in ids PROVE FALSE
    OBVIOUS
  <2> HIDE DEF ids
  <2>1. PICK e \in b.vocab : x.id = e.id /\ x.kind = e.kind /\ x.parent = e.parent
    BY PlaceOf
  <2>2. PICK y \in P : y.id = x.parent /\ y.kind = ParentKind(x.kind)
    BY DEF Rules, HasParent
  <2>3. PICK o \in b.vocab : y.id = o.id /\ y.kind = o.kind /\ y.parent = o.parent
    BY PlaceOf
  <2>4. o \in S /\ e \notin S /\ o.kind = ParentKind(e.kind) /\ e.parent # 0
    BY <1>4, <2>1, <2>2, <2>3
  <2>5. o.kind \in VocabKinds
    BY <2>3 DEF Rules
  <2>6. \/ e.kind = "subcategory" /\ o.kind = "category"
        \/ e.kind = "product" /\ o.kind = "product"
    BY <2>4, <2>5 DEF ParentKind, VocabKinds, None
  <2>7. a.vocab = o.kind
    BY <2>4, <2>6 DEF Cleared, ClearRoots, ClearChildren, Level
  <2>8. e \in ClearChildren(b, a.vocab)
    BY <2>4, <2>6, <2>7 DEF ClearChildren
  <2> QED
    BY <2>4, <2>8 DEF Cleared
<1>8. Rules(Places(d), renamed)
  <2>1. Rules(P, renamed)
    OBVIOUS
  <2> HIDE DEF ids, P
  <2>2. Rules({x \in P : x.id \notin ids}, renamed)
    BY <1>7, <2>1, RulesRemove
  <2> QED
    BY <1>6, <2>2
<1>9. Undone(u, Places(d)) = Places(d) \cup {Place(q[i]) : i \in 1..Len(q)}
  BY <1>1 DEF Undone
<1>10. {Place(q[i]) : i \in 1..Len(q)} = {x \in P : x.id \in ids}
  <2>1. ASSUME NEW i \in 1..Len(q) PROVE Place(q[i]) \in P /\ Place(q[i]).id \in ids
    <3>1. q[i] \in b.vocab /\ q[i].id \in ids
      BY <1>2, <1>3
    <3> HIDE DEF ids
    <3> QED
      BY <3>1, PlaceIs DEF Places
  <2>2. ASSUME NEW x \in P, x.id \in ids PROVE \E i \in 1..Len(q) : Place(q[i]) = x
    <3>1. PICK e \in b.vocab : x = Place(e) /\ x.id = e.id
      BY PlaceOf
    <3>2. PICK i \in 1..Len(q) : q[i] = e
      BY <1>3, <1>4, <2>2, <3>1
    <3> QED
      BY <3>1, <3>2
  <2> HIDE DEF ids, P
  <2> QED
    BY <2>1, <2>2
<1> HIDE DEF ids, P
<1>11. Undone(u, Places(d)) = P
  BY <1>6, <1>9, <1>10
<1> QED
  BY <1>1, <1>8, <1>11 DEF Leads, P

(* What leaves the entries where they are.                                 *)
LEMMA KeptLeads ==
    ASSUME NEW b, NEW renamed, Rules(Places(b), renamed), NEW d, d.vocab = b.vocab,
           NEW u, u.op # "restore" /\ u.op # "recreate", NEW r, r = Done(d, u)
    PROVE  Leads(Places(b), r, renamed)
<1>1. r.cur = d /\ r.undo = u
  BY DEF Done
<1>2. Places(d) = Places(b)
  BY DEF Places
<1> QED
  BY <1>1, <1>2, LeadsSame

LEMMA VocabOther ==
    ASSUME NEW b, IsState(b), NEW x, NEW d,
           \/ d = [b EXCEPT !.verdicts = x] \/ d = [b EXCEPT !.suppressed = x]
           \/ d = [b EXCEPT !.views = x] \/ d = [b EXCEPT !.opinions = x]
           \/ d = [b EXCEPT !.settings = x] \/ d = [b EXCEPT !.nextId = x]
    PROVE  d.vocab = b.vocab /\ IsState(d)
<1>1. CASE d = [b EXCEPT !.verdicts = x]
  <2>1. StateIs(d, b.vocab, b.nextId, x, b.suppressed, b.views, b.opinions, b.settings)
    BY <1>1, StateExcept
  <2> QED
    BY <2>1, StateParts
<1>2. CASE d = [b EXCEPT !.suppressed = x]
  <2>1. StateIs(d, b.vocab, b.nextId, b.verdicts, x, b.views, b.opinions, b.settings)
    BY <1>2, StateExcept
  <2> QED
    BY <2>1, StateParts
<1>3. CASE d = [b EXCEPT !.views = x]
  <2>1. StateIs(d, b.vocab, b.nextId, b.verdicts, b.suppressed, x, b.opinions, b.settings)
    BY <1>3, StateExcept
  <2> QED
    BY <2>1, StateParts
<1>4. CASE d = [b EXCEPT !.opinions = x]
  <2>1. StateIs(d, b.vocab, b.nextId, b.verdicts, b.suppressed, b.views, x, b.settings)
    BY <1>4, StateExcept
  <2> QED
    BY <2>1, StateParts
<1>5. CASE d = [b EXCEPT !.settings = x]
  <2>1. StateIs(d, b.vocab, b.nextId, b.verdicts, b.suppressed, b.views, b.opinions, x)
    BY <1>5, StateExcept
  <2> QED
    BY <2>1, StateParts
<1>6. CASE d = [b EXCEPT !.nextId = x]
  <2>1. StateIs(d, b.vocab, x, b.verdicts, b.suppressed, b.views, b.opinions, b.settings)
    BY <1>6, StateExcept
  <2> QED
    BY <2>1, StateParts
<1> QED
  BY <1>1, <1>2, <1>3, <1>4, <1>5, <1>6

LEMMA UpsertViewVocab ==
    ASSUME NEW c, IsState(c), NEW v, NEW u, NEW r, r = UpsertView(c, v, u), r.ok
    PROVE  \E d : r = Done(d, u) /\ d.vocab = c.vocab
<1> DEFINE d == PutView(c, v)
<1>1. r = Done(d, u)
  <2>1. r # Failed(c)
    BY DEF Failed
  <2> QED
    BY <2>1 DEF UpsertView
<1>2. d.vocab = c.vocab
  BY PutViewOnly DEF SameButViews
<1> QED
  BY <1>1, <1>2

LEMMA ViewLeads ==
    ASSUME NEW b, WellFormed(b), NEW a, NEW r, r.ok,
           r \in {SaveView(a, b, b), RenameView(a, b, b), DeleteView(a, b, b)},
           NEW renamed, Rules(Places(b), renamed)
    PROVE  Leads(Places(b), r, renamed)
<1> SUFFICES \E d, u : r = Done(d, u) /\ d.vocab = b.vocab /\ u.op # "restore" /\ u.op # "recreate"
  BY KeptLeads
<1>0. r # Failed(b) /\ IsState(b)
  BY DEF Failed, WellFormed
<1>1. CASE r = SaveView(a, b, b)
  <2> DEFINE p == CHOOSE v \in View(b, a.id) : TRUE
             n == b.nextId + 1
             d == [b EXCEPT !.nextId = n]
             v == [id |-> b.nextId, name |-> a.name, spec |-> a.spec, by |-> a.actor]
             u == [op |-> "deleteView", id |-> v.id]
             e == [p EXCEPT !.name = a.name, !.spec = a.spec]
             w == [op |-> "restoreView", row |-> p]
  <2>1. r = UpsertView(d, v, u) \/ r = UpsertView(b, e, w)
    BY <1>0, <1>1 DEF SaveView
  <2>2. u.op = "deleteView" /\ w.op = "restoreView"
    OBVIOUS
  <2> HIDE DEF u, w, v, e, n
  <2>3. d.vocab = b.vocab /\ IsState(d)
    BY <1>0, VocabOther
  <2> HIDE DEF d
  <2>4. CASE r = UpsertView(d, v, u)
    <3>1. PICK x : r = Done(x, u) /\ x.vocab = d.vocab
      BY <2>3, <2>4, UpsertViewVocab
    <3> QED
      BY <2>2, <2>3, <3>1
  <2>5. CASE r = UpsertView(b, e, w)
    <3>1. PICK x : r = Done(x, w) /\ x.vocab = b.vocab
      BY <1>0, <2>5, UpsertViewVocab
    <3> QED
      BY <2>2, <3>1
  <2> QED
    BY <2>1, <2>4, <2>5
<1>2. CASE r = RenameView(a, b, b)
  <2> DEFINE p == CHOOSE v \in View(b, a.id) : TRUE
             e == [p EXCEPT !.name = a.name]
             w == [op |-> "restoreView", row |-> p]
  <2>1. r = UpsertView(b, e, w) /\ w.op = "restoreView"
    BY <1>0, <1>2 DEF RenameView
  <2> HIDE DEF e, w
  <2>2. PICK x : r = Done(x, w) /\ x.vocab = b.vocab
    BY <1>0, <2>1, UpsertViewVocab
  <2> QED
    BY <2>1, <2>2
<1>3. CASE r = DeleteView(a, b, b)
  <2> DEFINE p == CHOOSE v \in View(b, a.id) : TRUE
             x == {v \in b.views : v.id # a.id}
             d == [b EXCEPT !.views = x]
             w == [op |-> "restoreView", row |-> p]
  <2>1. r = Done(d, w) /\ w.op = "restoreView"
    BY <1>0, <1>3 DEF DeleteView
  <2> HIDE DEF w, x
  <2>2. d.vocab = b.vocab
    BY <1>0, VocabOther
  <2> HIDE DEF d
  <2> QED
    BY <2>1, <2>2
<1> QED
  BY <1>1, <1>2, <1>3

LEMMA RestLeads ==
    ASSUME NEW b, WellFormed(b), NEW a, NEW r,
           \/ \E v : r = Done(WithVerdict(b, a.fingerprint, v), UndoForState(a, b))
           \/ \E o : r = Mutate(a, b, b, o)
           \/ r \in {Suppress(a, b), ResetColumn(b), SetSettings(a, b, b), Done(b, NoUndo)},
           NEW renamed, Rules(Places(b), renamed)
    PROVE  Leads(Places(b), r, renamed)
<1> SUFFICES \E d, u : r = Done(d, u) /\ d.vocab = b.vocab /\ u.op # "restore" /\ u.op # "recreate"
  BY KeptLeads
<1>0. IsState(b)
  BY DEF WellFormed
<1>1. ASSUME NEW v, r = Done(WithVerdict(b, a.fingerprint, v), UndoForState(a, b))
      PROVE  \E d, u : r = Done(d, u) /\ d.vocab = b.vocab /\ u.op # "restore" /\ u.op # "recreate"
  <2> DEFINE x == [b.verdicts EXCEPT ![a.fingerprint] = v]
             d == [b EXCEPT !.verdicts = x]
             t == b.verdicts[a.fingerprint]
             u == [op |-> "verdict", fingerprint |-> a.fingerprint, verdict |-> t]
  <2>1. r = Done(d, u) /\ u.op = "verdict"
    BY <1>1 DEF WithVerdict, UndoForState
  <2> HIDE DEF x, u
  <2>2. d.vocab = b.vocab
    BY <1>0, VocabOther
  <2> HIDE DEF d
  <2> QED
    BY <2>1, <2>2
<1>2. ASSUME NEW o, r = Mutate(a, b, b, o)
      PROVE  \E d, u : r = Done(d, u) /\ d.vocab = b.vocab /\ u.op # "restore" /\ u.op # "recreate"
  <2> DEFINE x == [b.opinions EXCEPT ![a.actor] = o]
             d == [b EXCEPT !.opinions = x]
             t == b.opinions[a.actor]
             u == [op |-> "opinion", actor |-> a.actor, row |-> t]
  <2>1. r = Done(d, u) /\ u.op = "opinion"
    BY <1>2 DEF Mutate, OpinionUndo
  <2> HIDE DEF x, u
  <2>2. d.vocab = b.vocab
    BY <1>0, VocabOther
  <2> HIDE DEF d
  <2> QED
    BY <2>1, <2>2
<1>3. CASE r = Suppress(a, b)
  <2> DEFINE x == b.suppressed \cup {a.target}
             d == [b EXCEPT !.suppressed = x]
             u == [op |-> "unsuppress", target |-> a.target]
  <2>1. r = Done(d, u) /\ u.op = "unsuppress"
    BY <1>3 DEF Suppress
  <2> HIDE DEF x, u
  <2>2. d.vocab = b.vocab
    BY <1>0, VocabOther
  <2> HIDE DEF d
  <2> QED
    BY <2>1, <2>2
<1>4. CASE r = ResetColumn(b)
  <2> DEFINE x == [p \in DOMAIN b.opinions |-> NoOpinion]
             d == [b EXCEPT !.opinions = x]
             u == [op |-> "opinions", rows |-> b.opinions]
  <2>1. r = Done(d, u) /\ u.op = "opinions"
    BY <1>4 DEF ResetColumn
  <2> HIDE DEF x, u
  <2>2. d.vocab = b.vocab
    BY <1>0, VocabOther
  <2> HIDE DEF d
  <2> QED
    BY <2>1, <2>2
<1>5. CASE r = SetSettings(a, b, b)
  <2> DEFINE t == b.settings[a.actor]
             o == [display |-> Coalesce(a.display, t.display),
                   descr |-> Coalesce(a.descr, t.descr), period |-> Coalesce(a.period, t.period)]
             x == [b.settings EXCEPT ![a.actor] = o]
             d == [b EXCEPT !.settings = x]
             u == [op |-> "settings", actor |-> a.actor, row |-> t]
  <2>1. r = Done(d, u) /\ u.op = "settings"
    BY <1>5 DEF SetSettings
  <2> HIDE DEF x, u
  <2>2. d.vocab = b.vocab
    BY <1>0, VocabOther
  <2> HIDE DEF d
  <2> QED
    BY <2>1, <2>2
<1>6. CASE r = Done(b, NoUndo)
  <2>1. NoUndo.op = "nothing"
    BY DEF NoUndo
  <2> HIDE DEF NoUndo
  <2> QED
    BY <1>6, <2>1
<1> QED
  BY <1>1, <1>2, <1>3, <1>4, <1>5, <1>6

(* Every executor keeps the rules, and its undo leads back.                *)
LEMMA OutcomeLeads ==
    ASSUME NEW b, WellFormed(b), NEW a, IsAction(a), NEW r, r = Outcome(a, b, b), r.ok,
           NEW renamed \in BOOLEAN, Rules(Places(b), renamed), a.kind = "rename" => renamed
    PROVE  Leads(Places(b), r, renamed)
<1>0. a.kind \in Kinds /\ (a.kind \in {"define", "clear"} => a.vocab \in VocabKinds)
  BY DEF IsAction, Fields
<1>1. CASE a.kind = "rebuild"
  <2>1. r = Done(b, NoUndo)
    BY <1>1 DEF Outcome
  <2> QED
    BY <2>1, RestLeads
<1>2. a.kind # "rebuild" => r = Execute(a, b, b)
  BY DEF Outcome
<1>3. CASE a.kind = "define"
  <2>1. r = Define(a, b, b)
    BY <1>2, <1>3 DEF Execute
  <2> QED
    BY <1>0, <1>3, <2>1, DefineLeads
<1>4. CASE a.kind = "rename"
  <2>1. r = Rename(a, b, b) /\ renamed = TRUE
    BY <1>2, <1>4 DEF Execute
  <2> QED
    BY <2>1, RenameLeads
<1>5. CASE a.kind = "redefine"
  <2>1. r = Redefine(a, b, b)
    BY <1>2, <1>5 DEF Execute
  <2> QED
    BY <2>1, RedefineLeads
<1>6. CASE a.kind = "freeze"
  <2>1. r = Freeze(a, b, b)
    BY <1>2, <1>6 DEF Execute
  <2> QED
    BY <2>1, FreezeLeads
<1>7. CASE a.kind = "delete"
  <2>1. r = Delete(a, b, b)
    BY <1>2, <1>7 DEF Execute
  <2> QED
    BY <2>1, DeleteLeads
<1>8. CASE a.kind = "clear"
  <2>1. r = Clear(a, b, b)
    BY <1>2, <1>8 DEF Execute
  <2> QED
    BY <1>0, <1>8, <2>1, ClearLeads
<1>9. CASE a.kind \in {"dismiss", "pin", "annotate"}
  <2>1. r \in {Dismiss(a, b, b), Pin(a, b, b), Annotate(a, b, b)}
    BY <1>2, <1>9 DEF Execute
  <2>2. \E v : r = Done(WithVerdict(b, a.fingerprint, v), UndoForState(a, b))
    BY <2>1 DEF Dismiss, Pin, Annotate
  <2> QED
    BY <2>2, RestLeads
<1>10. CASE a.kind = "suppress"
  <2>1. r = Suppress(a, b)
    BY <1>2, <1>10 DEF Execute
  <2> QED
    BY <2>1, RestLeads
<1>11. CASE a.kind \in {"save_view", "rename_view", "delete_view"}
  <2>1. r \in {SaveView(a, b, b), RenameView(a, b, b), DeleteView(a, b, b)}
    BY <1>2, <1>11 DEF Execute
  <2> QED
    BY <2>1, ViewLeads
<1>12. CASE a.kind \in {"kpi", "polarity", "role", "label", "description"}
  <2>1. r \in {SetKpi(a, b, b), SetPolarity(a, b, b), SetRole(a, b, b), SetLabel(a, b, b),
               SetDescr(a, b, b)}
    BY <1>2, <1>12 DEF Execute
  <2>2. \E o : r = Mutate(a, b, b, o)
    BY <2>1 DEF SetKpi, SetPolarity, SetRole, SetLabel, SetDescr
  <2> QED
    BY <2>2, RestLeads
<1>13. CASE a.kind = "reset"
  <2>1. r = ResetColumn(b)
    BY <1>2, <1>13 DEF Execute
  <2> QED
    BY <2>1, RestLeads
<1>14. CASE a.kind = "settings"
  <2>1. r = SetSettings(a, b, b)
    BY <1>2, <1>14 DEF Execute
  <2> QED
    BY <2>1, RestLeads
<1> QED
  BY <1>0, <1>1, <1>3, <1>4, <1>5, <1>6, <1>7, <1>8, <1>9, <1>10, <1>11, <1>12, <1>13, <1>14 DEF Kinds

(* What the undos make of the places.                                      *)
LEMMA VocabPlaces ==
    ASSUME NEW c, NEW d, d.vocab = c.vocab
    PROVE  Places(d) = Places(c)
BY DEF Places

LEMMA RestorePlaces ==
    ASSUME NEW c, WellFormed(c), NEW u, u.op = "restore", NEW s, NEW r, r = UndoRestore(u, s, c)
    PROVE  /\ r.ok => Places(r.cur) = Undone(u, Places(c))
           /\ ~ r.ok => Places(r.cur) = Places(c)
<1> DEFINE e == CHOOSE e \in ById(c, u.id) : TRUE
           d == [e EXCEPT !.name = u.name]
           f == [d EXCEPT !.descr = u.descr]
           P == Places(c)
<1>1. CASE r = Failed(c)
  BY <1>1 DEF Failed
<1>2. CASE r = Done(Drop(c, {u.id}), NoUndo) /\ u.created
  <2>0. PICK ids : ids = {u.id}
    OBVIOUS
  <2> DEFINE x == Drop(c, ids)
  <2>1. x.vocab = Without(c.vocab, ids)
    BY DropOnly DEF WellFormed
  <2>2. r.cur = x /\ r.ok
    BY <1>2, <2>0 DEF Done
  <2> HIDE DEF x
  <2>3. P = Places(c)
    OBVIOUS
  <2> HIDE DEF P
  <2>4. Places(x) = {p \in P : p.id \notin ids}
    BY <2>1, <2>3, PlacesDrop
  <2>5. Undone(u, P) = {p \in P : p.id # u.id}
    BY <1>2 DEF Undone
  <2> QED
    BY <2>0, <2>2, <2>3, <2>4, <2>5
<1>3. Undone(u, P) = {IF p.id = u.id THEN Called(p, u.name) ELSE p : p \in P} \/ u.created
  BY DEF Undone
<1>4. CASE r = Done(c, NoUndo) /\ ById(c, u.id) = {} /\ ~ u.created
  <2>1. r.cur = c /\ r.ok
    BY <1>4 DEF Done
  <2>2. \A p \in P : p.id # u.id
    BY <1>4, PlaceOf DEF ById
  <2> HIDE DEF P
  <2>3. Undone(u, P) = P
    BY <1>3, <1>4, <2>2
  <2> QED
    BY <2>1, <2>3 DEF P
<1>5. CASE r = Done(Put(c, f), NoUndo) /\ ById(c, u.id) # {} /\ ~ u.created
  <2>1. e \in c.vocab /\ IsEntry(e) /\ e.id = u.id
    BY <1>5, TheEntry
  <2> HIDE DEF e
  <2>2. EntryIs(d, e.id, e.kind, e.parent, u.name, e.descr, e.frozen, e.aliases)
    BY <2>1, EntryExcept DEF EntryIs
  <2> HIDE DEF d
  <2>3. EntryIs(f, e.id, e.kind, e.parent, u.name, u.descr, e.frozen, e.aliases)
    BY <2>2 DEF EntryIs
  <2> HIDE DEF f
  <2>4. f.id = e.id /\ f.kind = e.kind /\ f.parent = e.parent /\ f.name = u.name
    BY <2>3, EntryParts
  <2> DEFINE x == Put(c, f)
             o == Place(e)
             z == Called(o, u.name)
  <2>5. x.vocab = Replaced(c.vocab, f)
    BY PutOnly DEF WellFormed
  <2>6. r.cur = x /\ r.ok
    BY <1>5 DEF Done
  <2> HIDE DEF x
  <2>7. o \in P /\ o.id = u.id /\ o.kind = e.kind /\ o.parent = e.parent
    BY <2>1, PlaceIs DEF Places
  <2>8. Place(f) = z
    BY <2>1, <2>4, <2>7 DEF Place, Called
  <2>9. \A p \in P : p.id = u.id => p = o
    BY <2>7, PlacesUnique DEF Unique
  <2>10. P = Places(c)
    OBVIOUS
  <2> HIDE DEF P, o, z
  <2>11. Places(x) = {p \in P : p.id # f.id} \cup {Place(f)}
    BY <2>5, <2>10, PlacesPut
  <2>12. {IF p.id = u.id THEN Called(p, u.name) ELSE p : p \in P} = {p \in P : p.id # u.id} \cup {z}
    BY <2>7, <2>9 DEF z
  <2> QED
    BY <1>3, <1>5, <2>1, <2>4, <2>6, <2>8, <2>10, <2>11, <2>12
<1>6. [e EXCEPT !.name = u.name, !.descr = u.descr] = f
  OBVIOUS
<1> HIDE DEF d, f, P
<1> QED
  BY <1>1, <1>2, <1>4, <1>5, <1>6 DEF UndoRestore

LEMMA FrozenPlaces ==
    ASSUME NEW c, WellFormed(c), NEW u, NEW r, r = UndoFrozen(u, c)
    PROVE  Places(r.cur) = Places(c)
<1> DEFINE g(e) == IF e.id = u.id THEN [e EXCEPT !.frozen = u.frozen] ELSE e
           V == {g(e) : e \in c.vocab}
           d == [c EXCEPT !.vocab = V]
<1>1. r = Done(d, NoUndo)
  BY DEF UndoFrozen
<1>2. ASSUME NEW e \in c.vocab
      PROVE  Place(g(e)) = Place(e)
  <2>1. IsEntry(e)
    BY DEF WellFormed, VocabularyKept
  <2> DEFINE f == [e EXCEPT !.frozen = u.frozen]
  <2>2. EntryIs(f, e.id, e.kind, e.parent, e.name, e.descr, u.frozen, e.aliases)
    BY <2>1, EntryExcept DEF EntryIs
  <2> HIDE DEF f
  <2>3. f.id = e.id /\ f.kind = e.kind /\ f.parent = e.parent /\ f.name = e.name
    BY <2>2, EntryParts
  <2>4. Place(f) = Place(e)
    BY <2>3 DEF Place
  <2> QED
    BY <2>4 DEF f
<1> HIDE DEF g
<1>3. {Place(x) : x \in V} = {Place(e) : e \in c.vocab}
  BY <1>2
<1> HIDE DEF V
<1>4. d.vocab = V
  <2>1. StateIs(d, V, c.nextId, c.verdicts, c.suppressed, c.views, c.opinions, c.settings)
    BY StateExcept DEF WellFormed
  <2> QED
    BY <2>1, StateParts
<1> HIDE DEF d
<1>5. r.cur = d
  BY <1>1 DEF Done
<1> QED
  BY <1>3, <1>4, <1>5 DEF Places

LEMMA RecreatePlaces ==
    ASSUME NEW c, WellFormed(c), NEW row, IsEntry(row), row.id \in Nat, row.id < c.nextId,
           NEW Q, Unique(Q), Places(c) \subseteq Q, Place(row) \in Q,
           NEW r, r = Recreate(c, row)
    PROVE  r.ok /\ Places(r.cur) = Places(c) \cup {Place(row)}
<1> DEFINE old == ById(c, row.id)
           o == CHOOSE o \in old : TRUE
           f == [row EXCEPT !.kind = o.kind, !.parent = o.parent]
           e == IF old = {} THEN row ELSE f
           d == Put(c, e)
<1>1. ASSUME NEW x \in c.vocab,
             x.id = row.id \/ (x.kind = row.kind /\ x.parent = row.parent /\ x.name = row.name)
      PROVE  Place(x) = Place(row) /\ x.id = row.id /\ x.kind = row.kind /\ x.parent = row.parent
  <2>1. Place(x) \in Q
    BY DEF Places
  <2>2. Place(x) = Place(row)
    BY <1>1, <2>1, PlaceIs DEF Unique
  <2> QED
    BY <2>2, PlaceIs
<1>2. e = row
  <2>1. CASE old = {}
    BY <2>1
  <2>2. CASE old # {}
    <3>1. o \in old
      BY <2>2
    <3>2. o.kind = row.kind /\ o.parent = row.parent
      BY <1>1, <3>1 DEF ById
    <3>3. e = [row EXCEPT !.kind = o.kind, !.parent = o.parent]
      BY <2>2
    <3> HIDE DEF o, e
    <3> DEFINE k == row.kind
               p == row.parent
               g == [row EXCEPT !.kind = k]
               h == [g EXCEPT !.parent = p]
    <3>4. e = h
      BY <3>2, <3>3
    <3>5. g = row
      BY DEF IsEntry
    <3> HIDE DEF g
    <3>6. h = row
      BY <3>5 DEF IsEntry
    <3> QED
      BY <3>4, <3>6
  <2> QED
    BY <2>1, <2>2
<1> HIDE DEF e
<1>3. ~ Taken(c, row, row.name)
  BY <1>1 DEF Taken, Named, Level
<1>4. r = Done(d, NoUndo)
  <2>1. Recreate(c, row) = IF Taken(c, row, row.name) \/ Taken(c, e, e.name) THEN Failed(c)
                           ELSE Done(Put(c, e), NoUndo)
    BY DEF Recreate, e
  <2> QED
    BY <1>2, <1>3, <2>1
<1>5. d.vocab = Replaced(c.vocab, row)
  BY <1>2, PutOnly DEF WellFormed
<1> HIDE DEF d
<1>6. r.cur = d /\ r.ok
  BY <1>4 DEF Done
<1>7. \A p \in Places(c) : p.id = row.id => p = Place(row)
  BY PlaceIs DEF Unique
<1> DEFINE P == Places(c)
<1>8. P = Places(c)
  OBVIOUS
<1> HIDE DEF P
<1>9. Places(d) = {p \in P : p.id # row.id} \cup {Place(row)}
  BY <1>5, <1>8, PlacesPut
<1> QED
  BY <1>6, <1>7, <1>8, <1>9

(* Rows put back where no other entry has their id or their place: none is *)
(* refused.                                                                *)
LEMMA RowsPlaces ==
    ASSUME NEW c, WellFormed(c), NEW u, UndoFits(u, c.nextId), u.op = "recreate",
           NEW Q, Q = Undone(u, Places(c)), Unique(Q), NEW r, r = UndoRecreate(u, c)
    PROVE  r.ok /\ Places(r.cur) = Q
<1> DEFINE q == u.rows
           n == Len(q)
           Upto(k) == {Place(q[i]) : i \in 1..k}
<1>1. IsSeq(q) /\ \A i \in 1..n : IsEntry(q[i]) /\ q[i].id \in Nat /\ q[i].id < c.nextId
  BY DEF UndoFits
<1>2. n \in Nat
  BY <1>1, SeqFacts
<1>3. PICK f : Rebuilds(f, c, q, n) /\ r = f[n]
  BY <1>2, RebuildIs
<1>4. Q = Places(c) \cup Upto(n)
  BY DEF Undone
<1> HIDE DEF q, n
<1> DEFINE Good(k) == /\ f[k].ok /\ WellFormed(f[k].cur) /\ f[k].cur.nextId = c.nextId
                      /\ Places(f[k].cur) = Places(c) \cup Upto(k)
           T == {k \in 0..n : ~ Good(k)}
<1>5. Good(0)
  <2>1. f[0] = Done(c, NoUndo)
    BY <1>2, <1>3 DEF Rebuilds
  <2>2. f[0].ok /\ f[0].cur = c
    BY <2>1 DEF Done
  <2>3. Upto(0) = {}
    OBVIOUS
  <2> HIDE DEF Upto
  <2> QED
    BY <2>2, <2>3
<1>6. T = {}
  <2> SUFFICES ASSUME T # {} PROVE FALSE
    OBVIOUS
  <2>1. PICK k \in T : \A j \in T : k <= j
    <3>1. T \in SUBSET Nat
      BY <1>2
    <3> HIDE DEF T
    <3> QED
      BY <3>1, Least
  <2>2. k \in 0..n /\ ~ Good(k)
    OBVIOUS
  <2>3. k # 0
    BY <1>5, <2>2
  <2> HIDE DEF Good
  <2>4. k - 1 \in 0..n /\ k - 1 \notin T /\ k \in 1..n
    BY <1>2, <2>1, <2>2, <2>3
  <2>5. Good(k - 1)
    BY <2>4
  <2>6. f[k] = RecreateNext(f[k - 1], q[k])
    BY <1>3, <2>2, <2>3 DEF Rebuilds
  <2> DEFINE x == f[k - 1]
             y == f[k]
             v == x.cur
             row == q[k]
  <2>7. /\ x.ok /\ WellFormed(v) /\ v.nextId = c.nextId /\ Places(v) = Places(c) \cup Upto(k - 1)
    BY <2>5 DEF Good
  <2>8. y = Recreate(v, row)
    BY <2>6, <2>7 DEF RecreateNext
  <2>9. IsEntry(row) /\ row.id \in Nat /\ row.id < v.nextId
    BY <1>1, <2>4, <2>7 DEF n, q
  <2>10. Upto(k) = Upto(k - 1) \cup {Place(row)} /\ Upto(k) \subseteq Upto(n)
    <3>1. 1..k = (1..k - 1) \cup {k} /\ 1..k \subseteq 1..n
      BY <1>2, <2>4
    <3> QED
      BY <3>1
  <2>11. y.ok /\ WellFormed(y.cur) /\ y.cur.nextId = c.nextId =>
            Places(y.cur) # Places(c) \cup Upto(k)
    BY <2>2 DEF Good
  <2> HIDE DEF x, y, v, row, Upto, T
  <2>12. Places(v) \subseteq Q /\ Place(row) \in Q
    BY <1>4, <2>7, <2>10
  <2>13. y.ok /\ Places(y.cur) = Places(v) \cup {Place(row)}
    BY <2>7, <2>8, <2>9, <2>12, RecreatePlaces
  <2>14. WellFormed(y.cur) /\ y.cur.nextId = c.nextId
    BY <2>7, <2>8, <2>9, RecreateKeeps
  <2> QED
    BY <2>7, <2>10, <2>11, <2>13, <2>14
<1>7. Good(n)
  BY <1>2, <1>6
<1> HIDE DEF Upto
<1> QED
  BY <1>3, <1>4, <1>7

(* An undo that is not refused does to the places what Undone says, one    *)
(* that is leaves them, where its rows have the places they had.           *)
LEMMA UndoPlaces ==
    ASSUME NEW s, NEW c, WellFormed(c), NEW u, UndoFits(u, c.nextId), u # NoUndo,
           Unique(Undone(u, Places(c))), NEW r, r = ApplyUndo(u, s, c)
    PROVE  /\ r.ok => Places(r.cur) = Undone(u, Places(c))
           /\ ~ r.ok => Places(r.cur) = Places(c)
<1>0. u.op \in UndoOps /\ u.op # "nothing" /\ IsState(c)
  BY DEF UndoFits, WellFormed
<1>1. CASE u.op = "restore"
  <2>1. r = UndoRestore(u, s, c)
    BY <1>1 DEF ApplyUndo
  <2> QED
    BY <1>1, <2>1, RestorePlaces
<1>2. CASE u.op = "recreate"
  <2>1. r = UndoRecreate(u, c)
    BY <1>2 DEF ApplyUndo
  <2> QED
    BY <1>2, <2>1, RowsPlaces
<1>3. u.op # "restore" /\ u.op # "recreate" => Undone(u, Places(c)) = Places(c)
  BY DEF Undone
<1>4. CASE u.op = "frozen"
  <2>1. r = UndoFrozen(u, c)
    BY <1>4 DEF ApplyUndo
  <2> QED
    BY <1>3, <1>4, <2>1, FrozenPlaces
<1>5. CASE u.op = "restoreView"
  <2>1. r = UpsertView(c, u.row, NoUndo)
    BY <1>5 DEF ApplyUndo, UndoRestoreView
  <2>2. CASE r = Failed(c)
    BY <2>2 DEF Failed
  <2>3. CASE r # Failed(c)
    <3>1. r.ok
      BY <2>1, <2>3 DEF UpsertView, Done
    <3>2. PICK d : r = Done(d, NoUndo) /\ d.vocab = c.vocab
      BY <1>0, <2>1, <3>1, UpsertViewVocab
    <3>3. r.cur = d
      BY <3>2 DEF Done
    <3> QED
      BY <1>3, <1>5, <3>1, <3>2, <3>3, VocabPlaces
  <2> QED
    BY <2>2, <2>3
<1>6. ASSUME NEW d, r = Done(d, NoUndo), d.vocab = c.vocab, u.op # "restore", u.op # "recreate"
      PROVE  /\ r.ok => Places(r.cur) = Undone(u, Places(c))
             /\ ~ r.ok => Places(r.cur) = Places(c)
  <2>1. r.cur = d /\ r.ok
    BY <1>6 DEF Done
  <2> QED
    BY <1>3, <1>6, <2>1, VocabPlaces
<1>7. CASE u.op = "verdict"
  <2> DEFINE x == [c.verdicts EXCEPT ![u.fingerprint] = u.verdict]
             d == [c EXCEPT !.verdicts = x]
  <2>1. r = Done(d, NoUndo)
    BY <1>7 DEF ApplyUndo, UndoVerdict, WithVerdict
  <2> HIDE DEF x
  <2>2. d.vocab = c.vocab
    BY <1>0, VocabOther
  <2> HIDE DEF d
  <2> QED
    BY <1>6, <1>7, <2>1, <2>2
<1>8. CASE u.op = "unsuppress"
  <2> DEFINE x == c.suppressed \ {u.target}
             d == [c EXCEPT !.suppressed = x]
  <2>1. r = Done(d, NoUndo)
    BY <1>8 DEF ApplyUndo, UndoSuppress
  <2> HIDE DEF x
  <2>2. d.vocab = c.vocab
    BY <1>0, VocabOther
  <2> HIDE DEF d
  <2> QED
    BY <1>6, <1>8, <2>1, <2>2
<1>9. CASE u.op = "deleteView"
  <2> DEFINE x == {v \in c.views : v.id # u.id}
             d == [c EXCEPT !.views = x]
  <2>1. r = Done(d, NoUndo)
    BY <1>9 DEF ApplyUndo, UndoDeleteView
  <2> HIDE DEF x
  <2>2. d.vocab = c.vocab
    BY <1>0, VocabOther
  <2> HIDE DEF d
  <2> QED
    BY <1>6, <1>9, <2>1, <2>2
<1>10. CASE u.op = "opinion"
  <2> DEFINE x == [c.opinions EXCEPT ![u.actor] = u.row]
             d == [c EXCEPT !.opinions = x]
  <2>1. r = Done(d, NoUndo)
    BY <1>10 DEF ApplyUndo, UndoOpinion
  <2> HIDE DEF x
  <2>2. d.vocab = c.vocab
    BY <1>0, VocabOther
  <2> HIDE DEF d
  <2> QED
    BY <1>6, <1>10, <2>1, <2>2
<1>11. CASE u.op = "opinions"
  <2> DEFINE x == [p \in DOMAIN c.opinions |->
                      IF u.rows[p] = NoOpinion THEN c.opinions[p] ELSE u.rows[p]]
             d == [c EXCEPT !.opinions = x]
  <2>1. r = Done(d, NoUndo)
    BY <1>11 DEF ApplyUndo, UndoOpinions
  <2> HIDE DEF x
  <2>2. d.vocab = c.vocab
    BY <1>0, VocabOther
  <2> HIDE DEF d
  <2> QED
    BY <1>6, <1>11, <2>1, <2>2
<1>12. CASE u.op = "settings"
  <2> DEFINE x == [c.settings EXCEPT ![u.actor] = u.row]
             d == [c EXCEPT !.settings = x]
  <2>1. r = Done(d, NoUndo)
    BY <1>12 DEF ApplyUndo, UndoSettings
  <2> HIDE DEF x
  <2>2. d.vocab = c.vocab
    BY <1>0, VocabOther
  <2> HIDE DEF d
  <2> QED
    BY <1>6, <1>12, <2>1, <2>2
<1> QED
  BY <1>0, <1>1, <1>2, <1>4, <1>5, <1>7, <1>8, <1>9, <1>10, <1>11, <1>12 DEF UndoOps

(* Going back from the places there are, undo by undo, the newest first,   *)
(* the rules hold at each of them; the undos are those the rows in effect  *)
(* have.                                                                   *)
Renamed == \E id \in Rows : Action(id).kind = "rename"

Chained(chain, un, n) ==
    /\ \A k \in 0..n : Rules(chain[k], Renamed)
    /\ \A k \in 1..n :
          /\ history.order[k] \in Rows /\ history.applied[history.order[k]] # 0
          /\ Traced(history.order[k], un[k])
          /\ chain[k - 1] = Undone(un[k], chain[k])

Stack ==
    /\ IsSeq(history.order)
    /\ \E chain, un : /\ chain[Len(history.order)] = Places(cur)
                      /\ Chained(chain, un, Len(history.order))

VocInv ==
    /\ \A i \in Requests : IsAction(script[i])
    /\ \/ history.overlapped \/ history.outOfOrder
       \/ /\ Alone /\ history.disturbed = {} /\ Stack
          /\ \A w \in Workers : workers[w].pc = "write" => workers[w].seen = cur

LEMMA VocWas ==
    ASSUME VocInv, ~ history.overlapped, ~ history.outOfOrder, NEW w \in Workers,
           workers[w].pc # "idle" \/ Busy = {}
    PROVE  /\ history.disturbed = {} /\ Stack
           /\ \A v \in Workers : v # w => workers[v].pc = "idle"
           /\ workers[w].pc = "write" => workers[w].seen = cur
BY DEF VocInv, Alone, Busy

LEMMA VocOn ==
    ASSUME VocInv, script' = script, NEW w \in Workers, Others(w),
           \/ history'.overlapped \/ history'.outOfOrder
           \/ /\ ~ history.overlapped /\ ~ history.outOfOrder
              /\ workers[w].pc # "idle" \/ Busy = {}
              /\ history'.disturbed = {} /\ Stack'
              /\ workers'[w].pc = "write" => workers'[w].seen = cur'
    PROVE  VocInv'
<1>1. \A i \in Requests' : IsAction(script'[i])
  BY DEF VocInv, Requests
<1>2. CASE history'.overlapped \/ history'.outOfOrder
  BY <1>1, <1>2 DEF VocInv
<1>3. CASE ~ (history'.overlapped \/ history'.outOfOrder)
  <2>1. \A v \in Workers : v # w => workers'[v].pc = "idle"
    BY <1>3, VocWas DEF Others
  <2>2. Alone'
    BY <2>1 DEF Alone
  <2>3. \A v \in Workers : workers'[v].pc = "write" => workers'[v].seen = cur'
    BY <1>3, <2>1
  <2> QED
    BY <1>1, <1>3, <2>2, <2>3 DEF VocInv
<1> QED
  BY <1>2, <1>3

LEMMA RenamedStays ==
    ASSUME script' = script, Rows \subseteq Rows',
           \A id \in Rows : log'[id].request = log[id].request
    PROVE  Renamed => Renamed'
<1> SUFFICES ASSUME NEW id \in Rows, Action(id).kind = "rename" PROVE Renamed'
  BY DEF Renamed
<1>1. Action(id)' = Action(id) /\ id \in Rows'
  BY ActionStays
<1> QED
  BY <1>1 DEF Renamed

LEMMA StackOn ==
    ASSUME Stack, history'.order = history.order, Places(cur') = Places(cur), Renamed => Renamed',
           Rows \subseteq Rows',
           \A id \in Rows : \A u : history.applied[id] # 0 /\ Traced(id, u) =>
              history'.applied[id] # 0 /\ Traced(id, u)'
    PROVE  Stack'
<1>1. PICK o : o = history.order
  OBVIOUS
<1>2. PICK chain, un : chain[Len(o)] = Places(cur) /\ Chained(chain, un, Len(o))
  BY <1>1 DEF Stack
<1>3. \A k \in 0..Len(o) : Rules(chain[k], Renamed')
  BY <1>2, RulesLater DEF Chained
<1>4. ASSUME NEW k \in 1..Len(o)
      PROVE  /\ o[k] \in Rows' /\ history'.applied[o[k]] # 0
             /\ Traced(o[k], un[k])'
             /\ chain[k - 1] = Undone(un[k], chain[k])
  <2>1. PICK id, u : id = o[k] /\ u = un[k]
    OBVIOUS
  <2>2. /\ id \in Rows /\ history.applied[id] # 0 /\ Traced(id, u)
        /\ chain[k - 1] = Undone(un[k], chain[k])
    BY <1>1, <1>2, <2>1 DEF Chained
  <2>3. id \in Rows' /\ history'.applied[id] # 0 /\ Traced(id, u)'
    BY <2>2
  <2> QED
    BY <2>1, <2>2, <2>3 DEF Traced, Knows, Known, Recorded
<1>5. Places(cur)' = Places(cur)
  BY DEF Places
<1>6. Chained(chain, un, Len(o))'
  BY <1>1, <1>3, <1>4 DEF Chained, Traced, Knows, Known, Recorded
<1> QED
  BY <1>1, <1>2, <1>5, <1>6 DEF Stack

(* A step that changes no place and takes no row into effect.              *)
LEMMA VocStays ==
    ASSUME VocInv, script' = script, NEW w \in Workers, Others(w),
           Rows \subseteq Rows', \A id \in Rows : log'[id].request = log[id].request,
           history.overlapped => history'.overlapped,
           history.outOfOrder => history'.outOfOrder,
           \/ history'.overlapped \/ history'.outOfOrder
           \/ /\ workers[w].pc # "idle" \/ Busy = {}
              /\ history'.disturbed = history.disturbed /\ history'.order = history.order
              /\ Places(cur') = Places(cur)
              /\ \/ workers'[w].pc = "write" => workers'[w].seen = cur'
                 \/ workers'[w] = workers[w] /\ cur' = cur
              /\ \A id \in Rows : \A u :
                    id \notin history'.disturbed /\ history.applied[id] # 0 /\ Traced(id, u) =>
                       history'.applied[id] # 0 /\ Traced(id, u)'
    PROVE  VocInv'
<1>1. CASE history'.overlapped \/ history'.outOfOrder
  BY <1>1, VocOn
<1>2. CASE ~ (history'.overlapped \/ history'.outOfOrder)
  <2>1. /\ history.disturbed = {} /\ Stack
        /\ workers[w].pc = "write" => workers[w].seen = cur
    BY <1>2, VocWas
  <2>2. Renamed => Renamed'
    BY RenamedStays
  <2>3. history'.disturbed = {}
    BY <1>2, <2>1
  <2>4. ASSUME NEW id \in Rows, NEW u, history.applied[id] # 0, Traced(id, u)
        PROVE  history'.applied[id] # 0 /\ Traced(id, u)'
    BY <1>2, <2>3, <2>4
  <2>5. Stack'
    BY <1>2, <2>1, <2>2, <2>4, StackOn
  <2>6. workers'[w].pc = "write" => workers'[w].seen = cur'
    BY <1>2, <2>1
  <2> QED
    BY <1>2, <2>3, <2>5, <2>6, VocOn
<1> QED
  BY <1>1, <1>2

LEMMA VocLooks ==
    ASSUME LogInv, VocInv, NEW w \in Workers, Others(w), log' = log, script' = script,
           SameButTorn, Places(cur') = Places(cur), workers[w].pc # "idle",
           workers'[w].pc = "write" => workers'[w].seen = cur',
           workers'[w].queue = workers[w].queue, workers'[w].op = workers[w].op,
           workers[w].op = "execute" /\ workers[w].pc \in {"load", "refresh", "record"} =>
              workers'[w].pc \in {"load", "refresh", "record"} /\ workers'[w].undo = workers[w].undo
    PROVE  VocInv'
<1>1. Rows' = Rows
  BY DEF Rows
<1>2. \A id, u : Traced(id, u) => Traced(id, u)'
  BY LooksTrace
<1> QED
  BY <1>1, <1>2, VocStays DEF SameButTorn

LEMMA VocRead ==
    ASSUME LogInv, VocInv, NEW w \in Workers, Looks(w)
    PROVE  VocInv'
<1>1. Places(cur') = Places(cur)
  BY LookSteps
<1> QED
  BY <1>1, LookSteps, VocLooks

LEMMA VocRecord ==
    ASSUME LogInv, VocInv, NEW w \in Workers,
           RecordResult(w) \/ SetRejected(w) \/ SetUndone(w)
    PROVE  VocInv'
<1>1. Places(cur') = Places(cur)
  BY RecordSteps
<1>2. \A id \in Rows : \A u : Traced(id, u) => Traced(id, u)'
  BY RecordTrace
<1> QED
  BY <1>1, <1>2, RecordSteps, VocStays

LEMMA VocReview ==
    ASSUME LogInv, VocInv, NEW w \in Workers,
           \/ \E id \in Rows : Approve(w, id) \/ Reject(w, id) \/ Undo(w, id)
           \/ ApproveAll(w) \/ RejectAll(w) \/ UndoAll(w)
    PROVE  VocInv'
<1>1. Rows' = Rows /\ Places(cur') = Places(cur)
  BY ReviewSteps DEF Rows
<1>2. \A id \in Rows : \A u :
         id \notin history'.disturbed /\ history.applied[id] # 0 /\ Traced(id, u) =>
            history'.applied[id] # 0 /\ Traced(id, u)'
  BY ReviewSteps, ReviewTrace
<1> QED
  BY <1>1, <1>2, ReviewSteps, VocStays

LEMMA VocNothing ==
    ASSUME VocInv, log' = log, history' = history, script' = script, workers' = workers, cur' = cur
    PROVE  VocInv'
<1>1. Rows' = Rows /\ Requests' = Requests
  BY DEF Rows, Requests
<1>2. CASE history.overlapped \/ history.outOfOrder
  BY <1>1, <1>2 DEF VocInv
<1>3. CASE ~ (history.overlapped \/ history.outOfOrder)
  <2>1. Stack
    BY <1>3 DEF VocInv
  <2>2. \A id, u : Traced(id, u) => Traced(id, u)'
    BY DEF Traced, Recorded
  <2>3. Renamed => Renamed'
    BY <1>1, RenamedStays
  <2>4. Places(cur') = Places(cur)
    OBVIOUS
  <2>5. Stack'
    BY <1>1, <2>1, <2>2, <2>3, <2>4, StackOn
  <2> QED
    BY <1>1, <1>3, <2>5 DEF VocInv, Alone
<1> QED
  BY <1>2, <1>3

LEMMA VocDispatch ==
    ASSUME LogInv, VocInv, NEW w \in Workers, NEW r \in Requests, Dispatch(w, r)
    PROVE  VocInv'
<1>1. CASE Logged(r)
  <2>1. log' = log /\ script' = script /\ cur' = cur
    BY <1>1 DEF Dispatch, InsertAction
  <2>2. workers' = workers /\ history' = history
    BY <2>1 DEF Dispatch
  <2> QED
    BY <2>1, <2>2, VocNothing
<1>2. CASE ~ Logged(r)
  <2> DEFINE h == history
             y == workers'[w]
  <2>1. /\ Others(w) /\ script' = script /\ cur' = cur
        /\ Rows \subseteq Rows' /\ \A id \in Rows : log'[id].request = log[id].request
        /\ \A id \in Rows : history'.applied[id] = h.applied[id]
        /\ history'.order = h.order /\ history'.outOfOrder = h.outOfOrder
        /\ \/ /\ y = workers[w]
              /\ history'.overlapped = h.overlapped /\ history'.disturbed = h.disturbed
           \/ /\ y.pc # "write" /\ history'.overlapped = (h.overlapped \/ Busy # {})
              /\ Busy = {} => history'.disturbed = h.disturbed
    BY <1>2, DispatchSteps
  <2>2. \A id \in Rows : \A u : Traced(id, u) => Traced(id, u)'
    BY <1>2, DispatchTrace
  <2>3. Places(cur') = Places(cur)
    BY <2>1
  <2>4. CASE /\ y = workers[w]
             /\ history'.overlapped = h.overlapped /\ history'.disturbed = h.disturbed
    <3>1. PICK v \in Workers : v \in Busy \/ Busy = {}
      BY DEF Busy
    <3>2. \A k \in Workers : workers'[k] = workers[k]
      BY <2>1, <2>4 DEF Others
    <3>3. Others(v) /\ workers'[v] = workers[v] /\ (workers[v].pc # "idle" \/ Busy = {})
      BY <3>1, <3>2 DEF Others, Busy
    <3> QED
      BY <2>1, <2>2, <2>3, <2>4, <3>3, VocStays
  <2>5. CASE /\ y.pc # "write" /\ history'.overlapped = (h.overlapped \/ Busy # {})
             /\ Busy = {} => history'.disturbed = h.disturbed
    BY <2>1, <2>2, <2>3, <2>5, VocStays
  <2> QED
    BY <2>1, <2>4, <2>5
<1> QED
  BY <1>1, <1>2

LEMMA VocBreaks ==
    ASSUME LogInv, VocInv, NEW w \in Workers, WriteBreaks(w) \/ UndoBreaks(w)
    PROVE  VocInv'
<1>1. Shapes /\ script' = script /\ history' = Halved(Row(w).id)
  BY DEF LogInv, WriteBreaks, UndoBreaks
<1>2. Others(w)
  <2>1. CASE WriteBreaks(w)
    BY <1>1, <2>1, BreakDoes DEF After, Others
  <2>2. CASE UndoBreaks(w)
    <3>1. AfterAdvance(w)
      BY <1>1, <2>2, AdvanceDoes DEF UndoBreaks
    <3> QED
      BY <3>1 DEF AfterAdvance, After, Others
  <2> QED
    BY <2>1, <2>2
<1>3. history'.overlapped = TRUE
  BY <1>1, HalvedFields
<1> QED
  BY <1>1, <1>2, <1>3, VocOn

LEMMA VocStop ==
    ASSUME LogInv, VocInv, NEW w \in Workers, Stop(w)
    PROVE  VocInv'
<1>1. /\ Shapes /\ script' = script /\ workers' = [workers EXCEPT ![w] = Idle]
  BY DEF LogInv, Stop
<1>2. Others(w)
  BY <1>1, WorkerSet DEF Others
<1>3. history'.overlapped = TRUE
  BY <1>1 DEF Stop, Shapes, HistoryShape
<1> QED
  BY <1>1, <1>2, <1>3, VocOn

(* One row more in effect, and one row less.                               *)
LEMMA StackPush ==
    ASSUME Stack, NEW k \in Rows', NEW u, history'.order = Append(history.order, k),
           history'.applied[k] # 0, Traced(k, u)', Rows \subseteq Rows', Renamed => Renamed',
           Rules(Places(cur'), Renamed'), Undone(u, Places(cur')) = Places(cur),
           \A id \in Rows : \A t : history.applied[id] # 0 /\ Traced(id, t) =>
              history'.applied[id] # 0 /\ Traced(id, t)'
    PROVE  Stack'
<1>1. PICK o : o = history.order
  OBVIOUS
<1>2. PICK q : q = Append(o, k)
  OBVIOUS
<1>3. PICK n : n = Len(o)
  OBVIOUS
<1>4. PICK P : P = Places(cur')
  OBVIOUS
<1>5. PICK chain, un : chain[n] = Places(cur) /\ Chained(chain, un, n)
  BY <1>1, <1>3 DEF Stack
<1>6. /\ IsSeq(q) /\ Len(q) = n + 1 /\ n \in Nat /\ q[n + 1] = k
      /\ \A i \in 1..n : q[i] = o[i]
  BY <1>1, <1>2, <1>3, SeqAppend, SeqFacts DEF Stack
<1>7. PICK D, V :
      /\ D[n + 1] = P /\ V[n + 1] = u /\ D[n] = chain[n]
      /\ \A i \in 0..n : D[i] = chain[i] /\ i # n + 1
      /\ \A i \in 1..n : V[i] = un[i] /\ D[i] = chain[i] /\ D[i - 1] = chain[i - 1]
  <2> DEFINE F == [i \in 0..n + 1 |-> IF i = n + 1 THEN P ELSE chain[i]]
             G == [i \in 1..n + 1 |-> IF i = n + 1 THEN u ELSE un[i]]
  <2>1. /\ F[n + 1] = P /\ G[n + 1] = u /\ F[n] = chain[n]
        /\ \A i \in 0..n : F[i] = chain[i] /\ i # n + 1
        /\ \A i \in 1..n : G[i] = un[i] /\ F[i] = chain[i] /\ F[i - 1] = chain[i - 1]
    BY <1>6
  <2> HIDE DEF F, G
  <2> QED
    BY <2>1
<1>8. \A i \in 0..n + 1 : Rules(D[i], Renamed')
  <2>1. \A i \in 0..n : Rules(D[i], Renamed')
    BY <1>5, <1>7, RulesLater DEF Chained
  <2>2. \A i \in 0..n + 1 : i \in 0..n \/ i = n + 1
    BY <1>6
  <2> QED
    BY <1>4, <1>7, <2>1, <2>2
<1>9. ASSUME NEW i \in 1..n
      PROVE  /\ q[i] \in Rows' /\ history'.applied[q[i]] # 0 /\ Traced(q[i], V[i])'
             /\ D[i - 1] = Undone(V[i], D[i])
  <2>1. PICK id, t : id = o[i] /\ t = un[i]
    OBVIOUS
  <2>2. /\ id \in Rows /\ history.applied[id] # 0 /\ Traced(id, t)
        /\ chain[i - 1] = Undone(t, chain[i])
    BY <1>1, <1>5, <2>1 DEF Chained
  <2>3. id \in Rows' /\ history'.applied[id] # 0 /\ Traced(id, t)'
    BY <2>2
  <2>4. q[i] = id /\ V[i] = t
    BY <1>6, <1>7, <2>1
  <2> QED
    BY <1>7, <2>2, <2>3, <2>4 DEF Traced, Knows, Known, Recorded
<1>10. /\ q[n + 1] \in Rows' /\ history'.applied[q[n + 1]] # 0 /\ Traced(q[n + 1], V[n + 1])'
       /\ D[n] = Undone(V[n + 1], D[n + 1])
  BY <1>4, <1>5, <1>6, <1>7 DEF Traced, Knows, Known, Recorded
<1>11. Chained(D, V, n + 1)'
  <2>1. ASSUME NEW i \in 1..n + 1
        PROVE  /\ q[i] \in Rows' /\ history'.applied[q[i]] # 0 /\ Traced(q[i], V[i])'
               /\ D[i - 1] = Undone(V[i], D[i])
    <3>1. CASE i = n + 1
      <4>1. i - 1 = n
        BY <1>6, <3>1
      <4> QED
        BY <1>10, <3>1, <4>1
    <3>2. CASE i # n + 1
      <4>1. i \in 1..n
        BY <1>6, <3>2
      <4> QED
        BY <1>9, <4>1
    <3> QED
      BY <3>1, <3>2
  <2>2. PICK m : m = n + 1
    OBVIOUS
  <2>3. /\ \A i \in 0..m : Rules(D[i], Renamed')
        /\ \A i \in 1..m :
              /\ q[i] \in Rows' /\ history'.applied[q[i]] # 0 /\ Traced(q[i], V[i])'
              /\ D[i - 1] = Undone(V[i], D[i])
    BY <1>8, <2>1, <2>2
  <2>4. q = history'.order
    BY <1>1, <1>2
  <2>5. ASSUME NEW i \in 1..m
        PROVE  Traced(history.order[i], V[i])'
    <3>1. Traced(q[i], V[i])'
      BY <2>3
    <3> QED
      BY <2>4, <3>1 DEF Traced, Knows, Known, Recorded
  <2>6. \A i \in 1..m :
           /\ history'.order[i] \in Rows' /\ history'.applied[history'.order[i]] # 0
           /\ D[i - 1] = Undone(V[i], D[i])
    BY <2>3, <2>4
  <2>7. Chained(D, V, m)'
    BY <2>3, <2>5, <2>6 DEF Chained
  <2> QED
    BY <2>2, <2>7
<1>12. Places(cur)' = P
  BY <1>4 DEF Places
<1> QED
  BY <1>1, <1>2, <1>6, <1>7, <1>11, <1>12 DEF Stack

LEMMA SeqFront ==
    ASSUME NEW s, IsSeq(s), s # <<>>
    PROVE  /\ IsSeq(Front(s)) /\ Len(s) \in Nat \ {0} /\ Len(Front(s)) = Len(s) - 1
           /\ Last(s) = s[Len(s)] /\ \A i \in 1..Len(s) - 1 : Front(s)[i] = s[i]
<1>1. PICK S : s \in Seq(S)
  BY DEF IsSeq
<1>2. Front(s) = SubSeq(s, 1, Len(s) - 1)
  BY DEF Front
<1>3. Len(s) \in Nat \ {0}
  BY <1>1, EmptySeq
<1>4. /\ SubSeq(s, 1, Len(s) - 1) \in Seq(S) /\ Len(SubSeq(s, 1, Len(s) - 1)) = Len(s) - 1
      /\ \A i \in 1..Len(s) - 1 : SubSeq(s, 1, Len(s) - 1)[i] = s[i]
  <2>1. PICK m \in Nat : m = Len(s) - 1
    BY <1>3
  <2>2. \A i \in 1..m : s[i] \in S
    BY <1>1, <1>3, <2>1, ElementOfSeq
  <2>3. /\ SubSeq(s, 1, m) \in Seq(S)
        /\ Len(SubSeq(s, 1, m)) = IF 1 <= m THEN m - 1 + 1 ELSE 0
        /\ \A i \in 1..m - 1 + 1 : SubSeq(s, 1, m)[i] = s[1 + i - 1]
    BY <2>2, SubSeqProperties
  <2> QED
    BY <2>1, <2>3
<1> QED
  BY <1>2, <1>3, <1>4 DEF IsSeq, Last

(* The undo of the last row in effect leads where no two places clash.     *)
LEMMA LatestUnique ==
    ASSUME Stack, NEW k, Latest(k), NEW u, \A t : Traced(k, t) => t = u
    PROVE  Unique(Undone(u, Places(cur))) /\ Rules(Places(cur), Renamed)
<1>1. PICK o : o = history.order
  OBVIOUS
<1>2. PICK n : n = Len(o)
  OBVIOUS
<1>3. PICK chain, un : chain[n] = Places(cur) /\ Chained(chain, un, n)
  BY <1>1, <1>2 DEF Stack
<1>4. n \in Nat \ {0} /\ o[n] = k
  BY <1>1, <1>2, SeqFront DEF Stack, Latest
<1>5. n \in 1..n /\ n - 1 \in 0..n /\ n \in 0..n
  BY <1>4
<1>6. /\ Traced(k, un[n]) /\ chain[n - 1] = Undone(un[n], chain[n])
      /\ Rules(chain[n - 1], Renamed) /\ Rules(chain[n], Renamed)
  BY <1>1, <1>3, <1>4, <1>5 DEF Chained
<1>7. un[n] = u
  BY <1>6
<1> QED
  BY <1>3, <1>6, <1>7 DEF Rules

LEMMA StackPop ==
    ASSUME Stack, NEW k, Latest(k), NEW u, \A t : Traced(k, t) => t = u,
           history'.order = Front(history.order), Rows \subseteq Rows', Renamed => Renamed',
           Places(cur') = Undone(u, Places(cur)),
           \A id \in Rows : \A t : history.applied[id] # 0 /\ Traced(id, t) =>
              history'.applied[id] # 0 /\ Traced(id, t)'
    PROVE  Stack'
<1>1. PICK o : o = history.order
  OBVIOUS
<1>2. PICK q : q = Front(o)
  OBVIOUS
<1>3. PICK n : n = Len(o)
  OBVIOUS
<1>4. PICK chain, un : chain[n] = Places(cur) /\ Chained(chain, un, n)
  BY <1>1, <1>3 DEF Stack
<1>5. /\ IsSeq(q) /\ n \in Nat \ {0} /\ Len(q) = n - 1 /\ o[n] = k
      /\ \A i \in 1..n - 1 : q[i] = o[i]
  BY <1>1, <1>2, <1>3, SeqFront DEF Stack, Latest
<1>6. /\ Traced(k, un[n]) /\ chain[n - 1] = Undone(un[n], chain[n])
      /\ Rules(chain[n - 1], Renamed)
  <2>1. n \in 1..n /\ n - 1 \in 0..n
    BY <1>5
  <2>2. PICK t : t = un[n]
    OBVIOUS
  <2> QED
    BY <1>1, <1>4, <1>5, <2>1 DEF Chained
<1>7. un[n] = u
  BY <1>6
<1>8. Places(cur)' = chain[n - 1]
  <2>1. Places(cur') = chain[n - 1]
    BY <1>4, <1>6, <1>7
  <2> QED
    BY <2>1 DEF Places
<1>9. \A i \in 0..n - 1 : Rules(chain[i], Renamed')
  BY <1>4, <1>5, RulesLater DEF Chained
<1>10. ASSUME NEW i \in 1..n - 1
       PROVE  /\ q[i] \in Rows' /\ history'.applied[q[i]] # 0 /\ Traced(q[i], un[i])'
              /\ chain[i - 1] = Undone(un[i], chain[i])
  <2>1. PICK id, t : id = o[i] /\ t = un[i]
    OBVIOUS
  <2>2. /\ id \in Rows /\ history.applied[id] # 0 /\ Traced(id, t)
        /\ chain[i - 1] = Undone(t, chain[i])
    <3>1. i \in 1..n
      BY <1>5
    <3> QED
      BY <1>1, <1>4, <2>1, <3>1 DEF Chained
  <2>3. id \in Rows' /\ history'.applied[id] # 0 /\ Traced(id, t)'
    BY <2>2
  <2>4. q[i] = id
    BY <1>5, <2>1
  <2> QED
    BY <2>1, <2>2, <2>3, <2>4 DEF Traced, Knows, Known, Recorded
<1>11. Chained(chain, un, n - 1)'
  BY <1>1, <1>2, <1>9, <1>10 DEF Chained, Traced, Knows, Known, Recorded
<1> QED
  BY <1>1, <1>2, <1>5, <1>8, <1>11 DEF Stack

LEMMA VocWrite ==
    ASSUME LogInv, StateInv, VocInv, NEW w \in Workers, Write(w)
    PROVE  VocInv'
<1> DEFINE x == workers[w]
           y == workers'[w]
           id == Row(w).id
           a == Action(id)
           h == history
           r == Outcome(a, x.seen, cur)
<1>1. /\ Shapes /\ x.pc = "write" /\ log' = log /\ script' = script
  BY DEF LogInv, Write
<1>2. Serves(x, Rows)
  BY <1>1, BusyServes
<1>3. id \in Rows /\ x.op = "execute"
  BY <1>1, <1>2, QueueOf DEF Serves, PcFits
<1>4. a.kind \in Kinds /\ IsAction(a)
  BY <1>1, <1>3 DEF StateInv, VocInv, Action, Shapes, RowShape
<1>5. WellFormed(x.seen) /\ x.seen.nextId <= cur.nextId /\ WellFormed(cur)
  BY <1>1 DEF StateInv, WorkerFits
<1>6. Kept(r, cur)
  BY <1>4, <1>5, ExecuteKeeps
<1>7. /\ cur' = r.cur
      /\ \/ /\ ~ r.ok /\ history' = history
            /\ After(w, "fail", x.op, x.queue, Empty, r.undo, x.snap)
         \/ /\ r.ok
            /\ \E p \in {"load", "record"} : After(w, p, x.op, x.queue, Empty, r.undo, x.snap)
            /\ \E l : HistoryIs([h.applied EXCEPT ![id] = @ + 1], h.undone, h.disturbed,
                                h.overlapped, Append(h.order, id), h.outOfOrder, h.torn, l)
  BY <1>1, <1>3, WriteDoes
<1>8. CASE ~ r.ok /\ history' = history /\ After(w, "fail", x.op, x.queue, Empty, r.undo, x.snap)
  <2>1. Alike(cur', cur)
    BY <1>6, <1>7, <1>8 DEF Kept
  <2>2. Places(cur') = Places(cur)
    BY <2>1 DEF Alike, Places
  <2>3. Others(w) /\ y.queue = x.queue /\ y.op = x.op /\ y.pc = "fail"
    BY <1>8 DEF After, Others
  <2> QED
    BY <1>1, <1>8, <2>2, <2>3, VocLooks DEF SameButTorn
<1>9. ASSUME r.ok, NEW p \in {"load", "record"}, After(w, p, x.op, x.queue, Empty, r.undo, x.snap),
             NEW l, HistoryIs([h.applied EXCEPT ![id] = @ + 1], h.undone, h.disturbed,
                              h.overlapped, Append(h.order, id), h.outOfOrder, h.torn, l)
      PROVE  VocInv'
  <2>1. /\ Others(w) /\ y.pc = p /\ y.queue = x.queue /\ y.op = x.op /\ y.undo = r.undo
    BY <1>9 DEF After, Others
  <2> DEFINE t == [h.applied EXCEPT ![id] = @ + 1]
  <2>2. t[id] # 0 /\ \A k \in Rows : h.applied[k] # 0 => t[k] # 0
    <3>1. Counts(h.applied) /\ DOMAIN h.applied = Rows
      BY <1>1, CountsAre, RowsAre, SeqFacts DEF Counts, Shapes
    <3> QED
      BY <1>3, <3>1 DEF Counts
  <2> HIDE DEF t
  <2>3. PICK o : o = Append(h.order, id)
    OBVIOUS
  <2>4. /\ history'.applied = t /\ history'.disturbed = h.disturbed
        /\ history'.overlapped = h.overlapped /\ history'.outOfOrder = h.outOfOrder
        /\ history'.order = o
    BY <1>9, <2>3 DEF HistoryIs, t
  <2>5. CASE h.overlapped \/ h.outOfOrder
    BY <1>1, <2>1, <2>4, <2>5, VocOn
  <2>6. CASE ~ (h.overlapped \/ h.outOfOrder)
    <3>1. h.disturbed = {} /\ Stack /\ x.seen = cur
      BY <1>1, <2>6, VocWas
    <3>2. Rules(Places(cur), Renamed) /\ IsSeq(h.order)
      <4>1. PICK n : n = Len(h.order)
        OBVIOUS
      <4>2. n \in Nat
        BY <3>1, <4>1, SeqFacts DEF Stack
      <4>3. n \in 0..n
        BY <4>2
      <4> QED
        BY <3>1, <4>1, <4>3 DEF Stack, Chained
    <3>3. PICK b, e : b = cur /\ e = r
      OBVIOUS
    <3>4. a.kind = "rename" => Renamed
      BY <1>3 DEF Renamed
    <3>5. e = Outcome(a, b, b) /\ e.ok /\ WellFormed(b) /\ Rules(Places(b), Renamed)
      BY <1>5, <1>9, <3>1, <3>2, <3>3
    <3>6. Renamed \in BOOLEAN
      BY DEF Renamed
    <3>7. Leads(Places(b), e, Renamed)
      BY <1>4, <3>4, <3>5, <3>6, OutcomeLeads
    <3>8. cur' = e.cur /\ y.undo = e.undo
      BY <1>7, <2>1, <3>3
    <3>9. Rows' = Rows /\ (Renamed => Renamed')
      <4>1. Rows' = Rows
        BY <1>1 DEF Rows
      <4> QED
        BY <1>1, <4>1, RenamedStays
    <3>10. Rules(Places(cur'), Renamed') /\ Undone(e.undo, Places(cur')) = Places(cur)
      BY <3>3, <3>7, <3>8, <3>9, RulesLater DEF Leads
    <3>11. ASSUME NEW k \in Rows, NEW u, h.applied[k] # 0, Traced(k, u)
           PROVE  history'.applied[k] # 0 /\ Traced(k, u)'
      <4>1. Traced(k, u)'
        BY <1>1, <2>1, <3>11, LooksTrace
      <4> QED
        BY <2>2, <2>4, <3>11, <4>1
    <3>12. Stack'
      <4>1. PICK k, u : k = id /\ u = e.undo
        OBVIOUS
      <4>2. /\ k \in Rows' /\ history'.order = Append(h.order, k) /\ history'.applied[k] # 0
            /\ Undone(u, Places(cur')) = Places(cur)
        BY <1>3, <2>2, <2>3, <2>4, <3>9, <3>10, <4>1
      <4>3. Traced(k, u)'
        BY <1>1, <2>1, <3>1, <3>8, <4>1, WrittenTrace
      <4> QED
        BY <3>1, <3>9, <3>10, <3>11, <4>2, <4>3, StackPush
    <3> QED
      BY <1>1, <2>1, <2>4, <2>6, <3>1, <3>12, VocOn
  <2> QED
    BY <2>5, <2>6
<1> QED
  BY <1>7, <1>8, <1>9

LEMMA VocUndoWrite ==
    ASSUME LogInv, StateInv, VocInv, NEW w \in Workers, UndoWrite(w)
    PROVE  VocInv'
<1> DEFINE x == workers[w]
           y == workers'[w]
           id == Row(w).id
           u == Row(w).undo
           h == history
           r == ApplyUndo(u, x.seen, cur)
<1>1. /\ Shapes /\ x.pc = "undoWrite" /\ log' = log /\ script' = script
  BY DEF LogInv, UndoWrite
<1>2. Serves(x, Rows)
  BY <1>1, BusyServes
<1>3. id \in Rows /\ x.op = "undo" /\ IsSeq(x.queue) /\ x.queue # <<>> /\ 1 \in 1..Len(x.queue)
  BY <1>1, <1>2, QueueOf DEF Serves, PcFits
<1>4. Row(w) = x.queue[1]
  BY <1>3, SeqTail DEF Row
<1>5. UndoFits(u, cur.nextId) /\ u # NoUndo /\ WellFormed(cur)
  BY <1>3, <1>4 DEF StateInv, WorkerFits
<1>6. \A t : Traced(id, t) => t = u
  BY <1>3, <1>4 DEF Traced, Knows, Known
<1>7. /\ cur' = r.cur
      /\ \/ /\ ~ r.ok /\ AfterAdvance(w)
            /\ \E t, l : HistoryIs(h.applied, h.undone, h.disturbed, h.overlapped, h.order,
                                   h.outOfOrder \/ (cur' # cur /\ ~ Latest(id)), t, l)
         \/ /\ r.ok
            /\ \E p \in {"load", "undone"} : After(w, p, x.op, x.queue, Empty, x.undo, x.snap)
            /\ \E z : HistoryIs(h.applied, z, h.disturbed, h.overlapped,
                                IF Latest(id) THEN Front(h.order) ELSE h.order,
                                h.outOfOrder \/ ~ Latest(id), h.torn, NoRow)
  BY <1>1, <1>3, UndoWriteDoes
<1> HIDE DEF r
<1>8. Rows' = Rows /\ (Renamed => Renamed')
  <2>1. Rows' = Rows
    BY <1>1 DEF Rows
  <2> QED
    BY <1>1, <2>1, RenamedStays
<1>9. ~ h.overlapped /\ ~ h.outOfOrder => h.disturbed = {} /\ Stack
  BY <1>1, VocWas
<1>10. ~ h.overlapped /\ ~ h.outOfOrder /\ Latest(id) =>
          /\ r.ok => Places(cur') = Undone(u, Places(cur))
          /\ ~ r.ok => Places(cur') = Places(cur)
  <2> SUFFICES ASSUME ~ h.overlapped, ~ h.outOfOrder, Latest(id)
               PROVE  /\ r.ok => Places(cur') = Undone(u, Places(cur))
                      /\ ~ r.ok => Places(cur') = Places(cur)
    OBVIOUS
  <2>1. Unique(Undone(u, Places(cur)))
    BY <1>6, <1>9, LatestUnique
  <2> QED
    BY <1>5, <1>7, <2>1, UndoPlaces DEF r
<1>11. CASE /\ ~ r.ok /\ AfterAdvance(w)
            /\ \E t, l : HistoryIs(h.applied, h.undone, h.disturbed, h.overlapped, h.order,
                                   h.outOfOrder \/ (cur' # cur /\ ~ Latest(id)), t, l)
  <2>1. /\ history'.applied = h.applied /\ history'.disturbed = h.disturbed
        /\ history'.overlapped = h.overlapped /\ history'.order = h.order
        /\ history'.outOfOrder = (h.outOfOrder \/ (cur' # cur /\ ~ Latest(id)))
    BY <1>11 DEF HistoryIs
  <2>2. First(x.op) # "write"
    BY <1>3 DEF First
  <2>3. Others(w) /\ y.pc # "write"
    BY <1>11, <2>2 DEF AfterAdvance, After, Others
  <2>4. \A k, t : Traced(k, t) => Traced(k, t)'
    BY <1>1, <1>11, RefusedTrace
  <2>5. \/ history'.overlapped \/ history'.outOfOrder
        \/ Places(cur') = Places(cur)
    BY <1>10, <1>11, <2>1
  <2> QED
    BY <1>1, <1>8, <2>1, <2>3, <2>4, <2>5, VocStays
<1>12. CASE /\ r.ok
            /\ \E p \in {"load", "undone"} : After(w, p, x.op, x.queue, Empty, x.undo, x.snap)
            /\ \E z : HistoryIs(h.applied, z, h.disturbed, h.overlapped,
                                IF Latest(id) THEN Front(h.order) ELSE h.order,
                                h.outOfOrder \/ ~ Latest(id), h.torn, NoRow)
  <2>1. PICK p \in {"load", "undone"} : After(w, p, x.op, x.queue, Empty, x.undo, x.snap)
    BY <1>12
  <2>2. Others(w) /\ y.pc = p /\ y.queue = x.queue /\ y.op = x.op /\ y.undo = x.undo
    BY <2>1 DEF After, Others
  <2>3. /\ history'.applied = h.applied /\ history'.disturbed = h.disturbed
        /\ history'.overlapped = h.overlapped
        /\ history'.outOfOrder = (h.outOfOrder \/ ~ Latest(id))
        /\ Latest(id) => history'.order = Front(h.order)
    BY <1>12 DEF HistoryIs
  <2>4. CASE history'.overlapped \/ history'.outOfOrder
    BY <1>1, <2>2, <2>4, VocOn
  <2>5. CASE ~ (history'.overlapped \/ history'.outOfOrder)
    <3>1. Latest(id) /\ ~ h.overlapped /\ ~ h.outOfOrder
      BY <2>3, <2>5
    <3>2. \A k, t : Traced(k, t) => Traced(k, t)'
      BY <1>1, <1>3, <2>2, LooksTrace
    <3>3. Stack'
      BY <1>6, <1>8, <1>9, <1>10, <1>12, <2>3, <3>1, <3>2, StackPop
    <3> QED
      BY <1>1, <1>9, <2>1, <2>2, <2>3, <3>1, <3>3, VocOn
  <2> QED
    BY <2>4, <2>5
<1> QED
  BY <1>7, <1>11, <1>12

LEMMA InitVoc == Init => VocInv
<1> SUFFICES ASSUME Init PROVE VocInv
  OBVIOUS
<1>1. PICK s \in Scripts : script = s.requests /\ cur = s.start
  BY DEF Init
<1>2. /\ WellFormed(cur) /\ Sound(cur, FALSE) /\ \A e \in cur.vocab : e.kind \in VocabKinds
      /\ \A i \in Requests : IsAction(script[i])
  BY <1>1, ActionLogAssumption DEF Requests
<1>3. \A w \in Workers : workers[w] = Idle
  BY DEF Init
<1>4. Idle.pc = "idle"
  BY DEF Idle
<1>5. history.order = <<>> /\ history.disturbed = {}
  BY DEF Init
<1>6. Rules(Places(cur), Renamed)
  BY <1>2, SoundRules, RulesLater
<1>7. Stack
  <2> DEFINE e == <<>>
             P == Places(cur)
             D == [k \in {0} |-> P]
  <2>1. IsSeq(e) /\ Len(e) = 0
    BY EmptySeq DEF IsSeq
  <2>2. D[0] = P
    OBVIOUS
  <2> HIDE DEF D, P
  <2>3. \A k \in 0..0 : Rules(D[k], Renamed)
    BY <1>6, <2>2 DEF P
  <2>4. Chained(D, D, 0)
    BY <2>3 DEF Chained
  <2> HIDE DEF e
  <2>5. history.order = e
    BY <1>5 DEF e
  <2> QED
    BY <2>1, <2>2, <2>4, <2>5 DEF Stack, P
<1> QED
  BY <1>2, <1>3, <1>4, <1>5, <1>7 DEF VocInv, Alone

LEMMA VocStep == LogInv /\ StateInv /\ VocInv /\ [Next]_vars => VocInv'
<1> SUFFICES ASSUME LogInv, StateInv, VocInv, [Next]_vars PROVE VocInv'
  OBVIOUS
<1>1. CASE UNCHANGED vars
  BY <1>1, VocNothing DEF vars
<1>2. CASE Next
  <2>1. PICK w \in Workers :
        \/ \E r \in Requests : Dispatch(w, r)
        \/ \E id \in Rows : Approve(w, id) \/ Reject(w, id) \/ Undo(w, id)
        \/ ApproveAll(w) \/ RejectAll(w) \/ UndoAll(w)
        \/ Looks(w) \/ Write(w) \/ RecordResult(w) \/ SetRejected(w) \/ UndoWrite(w)
        \/ SetUndone(w) \/ WriteBreaks(w) \/ UndoBreaks(w) \/ Stop(w)
    BY <1>2 DEF Next, Looks
  <2> QED
    BY <2>1, VocDispatch, VocReview, VocRead, VocWrite, VocRecord, VocUndoWrite, VocBreaks, VocStop
<1> QED
  BY <1>1, <1>2

LEMMA VocSound == StateInv /\ VocInv => VocabularySound
<1> SUFFICES ASSUME StateInv, VocInv, ~ history.overlapped, ~ history.outOfOrder
             PROVE  Sound(cur, Renamed)
  BY DEF VocabularySound, Renamed
<1>1. PICK n : n = Len(history.order)
  OBVIOUS
<1>2. Stack
  BY DEF VocInv
<1>3. n \in Nat
  BY <1>1, <1>2, SeqFacts DEF Stack
<1>4. n \in 0..n
  BY <1>3
<1>5. Rules(Places(cur), Renamed)
  BY <1>1, <1>2, <1>4 DEF Stack, Chained
<1> QED
  BY <1>5, RulesSound DEF StateInv

(* While requests come one after another, none stops or fails halfway, and *)
(* undos come newest first, every category, tag and value stays within the *)
(* rules that executors check, though an undo checks no cap and no         *)
(* spelling: each leads back to what there was before.  (VocabularySound   *)
(* of action_log.)                                                         *)
THEOREM VocabularyStaysSound == Spec => []VocabularySound
<1> DEFINE Inv == LogInv /\ StateInv /\ SnapInv /\ VocInv
<1>1. Init => Inv
  BY InitLog, InitFits, InitVoc
<1>2. Inv /\ [Next]_vars => Inv'
  BY LogStep, FitStep, VocStep
<1>3. Inv => VocabularySound
  BY VocSound
<1> QED
  BY <1>1, <1>2, <1>3, PTL DEF Spec
==============================================================================
