----------------------------- MODULE ServerProofs -----------------------------
(***************************************************************************)
(* The parts of the server that share no state, each with its inductive    *)
(* invariant, for every value of the constants: insight reports, agent     *)
(* runs, datasets, the live feed and the login limit.  A part keeps its    *)
(* invariant because its own steps do and every other part's steps leave   *)
(* its variables alone, so each theorem is one about the whole server.     *)
(***************************************************************************)
EXTENDS MCServer, FiniteSetTheorems, TLAPS

-----------------------------------------------------------------------------
(***************************************************************************)
(* Insight reports. A run keeps, of what stood hidden when it began, the   *)
(* part that has stood ever since. Once it has read the marks it knows of  *)
(* every finding in that part, once it has read the suppressions of every  *)
(* column, and its answer is sorted by keys no two findings share.         *)
(***************************************************************************)
LEMMA Least ==
    ASSUME NEW T \in SUBSET Nat, T # {}
    PROVE  \E m \in T : \A k \in T : m <= k
<1>1. IsWellFoundedOn(OpToRel(<, Nat), Nat)
  BY NatLessThanWellFounded
<1>2. \E x \in T : \A y \in T : ~ (<<y, x>> \in OpToRel(<, Nat))
  BY <1>1, WFMin
<1>3. PICK x \in T : \A y \in T : ~ (<<y, x>> \in OpToRel(<, Nat))
  BY <1>2
<1>4. \A y \in T : x \in Nat /\ y \in Nat /\ ~(y < x)
  BY <1>3 DEF OpToRel
<1> QED BY <1>4

\* The listings of a finite set in ascending order of a key.
Ascending(S, f) ==
    {q \in [1..Cardinality(S) -> S] :
        /\ \A m, n \in 1..Cardinality(S) : m # n => q[m] # q[n]
        /\ \A m, n \in 1..Cardinality(S) : m < n => f[q[m]] < f[q[n]]}

LEMMA SortedListing ==
    ASSUME NEW S, IsFiniteSet(S), NEW f, \A x \in S : f[x] \in Nat,
           \A x, y \in S : x # y => f[x] # f[y]
    PROVE  Ascending(S, f) # {}
<1> DEFINE Bad == {n \in Nat : \E T \in SUBSET S : Cardinality(T) = n /\ Ascending(T, f) = {}}
<1> SUFFICES ASSUME Bad # {} PROVE FALSE
  BY FS_CardinalityType
<1>1. PICK c \in Bad : \A k \in Bad : c <= k
  <2>1. Bad \in SUBSET Nat
    OBVIOUS
  <2> HIDE DEF Bad
  <2> QED BY <2>1, Least
<1>2. PICK T \in SUBSET S : Cardinality(T) = c /\ Ascending(T, f) = {}
  BY <1>1
<1>3. IsFiniteSet(T)
  BY FS_Subset
<1>4. T # {}
  <2> SUFFICES ASSUME T = {} PROVE FALSE
    OBVIOUS
  <2>1. Cardinality(T) = 0
    BY FS_EmptySet
  <2>2. <<>> = [x \in {} |-> 0] /\ 1..0 = {}
    OBVIOUS
  <2>3. [x \in {} |-> 0] \in Ascending(T, f)
    BY <2>1, <2>2 DEF Ascending
  <2> QED BY <1>2, <2>3
<1>5. PICK x \in T : \A y \in T : f[x] <= f[y]
  <2> DEFINE keys == {f[y] : y \in T}
  <2>1. keys \in SUBSET Nat /\ keys # {}
    BY <1>4
  <2> HIDE DEF keys
  <2>2. PICK m \in keys : \A k \in keys : m <= k
    BY <2>1, Least
  <2> QED BY <2>2 DEF keys
<1>6. Cardinality(T \ {x}) = c - 1 /\ c \in Nat
  BY <1>2, <1>3, <1>5, FS_RemoveElement
<1>7. c - 1 \in Nat
  BY <1>3, <1>6, FS_RemoveElement, FS_CardinalityType
<1>8. PICK q : q \in Ascending(T \ {x}, f)
  BY <1>1, <1>6, <1>7
<1>9. /\ q \in [1..c - 1 -> T \ {x}]
      /\ \A m, n \in 1..c - 1 : m # n => q[m] # q[n]
      /\ \A m, n \in 1..c - 1 : m < n => f[q[m]] < f[q[n]]
  BY <1>6, <1>8 DEF Ascending
<1> DEFINE r == [i \in 1..c |-> IF i = 1 THEN x ELSE q[i - 1]]
<1>10. r \in [1..c -> T]
  BY <1>5, <1>6, <1>9
<1>11. \A m, n \in 1..c : m < n => f[r[m]] < f[r[n]]
  <2> SUFFICES ASSUME NEW m \in 1..c, NEW n \in 1..c, m < n PROVE f[r[m]] < f[r[n]]
    OBVIOUS
  <2>1. n - 1 \in 1..c - 1 /\ r[n] = q[n - 1] /\ q[n - 1] \in T \ {x}
    BY <1>6, <1>9
  <2>2. CASE m = 1
    <3>1. r[m] = x /\ f[x] \in Nat /\ f[q[n - 1]] \in Nat /\ f[x] <= f[q[n - 1]] /\ f[x] # f[q[n - 1]]
      BY <1>5, <2>1, <2>2
    <3> HIDE DEF r
    <3> QED BY <2>1, <3>1
  <2>3. CASE m # 1
    <3>1. m - 1 \in 1..c - 1 /\ r[m] = q[m - 1] /\ m - 1 < n - 1
      BY <1>6, <2>3
    <3> QED BY <1>9, <2>1, <3>1
  <2> QED BY <2>2, <2>3
<1>12. \A m, n \in 1..c : m # n => r[m] # r[n]
  <2> SUFFICES ASSUME NEW m \in 1..c, NEW n \in 1..c, m # n PROVE r[m] # r[n]
    OBVIOUS
  <2>1. (m < n \/ n < m) /\ f[r[m]] \in Nat /\ f[r[n]] \in Nat
    BY <1>6, <1>10
  <2> HIDE DEF r
  <2> QED BY <1>11, <2>1
<1>13. r \in Ascending(T, f)
  BY <1>2, <1>10, <1>11, <1>12 DEF Ascending
<1> QED BY <1>2, <1>13

-----------------------------------------------------------------------------
Reading == {"history", "marks", "suppressions", "engine"}

\* An answer leaves out what stood hidden and puts pinned findings first.
CuratedAnswer(r) ==
    LET a == r.answer
        Pin(x) == <<x, "pinned">> \in r.marks
    IN /\ \A x \in Insights!Range(a) : {x, ColumnOf[x]} \cap r.steady = {}
       /\ \A i, j \in DOMAIN a : Pin(a[j]) /\ i < j => Pin(a[i])

\* What a run knows once it has read: all that stands hidden since it began.
RunKnows(r) ==
    /\ r.pc \in Reading =>
         DOMAIN r = {"pc", "by", "steady", "degraded", "known", "marks", "hide"} /\ r.degraded \in BOOLEAN
    /\ r.pc \in {"suppressions", "engine"} /\ ~r.degraded =>
         \A x \in r.steady \cap Finding : <<x, "dismissed">> \in r.marks
    /\ r.pc = "engine" /\ ~r.degraded => r.steady \ Finding \subseteq r.hide
    /\ "answer" \in DOMAIN r =>
         /\ DOMAIN r = {"pc", "answer", "marks", "steady", "degraded"}
         /\ r.pc = "leave"
         /\ ~r.degraded => CuratedAnswer(r)

RunStands(t, r, hides) ==
    /\ RunKnows(r)
    /\ r.pc \in {"insert", "debounce"} => t \in Hook
    /\ "steady" \in DOMAIN r =>
         r.steady \subseteq hides /\ (r.pc \in Reading \/ "answer" \in DOMAIN r)

InsightInv ==
    /\ insightTask = [t \in Insights!Task |-> insightTask[t]]
    /\ suppressed \subseteq {ColumnOf[x] : x \in Finding}
    /\ \A t \in Insights!Task : RunStands(t, insightTask[t], Insights!Hiding(mark, suppressed))
    /\ Insights!KeyIsHeld

LEMMA InsightsInit == Insights!Init => InsightInv
<1> SUFFICES ASSUME Insights!Init PROVE InsightInv
  OBVIOUS
<1>1. \A t \in Insights!Task : insightTask[t] = Insights!Idle
  BY DEF Insights!Init
<1> QED BY <1>1 DEF Insights!Init, InsightInv, RunStands, RunKnows, Insights!Idle, Reading, Insights!KeyIsHeld

LEMMA InsightsUntouched == InsightInv /\ UNCHANGED insights => InsightInv'
BY DEF InsightInv, insights, Insights!KeyIsHeld

\* A step of one task that leaves what hides findings as it is.
LEMMA OneReport ==
    ASSUME InsightInv, NEW t \in Insights!Task, NEW r,
           insightTask' = [insightTask EXCEPT ![t] = r],
           UNCHANGED <<mark, suppressed>>,
           RunStands(t, r, Insights!Hiding(mark, suppressed)),
           Insights!KeyIsHeld'
    PROVE  InsightInv'
<1>1. /\ insightTask' = [q \in Insights!Task |-> insightTask'[q]]
      /\ insightTask'[t] = r
      /\ \A q \in Insights!Task \ {t} : insightTask'[q] = insightTask[q]
  BY DEF InsightInv
<1>2. \A q \in Insights!Task : RunStands(q, insightTask[q], Insights!Hiding(mark, suppressed))'
  BY <1>1 DEF InsightInv
<1> QED BY <1>1, <1>2 DEF InsightInv

\* The key stays held by a task that goes on.
LEMMA HeldOn ==
    ASSUME InsightInv, NEW t \in Insights!Task, NEW r,
           insightTask' = [insightTask EXCEPT ![t] = r], r # Insights!Idle \/ t \notin Hook,
           UNCHANGED inflight
    PROVE  Insights!KeyIsHeld'
<1>1. /\ insightTask'[t] = r
      /\ \A q \in Insights!Task \ {t} : insightTask'[q] = insightTask[q]
      /\ Hook \subseteq Insights!Task
  BY DEF InsightInv, Insights!Task
<1> QED BY <1>1 DEF InsightInv, Insights!KeyIsHeld

LEMMA AskReportStep ==
    ASSUME InsightInv, NEW t \in Insights!Task, NEW by, Insights!AskReport(t, by)
    PROVE  InsightInv'
<1> DEFINE r == Insights!NewRun(by)
<1>1. insightTask' = [insightTask EXCEPT ![t] = r] /\ UNCHANGED <<mark, suppressed, inflight>>
  BY DEF Insights!AskReport, Insights!curation
<1>2. RunStands(t, r, Insights!Hiding(mark, suppressed)) /\ r # Insights!Idle
  BY DEF RunStands, RunKnows, Reading, Insights!NewRun, Insights!Idle
<1> HIDE DEF r
<1> QED BY <1>1, <1>2, OneReport, HeldOn

LEMMA PostSyncStep ==
    ASSUME InsightInv, NEW t \in Insights!Task, Insights!PostSync(t)
    PROVE  InsightInv'
<1> DEFINE r == [pc |-> "insert"]
<1>1. /\ insightTask' = [insightTask EXCEPT ![t] = r] /\ UNCHANGED <<mark, suppressed, inflight>>
      /\ t \in Hook
  BY DEF Insights!PostSync, Insights!curation
<1>2. RunStands(t, r, Insights!Hiding(mark, suppressed)) /\ r # Insights!Idle
  BY <1>1 DEF RunStands, RunKnows, Reading, Insights!Idle
<1> HIDE DEF r
<1> QED BY <1>1, <1>2, OneReport, HeldOn

LEMMA HookInsertStep ==
    ASSUME InsightInv, NEW t \in Insights!Task, Insights!HookInsert(t)
    PROVE  InsightInv'
<1> DEFINE r == [pc |-> "debounce"]
<1>1. /\ insightTask' = [insightTask EXCEPT ![t] = r] /\ UNCHANGED <<mark, suppressed>>
      /\ t \in Hook
  BY DEF Insights!HookInsert, Insights!curation, InsightInv, RunStands
<1>2. RunStands(t, r, Insights!Hiding(mark, suppressed)) /\ r # Insights!Idle
  BY <1>1 DEF RunStands, RunKnows, Reading, Insights!Idle
<1> HIDE DEF r
<1>3. insightTask'[t] = r
  BY <1>1 DEF InsightInv
<1>4. Insights!KeyIsHeld'
  BY <1>1, <1>2, <1>3 DEF Insights!KeyIsHeld
<1> QED BY <1>1, <1>2, <1>4, OneReport

LEMMA HookDebounceStep ==
    ASSUME InsightInv, NEW t \in Insights!Task, NEW fails, Insights!HookDebounce(t, fails)
    PROVE  InsightInv'
<1>1. UNCHANGED <<mark, suppressed, inflight>>
  BY DEF Insights!HookDebounce, Insights!curation
<1>2. PICK r : /\ insightTask' = [insightTask EXCEPT ![t] = r]
               /\ r = [pc |-> "leave"] \/ r = Insights!NewRun("post_sync")
  BY DEF Insights!HookDebounce
<1>3. RunStands(t, r, Insights!Hiding(mark, suppressed)) /\ r # Insights!Idle
  <2>1. CASE r = [pc |-> "leave"]
    BY <2>1 DEF RunStands, RunKnows, Reading, Insights!Idle
  <2>2. CASE r = Insights!NewRun("post_sync")
    BY <2>2 DEF RunStands, RunKnows, Reading, Insights!NewRun, Insights!Idle
  <2> QED BY <1>2, <2>1, <2>2
<1> QED BY <1>1, <1>2, <1>3, OneReport, HeldOn

LEMMA HookLeaveStep ==
    ASSUME InsightInv, NEW t \in Insights!Task, Insights!HookLeave(t)
    PROVE  InsightInv'
<1> DEFINE r == Insights!Idle
<1>1. /\ insightTask' = [insightTask EXCEPT ![t] = r] /\ UNCHANGED <<mark, suppressed>>
      /\ inflight' = FALSE
  BY DEF Insights!HookLeave, Insights!curation
<1>2. RunStands(t, r, Insights!Hiding(mark, suppressed))
  BY DEF RunStands, RunKnows, Reading, Insights!Idle
<1>3. Insights!KeyIsHeld'
  BY <1>1 DEF Insights!KeyIsHeld
<1> HIDE DEF r
<1> QED BY <1>1, <1>2, <1>3, OneReport

LEMMA AskerLeaveStep ==
    ASSUME InsightInv, NEW t \in Insights!Task, Insights!AskerLeave(t)
    PROVE  InsightInv'
<1> DEFINE r == Insights!Idle
<1>1. /\ insightTask' = [insightTask EXCEPT ![t] = r] /\ UNCHANGED <<mark, suppressed, inflight>>
      /\ t \notin Hook
  BY ServerAssumption DEF Insights!AskerLeave, Insights!curation
<1>2. RunStands(t, r, Insights!Hiding(mark, suppressed))
  BY DEF RunStands, RunKnows, Reading, Insights!Idle
<1> HIDE DEF r
<1> QED BY <1>1, <1>2, OneReport, HeldOn

LEMMA ReportFailsStep ==
    ASSUME InsightInv, NEW t \in Insights!Task, Insights!ReportFails(t)
    PROVE  InsightInv'
<1> DEFINE r == [pc |-> "leave"]
<1>1. insightTask' = [insightTask EXCEPT ![t] = r] /\ UNCHANGED <<mark, suppressed, inflight>>
  BY DEF Insights!ReportFails, Insights!curation
<1>2. RunStands(t, r, Insights!Hiding(mark, suppressed)) /\ r # Insights!Idle
  BY DEF RunStands, RunKnows, Reading, Insights!Idle
<1> HIDE DEF r
<1> QED BY <1>1, <1>2, OneReport, HeldOn

-----------------------------------------------------------------------------
\* The three reads.
LEMMA LoadedRun ==
    ASSUME InsightInv, NEW t \in Insights!Task, NEW from \in Reading, NEW field \in {"known", "marks", "hide"},
           NEW value, NEW to, NEW fails \in BOOLEAN,
           Insights!Load(t, from, field, value, to, fails)
    PROVE  \E r : /\ insightTask' = [insightTask EXCEPT ![t] = r]
                  /\ UNCHANGED <<mark, suppressed, inflight>>
                  /\ insightTask[t].pc = from /\ RunStands(t, insightTask[t], Insights!Hiding(mark, suppressed))
                  /\ DOMAIN r = DOMAIN insightTask[t] /\ r.pc = to /\ r.steady = insightTask[t].steady
                  /\ r.degraded = (insightTask[t].degraded \/ fails)
                  /\ r[field] = IF fails THEN {} ELSE value
                  /\ \A f \in {"marks", "hide"} \ {field} : r[f] = insightTask[t][f]
<1> DEFINE o == insightTask[t]
           a == [o EXCEPT ![field] = IF fails THEN {} ELSE value]
           b == [a EXCEPT !.pc = to]
           r == [b EXCEPT !.degraded = o.degraded \/ fails]
<1>1. o.pc = from /\ RunStands(t, o, Insights!Hiding(mark, suppressed))
  BY DEF Insights!Load, InsightInv
<1>2. [a EXCEPT !.pc = to, !.degraded = o.degraded \/ fails] = r
  OBVIOUS
<1>3. insightTask' = [insightTask EXCEPT ![t] = r] /\ UNCHANGED <<mark, suppressed, inflight>>
  BY <1>2 DEF Insights!Load, Insights!curation
<1>4. DOMAIN o = {"pc", "by", "steady", "degraded", "known", "marks", "hide"}
  BY <1>1 DEF RunStands, RunKnows
<1> HIDE DEF o
<1>5. DOMAIN a = DOMAIN o /\ a[field] = (IF fails THEN {} ELSE value) /\ \A f \in DOMAIN o \ {field} : a[f] = o[f]
  BY <1>4
<1> HIDE DEF a
<1>6. DOMAIN b = DOMAIN a /\ b.pc = to /\ \A f \in DOMAIN a \ {"pc"} : b[f] = a[f]
  BY <1>4, <1>5
<1> HIDE DEF b
<1>7. DOMAIN r = DOMAIN b /\ r.degraded = (o.degraded \/ fails) /\ \A f \in DOMAIN b \ {"degraded"} : r[f] = b[f]
  BY <1>4, <1>5, <1>6
<1> HIDE DEF r
<1>8. /\ DOMAIN r = DOMAIN o /\ r.pc = to /\ r.steady = o.steady
      /\ r[field] = (IF fails THEN {} ELSE value)
      /\ \A f \in {"marks", "hide"} \ {field} : r[f] = o[f]
  BY <1>4, <1>5, <1>6, <1>7
<1> QED BY <1>1, <1>3, <1>7, <1>8 DEF o

LEMMA LoadHistoryStep ==
    ASSUME InsightInv, NEW t \in Insights!Task, NEW fails \in BOOLEAN, Insights!LoadHistory(t, fails)
    PROVE  InsightInv'
<1>1. Insights!Load(t, "history", "known", {x \in Finding : history[x] # Insights!Never}, "marks", fails)
  BY DEF Insights!LoadHistory
<1> DEFINE o == insightTask[t]
<1>2. PICK r : /\ insightTask' = [insightTask EXCEPT ![t] = r]
               /\ UNCHANGED <<mark, suppressed, inflight>>
               /\ o.pc = "history" /\ RunStands(t, o, Insights!Hiding(mark, suppressed))
               /\ DOMAIN r = DOMAIN o /\ r.pc = "marks" /\ r.steady = o.steady
               /\ r.degraded = (o.degraded \/ fails)
  BY <1>1, LoadedRun DEF Reading
<1> HIDE DEF o
<1>3. RunStands(t, r, Insights!Hiding(mark, suppressed)) /\ r # Insights!Idle
  BY <1>2 DEF RunStands, RunKnows, Reading, Insights!Idle
<1> QED BY <1>2, <1>3, OneReport, HeldOn

LEMMA LoadMarksStep ==
    ASSUME InsightInv, NEW t \in Insights!Task, NEW fails \in BOOLEAN, Insights!LoadMarks(t, fails)
    PROVE  InsightInv'
<1> DEFINE o == insightTask[t]
           read == {<<x, mark[x]>> : x \in Finding}
<1>1. Insights!Load(t, "marks", "marks", read, "suppressions", fails)
  BY DEF Insights!LoadMarks
<1>2. \A x \in Insights!Hiding(mark, suppressed) \cap Finding : <<x, "dismissed">> \in read
  BY ServerAssumption DEF Insights!Hiding, InsightInv
<1> HIDE DEF read
<1>3. PICK r : /\ insightTask' = [insightTask EXCEPT ![t] = r]
               /\ UNCHANGED <<mark, suppressed, inflight>>
               /\ o.pc = "marks" /\ RunStands(t, o, Insights!Hiding(mark, suppressed))
               /\ DOMAIN r = DOMAIN o /\ r.pc = "suppressions" /\ r.steady = o.steady
               /\ r.degraded = (o.degraded \/ fails)
               /\ r.marks = IF fails THEN {} ELSE read
  BY <1>1, LoadedRun DEF Reading
<1> HIDE DEF o
<1>4. o.steady \subseteq Insights!Hiding(mark, suppressed)
  BY <1>3 DEF RunStands, RunKnows, Reading
<1>5. RunStands(t, r, Insights!Hiding(mark, suppressed)) /\ r # Insights!Idle
  BY <1>2, <1>3, <1>4 DEF RunStands, RunKnows, Reading, Insights!Idle
<1> QED BY <1>3, <1>5, OneReport, HeldOn

LEMMA LoadSuppressionsStep ==
    ASSUME InsightInv, NEW t \in Insights!Task, NEW fails \in BOOLEAN, Insights!LoadSuppressions(t, fails)
    PROVE  InsightInv'
<1> DEFINE o == insightTask[t]
<1>1. Insights!Load(t, "suppressions", "hide", suppressed, "engine", fails)
  BY DEF Insights!LoadSuppressions
<1>2. Insights!Hiding(mark, suppressed) \ Finding \subseteq suppressed
  BY DEF Insights!Hiding
<1>3. PICK r : /\ insightTask' = [insightTask EXCEPT ![t] = r]
               /\ UNCHANGED <<mark, suppressed, inflight>>
               /\ o.pc = "suppressions" /\ RunStands(t, o, Insights!Hiding(mark, suppressed))
               /\ DOMAIN r = DOMAIN o /\ r.pc = "engine" /\ r.steady = o.steady
               /\ r.degraded = (o.degraded \/ fails)
               /\ r.hide = (IF fails THEN {} ELSE suppressed) /\ r.marks = o.marks
  BY <1>1, LoadedRun DEF Reading
<1> HIDE DEF o
<1>4. o.steady \subseteq Insights!Hiding(mark, suppressed)
  BY <1>3 DEF RunStands, RunKnows, Reading
<1>5. RunStands(t, r, Insights!Hiding(mark, suppressed)) /\ r # Insights!Idle
  BY <1>2, <1>3, <1>4 DEF RunStands, RunKnows, Reading, Insights!Idle
<1> QED BY <1>3, <1>5, OneReport, HeldOn

-----------------------------------------------------------------------------
\* What curation makes of the engine's findings, from what the run has read.
LEMMA CurationCurates ==
    ASSUME NEW r, NEW roots \in Insights!Roots
    PROVE  LET a == Insights!Curated(r, roots)
           IN /\ \A x \in Insights!Range(a) :
                    x \in Finding /\ <<x, "dismissed">> \notin r.marks /\ ColumnOf[x] \notin r.hide
              /\ \A i, j \in DOMAIN a :
                    <<a[j], "pinned">> \in r.marks /\ i < j => <<a[i], "pinned">> \in r.marks
<1> DEFINE kept == {i \in DOMAIN roots : /\ <<roots[i], "dismissed">> \notin r.marks
                                         /\ ColumnOf[roots[i]] \notin r.hide}
           key == [i \in kept |-> IF <<roots[i], "pinned">> \in r.marks THEN i ELSE Len(roots) + i]
           sorted(q) == \A m, n \in DOMAIN q : m < n => key[q[m]] < key[q[n]]
           order == CHOOSE q \in Insights!SetToSeqs(kept) : sorted(q)
           a == [n \in DOMAIN order |-> roots[order[n]]]
<1>1. a = Insights!Curated(r, roots)
  BY DEF Insights!Curated
<1>2. PICK size \in Nat : roots \in [1..size -> Finding]
  BY DEF Insights!Roots
<1>3. /\ DOMAIN roots = 1..size /\ Len(roots) = size
      /\ \A i \in 1..size : roots[i] \in Finding
  BY <1>2
<1>4. kept \subseteq 1..size /\ \A i \in kept : key[i] \in Nat
  BY <1>3
<1>5. IsFiniteSet(kept)
  <2> HIDE DEF kept
  <2>1. IsFiniteSet(1..size)
    BY FS_Interval
  <2> QED BY <1>4, <2>1, FS_Subset
<1>6. \A i, j \in kept : i # j => key[i] # key[j]
  BY <1>3
<1>7. \A i \in kept : roots[i] \in Finding /\ <<roots[i], "dismissed">> \notin r.marks
                      /\ ColumnOf[roots[i]] \notin r.hide
  BY <1>3
<1>8. \A i, j \in kept : key[i] < key[j] /\ <<roots[j], "pinned">> \in r.marks
                           => <<roots[i], "pinned">> \in r.marks
  BY <1>3
<1> HIDE DEF kept, key
<1>9. PICK q : q \in Ascending(kept, key)
  BY <1>4, <1>5, <1>6, SortedListing
<1>10. q \in Insights!SetToSeqs(kept) /\ sorted(q)
  <2>1. Insights!Cardinality(kept) = Cardinality(kept)
    BY DEF Insights!Cardinality, Cardinality
  <2> QED BY <1>9, <2>1 DEF Ascending, Insights!SetToSeqs
<1>11. order \in Insights!SetToSeqs(kept) /\ sorted(order)
  BY <1>10
<1> HIDE DEF order
<1>12. \A n \in DOMAIN order : order[n] \in kept
  BY <1>11 DEF Insights!SetToSeqs
<1>13. DOMAIN a = DOMAIN order /\ \A n \in DOMAIN a : a[n] = roots[order[n]]
  OBVIOUS
<1> HIDE DEF a
<1>14. \A x \in Insights!Range(a) : x \in Finding /\ <<x, "dismissed">> \notin r.marks
                                    /\ ColumnOf[x] \notin r.hide
  BY <1>7, <1>12, <1>13 DEF Insights!Range
<1>15. \A i, j \in DOMAIN a :
          <<a[j], "pinned">> \in r.marks /\ i < j => <<a[i], "pinned">> \in r.marks
  BY <1>8, <1>11, <1>12, <1>13
<1> QED BY <1>1, <1>14, <1>15

LEMMA ReportStep ==
    ASSUME InsightInv, NEW t \in Insights!Task, NEW roots \in Insights!Roots, NEW sig,
           Insights!Report(t, roots, sig)
    PROVE  InsightInv'
<1> DEFINE o == insightTask[t]
           a == Insights!Curated(o, roots)
           r == [pc |-> "leave", answer |-> a, marks |-> o.marks, steady |-> o.steady, degraded |-> o.degraded]
<1>1. /\ insightTask' = [insightTask EXCEPT ![t] = r] /\ UNCHANGED <<mark, suppressed, inflight>>
      /\ o.pc = "engine" /\ RunStands(t, o, Insights!Hiding(mark, suppressed))
  BY DEF Insights!Report, Insights!curation, InsightInv
<1>2. /\ \A x \in Insights!Range(a) :
            x \in Finding /\ <<x, "dismissed">> \notin o.marks /\ ColumnOf[x] \notin o.hide
      /\ \A i, j \in DOMAIN a :
            <<a[j], "pinned">> \in o.marks /\ i < j => <<a[i], "pinned">> \in o.marks
  BY CurationCurates
<1> HIDE DEF o, a
<1>3. ~r.degraded => CuratedAnswer(r)
  <2> SUFFICES ASSUME ~o.degraded PROVE CuratedAnswer(r)
    OBVIOUS
  <2>1. /\ \A x \in o.steady \cap Finding : <<x, "dismissed">> \in o.marks
        /\ o.steady \ Finding \subseteq o.hide
    BY <1>1 DEF RunStands, RunKnows
  <2>2. \A x \in Finding : ColumnOf[x] \notin Finding
    BY ServerAssumption
  <2>3. \A x \in Insights!Range(a) : {x, ColumnOf[x]} \cap o.steady = {}
    BY <1>2, <2>1, <2>2
  <2> QED BY <1>2, <2>3 DEF CuratedAnswer
<1>4. o.steady \subseteq Insights!Hiding(mark, suppressed)
  BY <1>1 DEF RunStands, RunKnows, Reading
<1>5. RunStands(t, r, Insights!Hiding(mark, suppressed)) /\ r # Insights!Idle
  BY <1>3, <1>4 DEF RunStands, RunKnows, Reading, Insights!Idle
<1> HIDE DEF r
<1> QED BY <1>1, <1>5, OneReport, HeldOn

-----------------------------------------------------------------------------
\* Whatever hides less from now on, a run's steady part only shrinks with it.
LEMMA Steadied ==
    ASSUME NEW t, NEW r, NEW hides, NEW still, RunStands(t, r, hides), "steady" \in DOMAIN r
    PROVE  RunStands(t, [r EXCEPT !.steady = @ \cap still], still)
<1> DEFINE s == [r EXCEPT !.steady = @ \cap still]
<1>1. DOMAIN s = DOMAIN r /\ s.steady = r.steady \cap still /\ \A f \in DOMAIN r \ {"steady"} : s[f] = r[f]
  OBVIOUS
<1> HIDE DEF s
<1>2. s.pc = r.pc
  BY <1>1 DEF RunStands, RunKnows
<1>3. s.pc \in Reading => s.degraded = r.degraded /\ s.marks = r.marks /\ s.hide = r.hide
  BY <1>1, <1>2 DEF RunStands, RunKnows
<1>4. "answer" \in DOMAIN s => s.degraded = r.degraded /\ s.marks = r.marks /\ s.answer = r.answer
  BY <1>1, <1>2 DEF RunStands, RunKnows
<1>5. "answer" \in DOMAIN s /\ ~s.degraded => CuratedAnswer(s)
  <2> SUFFICES ASSUME "answer" \in DOMAIN s, ~s.degraded PROVE CuratedAnswer(s)
    OBVIOUS
  <2>1. CuratedAnswer(r) /\ s.steady \subseteq r.steady
    BY <1>1, <1>4 DEF RunStands, RunKnows
  <2> QED BY <1>4, <2>1 DEF CuratedAnswer
<1>6. RunKnows(s)
  BY <1>1, <1>2, <1>3, <1>5 DEF RunStands, RunKnows, Reading
<1> QED BY <1>1, <1>2, <1>6 DEF RunStands, s

\* A decision is taken back, or replaced: every run keeps what still hides.
LEMMA DecisionStep ==
    ASSUME InsightInv, suppressed' \subseteq {ColumnOf[x] : x \in Finding}, UNCHANGED inflight,
           insightTask' = Insights!StillHidden(Insights!Hiding(mark', suppressed'))
    PROVE  InsightInv'
<1> DEFINE still == Insights!Hiding(mark', suppressed')
           old == Insights!Hiding(mark, suppressed)
<1>1. Insights!Hiding(mark, suppressed)' = still
  OBVIOUS
<1>2. insightTask' = [t \in Insights!Task |-> IF "steady" \in DOMAIN insightTask[t]
                        THEN [insightTask[t] EXCEPT !.steady = @ \cap still] ELSE insightTask[t]]
  BY DEF Insights!StillHidden
<1> HIDE DEF still
<1>3. ASSUME NEW t \in Insights!Task
      PROVE  RunStands(t, insightTask'[t], still) /\ (insightTask[t] # Insights!Idle => insightTask'[t] # Insights!Idle)
  <2> DEFINE r == insightTask[t]
  <2>1. RunStands(t, r, old)
    BY DEF InsightInv
  <2> HIDE DEF old
  <2>2. CASE "steady" \in DOMAIN r
    <3>1. insightTask'[t] = [r EXCEPT !.steady = @ \cap still]
      BY <1>2, <2>2
    <3> HIDE DEF r
    <3>2. [r EXCEPT !.steady = @ \cap still] # Insights!Idle
      BY <2>2 DEF Insights!Idle
    <3> QED BY <2>1, <2>2, <3>1, <3>2, Steadied
  <2>3. CASE "steady" \notin DOMAIN r
    <3>1. insightTask'[t] = r
      BY <1>2, <2>3
    <3> HIDE DEF r
    <3>2. RunStands(t, r, still)
      BY <2>1, <2>3 DEF RunStands
    <3> QED BY <3>1, <3>2 DEF r
  <2> QED BY <2>2, <2>3
<1>4. insightTask' = [t \in Insights!Task |-> insightTask'[t]]
  BY <1>2
<1>5. Insights!KeyIsHeld'
  <2>1. Hook \subseteq Insights!Task
    BY DEF Insights!Task
  <2> QED BY <1>3, <2>1 DEF InsightInv, Insights!KeyIsHeld
<1>6. \A t \in Insights!Task : RunStands(t, insightTask[t], Insights!Hiding(mark, suppressed))'
  BY <1>1, <1>3
<1> QED BY <1>4, <1>5, <1>6 DEF InsightInv

LEMMA SetMarkStep ==
    ASSUME InsightInv, NEW x \in Finding, NEW m, Insights!SetMark(x, m)
    PROVE  InsightInv'
<1>1. /\ insightTask' = Insights!StillHidden(Insights!Hiding(mark', suppressed'))
      /\ UNCHANGED <<suppressed, inflight>>
  BY DEF Insights!SetMark
<1> QED BY <1>1, DecisionStep DEF InsightInv

LEMMA UnsuppressStep ==
    ASSUME InsightInv, NEW c, Insights!Unsuppress(c)
    PROVE  InsightInv'
<1>1. /\ insightTask' = Insights!StillHidden(Insights!Hiding(mark', suppressed'))
      /\ suppressed' \subseteq suppressed /\ UNCHANGED inflight
  BY DEF Insights!Unsuppress
<1> QED BY <1>1, DecisionStep DEF InsightInv

\* A decision more hides more: what a run was told stays as it was.
LEMMA SuppressStep ==
    ASSUME InsightInv, NEW c \in Insights!Range(ColumnOf), Insights!Suppress(c)
    PROVE  InsightInv'
<1>1. /\ suppressed' = suppressed \cup {c} /\ UNCHANGED <<mark, insightTask, inflight>>
      /\ suppressed' \subseteq {ColumnOf[x] : x \in Finding}
  BY ServerAssumption DEF Insights!Suppress, InsightInv, Insights!Range
<1>2. Insights!Hiding(mark, suppressed) \subseteq Insights!Hiding(mark, suppressed)'
  BY <1>1 DEF Insights!Hiding
<1>3. ASSUME NEW t \in Insights!Task
      PROVE  RunStands(t, insightTask[t], Insights!Hiding(mark, suppressed))'
  BY <1>1, <1>2 DEF InsightInv, RunStands
<1> QED BY <1>1, <1>3 DEF InsightInv, Insights!KeyIsHeld

LEMMA InsightRestartStep == InsightInv /\ Insights!Restart => InsightInv'
<1> SUFFICES ASSUME InsightInv, Insights!Restart PROVE InsightInv'
  OBVIOUS
<1>1. /\ insightTask' = [t \in Insights!Task |-> Insights!Idle] /\ inflight' = FALSE
      /\ UNCHANGED <<mark, suppressed>>
  BY DEF Insights!Restart, Insights!curation
<1>2. \A t \in Insights!Task : RunStands(t, insightTask[t], Insights!Hiding(mark, suppressed))'
  BY <1>1 DEF RunStands, RunKnows, Reading, Insights!Idle
<1> QED BY <1>1, <1>2 DEF InsightInv, Insights!KeyIsHeld

\* The clock, the history and the write-backs touch nothing of this.
LEMMA InsightBookStep ==
    ASSUME InsightInv, UNCHANGED <<insightTask, mark, suppressed, inflight>>
    PROVE  InsightInv'
BY DEF InsightInv, Insights!KeyIsHeld

LEMMA InsightStep == InsightInv /\ Insights!Next => InsightInv'
<1> SUFFICES ASSUME InsightInv, Insights!Next PROVE InsightInv'
  OBVIOUS
<1>1. CASE \E t \in Insights!Task : Insights!RunStep(t)
  <2> PICK t \in Insights!Task : Insights!RunStep(t)
    BY <1>1
  <2>1. CASE \E fails \in BOOLEAN : \/ Insights!HookDebounce(t, fails) \/ Insights!LoadHistory(t, fails)
                                    \/ Insights!LoadMarks(t, fails) \/ Insights!LoadSuppressions(t, fails)
    BY <2>1, HookDebounceStep, LoadHistoryStep, LoadMarksStep, LoadSuppressionsStep
  <2>2. CASE \E roots \in Insights!Roots, sig \in Sig : Insights!Report(t, roots, sig)
    BY <2>2, ReportStep
  <2> QED BY <2>1, <2>2, AskReportStep, PostSyncStep, HookInsertStep, HookLeaveStep, AskerLeaveStep,
             ReportFailsStep DEF Insights!RunStep
<1>2. CASE Insights!Tick \/ Insights!ResetHistory
           \/ \E w \in writes : Insights!WriteShown(w) \/ Insights!WriteRun(w) \/ Insights!LoseWrite(w)
  <2>1. UNCHANGED <<insightTask, mark, suppressed, inflight>>
    BY <1>2 DEF Insights!Tick, Insights!ResetHistory, Insights!WriteShown, Insights!WriteRun,
                Insights!LoseWrite, Insights!curation
  <2> QED BY <2>1, InsightBookStep
<1>3. CASE \E x \in Finding, m \in {"none", "dismissed", "pinned"} : Insights!SetMark(x, m)
  BY <1>3, SetMarkStep
<1>4. CASE \E c \in Insights!Range(ColumnOf) : Insights!Suppress(c) \/ Insights!Unsuppress(c)
  BY <1>4, SuppressStep, UnsuppressStep
<1> QED BY <1>1, <1>2, <1>3, <1>4, InsightRestartStep DEF Insights!Next

\* An insight report is curated with what stood when it began, and a table that
\* counts as having an automatic run in flight has one (insights/handlers.rs,
\* auto.rs), for any number of tasks, findings and decisions.
THEOREM InsightsCurated == ServerSpec => []InsightRunsSound
<1>1. StartAll => InsightInv
  BY InsightsInit DEF StartAll
<1>2. InsightInv /\ [Step /\ UNCHANGED part]_<<part, agents, insights, data, feed, vars>> => InsightInv'
  BY InsightStep, InsightsUntouched DEF Step
<1>3. InsightInv => InsightRunsSound
  BY DEF InsightInv, RunStands, RunKnows, CuratedAnswer, InsightRunsSound, Insights!AnswersCurated
<1> QED BY <1>1, <1>2, <1>3, PTL DEF ServerSpec

-----------------------------------------------------------------------------
(***************************************************************************)
(* Agent runs. A task counts what its run has logged and a row what its    *)
(* task counted; while a row says "running", its task, a cancellation or   *)
(* the next restart will have it say something else.                       *)
(***************************************************************************)
Working == {"context", "ask", "act", "completed", "failed"}
TaskFields ==
    {"pc", "kind", "parent", "auto", "turn", "calls", "spent", "finished",
     "applied", "proposed", "failed", "dropped"}

\* The level an induction run of a scope defines into.
LevelOf(scope) == IF Len(scope) = 2 THEN scope[2] ELSE 0

Affordable(spent) == \A t \in TurnTokens : (\A u \in TurnTokens : u <= t) => spent <= MaxTokens + t

\* A row, its run's task and its run's entries. The row says what it is about
\* and where it may write, and what a finished one counted is what was logged;
\* what the task counts is what it logged, and it asks again only within budget.
RowSound(k, t, entries) ==
    /\ k = Agents!NoRow => entries = {} /\ t.pc \in {"none", "insert"}
    /\ k # Agents!NoRow =>
          /\ {"status", "kept", "scope"} \subseteq DOMAIN k
          /\ \A e \in entries : k.scope[1] \in Agents!InductionKinds => e.level = LevelOf(k.scope)
    /\ "summarised" \in DOMAIN k =>
          /\ k # Agents!NoRow /\ t.pc \in {"none", "over"}
          /\ {"counts", "dropped", "spent"} \subseteq DOMAIN k
          /\ k.counts = Cardinality(entries) + k.dropped
          /\ Affordable(k.spent)

TaskSound(k, t, entries) ==
    /\ t = Agents!NoTask \/ t.pc \in {"insert", "over"} \cup Working
    /\ t.pc = "insert" => k = Agents!NoRow /\ t.kind \in Agents!Kinds
    /\ t.pc \in Working =>
          /\ TaskFields \subseteq DOMAIN t
          /\ k # Agents!NoRow /\ "summarised" \notin DOMAIN k
          /\ t.kind \in Agents!Kinds /\ k.scope = Agents!ScopeOf(t.kind, t.parent)
          /\ t.applied \in Nat /\ t.proposed \in Nat /\ t.failed \in Nat /\ t.dropped \in Nat
          /\ t.spent \in Nat /\ Affordable(t.spent)
          /\ t.applied + t.proposed + t.failed = Cardinality(entries) + t.dropped
          /\ t.pc \in {"context", "ask"} => t.spent <= MaxTokens
    /\ t.pc = "over" =>
          /\ k # Agents!NoRow
          /\ k.status = "running" => "unwritten" \in DOMAIN k

\* A running row is worked on or about to be marked; one to be marked exists.
WorkedOn(r, k, t, c) ==
    /\ k.status = "running" =>
          t # Agents!NoTask \/ c = [pc |-> "mark", of |-> r] \/ "unwritten" \in DOMAIN k
    /\ k = Agents!NoRow => c.pc = "idle" \/ c.of # r

RunSound(r, k, t, entries, c) ==
    RowSound(k, t, entries) /\ TaskSound(k, t, entries) /\ WorkedOn(r, k, t, c)

AgentTypes ==
    /\ agentRow = [r \in Run |-> agentRow[r]]
    /\ agentTask = [r \in Run |-> agentTask[r]]
    /\ IsFiniteSet(agentLog)
    /\ cancel = Agents!NoCancel \/ cancel \in [pc : {"abort", "mark"}, of : Run]

AgentInv ==
    /\ AgentTypes
    /\ \A r \in Run : RunSound(r, agentRow[r], agentTask[r], Agents!EntriesOf(r), cancel)

LEMMA AgentInit == Agents!Init => AgentInv
<1> SUFFICES ASSUME Agents!Init PROVE AgentInv
  OBVIOUS
<1>1. AgentTypes
  BY FS_EmptySet DEF Agents!Init, AgentTypes
<1>2. \A r \in Run : /\ agentRow[r] = [status |-> "none"] /\ agentTask[r] = [pc |-> "none"]
                     /\ Agents!EntriesOf(r) = {}
  BY DEF Agents!Init, Agents!NoRow, Agents!NoTask, Agents!EntriesOf
<1> QED BY <1>1, <1>2 DEF AgentInv, RunSound, RowSound, TaskSound, WorkedOn,
                          Agents!NoRow, Agents!NoTask, Agents!NoCancel, Working,
                          Agents!Init

LEMMA AgentUntouched == AgentInv /\ UNCHANGED agents => AgentInv'
<1> SUFFICES ASSUME AgentInv, UNCHANGED agents PROVE AgentInv'
  OBVIOUS
<1>1. /\ UNCHANGED <<agentRow, agentTask, agentLog, cancel>>
      /\ \A r \in Run : Agents!EntriesOf(r)' = Agents!EntriesOf(r)
  BY DEF agents, Agents!EntriesOf
<1> QED BY <1>1 DEF AgentInv, AgentTypes, RunSound, WorkedOn

\* A step of one run leaves the other runs as they are, and their entries too
\* when it adds none but its own.
LEMMA OneRun ==
    ASSUME AgentInv, NEW r \in Run, NEW k, NEW t,
           agentRow' = [agentRow EXCEPT ![r] = k], agentTask' = [agentTask EXCEPT ![r] = t],
           UNCHANGED cancel, agentLog \subseteq agentLog', IsFiniteSet(agentLog'),
           \A e \in agentLog' \ agentLog : e.req[1] = r,
           RunSound(r, k, t, Agents!EntriesOf(r)', cancel)
    PROVE  AgentInv'
<1>1. /\ agentRow'[r] = k /\ agentTask'[r] = t
      /\ agentRow' = [q \in Run |-> agentRow'[q]] /\ agentTask' = [q \in Run |-> agentTask'[q]]
      /\ \A q \in Run \ {r} : agentRow'[q] = agentRow[q] /\ agentTask'[q] = agentTask[q]
  BY DEF AgentInv, AgentTypes
<1>2. \A q \in Run \ {r} : Agents!EntriesOf(q)' = Agents!EntriesOf(q)
  BY DEF Agents!EntriesOf
<1>3. \A q \in Run : RunSound(q, agentRow[q], agentTask[q], Agents!EntriesOf(q), cancel)'
  BY <1>1, <1>2 DEF AgentInv, RunSound, WorkedOn
<1> QED BY <1>1, <1>3 DEF AgentInv, AgentTypes

\* A step of one task that logs nothing and leaves its row.
LEMMA OneTask ==
    ASSUME AgentInv, NEW r \in Run, NEW t, t # Agents!NoTask,
           agentTask' = [agentTask EXCEPT ![r] = t], UNCHANGED <<agentRow, agentLog, cancel>>,
           RowSound(agentRow[r], t, Agents!EntriesOf(r)), TaskSound(agentRow[r], t, Agents!EntriesOf(r))
    PROVE  AgentInv'
<1>1. agentRow' = [agentRow EXCEPT ![r] = agentRow[r]] /\ Agents!EntriesOf(r)' = Agents!EntriesOf(r)
  BY DEF AgentInv, AgentTypes, Agents!EntriesOf
<1>2. RunSound(r, agentRow[r], t, Agents!EntriesOf(r)', cancel)
  BY <1>1 DEF AgentInv, RunSound, WorkedOn
<1> QED BY <1>1, <1>2, OneRun DEF AgentInv, AgentTypes

\* A step of one run that changes its row and logs nothing.
LEMMA OneRow ==
    ASSUME AgentInv, NEW r \in Run, NEW k, NEW t,
           agentRow' = [agentRow EXCEPT ![r] = k], agentTask' = [agentTask EXCEPT ![r] = t],
           UNCHANGED <<agentLog, cancel>>, RunSound(r, k, t, Agents!EntriesOf(r), cancel)
    PROVE  AgentInv'
<1>1. Agents!EntriesOf(r)' = Agents!EntriesOf(r)
  BY DEF Agents!EntriesOf
<1>2. RunSound(r, k, t, Agents!EntriesOf(r)', cancel)
  BY <1>1
<1>3. /\ IsFiniteSet(agentLog') /\ agentLog \subseteq agentLog' /\ UNCHANGED cancel
      /\ \A e \in agentLog' \ agentLog : e.req[1] = r
  BY DEF AgentInv, AgentTypes
<1> QED BY <1>2, <1>3, OneRun

LEMMA StartCheckStep ==
    ASSUME NEW r \in Run, NEW q \in Agents!Requests, NEW mode
    PROVE  AgentInv /\ Agents!StartCheck(r, q[1], q[2], mode) => AgentInv'
<1> SUFFICES ASSUME AgentInv, Agents!StartCheck(r, q[1], q[2], mode) PROVE AgentInv'
  OBVIOUS
<1> DEFINE t == [pc |-> "insert", kind |-> q[1], parent |-> q[2], mode |-> mode]
           k == agentRow[r]
           E == Agents!EntriesOf(r)
<1>1. /\ agentTask' = [agentTask EXCEPT ![r] = t] /\ UNCHANGED <<agentRow, agentLog, cancel>>
      /\ k = Agents!NoRow
  BY DEF Agents!StartCheck
<1>2. q[1] \in Agents!Kinds
  BY DEF Agents!Requests, Agents!Kinds, Agents!InductionKinds
<1>3. t # Agents!NoTask /\ t.pc = "insert" /\ t.kind = q[1]
  BY DEF Agents!NoTask
<1>4. RowSound(k, agentTask[r], E)
  BY DEF AgentInv, RunSound
<1> HIDE DEF t, k, E
<1>5. TaskSound(k, t, E) /\ RowSound(k, t, E)
  BY <1>1, <1>2, <1>3, <1>4 DEF TaskSound, RowSound, Working, Agents!NoRow
<1> QED BY <1>1, <1>3, <1>5, OneTask DEF k, E

LEMMA StartInsertStep == ASSUME NEW r \in Run PROVE AgentInv /\ Agents!StartInsert(r) => AgentInv'
<1> SUFFICES ASSUME AgentInv, Agents!StartInsert(r) PROVE AgentInv'
  OBVIOUS
<1> DEFINE old == agentTask[r]
           k == [status |-> "running", kept |-> FALSE, scope |-> Agents!ScopeOf(old.kind, old.parent)]
           t == Agents!NewTask(old.kind, old.parent, old.mode)
           E == Agents!EntriesOf(r)
<1>1. /\ agentTask' = [agentTask EXCEPT ![r] = t] /\ agentRow' = [agentRow EXCEPT ![r] = k]
      /\ UNCHANGED <<agentLog, cancel>> /\ old.pc = "insert"
  BY DEF Agents!StartInsert, AgentInv, AgentTypes
<1>2. old.kind \in Agents!Kinds /\ E = {}
  BY <1>1 DEF AgentInv, RunSound, TaskSound, RowSound
<1>3. /\ t.pc = "context" /\ TaskFields \subseteq DOMAIN t /\ t.kind = old.kind /\ t.parent = old.parent
      /\ t.applied = 0 /\ t.proposed = 0 /\ t.failed = 0 /\ t.dropped = 0 /\ t.spent = 0
  BY DEF Agents!NewTask, TaskFields
<1>4. /\ k # Agents!NoRow /\ {"status", "kept", "scope"} \subseteq DOMAIN k /\ "unwritten" \notin DOMAIN k
      /\ "summarised" \notin DOMAIN k /\ k.scope = Agents!ScopeOf(old.kind, old.parent)
  BY DEF Agents!NoRow
<1> HIDE DEF k, t, E
<1>5. RowSound(k, t, E)
  BY <1>2, <1>4 DEF RowSound
<1>6. Affordable(0) /\ 0 <= MaxTokens
  <2>1. MaxTokens \in Nat /\ TurnTokens \subseteq Nat
    BY ServerAssumption
  <2>2. \A u \in TurnTokens : 0 <= MaxTokens + u
    BY <2>1
  <2> QED BY <2>1, <2>2 DEF Affordable
<1>7. TaskSound(k, t, E)
  BY <1>2, <1>3, <1>4, <1>6, FS_EmptySet DEF TaskSound, Working
<1>8. WorkedOn(r, k, t, cancel)
  BY <1>3, <1>4 DEF WorkedOn, Agents!NoTask
<1> QED BY <1>1, <1>5, <1>7, <1>8, OneRow DEF RunSound, E

\* A row that is rewritten in its status and its handle only.
LEMMA KeepHandleStep == ASSUME NEW r \in Run PROVE AgentInv /\ Agents!KeepHandle(r) => AgentInv'
<1> SUFFICES ASSUME AgentInv, Agents!KeepHandle(r) PROVE AgentInv'
  OBVIOUS
<1> DEFINE old == agentRow[r]
           k == [old EXCEPT !.kept = TRUE]
           t == agentTask[r]
           E == Agents!EntriesOf(r)
<1>1. /\ agentRow' = [agentRow EXCEPT ![r] = k] /\ agentTask' = [agentTask EXCEPT ![r] = t]
      /\ UNCHANGED <<agentTask, agentLog, cancel>> /\ old # Agents!NoRow
  BY DEF Agents!KeepHandle, AgentInv, AgentTypes
<1>2. RowSound(old, t, E) /\ TaskSound(old, t, E) /\ WorkedOn(r, old, t, cancel)
  BY DEF AgentInv, RunSound
<1> HIDE DEF t, E
<1>3. /\ DOMAIN k = DOMAIN old /\ k.status = old.status /\ k.scope = old.scope
      /\ "summarised" \in DOMAIN old => k.counts = old.counts /\ k.dropped = old.dropped /\ k.spent = old.spent
      /\ k # Agents!NoRow
  BY <1>1, <1>2 DEF RowSound, Agents!NoRow
<1> HIDE DEF k, old
<1>4. RowSound(k, t, E)
  BY <1>1, <1>2, <1>3 DEF RowSound
<1>5. TaskSound(k, t, E)
  BY <1>1, <1>2, <1>3 DEF TaskSound
<1>6. WorkedOn(r, k, t, cancel)
  BY <1>2, <1>3 DEF WorkedOn
<1> QED BY <1>1, <1>4, <1>5, <1>6, OneRow DEF RunSound, E

\* A task that goes on without a call of it being counted.
LEMMA GoesOn ==
    ASSUME AgentInv, NEW r \in Run, NEW t, agentTask[r].pc \in Working,
           agentTask' = [agentTask EXCEPT ![r] = t], UNCHANGED <<agentRow, agentLog, cancel>>,
           DOMAIN t = DOMAIN agentTask[r], t.pc \in Working,
           t.kind = agentTask[r].kind, t.parent = agentTask[r].parent,
           t.applied = agentTask[r].applied, t.proposed = agentTask[r].proposed,
           t.failed = agentTask[r].failed, t.dropped = agentTask[r].dropped,
           t.spent \in Nat, Affordable(t.spent), t.pc \in {"context", "ask"} => t.spent <= MaxTokens
    PROVE  AgentInv'
<1> DEFINE k == agentRow[r]
           old == agentTask[r]
           E == Agents!EntriesOf(r)
<1>1. RowSound(k, old, E) /\ TaskSound(k, old, E)
  BY DEF AgentInv, RunSound
<1> HIDE DEF k, E
<1>2. RowSound(k, t, E)
  BY <1>1 DEF RowSound, TaskSound, Working
<1>3. TaskSound(k, t, E)
  BY <1>1 DEF TaskSound, Working
<1>4. t # Agents!NoTask
  BY DEF Working, Agents!NoTask
<1> QED BY <1>2, <1>3, <1>4, OneTask DEF k, E

\* A task whose place alone changes.
LEMMA Moves ==
    ASSUME AgentInv, NEW r \in Run, NEW pc \in Working \ {"context"}, agentTask[r].pc \in Working,
           agentTask' = [agentTask EXCEPT ![r].pc = pc], UNCHANGED <<agentRow, agentLog, cancel>>,
           pc = "ask" => agentTask[r].spent <= MaxTokens
    PROVE  AgentInv'
<1> DEFINE old == agentTask[r]
           t == [old EXCEPT !.pc = pc]
<1>1. TaskSound(agentRow[r], old, Agents!EntriesOf(r))
  BY DEF AgentInv, RunSound
<1>2. TaskFields \subseteq DOMAIN old /\ old.spent \in Nat /\ Affordable(old.spent)
  BY <1>1 DEF TaskSound, Working
<1>3. /\ DOMAIN t = DOMAIN old /\ t.pc = pc /\ t.kind = old.kind /\ t.parent = old.parent
      /\ t.applied = old.applied /\ t.proposed = old.proposed /\ t.failed = old.failed
      /\ t.dropped = old.dropped /\ t.spent = old.spent
  BY <1>2 DEF TaskFields
<1>4. agentTask' = [agentTask EXCEPT ![r] = t]
  BY DEF AgentInv, AgentTypes
<1>5. t.pc # "context" /\ t.pc \in Working
  BY <1>3
<1> HIDE DEF t
<1> QED BY <1>2, <1>3, <1>4, <1>5, GoesOn

LEMMA BuildContextStep ==
    ASSUME NEW r \in Run, NEW found, NEW gone
    PROVE  AgentInv /\ Agents!BuildContext(r, found, gone) => AgentInv'
<1> SUFFICES ASSUME AgentInv, Agents!BuildContext(r, found, gone) PROVE AgentInv'
  OBVIOUS
<1>1. PICK pc \in {"ask", "failed"} : agentTask' = [agentTask EXCEPT ![r].pc = pc]
  BY DEF Agents!BuildContext
<1>2. agentTask[r].pc = "context" /\ UNCHANGED <<agentRow, agentLog, cancel>>
  BY DEF Agents!BuildContext
<1>3. TaskSound(agentRow[r], agentTask[r], Agents!EntriesOf(r))
  BY DEF AgentInv, RunSound
<1>4. agentTask[r].spent <= MaxTokens
  BY <1>2, <1>3 DEF TaskSound, Working
<1>5. agentTask[r].pc \in Working /\ pc \in Working \ {"context"}
  BY <1>2 DEF Working
<1> QED BY <1>1, <1>2, <1>4, <1>5, Moves

LEMMA ModelUnavailableStep == ASSUME NEW r \in Run PROVE AgentInv /\ Agents!ModelUnavailable(r) => AgentInv'
<1> SUFFICES ASSUME AgentInv, Agents!ModelUnavailable(r) PROVE AgentInv'
  OBVIOUS
<1>1. /\ agentTask[r].pc \in Working /\ UNCHANGED <<agentRow, agentLog, cancel>>
      /\ "failed" \in Working \ {"context"} /\ agentTask' = [agentTask EXCEPT ![r].pc = "failed"]
  BY DEF Agents!ModelUnavailable, Working
<1> QED BY <1>1, Moves

\* Another turn is asked for within the budget only.
LEMMA EndTurnStep == ASSUME NEW r \in Run PROVE AgentInv /\ Agents!EndTurn(r) => AgentInv'
<1> SUFFICES ASSUME AgentInv, Agents!EndTurn(r) PROVE AgentInv'
  OBVIOUS
<1>1. PICK pc \in {"ask", "completed"} :
         /\ agentTask' = [agentTask EXCEPT ![r].pc = pc]
         /\ pc = "ask" => agentTask[r].spent <= MaxTokens
  BY DEF Agents!EndTurn, Agents!Continues, Agents!WithinBudget
<1>2. /\ agentTask[r].pc \in Working /\ UNCHANGED <<agentRow, agentLog, cancel>>
      /\ pc \in Working \ {"context"}
  BY DEF Agents!EndTurn, Working
<1> QED BY <1>1, <1>2, Moves

\* One turn is all that can go over the budget.
LEMMA AskStep ==
    ASSUME NEW r \in Run, NEW tokens \in TurnTokens, NEW calls
    PROVE  AgentInv /\ Agents!Ask(r, tokens, calls) => AgentInv'
<1> SUFFICES ASSUME AgentInv, Agents!Ask(r, tokens, calls) PROVE AgentInv'
  OBVIOUS
<1> DEFINE old == agentTask[r]
<1>1. TaskSound(agentRow[r], old, Agents!EntriesOf(r)) /\ old.pc = "ask"
  BY DEF AgentInv, RunSound, Agents!Ask
<1>2. /\ TaskFields \subseteq DOMAIN old /\ old.spent \in Nat /\ old.spent <= MaxTokens
      /\ tokens \in Nat /\ MaxTokens \in Nat /\ TurnTokens \subseteq Nat
  BY <1>1, ServerAssumption DEF TaskSound, Working
<1>3. PICK pc \in {"completed", "act"} :
         /\ UNCHANGED <<agentRow, agentLog, cancel>>
         /\ agentTask' = [agentTask EXCEPT ![r].spent = old.spent + tokens, ![r].calls = calls,
                                           ![r].turn = old.turn + 1, ![r].pc = pc]
  <2>1. agentTask' = [agentTask EXCEPT ![r].spent = old.spent + tokens, ![r].calls = calls,
                                       ![r].turn = old.turn + 1,
                                       ![r].pc = IF calls = <<>> THEN "completed" ELSE "act"]
    BY DEF Agents!Ask
  <2> QED BY <2>1 DEF Agents!Ask
<1> DEFINE a == [old EXCEPT !.spent = old.spent + tokens]
           b == [a EXCEPT !.calls = calls]
           c == [b EXCEPT !.turn = old.turn + 1]
           t == [c EXCEPT !.pc = pc]
<1>4. agentTask' = [agentTask EXCEPT ![r] = t]
  BY <1>3 DEF AgentInv, AgentTypes
<1>5. /\ DOMAIN a = DOMAIN old /\ a.kind = old.kind /\ a.parent = old.parent
      /\ a.applied = old.applied /\ a.proposed = old.proposed /\ a.failed = old.failed
      /\ a.dropped = old.dropped /\ a.spent = old.spent + tokens
  BY <1>2 DEF TaskFields
<1> HIDE DEF a
<1>6. /\ DOMAIN b = DOMAIN old /\ b.kind = old.kind /\ b.parent = old.parent
      /\ b.applied = old.applied /\ b.proposed = old.proposed /\ b.failed = old.failed
      /\ b.dropped = old.dropped /\ b.spent = old.spent + tokens
  BY <1>2, <1>5 DEF TaskFields
<1> HIDE DEF b
<1>7. /\ DOMAIN c = DOMAIN old /\ c.kind = old.kind /\ c.parent = old.parent
      /\ c.applied = old.applied /\ c.proposed = old.proposed /\ c.failed = old.failed
      /\ c.dropped = old.dropped /\ c.spent = old.spent + tokens
  BY <1>2, <1>6 DEF TaskFields
<1> HIDE DEF c
<1>8. /\ DOMAIN t = DOMAIN old /\ t.kind = old.kind /\ t.parent = old.parent
      /\ t.applied = old.applied /\ t.proposed = old.proposed /\ t.failed = old.failed
      /\ t.dropped = old.dropped /\ t.spent = old.spent + tokens /\ t.pc = pc
  BY <1>2, <1>7 DEF TaskFields
<1> HIDE DEF t
<1>9. t.spent \in Nat /\ Affordable(t.spent)
  BY <1>2, <1>8 DEF Affordable
<1>10. old.pc \in Working /\ t.pc \in Working /\ t.pc \notin {"context", "ask"}
  BY <1>1, <1>8 DEF Working
<1> QED BY <1>3, <1>4, <1>8, <1>9, <1>10, GoesOn

\* What a call counts for, one way or another.
Tally(t) == t.applied + t.proposed + t.failed
Countable(t) ==
    /\ TaskFields \subseteq DOMAIN t
    /\ t.applied \in Nat /\ t.proposed \in Nat /\ t.failed \in Nat /\ t.dropped \in Nat
Same(t, u) ==
    /\ DOMAIN t = DOMAIN u /\ t.pc = u.pc /\ t.kind = u.kind /\ t.parent = u.parent /\ t.spent = u.spent

LEMMA CountedOnce ==
    ASSUME NEW t, Countable(t), NEW status
    PROVE  LET u == Agents!Counted(t, status)
           IN  Countable(u) /\ Same(u, t) /\ Tally(u) = Tally(t) + 1 /\ u.dropped = t.dropped
BY DEF Countable, Same, Tally, Agents!Counted, TaskFields

LEMMA DroppedOnce ==
    ASSUME NEW t, Countable(t)
    PROVE  LET u == [t EXCEPT !.dropped = @ + 1]
           IN  Countable(u) /\ Same(u, t) /\ Tally(u) = Tally(t) /\ u.dropped = t.dropped + 1
BY DEF Countable, Same, Tally, TaskFields

LEMMA CallTaken ==
    ASSUME NEW t, Countable(t)
    PROVE  LET u == [t EXCEPT !.calls = Tail(@)]
           IN  Countable(u) /\ Same(u, t) /\ Tally(u) = Tally(t) /\ u.dropped = t.dropped
BY DEF Countable, Same, Tally, TaskFields

\* A task that answers a call, and its entries.
LEMMA Answered ==
    ASSUME NEW k, NEW old, NEW t, NEW E, NEW F, old.pc = "act", TaskSound(k, old, E),
           Countable(t), Same(t, old), Tally(t) = Cardinality(F) + t.dropped
    PROVE  TaskSound(k, t, F) /\ t # Agents!NoTask
<1>1. t.pc = "act" /\ t.kind = old.kind /\ t.parent = old.parent /\ t.spent = old.spent
  BY DEF Same
<1> QED BY <1>1 DEF TaskSound, Countable, Tally, Working, Agents!NoTask

LEMMA ActStep ==
    ASSUME NEW r \in Run, NEW outcome
    PROVE  AgentInv /\ Agents!Act(r, outcome) => AgentInv'
<1> SUFFICES ASSUME AgentInv, Agents!Act(r, outcome) PROVE AgentInv'
  OBVIOUS
<1> DEFINE k == agentRow[r]
           old == agentTask[r]
           call == Head(old.calls)
           rest == [old EXCEPT !.calls = Tail(@)]
           E == Agents!EntriesOf(r)
<1>1. UNCHANGED <<agentRow, cancel>> /\ old.pc = "act"
  BY DEF Agents!Act
<1>2. RowSound(k, old, E) /\ TaskSound(k, old, E) /\ IsFiniteSet(agentLog)
  BY DEF AgentInv, AgentTypes, RunSound
<1>3. Countable(old) /\ Tally(old) = Cardinality(E) + old.dropped
  BY <1>1, <1>2 DEF TaskSound, Countable, Tally, Working
<1>4. Countable(rest) /\ Same(rest, old) /\ Tally(rest) = Tally(old) /\ rest.dropped = old.dropped
  BY <1>3, CallTaken
\* A call that logs nothing.
<1>5. ASSUME NEW t, agentTask' = [agentTask EXCEPT ![r] = t], UNCHANGED agentLog,
             Countable(t), Same(t, old), Tally(t) = Cardinality(E) + t.dropped
      PROVE  AgentInv'
  <2> HIDE DEF k, E, rest, old
  <2>1. TaskSound(k, t, E) /\ t # Agents!NoTask
    BY <1>1, <1>2, <1>5, Answered
  <2>2. RowSound(k, t, E)
    BY <1>1, <1>2, <1>5 DEF RowSound, Same
  <2> QED BY <1>1, <1>5, <2>1, <2>2, OneTask DEF k, E
<1>6. CASE call.tool \notin Agents!ActionKinds
  <2> DEFINE v == old.finished \/ call.tool = "done"
             t == [rest EXCEPT !.finished = v]
  <2>1. agentTask' = [agentTask EXCEPT ![r].calls = Tail(@), ![r].finished = @ \/ call.tool = "done"]
    BY <1>6 DEF Agents!Act
  <2>2. agentTask' = [agentTask EXCEPT ![r] = t]
    BY <2>1 DEF AgentInv, AgentTypes
  <2> HIDE DEF v
  <2>3. Countable(t) /\ Same(t, rest) /\ Tally(t) = Tally(rest) /\ t.dropped = rest.dropped
    BY <1>4 DEF Countable, Same, Tally, TaskFields
  <2> HIDE DEF t
  <2>4. Same(t, old) /\ Tally(t) = Cardinality(E) + t.dropped
    BY <1>3, <1>4, <2>3 DEF Same
  <2>5. UNCHANGED agentLog
    BY <1>6 DEF Agents!Act
  <2> QED BY <2>2, <2>3, <2>4, <2>5, <1>5
<1>7. CASE call.tool \in Agents!ActionKinds
  <2> DEFINE req == Agents!RequestId(r, old, call)
             logged == Agents!Logged(req)
  <2>1. Agents!Dispatch(r, call, outcome)
    BY <1>7 DEF Agents!Act
  <2> HIDE DEF call
  <2>2. CASE logged # {}
    <3> DEFINE x == Agents!Counted(rest, (CHOOSE e \in logged : TRUE).status)
               t == [x EXCEPT !.dropped = @ + 1]
    <3>1. agentTask' = [agentTask EXCEPT ![r] = t] /\ UNCHANGED agentLog
      BY <2>1, <2>2 DEF Agents!Dispatch
    <3> HIDE DEF rest, old, logged, req
    <3>2. Countable(x) /\ Same(x, rest) /\ Tally(x) = Tally(rest) + 1 /\ x.dropped = rest.dropped
      BY <1>4, CountedOnce
    <3> HIDE DEF x
    <3>3. Countable(t) /\ Same(t, x) /\ Tally(t) = Tally(x) /\ t.dropped = x.dropped + 1
      BY <3>2, DroppedOnce
    <3> HIDE DEF t
    <3>4. Same(t, old) /\ Tally(t) = Cardinality(E) + t.dropped
      <4>1. Same(t, old)
        BY <1>4, <3>2, <3>3 DEF Same
      <4>2. Tally(rest) = Cardinality(E) + rest.dropped /\ rest.dropped \in Nat /\ Cardinality(E) \in Nat
        BY <1>2, <1>3, <1>4, FS_Subset, FS_CardinalityType DEF Countable, E, Agents!EntriesOf
      <4> QED BY <4>1, <4>2, <3>2, <3>3
    <3> QED BY <3>1, <3>3, <3>4, <1>5
  <2>3. CASE logged = {} /\ outcome = "unavailable"
    <3>1. agentTask' = [agentTask EXCEPT ![r] = rest] /\ UNCHANGED agentLog
      BY <2>1, <2>3 DEF Agents!Dispatch
    <3> HIDE DEF rest, old
    <3> QED BY <1>3, <1>4, <1>5, <3>1
  <2>4. CASE logged = {} /\ outcome # "unavailable"
    <3>1. PICK status :
             LET entry == [req |-> req, status |-> status, tool |-> call.tool,
                           level |-> Agents!PinnedLevel(old, call.level)]
             IN  /\ agentLog' = agentLog \cup {entry}
                 /\ agentTask' = [agentTask EXCEPT ![r] = Agents!Counted(rest, status)]
      BY <2>1, <2>4 DEF Agents!Dispatch
    <3> DEFINE entry == [req |-> req, status |-> status, tool |-> call.tool,
                         level |-> Agents!PinnedLevel(old, call.level)]
               t == Agents!Counted(rest, status)
    <3>2. agentLog' = agentLog \cup {entry} /\ agentTask' = [agentTask EXCEPT ![r] = t]
      BY <3>1
    <3>3. entry.req[1] = r /\ entry.level = Agents!PinnedLevel(old, call.level) /\ entry \notin agentLog
      BY <2>4 DEF Agents!RequestId, Agents!Logged
    <3> HIDE DEF entry, rest, logged, req
    <3>4. Countable(t) /\ Same(t, rest) /\ Tally(t) = Tally(rest) + 1 /\ t.dropped = rest.dropped
      BY <1>4, CountedOnce
    <3> HIDE DEF t
    <3>5. Agents!EntriesOf(r)' = E \cup {entry} /\ entry \notin E
      BY <3>2, <3>3 DEF Agents!EntriesOf
    <3>6. /\ IsFiniteSet(E) /\ Cardinality(E \cup {entry}) = Cardinality(E) + 1
          /\ Cardinality(E) \in Nat /\ IsFiniteSet(agentLog')
      BY <1>2, <3>2, <3>5, FS_Subset, FS_AddElement, FS_CardinalityType DEF E, Agents!EntriesOf
    <3> HIDE DEF E
    <3>7. Tally(t) = Cardinality(E \cup {entry}) + t.dropped /\ Same(t, old)
      <4>1. Same(t, old)
        BY <1>4, <3>4 DEF Same
      <4>2. Tally(rest) = Cardinality(E) + rest.dropped /\ rest.dropped \in Nat
        BY <1>3, <1>4 DEF Countable
      <4> QED BY <4>1, <4>2, <3>4, <3>6
    <3>8. TaskSound(k, t, E \cup {entry}) /\ t # Agents!NoTask
      <4> HIDE DEF k, old
      <4> QED BY <1>1, <1>2, <3>4, <3>7, Answered
    <3>9. k.scope[1] \in Agents!InductionKinds => entry.level = LevelOf(k.scope)
      <4>1. k.scope = Agents!ScopeOf(old.kind, old.parent)
        BY <1>1, <1>2 DEF TaskSound, Working
      <4> HIDE DEF k, old
      <4>2. CASE old.kind = "propose_subcategories"
        <5>1. k.scope = <<old.kind, old.parent>>
          BY <4>1, <4>2 DEF Agents!ScopeOf
        <5>2. LevelOf(<<old.kind, old.parent>>) = old.parent
          BY DEF LevelOf
        <5>3. entry.level = old.parent
          BY <4>2, <3>3 DEF Agents!PinnedLevel
        <5> QED BY <5>1, <5>2, <5>3
      <4>3. CASE old.kind # "propose_subcategories"
        BY <4>1, <4>3, <3>3 DEF Agents!ScopeOf, LevelOf, Agents!PinnedLevel
      <4> QED BY <4>2, <4>3
    <3>10. RowSound(k, t, E \cup {entry})
      <4>1. k # Agents!NoRow /\ "summarised" \notin DOMAIN k
        BY <1>1, <1>2 DEF TaskSound, Working
      <4> HIDE DEF k, old
      <4> QED BY <4>1, <1>2, <3>9 DEF RowSound
    <3>11. RunSound(r, k, t, Agents!EntriesOf(r)', cancel)
      <4>1. k # Agents!NoRow
        BY <1>1, <1>2 DEF TaskSound, Working
      <4> QED BY <4>1, <3>5, <3>8, <3>10 DEF RunSound, WorkedOn
    <3>12. agentRow' = [agentRow EXCEPT ![r] = k]
      BY <1>1 DEF AgentInv, AgentTypes
    <3>13. /\ agentLog \subseteq agentLog' /\ \A e \in agentLog' \ agentLog : e.req[1] = r
      BY <3>2, <3>3
    <3> HIDE DEF k, old
    <3> QED BY <1>1, <3>2, <3>6, <3>11, <3>12, <3>13, OneRun
  <2> QED BY <2>2, <2>3, <2>4
<1> QED BY <1>6, <1>7

\* What finish writes is what the task counted.
LEMMA FinishStep == ASSUME NEW r \in Run PROVE AgentInv /\ Agents!Finish(r) => AgentInv'
<1> SUFFICES ASSUME AgentInv, Agents!Finish(r) PROVE AgentInv'
  OBVIOUS
<1> DEFINE old == agentRow[r]
           was == agentTask[r]
           E == Agents!EntriesOf(r)
           k == [status |-> was.pc, kept |-> old.kept, scope |-> old.scope,
                 counts |-> was.applied + was.proposed + was.failed,
                 dropped |-> was.dropped, spent |-> was.spent, summarised |-> was.pc = "completed"]
           t == [was EXCEPT !.pc = "over"]
<1>1. /\ agentRow' = [agentRow EXCEPT ![r] = k] /\ agentTask' = [agentTask EXCEPT ![r] = t]
      /\ UNCHANGED <<agentLog, cancel>>
  BY DEF Agents!Finish, AgentInv, AgentTypes
<1>2. RowSound(old, was, E) /\ TaskSound(old, was, E) /\ was.pc \in {"completed", "failed"}
  BY DEF AgentInv, RunSound, Agents!Finish, Agents!Ending
<1>3. /\ TaskFields \subseteq DOMAIN was /\ old # Agents!NoRow
      /\ was.applied + was.proposed + was.failed = Cardinality(E) + was.dropped
      /\ Affordable(was.spent)
  BY <1>2 DEF TaskSound, Working
<1>4. t.pc = "over" /\ t # Agents!NoTask
  BY <1>3 DEF TaskFields, Agents!NoTask
<1>5. /\ {"status", "kept", "scope", "counts", "dropped", "spent"} \subseteq DOMAIN k /\ k # Agents!NoRow
      /\ k.status = was.pc /\ k.scope = old.scope /\ k.dropped = was.dropped /\ k.spent = was.spent
      /\ k.counts = was.applied + was.proposed + was.failed
  BY DEF Agents!NoRow
<1> HIDE DEF k, t, E, old, was
<1>6. RowSound(k, t, E)
  BY <1>2, <1>3, <1>4, <1>5 DEF RowSound
<1>7. TaskSound(k, t, E) /\ WorkedOn(r, k, t, cancel)
  BY <1>2, <1>4, <1>5 DEF TaskSound, WorkedOn, Working
<1> QED BY <1>1, <1>6, <1>7, OneRow DEF RunSound, E

LEMMA FinishUnwrittenStep == ASSUME NEW r \in Run PROVE AgentInv /\ Agents!FinishUnwritten(r) => AgentInv'
<1> SUFFICES ASSUME AgentInv, Agents!FinishUnwritten(r) PROVE AgentInv'
  OBVIOUS
<1> DEFINE old == agentRow[r]
           was == agentTask[r]
           E == Agents!EntriesOf(r)
           k == [status |-> old.status, kept |-> old.kept, scope |-> old.scope, unwritten |-> TRUE]
           t == [was EXCEPT !.pc = "over"]
<1>1. /\ agentRow' = [agentRow EXCEPT ![r] = k] /\ agentTask' = [agentTask EXCEPT ![r] = t]
      /\ UNCHANGED <<agentLog, cancel>>
  BY DEF Agents!FinishUnwritten, AgentInv, AgentTypes
<1>2. RowSound(old, was, E) /\ TaskSound(old, was, E) /\ was.pc \in {"completed", "failed"}
  BY DEF AgentInv, RunSound, Agents!FinishUnwritten, Agents!Ending
<1>3. TaskFields \subseteq DOMAIN was /\ old # Agents!NoRow
  BY <1>2 DEF TaskSound, Working
<1>4. t.pc = "over" /\ t # Agents!NoTask
  BY <1>3 DEF TaskFields, Agents!NoTask
<1>5. /\ {"status", "kept", "scope", "unwritten"} \subseteq DOMAIN k /\ k # Agents!NoRow
      /\ "summarised" \notin DOMAIN k /\ k.scope = old.scope
  BY DEF Agents!NoRow
<1> HIDE DEF k, t, E, old, was
<1>6. RowSound(k, t, E)
  BY <1>2, <1>3, <1>4, <1>5 DEF RowSound
<1>7. TaskSound(k, t, E) /\ WorkedOn(r, k, t, cancel)
  BY <1>4, <1>5 DEF TaskSound, WorkedOn, Working
<1> QED BY <1>1, <1>6, <1>7, OneRow DEF RunSound, E

LEMMA DropHandleStep == ASSUME NEW r \in Run PROVE AgentInv /\ Agents!DropHandle(r) => AgentInv'
<1> SUFFICES ASSUME AgentInv, Agents!DropHandle(r) PROVE AgentInv'
  OBVIOUS
<1> DEFINE k == agentRow[r]
           was == agentTask[r]
           E == Agents!EntriesOf(r)
           t == Agents!NoTask
<1>1. /\ agentRow' = [agentRow EXCEPT ![r] = k] /\ agentTask' = [agentTask EXCEPT ![r] = t]
      /\ UNCHANGED <<agentLog, cancel>> /\ was.pc = "over"
  BY DEF Agents!DropHandle, AgentInv, AgentTypes
<1>2. RowSound(k, was, E) /\ TaskSound(k, was, E)
  BY DEF AgentInv, RunSound
<1>3. RowSound(k, t, E) /\ TaskSound(k, t, E) /\ WorkedOn(r, k, t, cancel)
  <2>1. t.pc = "none"
    BY DEF Agents!NoTask
  <2>2. WorkedOn(r, k, was, cancel)
    BY DEF AgentInv, RunSound
  <2> HIDE DEF k, E, was
  <2> QED BY <1>1, <1>2, <2>1, <2>2 DEF RowSound, TaskSound, WorkedOn, Working, Agents!NoTask
<1> QED BY <1>1, <1>3, OneRow DEF RunSound

LEMMA CancelReadStep == ASSUME NEW r \in Run PROVE AgentInv /\ Agents!CancelRead(r) => AgentInv'
<1> SUFFICES ASSUME AgentInv, Agents!CancelRead(r) PROVE AgentInv'
  OBVIOUS
<1>1. UNCHANGED <<agentRow, agentTask, agentLog>> /\ \A q \in Run : Agents!EntriesOf(q)' = Agents!EntriesOf(q)
  BY DEF Agents!CancelRead, Agents!EntriesOf
<1>2. cancel = [pc |-> "idle"] /\ cancel' = [pc |-> "abort", of |-> r]
      /\ cancel' \in [pc : {"abort", "mark"}, of : Run]
  BY DEF Agents!CancelRead, Agents!NoCancel
<1>3. \A q \in Run : cancel # [pc |-> "mark", of |-> q]
  BY <1>2
<1>4. agentRow[r] # Agents!NoRow /\ cancel'.of = r
  BY <1>2 DEF Agents!CancelRead, Agents!NoRow
<1> QED BY <1>1, <1>2, <1>3, <1>4 DEF AgentInv, AgentTypes, RunSound, WorkedOn

\* A run whose task is gone is the one to be marked.
LEMMA CancelAbortStep == AgentInv /\ Agents!CancelAbort => AgentInv'
<1> SUFFICES ASSUME AgentInv, Agents!CancelAbort PROVE AgentInv'
  OBVIOUS
<1>1. cancel \in [pc : {"abort", "mark"}, of : Run] /\ cancel.pc = "abort"
  BY DEF AgentInv, AgentTypes, Agents!CancelAbort, Agents!NoCancel
<1>2. PICK r \in Run : cancel = [pc |-> "abort", of |-> r]
  BY <1>1
<1>3. /\ cancel' = [pc |-> "mark", of |-> r] /\ UNCHANGED <<agentRow, agentLog>>
      /\ cancel' \in [pc : {"abort", "mark"}, of : Run]
      /\ \A q \in Run : Agents!EntriesOf(q)' = Agents!EntriesOf(q)
  BY <1>2 DEF Agents!CancelAbort, Agents!EntriesOf
<1>4. PICK t \in {Agents!NoTask, agentTask[r]} : agentTask' = [agentTask EXCEPT ![r] = t]
  BY <1>2 DEF Agents!CancelAbort, AgentInv, AgentTypes
<1>5. /\ agentTask'[r] = t /\ \A q \in Run \ {r} : agentTask'[q] = agentTask[q]
      /\ agentTask' = [q \in Run |-> agentTask'[q]]
  BY <1>4 DEF AgentInv, AgentTypes
<1>6. ASSUME NEW q \in Run PROVE RunSound(q, agentRow[q], agentTask[q], Agents!EntriesOf(q), cancel)'
  <2> DEFINE k == agentRow[q]
             E == Agents!EntriesOf(q)
             u == agentTask'[q]
  <2>1. RowSound(k, agentTask[q], E) /\ TaskSound(k, agentTask[q], E) /\ WorkedOn(q, k, agentTask[q], cancel)
    BY DEF AgentInv, RunSound
  <2>2. RowSound(k, u, E) /\ TaskSound(k, u, E)
    <3>1. u = agentTask[q] \/ u = Agents!NoTask
      BY <1>4, <1>5
    <3> HIDE DEF k, E, u
    <3> QED BY <2>1, <3>1 DEF RowSound, TaskSound, Working, Agents!NoTask
  <2>3. WorkedOn(q, k, u, cancel')
    <3>1. cancel # [pc |-> "mark", of |-> q] /\ cancel.of = cancel'.of /\ cancel.pc # "idle"
      BY <1>2, <1>3
    <3>2. q # r => u = agentTask[q]
      BY <1>5
    <3>3. q = r => cancel' = [pc |-> "mark", of |-> q]
      BY <1>3
    <3> HIDE DEF k, u
    <3> QED BY <2>1, <3>1, <3>2, <3>3 DEF WorkedOn
  <2> QED BY <1>3, <2>2, <2>3 DEF RunSound
<1> QED BY <1>3, <1>5, <1>6 DEF AgentInv, AgentTypes

LEMMA CancelMarkStep == AgentInv /\ Agents!CancelMark => AgentInv'
<1> SUFFICES ASSUME AgentInv, Agents!CancelMark PROVE AgentInv'
  OBVIOUS
<1>1. cancel \in [pc : {"abort", "mark"}, of : Run] /\ cancel.pc = "mark"
  BY DEF AgentInv, AgentTypes, Agents!CancelMark, Agents!NoCancel
<1>2. PICK r \in Run : cancel = [pc |-> "mark", of |-> r]
  BY <1>1
<1> DEFINE old == agentRow[r]
           k == [status |-> "cancelled", kept |-> old.kept, scope |-> old.scope]
<1>3. /\ agentRow' = [agentRow EXCEPT ![r] = k] /\ UNCHANGED <<agentTask, agentLog>>
      /\ cancel' = Agents!NoCancel
  BY <1>2 DEF Agents!CancelMark, AgentInv, AgentTypes
<1>4. old # Agents!NoRow /\ RowSound(old, agentTask[r], Agents!EntriesOf(r))
      /\ TaskSound(old, agentTask[r], Agents!EntriesOf(r))
  BY <1>2 DEF AgentInv, RunSound, WorkedOn
<1>5. /\ {"status", "kept", "scope"} \subseteq DOMAIN k /\ k # Agents!NoRow /\ k.status = "cancelled"
      /\ "summarised" \notin DOMAIN k /\ k.scope = old.scope
  BY DEF Agents!NoRow
<1> HIDE DEF k, old
<1>6. /\ agentRow'[r] = k /\ \A q \in Run \ {r} : agentRow'[q] = agentRow[q]
      /\ agentRow' = [q \in Run |-> agentRow'[q]]
      /\ \A q \in Run : Agents!EntriesOf(q)' = Agents!EntriesOf(q)
  BY <1>3 DEF AgentInv, AgentTypes, Agents!EntriesOf
<1>7. RowSound(k, agentTask[r], Agents!EntriesOf(r)) /\ TaskSound(k, agentTask[r], Agents!EntriesOf(r))
  <2> DEFINE E == Agents!EntriesOf(r)
             t == agentTask[r]
  <2> HIDE DEF E, t
  <2> QED BY <1>4, <1>5 DEF RowSound, TaskSound, E, t
<1>8. \A q \in Run : WorkedOn(q, agentRow'[q], agentTask'[q], cancel')
  <2> SUFFICES ASSUME NEW q \in Run PROVE WorkedOn(q, agentRow'[q], agentTask[q], cancel')
    BY <1>3
  <2>1. cancel'.pc = "idle"
    BY <1>3 DEF Agents!NoCancel
  <2>2. CASE q = r
    BY <2>1, <2>2, <1>5, <1>6 DEF WorkedOn
  <2>3. CASE q # r
    <3>1. cancel # [pc |-> "mark", of |-> q]
      BY <1>2, <2>3
    <3> QED BY <2>1, <2>3, <3>1, <1>3, <1>6 DEF AgentInv, RunSound, WorkedOn
  <2> QED BY <2>2, <2>3
<1>9. \A q \in Run : RunSound(q, agentRow[q], agentTask[q], Agents!EntriesOf(q), cancel)'
  BY <1>3, <1>6, <1>7, <1>8 DEF AgentInv, RunSound
<1> QED BY <1>3, <1>6, <1>9 DEF AgentInv, AgentTypes

LEMMA FailedAtBoot ==
    ASSUME NEW k, NEW t, NEW E, RowSound(k, t, E)
    PROVE  /\ RowSound(Agents!FailStuck(k), Agents!NoTask, E)
           /\ Agents!FailStuck(k).status # "running"
           /\ Agents!FailStuck(k) = Agents!NoRow <=> k = Agents!NoRow
<1> DEFINE a == [k EXCEPT !.kept = TRUE]
           b == [a EXCEPT !.status = IF @ = "running" THEN "failed" ELSE @]
<1>1. CASE k = Agents!NoRow
  BY <1>1 DEF Agents!FailStuck, RowSound, Agents!NoRow, Agents!NoTask
<1>2. CASE k # Agents!NoRow
  <2>1. {"status", "kept", "scope"} \subseteq DOMAIN k
    BY <1>2 DEF RowSound
  <2>2. Agents!FailStuck(k) = b
    BY <1>2 DEF Agents!FailStuck
  <2>3. DOMAIN a = DOMAIN k /\ \A x \in DOMAIN k \ {"kept"} : a[x] = k[x]
    OBVIOUS
  <2> HIDE DEF a
  <2>4. DOMAIN b = DOMAIN k /\ (\A x \in DOMAIN k \ {"kept", "status"} : b[x] = k[x]) /\ b.status # "running"
    BY <2>1, <2>3
  <2> HIDE DEF b
  <2>5. b # Agents!NoRow
    BY <2>1, <2>4 DEF Agents!NoRow
  <2>6. b.scope = k.scope
    BY <2>1, <2>4
  <2>7. "summarised" \in DOMAIN k =>
           /\ {"counts", "dropped", "spent"} \subseteq DOMAIN k
           /\ b.counts = k.counts /\ b.dropped = k.dropped /\ b.spent = k.spent
    BY <2>4 DEF RowSound
  <2>8. RowSound(b, Agents!NoTask, E)
    BY <1>2, <2>1, <2>4, <2>5, <2>6, <2>7 DEF RowSound, Agents!NoTask
  <2> QED BY <1>2, <2>2, <2>4, <2>5, <2>8
<1> QED BY <1>1, <1>2

LEMMA AgentRestartStep == AgentInv /\ Agents!Restart => AgentInv'
<1> SUFFICES ASSUME AgentInv, Agents!Restart PROVE AgentInv'
  OBVIOUS
<1>1. /\ agentRow' = [r \in Run |-> Agents!FailStuck(agentRow[r])]
      /\ agentTask' = [r \in Run |-> Agents!NoTask]
      /\ cancel' = Agents!NoCancel /\ UNCHANGED agentLog
      /\ \A q \in Run : Agents!EntriesOf(q)' = Agents!EntriesOf(q)
  BY DEF Agents!Restart, Agents!EntriesOf
<1>2. ASSUME NEW r \in Run PROVE RunSound(r, agentRow[r], agentTask[r], Agents!EntriesOf(r), cancel)'
  <2> DEFINE k == Agents!FailStuck(agentRow[r])
  <2>1. agentRow'[r] = k /\ agentTask'[r] = Agents!NoTask /\ cancel'.pc = "idle"
    BY <1>1 DEF Agents!NoCancel
  <2>2. RowSound(k, Agents!NoTask, Agents!EntriesOf(r)) /\ k.status # "running"
    BY FailedAtBoot DEF AgentInv, RunSound
  <2> HIDE DEF k
  <2>3. TaskSound(k, Agents!NoTask, Agents!EntriesOf(r))
    BY DEF TaskSound, Agents!NoTask, Working
  <2>4. WorkedOn(r, k, Agents!NoTask, cancel')
    BY <2>1, <2>2 DEF WorkedOn
  <2> QED BY <1>1, <2>1, <2>2, <2>3, <2>4 DEF RunSound
<1> QED BY <1>1, <1>2 DEF AgentInv, AgentTypes

LEMMA AgentStep == AgentInv /\ Agents!Next => AgentInv'
<1> SUFFICES ASSUME AgentInv, Agents!Next PROVE AgentInv'
  OBVIOUS
<1>1. CASE \E r \in Run : Agents!Step(r)
  <2> PICK r \in Run : Agents!Step(r)
    BY <1>1
  <2> QED BY StartInsertStep, KeepHandleStep, EndTurnStep, FinishStep, FinishUnwrittenStep, DropHandleStep,
             ModelUnavailableStep, CancelReadStep, BuildContextStep, ActStep, AskStep DEF Agents!Step
<1> QED BY <1>1, StartCheckStep, CancelAbortStep, CancelMarkStep, AgentRestartStep DEF Agents!Next

\* A finished agent run accounts for what it did, and a running one is worked on
\* (agent/runner.rs, handlers.rs), for any budget and any runs.
THEOREM AgentRunsAccounted == ServerSpec => []AgentRunsSound
<1>1. StartAll => AgentInv
  BY AgentInit DEF StartAll
<1>2. AgentInv /\ [Step /\ UNCHANGED part]_<<part, agents, insights, data, feed, vars>> => AgentInv'
  BY AgentStep, AgentUntouched DEF Step
<1>3. \A S : Agents!Cardinality(S) = Cardinality(S)
  BY DEF Agents!Cardinality, Cardinality
<1>4. AgentInv => AgentRunsSound
  BY <1>3 DEF AgentInv, RunSound, RowSound, WorkedOn, AgentRunsSound, Agents!RunAccounted,
         Agents!RunningIsWorkedOn, Affordable, LevelOf
<1> QED BY <1>1, <1>2, <1>4, PTL DEF ServerSpec

-----------------------------------------------------------------------------
(***************************************************************************)
(* Datasets. What an id reads is a state its table once had, because the   *)
(* id names the source and the table and no id an upload makes up is one   *)
(* of these; a request takes such a state out of the registry, and what a  *)
(* table once had stays what it once had.                                  *)
(***************************************************************************)
Stored == Data!Sources \X Table

DataTypes ==
    /\ DOMAIN tables = Stored /\ DOMAIN past = Stored
    /\ tables = [st \in Stored |-> tables[st]] /\ past = [st \in Stored |-> past[st]]
    /\ used \subseteq Uploads
    /\ DOMAIN request = Client /\ request = [c \in Client |-> request[c]]

\* A table that has files has had them; a stored dataset reads what its table
\* has had at some time; and so does a request that was given its data.
TablesArePast == \A st \in Stored : tables[st] # {} => tables[st] \in past[st]

DatasetsArePast ==
    \A s \in Data!Sources, t \in Table :
        Data!DatasetId(s, t) \in DOMAIN datasets => datasets[Data!DatasetId(s, t)] \in past[<<s, t>>]

RequestsArePast ==
    \A c \in Client :
        /\ request[c].pc \in {"idle", "name", "load", "run"}
        /\ request[c].pc # "idle" => request[c].source \in Data!Sources /\ request[c].table \in Table
        /\ request[c].pc \in {"name", "load"} => tables[<<request[c].source, request[c].table>>] # {}
        /\ request[c].pc = "run" => request[c].data \in past[<<request[c].source, request[c].table>>]

AnswersArePast == \A a \in answers : a.of \in Stored /\ a.read \in past[a.of]

DataInv == DataTypes /\ TablesArePast /\ DatasetsArePast /\ RequestsArePast /\ AnswersArePast

-----------------------------------------------------------------------------
\* An id says which source and which table it is of, and none is made up.
LEMMA IdsApart ==
    /\ \A s, t, p, q : Data!DatasetId(s, t) = Data!DatasetId(p, q) => s = p /\ t = q
    /\ \A s, t, u : Data!DatasetId(s, t) # Data!FreshId(u)
    /\ \A s, t : Data!DatasetId(s, t) # <<"default">>
BY DEF Data!DatasetId, Data!FreshId

\* What a write leaves alone: what the tables have had only grows.
LEMMA WriteKeeps ==
    ASSUME DataInv, NEW s \in Data!Sources, NEW t \in Table, NEW replace \in BOOLEAN, Data!Write(s, t, replace)
    PROVE  /\ \A st \in Stored : past[st] \subseteq past'[st]
           /\ \A st \in Stored : tables[st] # {} => tables'[st] # {}
           /\ tables'[<<s, t>>] # {}
           /\ TablesArePast'
           /\ DOMAIN tables' = Stored /\ DOMAIN past' = Stored
           /\ tables' = [st \in Stored |-> tables'[st]] /\ past' = [st \in Stored |-> past'[st]]
<1> DEFINE file  == Data!FileOf(s, t, written + 1)
           after == (IF replace THEN {} ELSE tables[<<s, t>>]) \cup {file}
<1>1. /\ tables' = [tables EXCEPT ![<<s, t>>] = after]
      /\ past' = [past EXCEPT ![<<s, t>>] = @ \cup {after}]
  BY DEF Data!Write
<1>2. <<s, t>> \in Stored /\ after # {}
  BY DEF Stored
<1>3. DOMAIN tables = Stored /\ DOMAIN past = Stored
  BY DEF DataInv, DataTypes
<1> HIDE DEF after
<1>4. /\ tables'[<<s, t>>] = after /\ past'[<<s, t>>] = past[<<s, t>>] \cup {after}
      /\ \A st \in Stored : st # <<s, t>> => tables'[st] = tables[st] /\ past'[st] = past[st]
  BY <1>1, <1>2, <1>3
<1>5. TablesArePast'
  BY <1>2, <1>4 DEF DataInv, TablesArePast, Stored, Data!Sources
<1> QED BY <1>1, <1>2, <1>3, <1>4, <1>5

\* A stuttering step keeps the invariant.
LEMMA DataUntouched ==
    DataInv /\ UNCHANGED data => DataInv'
BY DEF DataInv, data, DataTypes, TablesArePast, DatasetsArePast, RequestsArePast, AnswersArePast,
       Stored, Data!DatasetId

LEMMA DataInit == Data!Init => DataInv
<1> SUFFICES ASSUME Data!Init PROVE DataInv
  OBVIOUS
<1>1. DataTypes /\ TablesArePast
  BY DEF Data!Init, DataTypes, TablesArePast, Stored
<1>2. DatasetsArePast
  BY IdsApart DEF Data!Init, DatasetsArePast
<1>3. RequestsArePast /\ AnswersArePast
  BY DEF Data!Init, RequestsArePast, AnswersArePast, Data!Idle
<1> QED BY <1>1, <1>2, <1>3 DEF DataInv

LEMMA WriteTableStep == DataInv /\ Data!WriteTable => DataInv'
<1> SUFFICES ASSUME DataInv, Data!WriteTable PROVE DataInv'
  OBVIOUS
<1>1. PICK s \in Source \cup used, t \in Table, replace \in BOOLEAN : Data!Write(s, t, replace)
  BY DEF Data!WriteTable
<1>2. s \in Data!Sources
  BY <1>1 DEF DataInv, DataTypes, Data!Sources
<1>3. /\ \A st \in Stored : past[st] \subseteq past'[st]
      /\ \A st \in Stored : tables[st] # {} => tables'[st] # {}
      /\ TablesArePast'
      /\ DOMAIN tables' = Stored /\ DOMAIN past' = Stored
      /\ tables' = [st \in Stored |-> tables'[st]] /\ past' = [st \in Stored |-> past'[st]]
  BY <1>1, <1>2, WriteKeeps
<1>4. datasets' = datasets /\ request' = request /\ answers' = answers /\ used' = used
  BY DEF Data!WriteTable
<1>5. \A p \in Data!Sources, q \in Table : <<p, q>> \in Stored
  BY DEF Stored
<1>6. DataTypes'
  BY <1>3, <1>4 DEF DataInv, DataTypes, Stored
<1>7. DatasetsArePast'
  BY <1>3, <1>4, <1>5 DEF DataInv, DatasetsArePast, Data!DatasetId
<1>8. RequestsArePast'
  BY <1>3, <1>4, <1>5 DEF DataInv, RequestsArePast
<1>9. AnswersArePast'
  BY <1>3, <1>4 DEF DataInv, AnswersArePast, Stored
<1> QED BY <1>3, <1>6, <1>7, <1>8, <1>9 DEF DataInv

\* What is registered under a stored table's id is a state of that table.
LEMMA RegisterStored ==
    ASSUME DataInv, NEW s \in Data!Sources, NEW t \in Table, tables[<<s, t>>] # {}, UNCHANGED past,
           datasets' = Data!Registered(Data!DatasetId(s, t), tables[<<s, t>>])
    PROVE  DatasetsArePast'
<1> SUFFICES ASSUME NEW p \in Data!Sources, NEW q \in Table, Data!DatasetId(p, q) \in DOMAIN datasets'
             PROVE  datasets'[Data!DatasetId(p, q)] \in past[<<p, q>>]
  BY DEF DatasetsArePast, Data!DatasetId
<1>1. CASE p = s /\ q = t
  <2>1. datasets'[Data!DatasetId(p, q)] = tables[<<s, t>>]
    BY <1>1 DEF Data!Registered
  <2>2. <<s, t>> \in Stored
    BY DEF Stored
  <2> QED BY <1>1, <2>1, <2>2 DEF DataInv, TablesArePast
<1>2. CASE ~(p = s /\ q = t)
  <2>1. Data!DatasetId(p, q) # Data!DatasetId(s, t)
    BY <1>2, IdsApart
  <2>2. Data!DatasetId(p, q) \in DOMAIN datasets /\ datasets'[Data!DatasetId(p, q)] = datasets[Data!DatasetId(p, q)]
    BY <2>1 DEF Data!Registered
  <2> QED BY <2>2 DEF DataInv, DatasetsArePast
<1> QED BY <1>1, <1>2

LEMMA LoadTableStep == ASSUME NEW s \in Data!Sources, NEW t \in Table PROVE DataInv /\ Data!LoadTable(s, t) => DataInv'
<1> SUFFICES ASSUME DataInv, Data!LoadTable(s, t) PROVE DataInv'
  OBVIOUS
<1>1. /\ UNCHANGED <<tables, past, request, answers, used>> /\ tables[<<s, t>>] # {}
      /\ datasets' = Data!Registered(Data!DatasetId(s, t), tables[<<s, t>>])
  BY DEF Data!LoadTable, Data!store
<1>2. DatasetsArePast'
  BY <1>1, RegisterStored
<1> QED BY <1>1, <1>2 DEF DataInv, DataTypes, TablesArePast, RequestsArePast, AnswersArePast, Stored

LEMMA DeleteDatasetStep == ASSUME NEW id PROVE DataInv /\ Data!DeleteDataset(id) => DataInv'
<1> SUFFICES ASSUME DataInv, Data!DeleteDataset(id) PROVE DataInv'
  OBVIOUS
<1>1. UNCHANGED <<tables, past, request, answers, used>>
  BY DEF Data!DeleteDataset, Data!store
<1>2. \A d \in DOMAIN datasets' : d \in DOMAIN datasets /\ datasets'[d] = datasets[d]
  BY DEF Data!DeleteDataset, Data!Restrict
<1>3. DatasetsArePast'
  BY <1>1, <1>2 DEF DataInv, DatasetsArePast, Data!DatasetId
<1> QED BY <1>1, <1>3 DEF DataInv, DataTypes, TablesArePast, RequestsArePast, AnswersArePast, Stored

LEMMA UploadStep ==
    ASSUME NEW c \in Client, NEW s \in Data!Sources, NEW t \in Table
    PROVE  DataInv /\ Data!Upload(c, s, t) => DataInv'
<1> SUFFICES ASSUME DataInv, Data!Upload(c, s, t) PROVE DataInv'
  OBVIOUS
<1>1. answers' = answers /\ used' = used \cup {s} /\ s \in Uploads
  BY DEF Data!Upload
<1>2. CASE /\ Data!Write(s, t, FALSE) /\ datasets' = datasets
           /\ request' = [request EXCEPT ![c] = [pc |-> "name", source |-> s, table |-> t]]
  <2>1. /\ \A st \in Stored : past[st] \subseteq past'[st]
        /\ \A st \in Stored : tables[st] # {} => tables'[st] # {}
        /\ tables'[<<s, t>>] # {} /\ TablesArePast'
        /\ DOMAIN tables' = Stored /\ DOMAIN past' = Stored
        /\ tables' = [st \in Stored |-> tables'[st]] /\ past' = [st \in Stored |-> past'[st]]
    BY <1>2, WriteKeeps
  <2>2. \A p \in Data!Sources, q \in Table : <<p, q>> \in Stored
    BY DEF Stored
  <2>3. /\ request'[c] = [pc |-> "name", source |-> s, table |-> t]
        /\ \A b \in Client : b # c => request'[b] = request[b]
        /\ DOMAIN request' = Client /\ request' = [b \in Client |-> request'[b]]
    BY <1>2 DEF DataInv, DataTypes
  <2>4. DataTypes'
    BY <1>1, <2>1, <2>3 DEF DataInv, DataTypes, Stored
  <2>5. DatasetsArePast'
    BY <1>2, <2>1, <2>2 DEF DataInv, DatasetsArePast, Data!DatasetId
  <2>6. RequestsArePast'
    BY <2>1, <2>2, <2>3 DEF DataInv, RequestsArePast
  <2>7. AnswersArePast'
    BY <1>1, <2>1 DEF DataInv, AnswersArePast, Stored
  <2> QED BY <2>1, <2>4, <2>5, <2>6, <2>7 DEF DataInv
<1>3. CASE /\ datasets' = Data!Registered(Data!FreshId(s), {Data!FileOf(s, t, 0)})
           /\ UNCHANGED <<tables, past, disk, written, request>>
  <2>1. \A p \in Data!Sources, q \in Table :
           Data!DatasetId(p, q) \in DOMAIN datasets' =>
              Data!DatasetId(p, q) \in DOMAIN datasets /\ datasets'[Data!DatasetId(p, q)] = datasets[Data!DatasetId(p, q)]
    BY <1>3, IdsApart DEF Data!Registered
  <2>2. DatasetsArePast'
    BY <1>3, <2>1 DEF DataInv, DatasetsArePast, Data!DatasetId
  <2> QED BY <1>1, <1>3, <2>2 DEF DataInv, DataTypes, TablesArePast, RequestsArePast, AnswersArePast, Stored
<1> QED BY <1>2, <1>3 DEF Data!Upload

\* A request that moves on leaves the other requests where they are.
LEMMA NameSourceStep ==
    ASSUME NEW c \in Client, NEW fails \in BOOLEAN PROVE DataInv /\ Data!NameSource(c, fails) => DataInv'
<1> SUFFICES ASSUME DataInv, Data!NameSource(c, fails) PROVE DataInv'
  OBVIOUS
<1>1. /\ UNCHANGED <<tables, past, datasets, answers, used>> /\ request[c].pc = "name"
      /\ request' = [request EXCEPT ![c] = IF fails THEN Data!Idle ELSE [@ EXCEPT !.pc = "load"]]
  BY DEF Data!NameSource
<1>2. /\ request'[c] = IF fails THEN Data!Idle ELSE [request[c] EXCEPT !.pc = "load"]
      /\ \A b \in Client : b # c => request'[b] = request[b]
      /\ DOMAIN request' = Client /\ request' = [b \in Client |-> request'[b]]
  BY <1>1 DEF DataInv, DataTypes
<1>3. RequestsArePast'
  BY <1>1, <1>2 DEF DataInv, RequestsArePast, Data!Idle
<1> QED BY <1>1, <1>2, <1>3 DEF DataInv, DataTypes, TablesArePast, DatasetsArePast, Data!DatasetId, AnswersArePast, Stored

LEMMA LoadUploadStep == ASSUME NEW c \in Client PROVE DataInv /\ Data!LoadUpload(c) => DataInv'
<1> SUFFICES ASSUME DataInv, Data!LoadUpload(c) PROVE DataInv'
  OBVIOUS
<1> DEFINE s == request[c].source
           t == request[c].table
<1>1. /\ UNCHANGED <<tables, past, answers, used>> /\ request[c].pc = "load"
      /\ request' = [request EXCEPT ![c] = Data!Idle]
      /\ datasets' = Data!Registered(Data!DatasetId(s, t), tables[<<s, t>>])
  BY DEF Data!LoadUpload, Data!store
<1>2. s \in Data!Sources /\ t \in Table /\ tables[<<s, t>>] # {}
  BY <1>1 DEF DataInv, RequestsArePast
<1> HIDE DEF s, t
<1>3. DatasetsArePast'
  BY <1>1, <1>2, RegisterStored
<1>4. /\ request'[c] = Data!Idle /\ \A b \in Client : b # c => request'[b] = request[b]
      /\ DOMAIN request' = Client /\ request' = [b \in Client |-> request'[b]]
  BY <1>1 DEF DataInv, DataTypes
<1>5. RequestsArePast'
  BY <1>1, <1>4 DEF DataInv, RequestsArePast, Data!Idle
<1> QED BY <1>1, <1>3, <1>4, <1>5 DEF DataInv, DataTypes, TablesArePast, AnswersArePast, Stored

LEMMA AskDataStep ==
    ASSUME NEW c \in Client, NEW s \in Data!Sources, NEW t \in Table PROVE DataInv /\ Data!Ask(c, s, t) => DataInv'
<1> SUFFICES ASSUME DataInv, Data!Ask(c, s, t) PROVE DataInv'
  OBVIOUS
<1>1. /\ UNCHANGED <<tables, past, datasets, answers, used>> /\ Data!DatasetId(s, t) \in DOMAIN datasets
      /\ request' = [request EXCEPT ![c] = [pc |-> "run", source |-> s, table |-> t,
                                            data |-> datasets[Data!DatasetId(s, t)]]]
  BY DEF Data!Ask, Data!store
<1>2. /\ request'[c] = [pc |-> "run", source |-> s, table |-> t, data |-> datasets[Data!DatasetId(s, t)]]
      /\ \A b \in Client : b # c => request'[b] = request[b]
      /\ DOMAIN request' = Client /\ request' = [b \in Client |-> request'[b]]
  BY <1>1 DEF DataInv, DataTypes
<1>3. datasets[Data!DatasetId(s, t)] \in past[<<s, t>>]
  BY <1>1 DEF DataInv, DatasetsArePast
<1>4. RequestsArePast'
  BY <1>1, <1>2, <1>3 DEF DataInv, RequestsArePast
<1> QED BY <1>1, <1>2, <1>4 DEF DataInv, DataTypes, TablesArePast, DatasetsArePast, Data!DatasetId, AnswersArePast, Stored

LEMMA ExecuteStep == ASSUME NEW c \in Client PROVE DataInv /\ Data!Execute(c) => DataInv'
<1> SUFFICES ASSUME DataInv, Data!Execute(c) PROVE DataInv'
  OBVIOUS
<1> DEFINE new == [of |-> <<request[c].source, request[c].table>>, read |-> request[c].data]
<1>1. /\ UNCHANGED <<tables, past, datasets, used>> /\ request[c].pc = "run"
      /\ request' = [request EXCEPT ![c] = Data!Idle]
      /\ answers' \subseteq answers \cup {new}
  BY DEF Data!Execute, Data!store
<1>2. new.of \in Stored /\ new.read \in past[new.of]
  BY <1>1 DEF DataInv, RequestsArePast, Stored
<1>3. AnswersArePast'
  BY <1>1, <1>2 DEF DataInv, AnswersArePast, Stored
<1>4. /\ request'[c] = Data!Idle /\ \A b \in Client : b # c => request'[b] = request[b]
      /\ DOMAIN request' = Client /\ request' = [b \in Client |-> request'[b]]
  BY <1>1 DEF DataInv, DataTypes
<1>5. RequestsArePast'
  BY <1>1, <1>4 DEF DataInv, RequestsArePast, Data!Idle
<1> QED BY <1>1, <1>3, <1>4, <1>5 DEF DataInv, DataTypes, TablesArePast, DatasetsArePast, Data!DatasetId, Stored

-----------------------------------------------------------------------------
LEMMA DataStep == DataInv /\ Data!Next => DataInv'
BY WriteTableStep, LoadTableStep, DeleteDatasetStep, UploadStep, NameSourceStep,
   LoadUploadStep, AskDataStep, ExecuteStep DEF Data!Next

\* An answered query read one state of the table it was asked about, whole
\* (session.rs, executor.rs), whatever is loaded, replaced, uploaded and dropped
\* beside it.
THEOREM AnswersAreOfOneTable == ServerSpec => []AnswersOneTable
<1>1. StartAll => DataInv
  BY DataInit DEF StartAll
<1>2. DataInv /\ [Step /\ UNCHANGED part]_<<part, agents, insights, data, feed, vars>> => DataInv'
  BY DataStep, DataUntouched DEF Step
<1>3. DataInv => AnswersOneTable
  BY DEF DataInv, AnswersArePast, AnswersOneTable, Data!AnswersOneTable
<1> QED BY <1>1, <1>2, <1>3, PTL DEF ServerSpec

-----------------------------------------------------------------------------
(***************************************************************************)
(* The live feed. Every event a subscriber has missed is either on the     *)
(* wire, or a message on the wire sends the client for a snapshot, or a    *)
(* snapshot it is fetching will hold the event.                            *)
(***************************************************************************)
\* What handlers hold back, what goes over the bus, what goes over a socket.
Changes == UNION {[b -> Int] : b \in SUBSET Entry}
Bulletin == {Feed!EventOf(c) : c \in Changes}
Message == [type : {"connected", "resync"}] \cup [type : {"event"}, of : Nat]

FeedTypes ==
    /\ feedLog \in [Entry -> Int]
    /\ handler \in [Handler -> Changes]
    /\ sent \in Seq(Bulletin)
    /\ socket \in [pc : {"closed", "greeted", "live"}, next : Nat, since : Nat]
    /\ socket.since >= 1 /\ socket.next <= Len(sent) + 1
    /\ wire \in Seq(Message)
    /\ client = [up |-> client.up, feed |-> client.feed, ticks |-> client.ticks,
                 heard |-> client.heard]
    /\ \A f \in fetches : f = [tick |-> f.tick, rows |-> f.rows, upto |-> f.upto] /\ f.upto \in Nat

\* The client accounts for an event, or is about to: a message on the way to it
\* is the event or sends it to fetch a snapshot, or a snapshot it fetches has
\* not been read yet or was read after the event.
Accounted(i) ==
    \/ i \in client.heard
    \/ \E k \in 1..Len(wire) : wire[k].type # "event" \/ wire[k].of = i
    \/ \E f \in fetches : f.rows = Feed!NoChange \/ i <= f.upto

FeedInv ==
    /\ FeedTypes
    /\ socket.pc = "live" => \A i \in socket.since..(socket.next - 1) : Accounted(i)

LEMMA NothingHeldBack == Feed!NoChange \in Changes
<1>1. Feed!NoChange = [x \in {} |-> 0]
  BY DEF Feed!NoChange
<1>2. [x \in {} |-> 0] \in [{} -> Int]
  OBVIOUS
<1>3. {} \in SUBSET Entry
  OBVIOUS
<1> QED BY <1>1, <1>2, <1>3 DEF Changes

LEMMA FeedInit == Feed!Init => FeedInv
<1> SUFFICES ASSUME Feed!Init PROVE FeedInv
  OBVIOUS
<1>1. Feed!NoChange \in Changes
  BY NothingHeldBack
<1>2. feedLog \in [Entry -> Int] /\ handler \in [Handler -> Changes]
  BY <1>1 DEF Feed!Init, Feed!Proposed
<1>3. /\ socket = [pc |-> "closed", next |-> 1, since |-> 1]
      /\ socket \in [pc : {"closed", "greeted", "live"}, next : Nat, since : Nat]
      /\ socket.since >= 1 /\ socket.next <= 1
  BY DEF Feed!Init, Feed!Closed
<1>4. sent = <<>> /\ wire = <<>> /\ fetches = {}
  BY DEF Feed!Init
<1>5. client = [up |-> client.up, feed |-> client.feed, ticks |-> client.ticks, heard |-> client.heard]
  BY DEF Feed!Init
<1>6. FeedTypes
  BY <1>2, <1>3, <1>4, <1>5 DEF FeedTypes
<1> QED BY <1>3, <1>6 DEF FeedInv

LEMMA FeedUntouched == FeedInv /\ UNCHANGED feed => FeedInv'
BY DEF feed, FeedInv, FeedTypes, Accounted

LEMMA ChangeStep ==
    ASSUME NEW h \in Handler, NEW batch \in SUBSET Entry
    PROVE  FeedInv /\ Feed!Change(h, batch) => FeedInv'
<1> SUFFICES ASSUME FeedInv, Feed!Change(h, batch) PROVE FeedInv'
  OBVIOUS
<1>1. feedLog' \in [Entry -> Int] /\ handler' \in [Handler -> Changes]
  BY DEF Feed!Change, FeedInv, FeedTypes, Changes
<1> QED BY <1>1 DEF Feed!Change, FeedInv, FeedTypes, Accounted

LEMMA EmitStep ==
    ASSUME NEW h \in Handler
    PROVE  FeedInv /\ Feed!Emit(h) => FeedInv'
<1> SUFFICES ASSUME FeedInv, Feed!Emit(h) PROVE FeedInv'
  OBVIOUS
<1>1. Feed!NoChange \in Changes
  BY NothingHeldBack
<1>2. handler' \in [Handler -> Changes] /\ Feed!EventOf(handler[h]) \in Bulletin
  BY <1>1 DEF Feed!Emit, FeedInv, FeedTypes, Bulletin
<1>3. sent' \in Seq(Bulletin) /\ Len(sent') = Len(sent) + 1 /\ Len(sent) \in Nat
  BY <1>2 DEF Feed!Emit, FeedInv, FeedTypes
<1> QED BY <1>2, <1>3 DEF Feed!Emit, FeedInv, FeedTypes, Accounted

LEMMA OpenStep == FeedInv /\ Feed!Open => FeedInv'
<1> SUFFICES ASSUME FeedInv, Feed!Open PROVE FeedInv'
  OBVIOUS
<1>1. socket' = [pc |-> "greeted", next |-> socket.next, since |-> socket.since]
  BY DEF Feed!Open, FeedInv, FeedTypes
<1>2. wire' \in Seq(Message)
  BY DEF Feed!Open, Message
<1> QED BY <1>1, <1>2 DEF Feed!Open, FeedInv, FeedTypes, Accounted

LEMMA SubscribeStep == FeedInv /\ Feed!Subscribe => FeedInv'
<1> SUFFICES ASSUME FeedInv, Feed!Subscribe PROVE FeedInv'
  OBVIOUS
<1>1. Len(sent) \in Nat
  BY DEF FeedInv, FeedTypes
<1> QED BY <1>1 DEF Feed!Subscribe, FeedInv, FeedTypes, Accounted

\* What the bus drops for a slow subscriber is covered by the resync it sends.
LEMMA ForwardStep == FeedInv /\ Feed!Forward => FeedInv'
<1> SUFFICES ASSUME FeedInv, Feed!Forward PROVE FeedInv'
  OBVIOUS
<1> DEFINE lagged == Len(sent) - socket.next >= FeedCapacity
           m == IF lagged THEN [type |-> "resync"] ELSE [type |-> "event", of |-> socket.next]
           n == IF lagged THEN Len(sent) - FeedCapacity + 1 ELSE socket.next + 1
<1>1. Len(sent) \in Nat /\ socket.next \in Nat /\ socket.next <= Len(sent) /\ FeedCapacity \in Nat
  BY ServerAssumption DEF Feed!Forward, FeedInv, FeedTypes
<1>2. wire' = Append(wire, m)
  BY <1>1 DEF Feed!Forward, Feed!Outbound, FeedInv, FeedTypes
<1>3. socket' = [pc |-> "live", next |-> n, since |-> socket.since]
  BY DEF Feed!Forward, FeedInv, FeedTypes
<1>4. m \in Message /\ n \in Nat /\ n <= Len(sent) + 1
  BY <1>1 DEF Message
<1>5. /\ wire' \in Seq(Message) /\ Len(wire') = Len(wire) + 1 /\ Len(wire) \in Nat
      /\ \A k \in 1..Len(wire) : wire'[k] = wire[k]
      /\ wire'[Len(wire) + 1] = m
  BY <1>2, <1>4 DEF FeedInv, FeedTypes
<1>6. UNCHANGED <<feedLog, handler, sent, client, fetches>>
  BY DEF Feed!Forward
<1>7. FeedTypes'
  BY <1>1, <1>3, <1>4, <1>5, <1>6 DEF FeedInv, FeedTypes
<1>8. ASSUME NEW i \in socket.since..(n - 1) PROVE Accounted(i)'
  <2>1. CASE i < socket.next
    <3>1. Accounted(i)
      BY <2>1, <1>1, <1>8 DEF Feed!Forward, FeedInv, FeedTypes
    <3> QED BY <3>1, <1>5, <1>6 DEF Accounted
  <2>2. CASE i >= socket.next
    <3>1. m.type # "event" \/ m.of = i
      BY <2>2, <1>1, <1>8 DEF FeedInv, FeedTypes
    <3> QED BY <3>1, <1>5 DEF Accounted
  <2> QED BY <2>1, <2>2, <1>1, <1>8 DEF FeedInv, FeedTypes
<1> QED BY <1>3, <1>7, <1>8 DEF FeedInv

\* A fetch that is asked for covers everything forwarded so far.
LEMMA ReceiveStep == FeedInv /\ Feed!Receive => FeedInv'
<1> SUFFICES ASSUME FeedInv, Feed!Receive PROVE FeedInv'
  OBVIOUS
<1> DEFINE m == Head(wire)
<1>1. /\ wire' \in Seq(Message) /\ m \in Message /\ Len(wire) \in Nat /\ wire # <<>>
      /\ Len(wire') = Len(wire) - 1 /\ m = wire[1]
      /\ \A k \in 1..Len(wire') : wire'[k] = wire[k + 1]
  BY DEF Feed!Receive, FeedInv, FeedTypes
<1>2. UNCHANGED <<feedLog, handler, sent, socket>>
  BY DEF Feed!Receive
<1>3. CASE \E c : /\ Feed!Refetch(c)
                  /\ c = [up |-> c.up, feed |-> client.feed, ticks |-> client.ticks, heard |-> client.heard]
  <2>1. PICK c : /\ Feed!Refetch(c)
                 /\ c = [up |-> c.up, feed |-> client.feed, ticks |-> client.ticks, heard |-> client.heard]
    BY <1>3
  <2>2. /\ client' = [up |-> client'.up, feed |-> client'.feed, ticks |-> client'.ticks, heard |-> client'.heard]
        /\ client'.heard = client.heard /\ fetches' = fetches \cup {Feed!Asked(c.ticks)}
    BY <2>1 DEF Feed!Refetch
  <2>3. /\ Feed!Asked(c.ticks).rows = Feed!NoChange
        /\ Feed!Asked(c.ticks) = [tick |-> c.ticks, rows |-> Feed!NoChange, upto |-> 0]
    BY DEF Feed!Asked
  <2>4. FeedTypes'
    BY <1>1, <1>2, <2>2, <2>3 DEF FeedInv, FeedTypes
  <2>5. \A i : Accounted(i)'
    BY <2>2, <2>3 DEF Accounted
  <2> QED BY <2>4, <2>5 DEF FeedInv
<1>4. CASE m.type = "event" /\ client' = Feed!Upserted(client, m.of) /\ UNCHANGED fetches
  <2>1. /\ client' = [up |-> client'.up, feed |-> client'.feed, ticks |-> client'.ticks, heard |-> client'.heard]
        /\ client'.heard = client.heard \cup {m.of}
    BY <1>4 DEF Feed!Upserted, FeedInv, FeedTypes
  <2>2. FeedTypes'
    BY <1>1, <1>2, <1>4, <2>1 DEF FeedInv, FeedTypes
  <2>3. ASSUME NEW i, Accounted(i) PROVE Accounted(i)'
    <3>1. ASSUME NEW k \in 1..Len(wire), wire[k].type # "event" \/ wire[k].of = i
          PROVE  (k = 1 /\ m.of = i) \/ (k - 1 \in 1..Len(wire') /\ wire'[k - 1] = wire[k])
      BY <1>1, <1>4, <3>1
    <3> QED BY <2>3, <3>1, <2>1, <1>4 DEF Accounted
  <2> QED BY <1>2, <2>2, <2>3 DEF FeedInv
<1> HIDE DEF m
<1>5. client = [up |-> client.up, feed |-> client.feed, ticks |-> client.ticks, heard |-> client.heard]
  BY DEF FeedInv, FeedTypes
<1>6. \/ Feed!Refetch([client EXCEPT !.up = TRUE]) \/ Feed!Refetch(client)
      \/ m.type = "event" /\ client' = Feed!Upserted(client, m.of) /\ UNCHANGED fetches
  BY DEF Feed!Receive, m
<1> QED BY <1>3, <1>4, <1>5, <1>6

\* A snapshot is read after everything forwarded so far.
LEMMA AnswerStep == ASSUME NEW f \in fetches PROVE FeedInv /\ Feed!Answer(f) => FeedInv'
<1> SUFFICES ASSUME FeedInv, Feed!Answer(f) PROVE FeedInv'
  OBVIOUS
<1> DEFINE g == [tick |-> f.tick, rows |-> feedLog, upto |-> Len(sent)]
<1>1. fetches' = (fetches \ {f}) \cup {g} /\ Len(sent) \in Nat
  <2>1. f = [tick |-> f.tick, rows |-> f.rows, upto |-> f.upto] /\ Len(sent) \in Nat
    BY DEF FeedInv, FeedTypes
  <2>2. [f EXCEPT !.rows = feedLog, !.upto = Len(sent)] = g
    <3>1. [f EXCEPT !.rows = feedLog, !.upto = Len(sent)] = [[f EXCEPT !.rows = feedLog] EXCEPT !.upto = Len(sent)]
      OBVIOUS
    <3>2. [f EXCEPT !.rows = feedLog] = [tick |-> f.tick, rows |-> feedLog, upto |-> f.upto]
      BY <2>1
    <3>3. [[tick |-> f.tick, rows |-> feedLog, upto |-> f.upto] EXCEPT !.upto = Len(sent)] = g
      OBVIOUS
    <3> QED BY <3>1, <3>2, <3>3
  <2> HIDE DEF g
  <2> QED BY <2>1, <2>2 DEF Feed!Answer
<1>2. UNCHANGED <<feedLog, handler, sent, socket, wire, client>>
  BY DEF Feed!Answer
<1>3. g = [tick |-> g.tick, rows |-> g.rows, upto |-> g.upto] /\ g.upto = Len(sent)
  OBVIOUS
<1> HIDE DEF g
<1>4. FeedTypes'
  BY <1>1, <1>2, <1>3 DEF FeedInv, FeedTypes
<1>5. ASSUME NEW i \in socket.since..(socket.next - 1), Accounted(i) PROVE Accounted(i)'
  <2>1. i <= g.upto
    BY <1>1, <1>3 DEF FeedInv, FeedTypes
  <2> QED BY <1>1, <2>1 DEF Accounted
<1> QED BY <1>2, <1>4, <1>5 DEF FeedInv

LEMMA ArriveStep == ASSUME NEW f \in fetches PROVE FeedInv /\ Feed!Arrive(f) => FeedInv'
<1> SUFFICES ASSUME FeedInv, Feed!Arrive(f) PROVE FeedInv'
  OBVIOUS
<1>1. UNCHANGED <<feedLog, handler, sent, socket, wire>> /\ fetches' = fetches \ {f}
  BY DEF Feed!Arrive
<1>2. /\ client' = [up |-> client'.up, feed |-> client'.feed, ticks |-> client'.ticks, heard |-> client'.heard]
      /\ client'.heard = client.heard \cup 1..f.upto /\ f.rows # Feed!NoChange /\ f.upto \in Nat
  BY DEF Feed!Arrive, FeedInv, FeedTypes
<1>3. FeedTypes'
  BY <1>1, <1>2 DEF FeedInv, FeedTypes
<1>4. ASSUME NEW i \in socket.since..(socket.next - 1), i > 0, Accounted(i) PROVE Accounted(i)'
  BY <1>1, <1>2, <1>4 DEF Accounted, FeedInv, FeedTypes
<1> QED BY <1>1, <1>3, <1>4 DEF FeedInv, FeedTypes

LEMMA BreakStep == FeedInv /\ Feed!Break => FeedInv'
<1> SUFFICES ASSUME FeedInv, Feed!Break PROVE FeedInv'
  OBVIOUS
<1>1. UNCHANGED <<feedLog, handler, sent, fetches>> /\ wire' = <<>> /\ wire' \in Seq(Message)
  BY DEF Feed!Break
<1>2. /\ socket' = [pc |-> "closed", next |-> 1, since |-> 1]
      /\ socket' \in [pc : {"closed", "greeted", "live"}, next : Nat, since : Nat]
      /\ socket'.since >= 1 /\ socket'.next <= Len(sent) + 1
  BY DEF Feed!Break, Feed!Closed, FeedInv, FeedTypes
<1>3. client' = [up |-> client'.up, feed |-> client'.feed, ticks |-> client'.ticks, heard |-> client'.heard]
  BY DEF Feed!Break, FeedInv, FeedTypes
<1> QED BY <1>1, <1>2, <1>3 DEF FeedInv, FeedTypes

LEMMA FeedStep == FeedInv /\ Feed!Next => FeedInv'
BY ChangeStep, EmitStep, OpenStep, SubscribeStep, ForwardStep, ReceiveStep, AnswerStep, ArriveStep,
   BreakStep DEF Feed!Next

\* A client with nothing on its way accounts for every event since it
\* subscribed, heard or in a snapshot read after it (analytics/handlers.rs,
\* actions/events.rs): lag, a dropped socket and batching lose it none.
THEOREM FeedSkipsNothing == ServerSpec => []NothingSkipped
<1>1. StartAll => FeedInv
  BY FeedInit DEF StartAll
<1>2. FeedInv /\ [Step /\ UNCHANGED part]_<<part, agents, insights, data, feed, vars>> => FeedInv'
  BY FeedStep, FeedUntouched DEF Step
<1>3. FeedInv => NothingSkipped
  BY DEF FeedInv, FeedTypes, Accounted, NothingSkipped, Feed!NothingSkipped, Feed!Quiet
<1> QED BY <1>1, <1>2, <1>3, PTL DEF ServerSpec

-----------------------------------------------------------------------------
(***************************************************************************)
(* The login limit. A key's account is what it may still spend: its        *)
(* bucket's refilled tokens, or a full bucket when the map knows nothing   *)
(* of it. Forgetting an idle bucket leaves the account as it is, so what   *)
(* was let through since any attempt and what is left never exceed the     *)
(* burst and the refill since.                                             *)
(***************************************************************************)
Account(k) == IF k \in DOMAIN buckets THEN Refilled(buckets[k]) ELSE Capacity

Bucket == [tokens : 0..Capacity, seen : 0..now]

LoginTypes ==
    /\ now \in Nat
    /\ DOMAIN buckets \subseteq Key
    /\ buckets = [k \in DOMAIN buckets |-> buckets[k]]
    /\ \A k \in DOMAIN buckets : buckets[k] \in Bucket
    /\ allowed \in [Key -> Seq(Nat)]

PastOnly == \A k \in Key : \A i \in 1..Len(allowed[k]) : allowed[k][i] <= now

Spent(k, i) == (Len(allowed[k]) - i + 1) * Token

WithinRefill ==
    \A k \in Key : \A i \in 1..Len(allowed[k]) :
        Spent(k, i) + Account(k) <= Capacity + (now - allowed[k][i])

LoginInv == LoginTypes /\ PastOnly /\ WithinRefill /\ AttemptsBounded

-----------------------------------------------------------------------------
\* Tokens are counted in seconds, so sums of attempts become sums of seconds.
LEMMA Distributes ==
    ASSUME NEW x \in Int, NEW y \in Int
    PROVE  (x + y) * Token = x * Token + y * Token /\ x * Token \in Int
BY LoginAssumption, SMT

LEMMA CapacityPositive == Capacity \in Nat /\ Capacity >= Token /\ Token \in Nat /\ Token > 0
<1>1. PICK b \in Nat : Burst = b + 1
  BY LoginAssumption
<1>2. (b + 1) * Token = b * Token + 1 * Token /\ b * Token \in Nat
  BY <1>1, LoginAssumption, SMT
<1> QED BY <1>1, <1>2, LoginAssumption DEF Capacity

\* A bucket refills to something between nothing and full.
LEMMA RefilledRange ==
    ASSUME now \in Nat, NEW b \in Bucket
    PROVE  Refilled(b) \in 0..Capacity
BY CapacityPositive DEF Refilled, Bucket

\* A bucket is full again before it is forgotten.
LEMMA IdleIsFull ==
    ASSUME now \in Nat, NEW b \in Bucket, IsIdle(b)
    PROVE  Refilled(b) = Capacity
<1>1. IdleEvict >= Capacity /\ IdleEvict \in Int
  BY LoginAssumption, Z3 DEF Capacity
<1> QED BY <1>1, CapacityPositive DEF Refilled, Bucket, IsIdle

LEMMA AccountRange == ASSUME LoginTypes, NEW k \in Key PROVE Account(k) \in 0..Capacity
BY RefilledRange, CapacityPositive DEF LoginTypes, Account

\* The bucket an attempt finds is worth the key's account, pruned or not.
LEMMA FoundIsAccount ==
    ASSUME LoginTypes, NEW k \in Key
    PROVE  LET found == IF k \in Kept THEN buckets[k] ELSE Fresh
           IN  found \in Bucket /\ Refilled(found) = Account(k)
<1>1. Fresh \in Bucket /\ Refilled(Fresh) = Capacity
  BY CapacityPositive DEF LoginTypes, Fresh, Bucket, Refilled
<1>2. CASE k \in Kept
  BY <1>2 DEF LoginTypes, Kept, Account
<1>3. CASE k \notin Kept /\ k \in DOMAIN buckets
  <2>1. IsIdle(buckets[k]) /\ buckets[k] \in Bucket /\ now \in Nat
    BY <1>3 DEF LoginTypes, Kept
  <2>2. Account(k) = Capacity
    BY <2>1, <1>3, IdleIsFull DEF Account
  <2> QED BY <1>1, <1>3, <2>2
<1>4. CASE k \notin DOMAIN buckets
  <2>1. k \notin Kept
    BY <1>4 DEF Kept
  <2> QED BY <1>1, <1>4, <2>1 DEF Account
<1> QED BY <1>2, <1>3, <1>4

\* Forgetting idle buckets changes no other key's account.
LEMMA OthersUntouched ==
    ASSUME LoginTypes, NEW k \in Key, CheckLogin(k), NEW q \in Key, q # k
    PROVE  Account(q)' = Account(q)
<1>1. now' = now /\ DOMAIN buckets' = Kept \cup {k}
  BY DEF CheckLogin
<1>2. CASE q \in Kept
  <2>1. buckets'[q] = buckets[q] /\ q \in DOMAIN buckets /\ q \in DOMAIN buckets'
    BY <1>2 DEF CheckLogin, Kept
  <2> QED BY <1>1, <2>1 DEF Account, Refilled, Capacity
<1>3. CASE q \notin Kept
  <2>1. q \notin DOMAIN buckets'
    BY <1>1, <1>3
  <2>2. Account(q) = Capacity
    BY <1>3, FoundIsAccount, CapacityPositive DEF LoginTypes, Fresh, Refilled
  <2> QED BY <2>1, <2>2 DEF Account, Capacity
<1> QED BY <1>2, <1>3

-----------------------------------------------------------------------------
LEMMA LoginInit == Init => LoginInv
BY CapacityPositive DEF Init, LoginInv, LoginTypes, PastOnly, WithinRefill, AttemptsBounded

\* A second refills an account by at most what it adds to the stretch.
LEMMA LoginTickStep == LoginInv /\ Tick => LoginInv'
<1> SUFFICES ASSUME LoginInv, Tick PROVE LoginInv'
  OBVIOUS
<1> USE DEF LoginInv
<1>1. now \in Nat /\ now' = now + 1 /\ buckets' = buckets /\ allowed' = allowed
  BY DEF Tick, LoginTypes
<1>2. LoginTypes'
  BY <1>1 DEF LoginTypes, Bucket, Capacity
<1>3. PastOnly'
  BY <1>1 DEF PastOnly, LoginTypes
<1>4. \A k \in Key : Account(k)' \in Int /\ Account(k) \in Int /\ Account(k)' <= Account(k) + 1
  <2> TAKE k \in Key
  <2>1. CASE k \in DOMAIN buckets
    <3>1. buckets[k].tokens \in Int /\ buckets[k].seen \in Int
      BY <2>1 DEF LoginTypes, Bucket
    <3> QED BY <1>1, <2>1, <3>1, CapacityPositive DEF Account, Refilled, Capacity
  <2>2. CASE k \notin DOMAIN buckets
    BY <1>1, <2>2, CapacityPositive DEF Account, Capacity
  <2> QED BY <2>1, <2>2
<1>5. WithinRefill'
  <2> SUFFICES ASSUME NEW k \in Key, NEW i \in 1..Len(allowed'[k])
               PROVE  Spent(k, i)' + Account(k)' <= Capacity' + (now' - allowed'[k][i])
    BY DEF WithinRefill
  <2>0. i \in 1..Len(allowed[k]) /\ Spent(k, i)' = Spent(k, i) /\ Capacity' = Capacity
    BY <1>1 DEF Spent, Capacity
  <2>1. Spent(k, i) \in Int /\ allowed[k][i] \in Int /\ Capacity \in Int
    <3>1. allowed[k] \in Seq(Nat) /\ Len(allowed[k]) - i + 1 \in Int
      BY <2>0 DEF LoginTypes
    <3>2. (Len(allowed[k]) - i + 1) * Token \in Int
      BY <3>1, Distributes
    <3> QED BY SMTT(30), <2>0, <3>1, <3>2, CapacityPositive DEF Spent
  <2>2. Spent(k, i) + Account(k) <= Capacity + (now - allowed[k][i])
    BY <2>0 DEF WithinRefill
  <2> QED BY SMTT(30), <1>1, <1>4, <2>0, <2>1, <2>2
<1>6. AttemptsBounded'
  BY <1>1 DEF AttemptsBounded
<1> QED BY <1>2, <1>3, <1>5, <1>6

LEMMA CheckLoginStep == ASSUME NEW k \in Key PROVE LoginInv /\ CheckLogin(k) => LoginInv'
<1> SUFFICES ASSUME LoginInv, CheckLogin(k) PROVE LoginInv'
  OBVIOUS
<1> USE DEF LoginInv
<1> DEFINE found == IF k \in Kept THEN buckets[k] ELSE Fresh
           pass  == Refilled(found) >= Token
           left  == [tokens |-> Refilled(found) - (IF pass THEN Token ELSE 0), seen |-> now]
           n     == Len(allowed[k])
<1>1. now \in Nat /\ now' = now
  BY DEF CheckLogin, LoginTypes
<1>2. /\ buckets' = [i \in Kept \cup {k} |-> IF i = k THEN left ELSE buckets[i]]
      /\ allowed' = IF pass THEN [allowed EXCEPT ![k] = Append(@, now)] ELSE allowed
  BY DEF CheckLogin
<1>3. Refilled(found) = Account(k) /\ Account(k) \in 0..Capacity
  BY FoundIsAccount, AccountRange
<1>4. left \in Bucket /\ Kept \subseteq DOMAIN buckets
  BY <1>1, <1>3, CapacityPositive DEF Bucket, Kept
<1>5. allowed[k] \in Seq(Nat) /\ n \in Nat
  BY DEF LoginTypes
<1>6. Account(k)' = Account(k) - (IF pass THEN Token ELSE 0)
  <2>1. k \in DOMAIN buckets' /\ buckets'[k] = left
    BY <1>2
  <2>2. left.tokens \in 0..Capacity /\ left.seen = now'
    BY <1>1, <1>4 DEF Bucket
  <2>3. left.tokens = Account(k) - (IF pass THEN Token ELSE 0)
    BY <1>3
  <2> HIDE DEF left
  <2>4. Account(k)' = left.tokens
    BY <1>1, <2>1, <2>2, CapacityPositive DEF Account, Refilled, Capacity
  <2> QED BY <2>3, <2>4
<1>7. LoginTypes'
  <2>1. allowed' \in [Key -> Seq(Nat)]
    BY <1>1, <1>2 DEF LoginTypes
  <2>2. \A q \in DOMAIN buckets' : buckets'[q] \in Bucket
    BY <1>2, <1>4 DEF LoginTypes
  <2>3. DOMAIN buckets' \subseteq Key /\ buckets' = [q \in DOMAIN buckets' |-> buckets'[q]]
    BY <1>2, <1>4 DEF LoginTypes
  <2> QED BY <1>1, <2>1, <2>2, <2>3 DEF LoginTypes, Bucket, Capacity
<1>8. CASE pass
  <2>1. /\ allowed'[k] = Append(allowed[k], now) /\ Len(allowed'[k]) = n + 1
        /\ allowed'[k][n + 1] = now
        /\ \A i \in 1..n : allowed'[k][i] = allowed[k][i] /\ allowed[k][i] \in Nat
        /\ \A q \in Key : q # k => allowed'[q] = allowed[q]
    BY <1>2, <1>5, <1>8 DEF LoginTypes
  <2>2. Account(k)' = Account(k) - Token /\ Account(k) >= Token
    BY <1>3, <1>6, <1>8
  <2>3. PastOnly'
    <3> SUFFICES ASSUME NEW q \in Key, NEW i \in 1..Len(allowed'[q]) PROVE allowed'[q][i] <= now'
      BY DEF PastOnly
    <3>1. CASE q = k /\ i <= n
      <4>1. i \in 1..Len(allowed[k])
        BY <1>5, <2>1, <3>1
      <4>2. allowed'[q][i] = allowed[k][i]
        BY <2>1, <3>1, <4>1
      <4> QED BY <1>1, <4>1, <4>2 DEF PastOnly
    <3>2. CASE q = k /\ i = n + 1
      BY <1>1, <2>1, <3>2
    <3>3. CASE q # k
      <4>1. allowed'[q] = allowed[q]
        BY <2>1, <3>3
      <4> QED BY <1>1, <4>1 DEF PastOnly
    <3> QED BY <1>5, <2>1, <3>1, <3>2, <3>3
  <2>4. \A i \in 1..n : /\ (n + 1 - i + 1) * Token = Spent(k, i) + Token
                        /\ Spent(k, i) \in Int
    <3> TAKE i \in 1..n
    <3> DEFINE m == n - i + 1
    <3>0. m \in Int /\ 1 \in Int
      BY <1>5
    <3> HIDE DEF m
    <3>1. (m + 1) * Token = m * Token + 1 * Token /\ m * Token \in Int
      BY <3>0, Distributes, Zenon
    <3> USE DEF m
    <3>2. n + 1 - i + 1 = n - i + 1 + 1
      BY <1>5
    <3> QED BY <3>1, <3>2, CapacityPositive DEF Spent
  <2>5. \A i \in 1..n : Spent(k, i) + Account(k) <= Capacity + (now - allowed[k][i])
    BY DEF WithinRefill
  <2>6. WithinRefill'
    <3> SUFFICES ASSUME NEW q \in Key, NEW i \in 1..Len(allowed'[q])
                 PROVE  (Len(allowed'[q]) - i + 1) * Token + Account(q)'
                          <= Capacity + (now - allowed'[q][i])
      BY <1>1 DEF WithinRefill, Spent, Capacity
    <3>1. CASE q # k
      <4>1. Account(q)' = Account(q) /\ allowed'[q] = allowed[q]
        BY <2>1, <3>1, OthersUntouched
      <4>2. Spent(q, i) + Account(q) <= Capacity + (now - allowed[q][i])
        BY <4>1 DEF WithinRefill
      <4>3. Spent(q, i) = (Len(allowed'[q]) - i + 1) * Token
        BY <4>1 DEF Spent
      <4> QED BY <4>1, <4>2, <4>3, Zenon
    <3>2. CASE q = k /\ i <= n
      <4>1. (Len(allowed'[q]) - i + 1) * Token = Spent(k, i) + Token
        BY <2>1, <2>4, <3>2
      <4>2. Spent(k, i) \in Int /\ allowed'[q][i] = allowed[k][i] /\ allowed[k][i] \in Nat
        BY <2>1, <2>4, <3>2
      <4>3. Spent(k, i) + Account(k) <= Capacity + (now - allowed[k][i])
        BY <2>5, <3>2
      <4> DEFINE x == Spent(k, i)
      <4> HIDE DEF x
      <4>4. x + Token + Account(k)' <= Capacity + (now - allowed'[q][i])
        BY <1>1, <1>3, <2>2, <4>2, <4>3, CapacityPositive DEF x
      <4> QED BY <3>2, <4>1, <4>4, Zenon DEF x
    <3>3. CASE q = k /\ i = n + 1
      <4>0. Len(allowed'[q]) - i + 1 = 1
        BY <1>5, <2>1, <3>3
      <4>1. (Len(allowed'[q]) - i + 1) * Token = Token
        BY <4>0, CapacityPositive
      <4>2. Token + Account(q)' <= Capacity + (now - allowed'[q][i])
        BY <1>1, <1>3, <2>1, <2>2, <3>3, CapacityPositive
      <4> QED BY <4>1, <4>2, Zenon
    <3> QED BY <1>5, <2>1, <3>1, <3>2, <3>3
  <2>7. AttemptsBounded'
    <3> SUFFICES ASSUME NEW q \in Key, NEW i \in 1..Len(allowed'[q]), NEW j \in 1..Len(allowed'[q]), i <= j
                 PROVE  (j - i + 1 - Burst) * Token <= allowed'[q][j] - allowed'[q][i]
      BY DEF AttemptsBounded
    <3>1. CASE q # k \/ j <= n
      <4>1. i \in 1..Len(allowed[q]) /\ j \in 1..Len(allowed[q])
        BY <1>5, <2>1, <3>1
      <4>2. allowed'[q][j] = allowed[q][j] /\ allowed'[q][i] = allowed[q][i]
        BY <2>1, <4>1
      <4> QED BY <4>1, <4>2 DEF AttemptsBounded
    <3>2. CASE q = k /\ j = n + 1
      <4> DEFINE y == (n + 1 - i + 1) * Token
      <4>1. (j - i + 1 - Burst) * Token = y - Capacity
        <5> DEFINE m == n + 1 - i + 1 - Burst
        <5>1. i \in Int /\ m \in Int /\ Burst \in Int
          BY <1>5, <2>1, LoginAssumption
        <5>2. m + Burst = n + 1 - i + 1 /\ j - i + 1 - Burst = m
          BY <1>5, <3>2, <5>1
        <5> HIDE DEF m
        <5>3. (m + Burst) * Token = m * Token + Burst * Token /\ m * Token \in Int
          BY <5>1, Distributes
        <5>4. Burst * Token = Capacity /\ Capacity \in Int
          BY CapacityPositive DEF Capacity
        <5> QED BY <5>2, <5>3, <5>4
      <4>2. CASE i <= n
        <5>1. y = Spent(k, i) + Token /\ Spent(k, i) \in Int
          BY <2>4, <4>2
        <5>2. allowed'[q][i] = allowed[k][i] /\ allowed[k][i] \in Nat /\ allowed'[q][j] = now
          BY <2>1, <3>2, <4>2
        <5>3. Spent(k, i) + Account(k) <= Capacity + (now - allowed[k][i])
          BY <2>5, <4>2
        <5> HIDE DEF y
        <5>4. y - Capacity <= allowed'[q][j] - allowed'[q][i]
          BY SMTT(30), <1>1, <1>3, <2>2, <5>1, <5>2, <5>3, CapacityPositive
        <5> QED BY <4>1, <5>4, Zenon
      <4>3. CASE i = n + 1
        <5>0. n + 1 - i + 1 = 1
          BY <1>5, <4>3
        <5>1. y = Token
          BY <5>0, CapacityPositive
        <5> HIDE DEF y
        <5>2. y - Capacity <= allowed'[q][j] - allowed'[q][i]
          BY <1>1, <2>1, <3>2, <4>3, <5>1, CapacityPositive
        <5> QED BY <4>1, <5>2, Zenon
      <4> QED BY <1>5, <2>1, <3>2, <4>2, <4>3
    <3> QED BY <1>5, <2>1, <3>1, <3>2
  <2> QED BY <1>7, <2>3, <2>6, <2>7
<1>9. CASE ~pass
  <2>1. allowed' = allowed /\ Account(k)' = Account(k)
    BY <1>2, <1>3, <1>6, <1>9
  <2>2. \A q \in Key : Account(q)' = Account(q)
    BY <2>1, OthersUntouched
  <2>3. WithinRefill'
    BY <1>1, <2>1, <2>2 DEF WithinRefill, Spent, Capacity
  <2>4. PastOnly' /\ AttemptsBounded'
    BY <1>1, <2>1 DEF PastOnly, AttemptsBounded
  <2> QED BY <1>7, <2>3, <2>4
<1> QED BY <1>8, <1>9

-----------------------------------------------------------------------------
LEMMA LoginUntouched == LoginInv /\ UNCHANGED vars => LoginInv'
BY DEF vars, LoginInv, LoginTypes, Bucket, PastOnly, WithinRefill, Spent, Account, Refilled,
       Capacity, AttemptsBounded

LEMMA LoginStep == LoginInv /\ Next => LoginInv'
BY LoginTickStep, CheckLoginStep DEF Next

\* However its attempts are spread and however the map is pruned, one client
\* gets through in any stretch of time at most the burst and what that stretch
\* refills (check_login), for every choice of the constants.
THEOREM LoginLimited == Spec => []AttemptsBounded
<1>1. LoginInv /\ [Next]_vars => LoginInv'
  BY LoginStep, LoginUntouched
<1>2. LoginInv => AttemptsBounded
  BY DEF LoginInv
<1> QED BY LoginInit, <1>1, <1>2, PTL DEF Spec

\* The same of the server the run checks: nothing else it does, and no other
\* part it may be, lets an attempt through (rate_limit.rs).
THEOREM ServerLimitsLogins == ServerSpec => []AttemptsBounded
<1>1. StartAll => LoginInv
  BY LoginInit DEF StartAll
<1>2. LoginInv /\ [Step /\ UNCHANGED part]_<<part, agents, insights, data, feed, vars>> => LoginInv'
  BY LoginStep, LoginUntouched DEF Step
<1>3. LoginInv => AttemptsBounded
  BY DEF LoginInv
<1> QED BY <1>1, <1>2, <1>3, PTL DEF ServerSpec
===============================================================================
