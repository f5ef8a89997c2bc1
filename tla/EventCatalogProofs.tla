------------------------- MODULE EventCatalogProofs -------------------------
(***************************************************************************)
(* The catalog of a partitioned event table keeps what was flushed and     *)
(* answers settled scans exactly, for any number of events, days, files,   *)
(* commands and failures.                                                  *)
(*                                                                         *)
(* CatalogInv holds always: the types, that the file a compaction has      *)
(* merged holds whatever the files it replaces still hold, and that a      *)
(* history without a race has one writer at work at a time. It gives       *)
(* EventsOnDisk. Exact holds until the catalog is sullied: each event is   *)
(* in one live file, each file is listed at most once and is there, who    *)
(* has yet to list what, how far each row is described, and what of the    *)
(* total each writer has still to write. It gives SettledScanExact.        *)
(***************************************************************************)
EXTENDS EventCatalog, FiniteSetTheorems, TLAPS

-----------------------------------------------------------------------------
(***************************************************************************)
(* Sums. The model sums over sets with a fold, which takes elements out of *)
(* a set in an order nobody knows; a sum of natural numbers over a finite  *)
(* set exists and does not depend on that order.                           *)
(***************************************************************************)
LEMMA Least ==
    ASSUME NEW T \in SUBSET Nat, T # {}
    PROVE  \E m \in T : \A k \in T : m <= k
<1>1. IsWellFoundedOn(OpToRel(<, Nat), Nat)
  BY NatLessThanWellFounded
<1>2. \E x \in T : \A y \in T : ~ (<<y, x>> \in OpToRel(<, Nat))
  BY <1>1, WFMin
<1>3. PICK x \in T : \A y \in T : ~ (<<y, x>> \in OpToRel(<, Nat))
  BY <1>2
<1>4. \A y \in T : x \in Nat /\ y \in Nat /\ ~(y < x)
  BY <1>3 DEF OpToRel
<1> QED BY <1>4

Pick(s) == CHOOSE x \in s : TRUE

\* The equation a sum of F over the subsets of S solves, taking out of each set
\* the element that is picked.
SumsTo(sum, F, S) ==
    sum = [s \in SUBSET S |-> IF s = {} THEN 0 ELSE F[Pick(s)] + sum[s \ {Pick(s)}]]

\* It has a solution on the sets of up to any size, and so on all of them.
LEMMA SumExists ==
    ASSUME NEW S, IsFiniteSet(S), NEW F, \A x \in S : F[x] \in Nat
    PROVE  \E sum : SumsTo(sum, F, S)
<1> DEFINE Upto(n) == {s \in SUBSET S : Cardinality(s) <= n}
           Solves(sum, n) == sum = [s \in Upto(n) |-> IF s = {} THEN 0 ELSE F[Pick(s)] + sum[s \ {Pick(s)}]]
           Bad == {n \in Nat : \A sum : ~Solves(sum, n)}
<1>1. \A s \in SUBSET S : IsFiniteSet(s) /\ Cardinality(s) \in Nat
  BY FS_Subset, FS_CardinalityType
<1>2. \A s \in SUBSET S : s # {} => /\ Pick(s) \in s /\ s \ {Pick(s)} \in SUBSET S
                                    /\ Cardinality(s \ {Pick(s)}) = Cardinality(s) - 1
                                    /\ Cardinality(s) >= 1
  <2> SUFFICES ASSUME NEW s \in SUBSET S, s # {}
               PROVE  /\ Pick(s) \in s /\ s \ {Pick(s)} \in SUBSET S
                      /\ Cardinality(s \ {Pick(s)}) = Cardinality(s) - 1
                      /\ Cardinality(s) >= 1
    OBVIOUS
  <2>1. Pick(s) \in s
    BY DEF Pick
  <2>2. Cardinality(s \ {Pick(s)}) = Cardinality(s) - 1
    BY <1>1, <2>1, FS_RemoveElement
  <2>3. Cardinality(s) # 0
    BY <1>1, FS_EmptySet
  <2> QED BY <1>1, <2>1, <2>2, <2>3
<1>3. Bad = {}
  <2> SUFFICES ASSUME Bad # {} PROVE FALSE
    OBVIOUS
  <2>1. Bad \in SUBSET Nat
    OBVIOUS
  <2> HIDE DEF Bad
  <2>2. PICK m \in Bad : \A k \in Bad : m <= k
    BY <2>1, Least
  <2>3. m \in Nat /\ \A sum : ~Solves(sum, m)
    BY <2>2 DEF Bad
  <2>4. CASE m = 0
    <3> DEFINE sum == [s \in Upto(0) |-> 0]
    <3>1. \A s \in Upto(0) : s = {}
      <4> SUFFICES ASSUME NEW s \in SUBSET S, Cardinality(s) <= 0, s # {} PROVE FALSE
        OBVIOUS
      <4>1. Cardinality(s) \in Nat
        BY <1>1
      <4>2. Cardinality(s) >= 1
        BY <1>2
      <4> QED BY <4>1, <4>2
    <3>2. Solves(sum, 0)
      BY <3>1
    <3> QED BY <2>3, <2>4, <3>2
  <2>5. CASE m # 0
    <3>1. m - 1 \in Nat /\ m - 1 \notin Bad
      BY <2>2, <2>3, <2>5
    <3>2. PICK old : Solves(old, m - 1)
      BY <3>1 DEF Bad
    <3> DEFINE sum == [s \in Upto(m) |-> IF s \in Upto(m - 1) THEN old[s]
                                         ELSE IF s = {} THEN 0 ELSE F[Pick(s)] + old[s \ {Pick(s)}]]
    <3>3. \A s \in Upto(m) : s # {} => s \ {Pick(s)} \in Upto(m - 1) /\ s \ {Pick(s)} \in Upto(m)
      BY <1>1, <1>2, <2>3
    <3>4. \A s \in Upto(m - 1) : s \in Upto(m)
      BY <1>1, <2>3, <3>1
    <3>5. \A s \in Upto(m - 1) : old[s] = IF s = {} THEN 0 ELSE F[Pick(s)] + old[s \ {Pick(s)}]
      BY <3>2
    <3> HIDE DEF Upto
    <3>6. \A s \in Upto(m) : sum[s] = IF s = {} THEN 0 ELSE F[Pick(s)] + old[s \ {Pick(s)}]
      BY <3>5
    <3>7. \A s \in Upto(m) : s # {} => sum[s \ {Pick(s)}] = old[s \ {Pick(s)}]
      BY <3>3
    <3>8. sum = [s \in Upto(m) |-> sum[s]]
      OBVIOUS
    <3> HIDE DEF sum
    <3>9. \A s \in Upto(m) : sum[s] = IF s = {} THEN 0 ELSE F[Pick(s)] + sum[s \ {Pick(s)}]
      BY <3>6, <3>7
    <3>10. Solves(sum, m)
      BY <3>8, <3>9
    <3> QED BY <2>3, <3>10
  <2> QED BY <2>4, <2>5
<1>4. Upto(Cardinality(S)) = SUBSET S
  BY <1>1, FS_Subset
<1>5. Cardinality(S) \in Nat
  BY FS_CardinalityType
<1>6. PICK sum : Solves(sum, Cardinality(S))
  <2> HIDE DEF Solves
  <2>1. Cardinality(S) \notin Bad
    BY <1>3
  <2> QED BY <1>5, <2>1
<1> HIDE DEF Upto
<1>7. SumsTo(sum, F, S)
  BY <1>4, <1>6 DEF SumsTo
<1> QED BY <1>7

\* Whichever element is taken out, the sum is of it and of the rest.
LEMMA SumTakesOut ==
    ASSUME NEW S, IsFiniteSet(S), NEW F, \A x \in S : F[x] \in Nat, NEW sum, SumsTo(sum, F, S)
    PROVE  /\ sum[{}] = 0
           /\ \A s \in SUBSET S : sum[s] \in Nat /\ \A y \in s : sum[s] = F[y] + sum[s \ {y}]
<1> DEFINE Good(s) == sum[s] \in Nat /\ \A y \in s : sum[s] = F[y] + sum[s \ {y}]
           Bad == {n \in Nat : \E s \in SUBSET S : Cardinality(s) = n /\ ~Good(s)}
<1>1. \A s \in SUBSET S : IsFiniteSet(s) /\ Cardinality(s) \in Nat
  BY FS_Subset, FS_CardinalityType
<1>2. sum[{}] = 0
  BY DEF SumsTo
<1>3. Bad = {}
  <2> SUFFICES ASSUME Bad # {} PROVE FALSE
    OBVIOUS
  <2>1. Bad \in SUBSET Nat
    OBVIOUS
  <2> HIDE DEF Bad
  <2>2. PICK m \in Bad : \A k \in Bad : m <= k
    BY <2>1, Least
  <2>3. PICK s \in SUBSET S : Cardinality(s) = m /\ ~Good(s)
    BY <2>2 DEF Bad
  <2>4. s # {}
    <3> SUFFICES ASSUME s = {} PROVE FALSE
      OBVIOUS
    <3>1. sum[s] \in Nat /\ \A y \in s : FALSE
      BY <1>2
    <3> QED BY <2>3, <3>1
  <2> DEFINE c == Pick(s)
  <2>5. c \in s /\ sum[s] = F[c] + sum[s \ {c}]
    BY <2>4 DEF Pick, SumsTo
  <2> HIDE DEF c
  <2>6. \A y \in s : Good(s \ {y})
    <3> SUFFICES ASSUME NEW y \in s PROVE Good(s \ {y})
      OBVIOUS
    <3>1. Cardinality(s \ {y}) = m - 1 /\ m \in Nat
      BY <1>1, <2>3, FS_RemoveElement
    <3>2. s \ {y} \in SUBSET S /\ m - 1 \in Nat /\ m - 1 \notin Bad
      BY <1>1, <2>2, <3>1
    <3> HIDE DEF Good
    <3> QED BY <3>1, <3>2 DEF Bad
  <2>7. sum[s] \in Nat /\ F[c] \in Nat
    <3>1. sum[s \ {c}] \in Nat
      BY <2>5, <2>6
    <3>2. F[c] \in Nat
      BY <2>5
    <3> QED BY <2>5, <3>1, <3>2
  <2>8. ASSUME NEW y \in s PROVE sum[s] = F[y] + sum[s \ {y}]
    <3>1. CASE y = c
      BY <2>5, <3>1
    <3>2. CASE y # c
      <4>1. y \in s \ {c} /\ c \in s \ {y} /\ (s \ {c}) \ {y} = (s \ {y}) \ {c}
        BY <2>5, <3>2
      <4>2. sum[s \ {c}] = F[y] + sum[(s \ {c}) \ {y}]
        BY <2>5, <2>6, <4>1
      <4>3. sum[s \ {y}] = F[c] + sum[(s \ {y}) \ {c}] /\ sum[s \ {y}] \in Nat
        BY <2>6, <4>1
      <4>4. sum[(s \ {y}) \ {c}] \in Nat
        <5>1. (s \ {y}) \ {c} \in SUBSET S
          OBVIOUS
        <5>2. IsFiniteSet(s \ {y}) /\ Cardinality(s \ {y}) = m - 1 /\ m \in Nat
          BY <1>1, <2>3, FS_RemoveElement
        <5> DEFINE u == s \ {y}
        <5>3. c \in u /\ IsFiniteSet(u) /\ Cardinality(u) = m - 1 /\ u \ {c} \in SUBSET S
          BY <4>1, <5>1, <5>2
        <5> HIDE DEF u
        <5>4. Cardinality(u \ {c}) = m - 1 - 1
          BY <5>3, FS_RemoveElement
        <5>5. Cardinality(u \ {c}) \in Nat
          BY <1>1, <5>3
        <5>6. m - 2 \in Nat /\ Cardinality(u \ {c}) = m - 2 /\ m - 2 < m
          BY <5>2, <5>4, <5>5
        <5>7. m - 2 \notin Bad
          BY <2>2, <5>2, <5>6
        <5>8. Good(u \ {c})
          BY <5>3, <5>6, <5>7 DEF Bad
        <5> QED BY <5>8 DEF u
      <4>5. F[y] \in Nat /\ F[c] \in Nat
        BY <2>5
      <4>6. (s \ {y}) \ {c} = (s \ {c}) \ {y}
        BY <4>1
      <4>7. sum[s] = F[c] + (F[y] + sum[(s \ {y}) \ {c}])
        BY <2>5, <4>2, <4>6
      <4> DEFINE rest == sum[(s \ {y}) \ {c}]
      <4> HIDE DEF rest
      <4>8. F[c] + (F[y] + rest) = F[y] + (F[c] + rest)
        BY <4>4, <4>5 DEF rest
      <4> QED BY <4>3, <4>7, <4>8 DEF rest
    <3> QED BY <3>1, <3>2
  <2> QED BY <2>3, <2>7, <2>8
<1>4. \A s \in SUBSET S : Good(s)
  BY <1>1, <1>3
<1> QED BY <1>2, <1>4

\* On the sets two such sums share, and whose elements count alike, they agree.
LEMMA SumsAgree ==
    ASSUME NEW S, NEW T, NEW F, NEW G, NEW a, NEW b, SumsTo(a, F, S), SumsTo(b, G, T),
           NEW U, U \subseteq S, U \subseteq T, IsFiniteSet(U), \A x \in U : F[x] = G[x]
    PROVE  a[U] = b[U]
<1> DEFINE Bad == {n \in Nat : \E s \in SUBSET U : Cardinality(s) = n /\ a[s] # b[s]}
<1>1. \A s \in SUBSET U : IsFiniteSet(s) /\ Cardinality(s) \in Nat
  BY FS_Subset, FS_CardinalityType
<1>2. Bad = {}
  <2> SUFFICES ASSUME Bad # {} PROVE FALSE
    OBVIOUS
  <2>1. Bad \in SUBSET Nat
    OBVIOUS
  <2> HIDE DEF Bad
  <2>2. PICK m \in Bad : \A k \in Bad : m <= k
    BY <2>1, Least
  <2>3. PICK s \in SUBSET U : Cardinality(s) = m /\ a[s] # b[s]
    BY <2>2 DEF Bad
  <2>4. s \in SUBSET S /\ s \in SUBSET T
    OBVIOUS
  <2>5. s # {}
    BY <2>3, <2>4 DEF SumsTo
  <2> DEFINE c == Pick(s)
  <2>6. c \in s /\ a[s] = F[c] + a[s \ {c}] /\ b[s] = G[c] + b[s \ {c}]
    BY <2>4, <2>5 DEF Pick, SumsTo
  <2> HIDE DEF c
  <2>7. Cardinality(s \ {c}) = m - 1 /\ m \in Nat
    BY <1>1, <2>3, <2>6, FS_RemoveElement
  <2>8. s \ {c} \in SUBSET U /\ m - 1 \in Nat /\ m - 1 \notin Bad
    BY <1>1, <2>2, <2>7
  <2>9. a[s \ {c}] = b[s \ {c}]
    BY <2>7, <2>8 DEF Bad
  <2> QED BY <2>3, <2>6, <2>9
<1> QED BY <1>1, <1>2

\* The sum of F over S, as the model's sums come to be once expanded.
SumOf(F, S) == (CHOOSE sum : SumsTo(sum, F, S))[S]

LEMMA SumOfSteps ==
    ASSUME NEW S, IsFiniteSet(S), NEW F, \A x \in S : F[x] \in Nat
    PROVE  /\ S = {} => SumOf(F, S) = 0
           /\ SumOf(F, S) \in Nat
           /\ \A y \in S : SumOf(F, S) = F[y] + SumOf(F, S \ {y})
<1> DEFINE a == CHOOSE sum : SumsTo(sum, F, S)
<1>1. SumsTo(a, F, S)
  BY SumExists
<1>2. SumOf(F, S) = a[S]
  BY DEF SumOf
<1> HIDE DEF a
<1>3. /\ S = {} => a[S] = 0
      /\ a[S] \in Nat
      /\ \A y \in S : a[S] = F[y] + a[S \ {y}]
  <2>1. S \in SUBSET S
    OBVIOUS
  <2>2. /\ a[{}] = 0
        /\ \A s \in SUBSET S : a[s] \in Nat /\ \A y \in s : a[s] = F[y] + a[s \ {y}]
    BY <1>1, SumTakesOut
  <2>3. a[S] \in Nat /\ \A y \in S : a[S] = F[y] + a[S \ {y}]
    BY <2>1, <2>2
  <2> QED BY <2>2, <2>3
<1>4. ASSUME NEW y \in S PROVE a[S \ {y}] = SumOf(F, S \ {y})
  <2> DEFINE T == S \ {y}
             b == CHOOSE sum : SumsTo(sum, F, T)
  <2>1. IsFiniteSet(T) /\ T \subseteq S
    BY FS_Subset
  <2> HIDE DEF T
  <2>2. SumsTo(b, F, T)
    BY <2>1, SumExists
  <2>3. SumOf(F, T) = b[T]
    BY DEF SumOf
  <2> HIDE DEF b
  <2>4. a[T] = b[T]
    BY <1>1, <2>1, <2>2, SumsAgree
  <2> QED BY <2>3, <2>4 DEF T
<1> QED BY <1>2, <1>3, <1>4

LEMMA SumOfAgrees ==
    ASSUME NEW S, IsFiniteSet(S), NEW F, NEW G, \A x \in S : F[x] \in Nat, \A x \in S : F[x] = G[x]
    PROVE  SumOf(F, S) = SumOf(G, S)
<1> DEFINE a == CHOOSE sum : SumsTo(sum, F, S)
           b == CHOOSE sum : SumsTo(sum, G, S)
<1>1. SumsTo(a, F, S)
  BY SumExists
<1>2. SumsTo(b, G, S)
  <2>1. \A x \in S : G[x] \in Nat
    OBVIOUS
  <2> QED BY <2>1, SumExists
<1>3. SumOf(F, S) = a[S] /\ SumOf(G, S) = b[S]
  BY DEF SumOf
<1> HIDE DEF a, b
<1> QED BY <1>1, <1>2, <1>3, SumsAgree

\* A set whose elements all count nothing sums to nothing, and one in which a
\* single element counts sums to what it counts.
LEMMA SumOfNothing ==
    ASSUME NEW S, IsFiniteSet(S), NEW F, \A x \in S : F[x] = 0
    PROVE  SumOf(F, S) = 0
<1> DEFINE Bad == {n \in Nat : \E s \in SUBSET S : Cardinality(s) = n /\ SumOf(F, s) # 0}
<1>1. \A s \in SUBSET S : IsFiniteSet(s) /\ Cardinality(s) \in Nat /\ \A x \in s : F[x] \in Nat
  BY FS_Subset, FS_CardinalityType
<1>2. Bad = {}
  <2> SUFFICES ASSUME Bad # {} PROVE FALSE
    OBVIOUS
  <2>1. Bad \in SUBSET Nat
    OBVIOUS
  <2> HIDE DEF Bad
  <2>2. PICK m \in Bad : \A k \in Bad : m <= k
    BY <2>1, Least
  <2>3. PICK s \in SUBSET S : Cardinality(s) = m /\ SumOf(F, s) # 0
    BY <2>2 DEF Bad
  <2>4. IsFiniteSet(s) /\ \A x \in s : F[x] \in Nat
    BY <1>1
  <2>5. s # {} /\ \A y \in s : SumOf(F, s) = F[y] + SumOf(F, s \ {y})
    BY <2>3, <2>4, SumOfSteps
  <2>6. PICK y \in s : SumOf(F, s) = F[y] + SumOf(F, s \ {y})
    BY <2>5
  <2>7. Cardinality(s \ {y}) = m - 1 /\ m \in Nat
    BY <1>1, <2>3, <2>6, FS_RemoveElement
  <2>8. s \ {y} \in SUBSET S /\ m - 1 \in Nat /\ m - 1 \notin Bad
    BY <1>1, <2>2, <2>7
  <2>9. SumOf(F, s \ {y}) = 0 /\ F[y] = 0
    BY <2>7, <2>8 DEF Bad
  <2> QED BY <2>3, <2>6, <2>9
<1> QED BY <1>1, <1>2

LEMMA SumOfOne ==
    ASSUME NEW S, IsFiniteSet(S), NEW F, NEW y \in S, F[y] \in Nat, \A x \in S \ {y} : F[x] = 0
    PROVE  SumOf(F, S) = F[y]
<1>1. SumOf(F, S \ {y}) = 0
  BY FS_Subset, SumOfNothing
<1>2. SumOf(F, S) = F[y] + SumOf(F, S \ {y})
  <2>1. \A x \in S : F[x] \in Nat
    OBVIOUS
  <2> QED BY <2>1, SumOfSteps
<1> QED BY <1>1, <1>2

\* A sum is more than nothing just when an element is.
LEMMA SumOfSome ==
    ASSUME NEW S, IsFiniteSet(S), NEW F, \A x \in S : F[x] \in Nat, NEW y \in S, F[y] > 0
    PROVE  SumOf(F, S) > 0
<1>1. SumOf(F, S) = F[y] + SumOf(F, S \ {y})
  BY SumOfSteps
<1>2. SumOf(F, S \ {y}) \in Nat
  <2>1. IsFiniteSet(S \ {y}) /\ \A x \in S \ {y} : F[x] \in Nat
    BY FS_Subset
  <2> QED BY <2>1, SumOfSteps
<1> QED BY <1>1, <1>2

\* The sums of the model.
LEMMA CopiesSum ==
    ASSUME NEW S, IsFiniteSet(S), NEW e, \A r \in S : disk[r.file][e] \in Nat
    PROVE  Copies(e, S) = SumOf([r \in S |-> disk[r.file][e]], S)
<1> DEFINE F == [r \in S |-> disk[r.file][e]]
           Solves(sum) == sum = [s \in SUBSET S |-> IF s = {} THEN 0
                                    ELSE disk[(CHOOSE x \in s : TRUE).file][e]
                                           + sum[s \ {CHOOSE x \in s : TRUE}]]
           a == CHOOSE sum : Solves(sum)
           b == CHOOSE sum : SumsTo(sum, F, S)
<1>1. Copies(e, S) = a[S]
  BY DEF Copies, MapThenSumSet, MapThenFoldSet
<1>2. \A sum : Solves(sum) <=> SumsTo(sum, F, S)
  <2> SUFFICES ASSUME NEW sum PROVE Solves(sum) <=> SumsTo(sum, F, S)
    OBVIOUS
  <2>1. \A s \in SUBSET S : s # {} => F[Pick(s)] = disk[(CHOOSE x \in s : TRUE).file][e]
    BY DEF Pick
  <2> HIDE DEF F
  <2> QED BY <2>1 DEF SumsTo, Pick
<1>3. \A x \in S : F[x] \in Nat
  OBVIOUS
<1> HIDE DEF F
<1>4. SumsTo(b, F, S)
  BY <1>3, SumExists
<1>5. SumOf(F, S) = b[S]
  BY DEF SumOf
<1> HIDE DEF b, Solves
<1>6. Solves(b)
  BY <1>2, <1>4
<1>7. Solves(a)
  BY <1>6
<1> HIDE DEF a
<1>8. SumsTo(a, F, S)
  BY <1>2, <1>7
<1>9. a[S] = b[S]
  BY <1>4, <1>8, SumsAgree
<1> QED BY <1>1, <1>5, <1>9 DEF F

LEMMA RowCountSum ==
    ASSUME NEW S, IsFiniteSet(S), \A r \in S : r.n \in Nat
    PROVE  RowCount(S) = SumOf([r \in S |-> r.n], S)
<1> DEFINE F == [r \in S |-> r.n]
           Solves(sum) == sum = [s \in SUBSET S |-> IF s = {} THEN 0
                                    ELSE (CHOOSE x \in s : TRUE).n + sum[s \ {CHOOSE x \in s : TRUE}]]
           a == CHOOSE sum : Solves(sum)
           b == CHOOSE sum : SumsTo(sum, F, S)
<1>1. RowCount(S) = a[S]
  BY DEF RowCount, MapThenSumSet, MapThenFoldSet
<1>2. \A sum : Solves(sum) <=> SumsTo(sum, F, S)
  <2> SUFFICES ASSUME NEW sum PROVE Solves(sum) <=> SumsTo(sum, F, S)
    OBVIOUS
  <2>1. \A s \in SUBSET S : s # {} => F[Pick(s)] = (CHOOSE x \in s : TRUE).n
    BY DEF Pick
  <2> HIDE DEF F
  <2> QED BY <2>1 DEF SumsTo, Pick
<1>3. \A x \in S : F[x] \in Nat
  OBVIOUS
<1> HIDE DEF F
<1>4. SumsTo(b, F, S)
  BY <1>3, SumExists
<1>5. SumOf(F, S) = b[S]
  BY DEF SumOf
<1> HIDE DEF b, Solves
<1>6. Solves(b)
  BY <1>2, <1>4
<1>7. Solves(a)
  BY <1>6
<1> HIDE DEF a
<1>8. SumsTo(a, F, S)
  BY <1>2, <1>7
<1>9. a[S] = b[S]
  BY <1>4, <1>8, SumsAgree
<1> QED BY <1>1, <1>5, <1>9 DEF F

LEMMA SizeSum ==
    ASSUME NEW content \in [Event -> Nat]
    PROVE  Size(content) \in Nat
<1> DEFINE F == [x \in Event |-> content[x]]
           Solves(sum) == sum = [s \in SUBSET Event |-> IF s = {} THEN 0
                                    ELSE content[CHOOSE x \in s : TRUE] + sum[s \ {CHOOSE x \in s : TRUE}]]
           a == CHOOSE sum : Solves(sum)
<1>1. Size(content) = a[Event]
  BY DEF Size, MapThenSumSet, MapThenFoldSet
<1>2. \A sum : Solves(sum) <=> SumsTo(sum, F, Event)
  <2> SUFFICES ASSUME NEW sum PROVE Solves(sum) <=> SumsTo(sum, F, Event)
    OBVIOUS
  <2>1. \A s \in SUBSET Event : s # {} => F[Pick(s)] = content[CHOOSE x \in s : TRUE]
    BY DEF Pick
  <2> HIDE DEF F
  <2> QED BY <2>1 DEF SumsTo, Pick
<1>3. (\A x \in Event : F[x] \in Nat) /\ IsFiniteSet(Event)
  <2>1. IsFiniteSet(1..Events)
    BY CatalogAssumption, FS_Interval
  <2> QED BY <2>1 DEF Event
<1> HIDE DEF F
<1>4. PICK b : SumsTo(b, F, Event)
  BY <1>3, SumExists
<1> HIDE DEF Solves
<1>5. Solves(a)
  BY <1>2, <1>4
<1> HIDE DEF a
<1>6. SumsTo(a, F, Event)
  BY <1>2, <1>5
<1>7. Event \in SUBSET Event
  OBVIOUS
<1> QED BY <1>1, <1>3, <1>6, <1>7, SumTakesOut

-----------------------------------------------------------------------------
(***************************************************************************)
(* Nothing flushed is lost: the types of what each writer holds, the steps *)
(* of a registration and of a compaction, and that what is unlinked was    *)
(* merged before.                                                          *)
(***************************************************************************)
RowFields == {"id", "file", "absolute", "n", "day", "span"}
Listing == {"table", "check", "add", "partition", "stats", "total"}
Merging == {"delete", "add", "partition", "stats", "sum", "total", "unlink"}
Files == DOMAIN dirOf

\* A row has its fields, an id given out and a file that was written.
RowTypes(r, F, n) ==
    DOMAIN r = RowFields /\ r.id \in 1..n /\ r.file \in F /\ r.n \in Nat

\* What a registration holds at each of its steps, and what a compaction does.
ListerTypes(t, F, n) ==
    \/ t = Idle \/ t = Dropping
    \/ t.pc = "next" /\ DOMAIN t = {"pc", "todo"} /\ t.todo \subseteq F
    \/ /\ t.pc \in Listing
       /\ t.file \in F /\ t.todo \subseteq F
       /\ DOMAIN t = {"pc", "file", "todo"} \cup {x \in {"before"} : t.pc # "table"}
                         \cup {x \in {"id"} : t.pc \in {"partition", "stats", "total"}}
       /\ t.pc \in {"partition", "stats", "total"} => t.id \in 1..n

CompactTypes(t, F, n) ==
    \/ t = Idle
    \/ /\ t.pc \in {"merge"} \cup Merging
       /\ DOMAIN t = {"pc", "day", "old"} \cup {x \in {"file"} : t.pc # "merge"}
                        \cup {x \in {"id"} : t.pc \notin {"merge", "delete", "add"}}
                        \cup {x \in {"sum"} : t.pc \in {"total", "unlink"}}
       /\ IsFiniteSet(t.old) /\ \A o \in t.old : RowTypes(o, F, n)
       /\ t.pc # "merge" => t.file \in F
       /\ t.pc \notin {"merge", "delete", "add"} => t.id \in 1..n

WriterTypes(w, t, F, n) ==
    /\ w = "compact" => CompactTypes(t, F, n)
    /\ w # "compact" => ListerTypes(t, F, n)
    /\ w = "flush" => t.pc # "next"
    /\ w # "flush" => t # Dropping

\* Rows are finitely many and known by their ids.
RowsTypes(R, F, n) ==
    /\ IsFiniteSet(R) /\ \A r \in R : RowTypes(r, F, n)
    /\ \A r, s \in R : r.id = s.id => r = s

Buffers == [out : 0..Events, upto : 0..Events, again : SUBSET Event]

\* The type invariant: files are numbered in order, each step of a writer has the
\* fields it needs.
CatalogTypes ==
    /\ \E n \in Nat : Files = 1..n
    /\ DOMAIN disk \subseteq Files /\ \A f \in DOMAIN disk : disk[f] \in [Event -> Nat]
    /\ buffer \in Buffers
    /\ spent = [faults |-> spent.faults, commands |-> spent.commands, ids |-> spent.ids]
    /\ spent.ids \in Nat
    /\ RowsTypes(rows, Files, spent.ids)
    /\ at = [w \in Writer |-> at[w]]
    /\ \A w \in Writer : WriterTypes(w, at[w], Files, spent.ids)

\* The files a compaction has merged into one that holds all they hold.
Superseded == IF at["compact"].pc \in Merging THEN {o.file : o \in at["compact"].old} ELSE {}

\* The merged file is there, and holds whatever the files it replaces still hold.
Covered ==
    at["compact"].pc \in Merging =>
       /\ at["compact"].file \in DOMAIN disk \ Superseded
       /\ \A f \in Superseded \cap DOMAIN disk, e \in Event :
             disk[f][e] > 0 => disk[at["compact"].file][e] > 0

\* Where no two writers were ever at work at once, one is at work at a time.
Alone == ~raced => \A v, w \in Writer : at[v] # Idle /\ at[w] # Idle => v = w

\* What was written of the buffer, by the flush at work too, is in a file.
Written == \A e \in 1..buffer.upto : \E f \in DOMAIN disk : disk[f][e] > 0

\* A batch is written by a flush that is at work.
Buffered == buffer.out <= buffer.upto /\ (at["flush"] = Idle => buffer.upto = buffer.out)

CatalogInv == CatalogTypes /\ Covered /\ Alone /\ Written /\ Buffered

\* What a writer's step makes of what it holds.
LEMMA Moved ==
    ASSUME NEW t, "pc" \in DOMAIN t, NEW to
    PROVE  LET m == [t EXCEPT !.pc = to]
           IN DOMAIN m = DOMAIN t /\ m.pc = to /\ \A x \in DOMAIN t \ {"pc"} : m[x] = t[x]
OBVIOUS

Taken(t, f, v, to) == [With(t, f, v) EXCEPT !.pc = to]

LEMMA TakenNow ==
    ASSUME NEW t, "pc" \in DOMAIN t, NEW f, f # "pc", NEW v, NEW to
    PROVE  Taken(t, f, v, to).pc = to /\ Taken(t, f, v, to)[f] = v
BY DEF Taken, With

LEMMA TakenDomain ==
    ASSUME NEW t, "pc" \in DOMAIN t, NEW f, f # "pc", NEW v, NEW to
    PROVE  DOMAIN Taken(t, f, v, to) = DOMAIN t \cup {f}
BY DEF Taken, With

LEMMA TakenRest ==
    ASSUME NEW t, "pc" \in DOMAIN t, NEW f, f # "pc", NEW v, NEW to, NEW x \in DOMAIN t \ {"pc", f}
    PROVE  Taken(t, f, v, to)[x] = t[x]
BY DEF Taken, With

\* More files and more ids fit what there was.
LEMMA TypesGrow ==
    ASSUME NEW F, NEW G, F \subseteq G, NEW n \in Nat, NEW m \in Nat, n <= m
    PROVE  /\ \A r : RowTypes(r, F, n) => RowTypes(r, G, m)
           /\ \A w, t : WriterTypes(w, t, F, n) => WriterTypes(w, t, G, m)
           /\ \A R : RowsTypes(R, F, n) => RowsTypes(R, G, m)
<1>1. \A x : x \in 1..n => x \in 1..m
  OBVIOUS
<1>2. \A r : RowTypes(r, F, n) => RowTypes(r, G, m)
  BY <1>1 DEF RowTypes
<1>3. \A t : ListerTypes(t, F, n) => ListerTypes(t, G, m)
  BY <1>1 DEF ListerTypes
<1>4. \A t : CompactTypes(t, F, n) => CompactTypes(t, G, m)
  BY <1>1, <1>2 DEF CompactTypes
<1> QED BY <1>2, <1>3, <1>4 DEF WriterTypes, RowsTypes

LEMMA NewFileIsNew ==
    ASSUME CatalogTypes
    PROVE  /\ NewFile \notin Files /\ NewFile \notin DOMAIN disk
           /\ \E n \in Nat : Files \cup {NewFile} = 1..n
<1>1. PICK n \in Nat : Files = 1..n
  BY DEF CatalogTypes
<1>2. Cardinality(1..n) = n
  BY FS_Interval
<1>3. NewFile = n + 1
  BY <1>1, <1>2 DEF NewFile, Files
<1>4. NewFile \notin Files /\ Files \cup {NewFile} = 1..(n + 1) /\ n + 1 \in Nat
  BY <1>1, <1>3
<1>5. DOMAIN disk \subseteq Files
  BY DEF CatalogTypes
<1> QED BY <1>4, <1>5

\* A step of one writer that writes no file and removes none.
LEMMA TypesStep ==
    ASSUME CatalogTypes, NEW w \in Writer, NEW t, at' = [at EXCEPT ![w] = t],
           UNCHANGED <<disk, dirOf>>, buffer' = buffer \/ buffer' \in Buffers,
           spent' = [faults |-> spent'.faults, commands |-> spent'.commands, ids |-> spent'.ids],
           spent'.ids \in Nat, spent.ids <= spent'.ids,
           RowsTypes(rows', Files, spent'.ids), WriterTypes(w, t, Files, spent'.ids)
    PROVE  CatalogTypes' /\ at'[w] = t /\ \A v \in Writer \ {w} : at'[v] = at[v]
<1>1. at'[w] = t /\ \A v \in Writer \ {w} : at'[v] = at[v]
  BY DEF CatalogTypes
<1>2. \A v \in Writer : WriterTypes(v, at'[v], Files, spent'.ids)
  BY <1>1, TypesGrow DEF CatalogTypes
<1>3. at' = [v \in Writer |-> at'[v]]
  BY DEF CatalogTypes
<1>4. Files' = Files
  BY DEF Files
<1> QED BY <1>1, <1>2, <1>3, <1>4 DEF CatalogTypes

\* While the files and what is being compacted stay, what is held stays held.
LEMMA HeldStill ==
    ASSUME Covered, Written, UNCHANGED <<disk, buffer>>, at'["compact"] = at["compact"]
    PROVE  Covered' /\ Written'
BY DEF Covered, Written, Superseded

LEMMA BufferedStill ==
    ASSUME Buffered, UNCHANGED buffer, at'["flush"] = Idle => at["flush"] = Idle
    PROVE  Buffered'
BY DEF Buffered

LEMMA AloneStill ==
    ASSUME Alone, raced' = raced, \A v \in Writer : at'[v] # Idle => at[v] # Idle
    PROVE  Alone'
BY DEF Alone

LEMMA AloneStart ==
    ASSUME Alone, NEW w \in Writer, raced' = (raced \/ Others(w)),
           \A v \in Writer \ {w} : at'[v] = at[v]
    PROVE  Alone'
BY DEF Alone, Others

LEMMA CatalogInit == Init => CatalogInv
<1> SUFFICES ASSUME Init PROVE CatalogInv
  OBVIOUS
<1>1. Files = 1..0 /\ DOMAIN disk = {} /\ \A w \in Writer : at[w] = Idle
  BY DEF Init, Empty, Files
<1>2. \A w \in Writer : WriterTypes(w, at[w], Files, spent.ids)
  BY <1>1 DEF WriterTypes, ListerTypes, CompactTypes, Idle, Dropping
<1>3. RowsTypes(rows, Files, spent.ids)
  BY FS_EmptySet DEF RowsTypes, Init
<1>4. CatalogTypes
  BY <1>1, <1>2, <1>3, CatalogAssumption DEF CatalogTypes, Buffers, Init
<1>5. Covered /\ Alone /\ Written /\ Buffered
  BY <1>1 DEF Covered, Alone, Written, Buffered, Init, Idle, Merging, Writer
<1> QED BY <1>4, <1>5 DEF CatalogInv

\* A registration's step that only moves it on.
LEMMA ListerStep ==
    ASSUME CatalogInv, NEW w \in {"flush", "sweep"}, NEW t, at' = [at EXCEPT ![w] = t],
           at[w] # Idle, WriterTypes(w, t, Files, spent.ids), w = "flush" => t # Idle,
           UNCHANGED <<disk, dirOf, rows, buffer, raced>>,
           spent' = [faults |-> spent'.faults, commands |-> spent'.commands, ids |-> spent.ids]
    PROVE  CatalogInv'
<1>1. w \in Writer /\ "compact" \in Writer \ {w} /\ spent'.ids = spent.ids
  BY DEF Writer
<1>2. CatalogTypes' /\ at'[w] = t /\ \A v \in Writer \ {w} : at'[v] = at[v]
  <2>1. spent.ids \in Nat /\ RowsTypes(rows', Files, spent'.ids)
    BY <1>1 DEF CatalogInv, CatalogTypes
  <2>2. spent' = [faults |-> spent'.faults, commands |-> spent'.commands, ids |-> spent'.ids]
    BY <1>1
  <2>3. spent'.ids \in Nat /\ spent.ids <= spent'.ids
    BY <1>1, <2>1
  <2>4. CatalogTypes
    BY DEF CatalogInv
  <2> QED BY <1>1, <2>1, <2>2, <2>3, <2>4, TypesStep
<1>3. Covered' /\ Written'
  BY <1>1, <1>2, HeldStill DEF CatalogInv
<1>4. Alone'
  BY <1>1, <1>2, AloneStill DEF CatalogInv
<1>5. Buffered'
  BY <1>1, <1>2, BufferedStill DEF CatalogInv, Writer
<1> QED BY <1>2, <1>3, <1>4, <1>5 DEF CatalogInv

\* What a registration holds on its way.
LEMMA ListerAt ==
    ASSUME CatalogInv, NEW w \in {"flush", "sweep"}, at[w] # Idle, at[w] # Dropping
    PROVE  /\ WriterTypes(w, at[w], Files, spent.ids) /\ ListerTypes(at[w], Files, spent.ids)
           /\ w \in Writer /\ "pc" \in DOMAIN at[w]
           /\ at[w].pc \in Listing \cup {"next"} /\ (w = "flush" => at[w].pc \in Listing)
           /\ spent.ids \in Nat /\ DOMAIN disk \subseteq Files
           /\ at[w].todo \subseteq Files
BY DEF CatalogInv, CatalogTypes, WriterTypes, ListerTypes, Listing, Writer

LEMMA SameSpent ==
    ASSUME CatalogInv, UNCHANGED spent
    PROVE  spent' = [faults |-> spent'.faults, commands |-> spent'.commands, ids |-> spent.ids]
BY DEF CatalogInv, CatalogTypes

LEMMA ThroughTypes ==
    ASSUME CatalogInv, NEW w \in {"flush", "sweep"}, at[w] # Idle, at[w] # Dropping
    PROVE  /\ WriterTypes(w, Through(w), Files, spent.ids)
           /\ w = "flush" => Through(w) = Dropping /\ Through(w) # Idle
BY ListerAt DEF WriterTypes, ListerTypes, Through, Idle, Dropping

\* After an error a flush goes on to its last statement, the others stop.
LEMMA ErrorTypes ==
    ASSUME NEW w \in Writer
    PROVE  /\ \A F, n : WriterTypes(w, AfterError(w), F, n)
           /\ w = "flush" => AfterError(w) = Dropping
           /\ w # "flush" => AfterError(w) = Idle
           /\ AfterError(w).pc \in {"idle", "drop"} /\ Dropping # Idle
BY DEF WriterTypes, ListerTypes, CompactTypes, Idle, AfterError, Dropping, Writer

LEMMA IdleTypes == \A w \in Writer : \A F, n : WriterTypes(w, Idle, F, n)
BY DEF WriterTypes, ListerTypes, CompactTypes, Idle, Dropping

LEMMA SweepNextStep ==
    ASSUME CatalogInv, NEW f, SweepNext(f)
    PROVE  CatalogInv'
<1> DEFINE t == [pc |-> "table", file |-> f, todo |-> at["sweep"].todo \ {f}]
<1>1. at["sweep"] # Idle /\ f \in at["sweep"].todo
  BY DEF SweepNext, Idle
<1>2. at' = [at EXCEPT !["sweep"] = t] /\ UNCHANGED <<disk, dirOf, rows, buffer, raced, spent>>
  BY DEF SweepNext, data
<1>3. WriterTypes("sweep", t, Files, spent.ids)
  <2>1. f \in Files /\ t.todo \subseteq Files
    BY <1>1, ListerAt DEF Dropping, SweepNext
  <2> QED BY <2>1 DEF WriterTypes, ListerTypes, Listing, Dropping, Idle
<1> HIDE DEF t
<1> QED BY <1>1, <1>2, <1>3, ListerStep, SameSpent

LEMMA SweepEndStep ==
    ASSUME CatalogInv, SweepEnd
    PROVE  CatalogInv'
<1>1. at["sweep"] # Idle /\ at' = [at EXCEPT !["sweep"] = Idle]
  BY DEF SweepEnd, Idle
<1>2. UNCHANGED <<disk, dirOf, rows, buffer, raced, spent>>
  BY DEF SweepEnd, data
<1> QED BY <1>1, <1>2, IdleTypes, ListerStep, SameSpent DEF Writer

LEMMA RegTableStep ==
    ASSUME CatalogInv, NEW w \in {"flush", "sweep"}, RegTable(w), at[w] # Idle
    PROVE  CatalogInv'
<1> DEFINE o == at[w]
           t == Taken(o, "before", total, "check")
<1>1. o.pc = "table" /\ at' = [at EXCEPT ![w] = t] /\ UNCHANGED <<disk, dirOf, rows, buffer, raced, spent>>
  BY DEF RegTable, data, MovesOnWith, Taken
<1>2. WriterTypes(w, o, Files, spent.ids) /\ "pc" \in DOMAIN o
  BY <1>1, ListerAt DEF Dropping
<1> HIDE DEF o
<1>3. DOMAIN t = DOMAIN o \cup {"before"} /\ t.pc = "check" /\ \A x \in DOMAIN o \ {"pc", "before"} : t[x] = o[x]
  <2>1. t.pc = "check"
    BY <1>2, TakenNow
  <2>2. DOMAIN t = DOMAIN o \cup {"before"}
    BY <1>2, TakenDomain
  <2>3. \A x \in DOMAIN o \ {"pc", "before"} : t[x] = o[x]
    BY <1>2, TakenRest
  <2> QED BY <2>1, <2>2, <2>3
<1> HIDE DEF t
<1>4. WriterTypes(w, t, Files, spent.ids) /\ t # Idle
  BY <1>1, <1>2, <1>3 DEF WriterTypes, ListerTypes, Listing, Idle, Dropping
<1> QED BY <1>1, <1>4, ListerStep, SameSpent

LEMMA RegCheckStep ==
    ASSUME CatalogInv, NEW w \in {"flush", "sweep"}, RegCheck(w), at[w] # Idle
    PROVE  CatalogInv'
<1> DEFINE o == at[w]
           m == [o EXCEPT !.pc = "add"]
<1>1. /\ o.pc = "check"
      /\ UNCHANGED <<disk, dirOf, rows, buffer, raced, spent>>
  BY DEF RegCheck, data
<1>2. PICK t : t \in {AfterError(w), Through(w), m} /\ at' = [at EXCEPT ![w] = t]
  BY DEF RegCheck
<1>3. WriterTypes(w, o, Files, spent.ids) /\ "pc" \in DOMAIN o
  BY <1>1, ListerAt DEF Dropping
<1>4. WriterTypes(w, m, Files, spent.ids) /\ m # Idle
  <2> HIDE DEF o
  <2>1. DOMAIN m = DOMAIN o /\ m.pc = "add" /\ \A x \in DOMAIN o \ {"pc"} : m[x] = o[x]
    BY <1>3, Moved
  <2> HIDE DEF m
  <2> QED BY <1>1, <1>3, <2>1 DEF WriterTypes, ListerTypes, Listing, Idle, Dropping
<1>a. o # Dropping
  BY <1>1 DEF Dropping
<1> HIDE DEF m
<1>5. WriterTypes(w, t, Files, spent.ids) /\ (w = "flush" => t # Idle)
  BY <1>a, <1>2, <1>4, ErrorTypes, ThroughTypes DEF Writer
<1> QED BY <1>1, <1>2, <1>5, ListerStep, SameSpent

LEMMA RegStatsUnreadStep ==
    ASSUME CatalogInv, NEW w \in {"flush", "sweep"}, RegStatsUnread(w), at[w] # Idle
    PROVE  CatalogInv'
<1>1. at' = [at EXCEPT ![w] = AfterError(w)] /\ UNCHANGED <<disk, dirOf, rows, buffer, raced, spent>>
  BY DEF RegStatsUnread, data, GivesUp
<1> QED BY <1>1, ErrorTypes, ListerStep, SameSpent DEF Writer

LEMMA RegTotalStep ==
    ASSUME CatalogInv, NEW w \in {"flush", "sweep"}, RegTotal(w), at[w] # Idle
    PROVE  CatalogInv'
<1>1. at' = [at EXCEPT ![w] = Through(w)] /\ UNCHANGED <<disk, dirOf, rows, buffer, raced, spent>>
  BY DEF RegTotal
<1>2. at[w] # Dropping
  BY DEF RegTotal, Dropping
<1> QED BY <1>1, <1>2, ThroughTypes, ListerStep, SameSpent

\* A writer that begins, begins beside the others or not.
LEMMA SweepStartStep ==
    ASSUME CatalogInv, SweepStart
    PROVE  CatalogInv'
<1> DEFINE t == [pc |-> "next", todo |-> DOMAIN disk]
<1>1. /\ at' = [at EXCEPT !["sweep"] = t] /\ UNCHANGED <<disk, dirOf, rows, buffer>>
      /\ raced' = (raced \/ Others("sweep"))
      /\ spent' = [spent EXCEPT !.commands = @ + 1]
  BY DEF SweepStart, data
<1>2. /\ spent.ids \in Nat /\ DOMAIN disk \subseteq Files /\ CatalogTypes
      /\ RowsTypes(rows, Files, spent.ids)
      /\ spent = [faults |-> spent.faults, commands |-> spent.commands, ids |-> spent.ids]
  BY DEF CatalogInv, CatalogTypes
<1>3. WriterTypes("sweep", t, Files, spent.ids)
  BY <1>2 DEF WriterTypes, ListerTypes, Dropping, Idle
<1>4. spent' = [faults |-> spent'.faults, commands |-> spent'.commands, ids |-> spent'.ids] /\ spent'.ids = spent.ids
  BY <1>1, <1>2
<1> HIDE DEF t
<1>5. "sweep" \in Writer /\ "compact" \in Writer \ {"sweep"}
  BY DEF Writer
<1>6. CatalogTypes' /\ \A v \in Writer \ {"sweep"} : at'[v] = at[v]
  <2>1. /\ spent'.ids \in Nat /\ spent.ids <= spent'.ids
        /\ RowsTypes(rows', Files, spent'.ids) /\ WriterTypes("sweep", t, Files, spent'.ids)
    BY <1>1, <1>2, <1>3, <1>4
  <2> QED BY <1>1, <1>2, <1>4, <1>5, <2>1, TypesStep
<1>7. Covered' /\ Written'
  BY <1>1, <1>5, <1>6, HeldStill DEF CatalogInv
<1>8. Alone'
  BY <1>1, <1>5, <1>6, AloneStart DEF CatalogInv
<1>9. Buffered'
  BY <1>1, <1>5, <1>6, BufferedStill DEF CatalogInv, Writer
<1> QED BY <1>6, <1>7, <1>8, <1>9 DEF CatalogInv

\* A writer's step that also gives out an id or changes rows.
LEMMA WriterStep ==
    ASSUME CatalogInv, NEW w \in Writer, NEW t, at' = [at EXCEPT ![w] = t], at[w] # Idle,
           UNCHANGED <<disk, dirOf, buffer, raced>>, w = "flush" => t # Idle,
           spent' = [faults |-> spent'.faults, commands |-> spent'.commands, ids |-> spent'.ids],
           spent'.ids \in Nat, spent.ids <= spent'.ids,
           RowsTypes(rows', Files, spent'.ids), WriterTypes(w, t, Files, spent'.ids),
           w = "compact" /\ t.pc \in Merging =>
              at[w].pc \in Merging /\ t.file = at[w].file /\ t.old = at[w].old
    PROVE  CatalogInv'
<1>1. CatalogTypes' /\ at'[w] = t /\ \A v \in Writer \ {w} : at'[v] = at[v]
  BY TypesStep DEF CatalogInv
<1>2. Covered' /\ Written'
  <2>1. CASE w = "compact"
    <3>1. at'["compact"] = t
      BY <1>1, <2>1
    <3>2. Covered'
      BY <2>1, <3>1 DEF CatalogInv, Covered, Superseded
    <3> QED BY <3>2 DEF CatalogInv, Written
  <2>2. CASE w # "compact"
    BY <1>1, <2>2, HeldStill DEF CatalogInv, Writer
  <2> QED BY <2>1, <2>2
<1>3. Alone'
  BY <1>1, AloneStill DEF CatalogInv
<1>4. Buffered'
  BY <1>1, BufferedStill DEF CatalogInv, Writer
<1> QED BY <1>1, <1>2, <1>3, <1>4 DEF CatalogInv

\* A row more, under an id never given out before.
LEMMA RowMore ==
    ASSUME CatalogInv, NEW f \in Files, NEW absolute, NEW n \in Nat,
           rows' = rows \cup {NewRow(f, absolute, n)}, spent' = Grown
    PROVE  /\ RowsTypes(rows', Files, spent'.ids) /\ spent'.ids = spent.ids + 1 /\ spent'.ids \in Nat
           /\ spent' = [faults |-> spent'.faults, commands |-> spent'.commands, ids |-> spent'.ids]
<1> DEFINE r == NewRow(f, absolute, n)
<1>1. /\ spent.ids \in Nat /\ RowsTypes(rows, Files, spent.ids)
      /\ spent = [faults |-> spent.faults, commands |-> spent.commands, ids |-> spent.ids]
  BY DEF CatalogInv, CatalogTypes
<1>2. /\ spent'.ids = spent.ids + 1
      /\ spent' = [faults |-> spent'.faults, commands |-> spent'.commands, ids |-> spent'.ids]
  BY <1>1 DEF Grown
<1>3. RowTypes(r, Files, spent.ids + 1) /\ r.id = spent.ids + 1
  BY <1>1 DEF RowTypes, NewRow, RowFields
<1>4. \A q \in rows : q.id \in 1..spent.ids /\ RowTypes(q, Files, spent.ids + 1)
  <2>1. RowsTypes(rows, Files, spent.ids + 1)
    <3>1. spent.ids + 1 \in Nat /\ spent.ids <= spent.ids + 1 /\ Files \subseteq Files
      BY <1>1
    <3> QED BY <1>1, <3>1, TypesGrow
  <2> QED BY <1>1, <2>1 DEF RowsTypes, RowTypes
<1> HIDE DEF r
<1>5. IsFiniteSet(rows \cup {r})
  BY <1>1, FS_AddElement DEF RowsTypes
<1>6. \A p, q \in rows \cup {r} : p.id = q.id => p = q
  BY <1>1, <1>3, <1>4 DEF RowsTypes
<1>7. RowsTypes(rows \cup {r}, Files, spent.ids + 1)
  BY <1>3, <1>4, <1>5, <1>6 DEF RowsTypes
<1> QED BY <1>1, <1>2, <1>7 DEF r

\* Rows with more to say of themselves are the same rows.
Told(R, i, field, value) == {IF r.id = i THEN [r EXCEPT ![field] = value] ELSE r : r \in R}

LEMMA RowsDescribed ==
    ASSUME NEW R, NEW F, NEW n, RowsTypes(R, F, n), NEW i, NEW field \in {"day", "span"}, NEW value
    PROVE  RowsTypes(Told(R, i, field, value), F, n)
<1> DEFINE g == [r \in R |-> IF r.id = i THEN [r EXCEPT ![field] = value] ELSE r]
           S == {g[r] : r \in R}
<1>1. S = Told(R, i, field, value)
  BY DEF Told
<1>2. \A r \in R : DOMAIN g[r] = DOMAIN r /\ g[r].id = r.id /\ g[r].file = r.file /\ g[r].n = r.n
  <2> SUFFICES ASSUME NEW r \in R
               PROVE  DOMAIN g[r] = DOMAIN r /\ g[r].id = r.id /\ g[r].file = r.file /\ g[r].n = r.n
    OBVIOUS
  <2>1. DOMAIN r = RowFields
    BY DEF RowsTypes, RowTypes
  <2> DEFINE m == [r EXCEPT ![field] = value]
  <2>2. DOMAIN m = DOMAIN r /\ m.id = r.id /\ m.file = r.file /\ m.n = r.n
    BY <2>1 DEF RowFields
  <2> QED BY <2>2
<1>3. IsFiniteSet(S)
  <2>1. IsFiniteSet(R)
    BY DEF RowsTypes
  <2> HIDE DEF g
  <2>2. [r \in R |-> g[r]] \in Surjection(R, S)
    BY DEF Surjection
  <2> HIDE DEF S
  <2> QED BY <2>1, <2>2, FS_Surjection
<1> HIDE DEF g
<1>4. \A s \in S : RowTypes(s, F, n)
  BY <1>2 DEF RowsTypes, RowTypes
<1>5. \A p, q \in S : p.id = q.id => p = q
  BY <1>2 DEF RowsTypes
<1> HIDE DEF S
<1> QED BY <1>1, <1>3, <1>4, <1>5 DEF RowsTypes

\* What a writer is at keeps its types as it moves on within its own steps.
LEMMA DescribesOn ==
    ASSUME CatalogInv, NEW w \in Writer, at[w] # Idle, NEW from, NEW to, at[w].pc = from,
           \/ from = "partition" /\ to = "stats"
           \/ from = "stats" /\ to = "total" /\ w # "compact"
           \/ from = "stats" /\ to = "sum" /\ w = "compact"
    PROVE  LET m == [at[w] EXCEPT !.pc = to]
           IN /\ WriterTypes(w, m, Files, spent.ids) /\ m.pc = to
              /\ w = "compact" => at[w].pc \in Merging /\ m.file = at[w].file /\ m.old = at[w].old
<1> DEFINE o == at[w]
           m == [o EXCEPT !.pc = to]
<1>1. WriterTypes(w, o, Files, spent.ids) /\ "pc" \in DOMAIN o /\ o # Idle /\ o.pc = from
  BY DEF CatalogInv, CatalogTypes, WriterTypes, ListerTypes, CompactTypes, Dropping, Idle
<1> HIDE DEF o
<1>2. DOMAIN m = DOMAIN o /\ m.pc = to /\ \A x \in DOMAIN o \ {"pc"} : m[x] = o[x]
  BY <1>1, Moved
<1> HIDE DEF m
<1>3. ASSUME w # "compact"
      PROVE  WriterTypes(w, m, Files, spent.ids)
  BY <1>1, <1>2, <1>3 DEF WriterTypes, ListerTypes, Listing, Idle, Dropping
<1>4. ASSUME w = "compact"
      PROVE  WriterTypes(w, m, Files, spent.ids) /\ o.pc \in Merging /\ m.file = o.file /\ m.old = o.old
  <2>1. /\ DOMAIN o = {"pc", "day", "old", "file", "id"} /\ IsFiniteSet(o.old)
        /\ (\A r \in o.old : RowTypes(r, Files, spent.ids)) /\ o.file \in Files /\ o.id \in 1..spent.ids
        /\ o.pc \in Merging
    BY <1>1, <1>4 DEF WriterTypes, CompactTypes, Merging
  <2>2. m.old = o.old /\ m.file = o.file /\ m.id = o.id
    BY <1>2, <2>1
  <2>3. CompactTypes(m, Files, spent.ids)
    BY <1>2, <1>4, <2>1, <2>2 DEF CompactTypes, Merging
  <2>4. m # Dropping
    BY <1>2, <2>1 DEF Dropping, Merging
  <2> QED BY <1>4, <2>1, <2>2, <2>3, <2>4 DEF WriterTypes
<1> QED BY <1>2, <1>3, <1>4 DEF m, o

LEMMA DescribeStep ==
    ASSUME CatalogInv, NEW w \in Writer, NEW from, NEW to, NEW field \in {"day", "span"}, NEW value,
           Describe(w, from, to, field, value), at[w] # Idle,
           \/ from = "partition" /\ to = "stats"
           \/ from = "stats" /\ to = "total" /\ w # "compact"
           \/ from = "stats" /\ to = "sum" /\ w = "compact"
    PROVE  CatalogInv'
<1> DEFINE m == [at[w] EXCEPT !.pc = to]
<1>1. at[w].pc = from /\ UNCHANGED <<disk, dirOf, buffer, raced, spent>>
  BY DEF Describe
<1>2. /\ WriterTypes(w, m, Files, spent.ids) /\ m.pc = to
      /\ w = "compact" => at[w].pc \in Merging /\ m.file = at[w].file /\ m.old = at[w].old
  BY <1>1, DescribesOn
<1>3. /\ spent' = [faults |-> spent'.faults, commands |-> spent'.commands, ids |-> spent'.ids]
      /\ spent'.ids \in Nat /\ spent.ids <= spent'.ids /\ spent'.ids = spent.ids
      /\ RowsTypes(rows, Files, spent.ids)
  BY <1>1 DEF CatalogInv, CatalogTypes
<1>4. CASE \E r \in rows : r.id = at[w].id
  <2>1. /\ rows' = {IF r.id = at[w].id THEN [r EXCEPT ![field] = value] ELSE r : r \in rows}
        /\ at' = [at EXCEPT ![w] = m]
    BY <1>4 DEF Describe, MovesOn
  <2>2. RowsTypes(rows', Files, spent.ids)
    <3>1. RowsTypes(Told(rows, at[w].id, field, value), Files, spent.ids)
      BY <1>3, RowsDescribed
    <3>2. rows' = Told(rows, at[w].id, field, value)
      BY <2>1 DEF Told
    <3> QED BY <3>1, <3>2
  <2>3. RowsTypes(rows', Files, spent'.ids) /\ WriterTypes(w, m, Files, spent'.ids)
    BY <1>2, <1>3, <2>2
  <2>4. m # Idle
    <3> HIDE DEF m
    <3> QED BY <1>2 DEF Idle
  <2> HIDE DEF m
  <2> QED BY <1>1, <1>2, <1>3, <2>1, <2>3, <2>4, WriterStep
<1>5. CASE ~ \E r \in rows : r.id = at[w].id
  <2>1. rows' = rows /\ at' = [at EXCEPT ![w] = AfterError(w)]
    BY <1>5 DEF Describe, GivesUp
  <2>2. /\ WriterTypes(w, AfterError(w), Files, spent'.ids) /\ AfterError(w).pc \notin Merging
        /\ w = "flush" => AfterError(w) # Idle
    BY ErrorTypes DEF Merging
  <2> QED BY <1>1, <1>3, <2>1, <2>2, WriterStep
<1> QED BY <1>4, <1>5

LEMMA RegAddStep ==
    ASSUME CatalogInv, NEW w \in {"flush", "sweep"}, RegAdd(w), at[w] # Idle
    PROVE  CatalogInv'
<1> DEFINE o == at[w]
           t == Taken(o, "id", spent.ids + 1, "partition")
<1>1. o.pc = "add" /\ UNCHANGED <<disk, dirOf, buffer, raced>> /\ w # "compact" /\ w \in Writer
  BY DEF RegAdd, Writer
<1>2. WriterTypes(w, o, Files, spent.ids) /\ "pc" \in DOMAIN o /\ spent.ids \in Nat
  BY <1>1, ListerAt DEF Dropping
<1>3. CASE o.file \in DOMAIN disk
  <2>1. /\ rows' = rows \cup {NewRow(o.file, FALSE, Size(disk[o.file]))} /\ spent' = Grown
        /\ at' = [at EXCEPT ![w] = t]
    BY <1>3 DEF RegAdd, MovesOnWith, Taken
  <2>2. o.file \in Files /\ Size(disk[o.file]) \in Nat
    BY <1>3, SizeSum DEF CatalogInv, CatalogTypes
  <2>3. /\ RowsTypes(rows', Files, spent'.ids) /\ spent'.ids = spent.ids + 1 /\ spent'.ids \in Nat
        /\ spent' = [faults |-> spent'.faults, commands |-> spent'.commands, ids |-> spent'.ids]
    BY <2>1, <2>2, RowMore
  <2> HIDE DEF o
  <2>4. t.pc = "partition" /\ t.id = spent.ids + 1
    BY <1>2, TakenNow
  <2>5. DOMAIN t = DOMAIN o \cup {"id"}
    BY <1>2, TakenDomain
  <2>6. \A x \in DOMAIN o \ {"pc", "id"} : t[x] = o[x]
    BY <1>2, TakenRest
  <2> HIDE DEF t
  <2>7. ListerTypes(o, Files, spent.ids)
    BY <1>1, <1>2 DEF WriterTypes
  <2>8. /\ DOMAIN o = {"pc", "file", "todo", "before"} /\ o.todo \subseteq Files
    BY <1>1, <2>7 DEF ListerTypes, Listing, Idle, Dropping
  <2>9. t.file = o.file /\ t.todo = o.todo /\ t.id \in 1..spent'.ids /\ DOMAIN t = {"pc", "file", "todo", "before", "id"}
    BY <1>2, <2>3, <2>4, <2>5, <2>6, <2>8
  <2>10. WriterTypes(w, t, Files, spent'.ids)
    BY <1>1, <2>2, <2>4, <2>8, <2>9 DEF WriterTypes, ListerTypes, Listing, Dropping
  <2>11. spent.ids <= spent'.ids
    BY <1>2, <2>3
  <2>12. t # Idle
    BY <2>4 DEF Idle
  <2> QED BY <1>1, <2>1, <2>3, <2>10, <2>11, <2>12, WriterStep
<1>4. CASE o.file \notin DOMAIN disk
  <2>1. at' = [at EXCEPT ![w] = AfterError(w)] /\ UNCHANGED <<rows, spent>>
    BY <1>4 DEF RegAdd, GivesUp
  <2> QED BY <1>1, <2>1, ErrorTypes, ListerStep, SameSpent
<1> QED BY <1>3, <1>4

\* A flush ends, with its batch out of the buffer or not.
LEMMA UndroppedTypes ==
    ASSUME CatalogInv
    PROVE  /\ Undropped \in Buffers /\ Undropped.out = buffer.out /\ Undropped.upto = buffer.out
           /\ Undropped.again = buffer.again \cup (buffer.out + 1..buffer.upto)
           /\ [buffer EXCEPT !.out = buffer.upto] \in Buffers
<1>1. buffer \in Buffers /\ Events \in Nat
  BY CatalogAssumption DEF CatalogInv, CatalogTypes
<1>2. buffer.out + 1..buffer.upto \subseteq Event
  BY <1>1 DEF Buffers, Event
<1> QED BY <1>1, <1>2 DEF Undropped, Buffers

LEMMA FlushEnds ==
    ASSUME CatalogInv, at["flush"] # Idle, at' = [at EXCEPT !["flush"] = Idle],
           UNCHANGED <<disk, dirOf, rows, raced>>,
           spent' = [faults |-> spent'.faults, commands |-> spent'.commands, ids |-> spent.ids],
           buffer' \in Buffers, buffer'.upto <= buffer.upto, buffer'.upto = buffer'.out
    PROVE  CatalogInv'
<1>1. "flush" \in Writer /\ "compact" \in Writer \ {"flush"} /\ spent'.ids = spent.ids
  BY DEF Writer
<1>2. CatalogTypes' /\ at'["flush"] = Idle /\ \A v \in Writer \ {"flush"} : at'[v] = at[v]
  <2>1. spent.ids \in Nat /\ RowsTypes(rows', Files, spent'.ids) /\ CatalogTypes
    BY <1>1 DEF CatalogInv, CatalogTypes
  <2>2. spent' = [faults |-> spent'.faults, commands |-> spent'.commands, ids |-> spent'.ids]
    BY <1>1
  <2>3. spent'.ids \in Nat /\ spent.ids <= spent'.ids
    BY <1>1, <2>1
  <2> QED BY <1>1, <2>1, <2>2, <2>3, IdleTypes, TypesStep
<1>3. Covered'
  BY <1>1, <1>2 DEF CatalogInv, Covered, Superseded
<1>4. Written'
  <2>1. buffer'.upto \in Nat /\ buffer.upto \in Nat
    BY CatalogAssumption DEF CatalogInv, CatalogTypes, Buffers
  <2> QED BY <2>1 DEF CatalogInv, Written
<1>5. Alone'
  BY <1>1, <1>2, AloneStill DEF CatalogInv
<1>6. Buffered'
  <2>1. buffer'.out \in Nat
    BY CatalogAssumption DEF Buffers
  <2> QED BY <2>1 DEF Buffered
<1> QED BY <1>2, <1>3, <1>4, <1>5, <1>6 DEF CatalogInv

LEMMA FlushDropStep ==
    ASSUME CatalogInv, FlushDrop
    PROVE  CatalogInv'
<1>1. /\ at["flush"] # Idle /\ at' = [at EXCEPT !["flush"] = Idle]
      /\ UNCHANGED <<disk, dirOf, rows, raced, spent>> /\ buffer' = [buffer EXCEPT !.out = buffer.upto]
  BY DEF FlushDrop, Idle, Dropping, data
<1>2. /\ buffer' \in Buffers /\ buffer'.upto = buffer.upto /\ buffer'.out = buffer.upto
      /\ buffer.upto \in Nat
  BY <1>1, UndroppedTypes, CatalogAssumption DEF CatalogInv, CatalogTypes, Buffers
<1>3. buffer'.upto <= buffer.upto
  BY <1>2
<1> QED BY <1>1, <1>2, <1>3, SameSpent, FlushEnds

\* It ends with its batch still there.
LEMMA FlushStopStep ==
    ASSUME CatalogInv, at["flush"] # Idle, at' = [at EXCEPT !["flush"] = Idle], buffer' = Undropped,
           spent' = [spent EXCEPT !.faults = @ + 1], UNCHANGED <<data, raced>>
    PROVE  CatalogInv'
<1>1. spent' = [faults |-> spent'.faults, commands |-> spent'.commands, ids |-> spent.ids]
  BY DEF CatalogInv, CatalogTypes
<1>2. buffer.out \in Nat /\ buffer.upto \in Nat /\ buffer.out <= buffer.upto
  BY CatalogAssumption DEF CatalogInv, CatalogTypes, Buffers, Buffered
<1>3. buffer' \in Buffers /\ buffer'.upto <= buffer.upto /\ buffer'.upto = buffer'.out
  BY <1>2, UndroppedTypes
<1> QED BY <1>1, <1>3, FlushEnds DEF data

LEMMA FailStep ==
    ASSUME CatalogInv, NEW w \in Writer, Fail(w)
    PROVE  CatalogInv'
<1>1. /\ at[w] # Idle /\ UNCHANGED <<disk, dirOf, rows, raced>>
      /\ spent' = [spent EXCEPT !.faults = @ + 1]
  BY DEF Fail, data
<1>2. /\ spent = [faults |-> spent.faults, commands |-> spent.commands, ids |-> spent.ids]
      /\ spent.ids \in Nat /\ RowsTypes(rows, Files, spent.ids)
  BY DEF CatalogInv, CatalogTypes
<1>3. /\ spent' = [faults |-> spent'.faults, commands |-> spent'.commands, ids |-> spent'.ids]
      /\ spent'.ids = spent.ids
  BY <1>1, <1>2
<1>4. CASE at[w] # Dropping
  <2>1. at' = [at EXCEPT ![w] = AfterError(w)] /\ buffer' = buffer
    BY <1>4 DEF Fail
  <2>2. /\ WriterTypes(w, AfterError(w), Files, spent'.ids) /\ AfterError(w).pc \notin Merging
        /\ w = "flush" => AfterError(w) # Idle
    BY ErrorTypes DEF Merging
  <2>3. spent'.ids \in Nat /\ spent.ids <= spent'.ids /\ RowsTypes(rows', Files, spent'.ids)
    BY <1>1, <1>2, <1>3
  <2> QED BY <1>1, <1>3, <2>1, <2>2, <2>3, WriterStep
<1>5. CASE at[w] = Dropping
  <2>1. w = "flush"
    BY <1>5 DEF CatalogInv, CatalogTypes, WriterTypes
  <2> QED BY <1>1, <1>5, <2>1, FlushStopStep DEF Fail
<1> QED BY <1>4, <1>5

LEMMA DieStep == CatalogInv /\ Die => CatalogInv'
BY FlushStopStep DEF Die, Stops

\* A new file beside the others.
LEMMA NewFileStep ==
    ASSUME CatalogInv, NEW f, f = NewFile, NEW c \in [Event -> Nat], NEW d, NEW w \in Writer, NEW t,
           disk' = With(disk, f, c), dirOf' = With(dirOf, f, d), at' = [at EXCEPT ![w] = t],
           UNCHANGED <<rows, spent>>, buffer' \in Buffers,
           WriterTypes(w, t, Files \cup {f}, spent.ids)
    PROVE  CatalogTypes'
<1>1. /\ f \notin Files /\ f \notin DOMAIN disk /\ \E n \in Nat : Files \cup {f} = 1..n
      /\ DOMAIN disk \subseteq Files /\ \A g \in DOMAIN disk : disk[g] \in [Event -> Nat]
      /\ spent.ids \in Nat /\ RowsTypes(rows, Files, spent.ids)
  BY NewFileIsNew DEF CatalogInv, CatalogTypes
<1>2. at'[w] = t /\ (\A v \in Writer \ {w} : at'[v] = at[v]) /\ at' = [v \in Writer |-> at'[v]]
  BY DEF CatalogInv, CatalogTypes
<1>3. Files' = Files \cup {f}
  BY DEF Files, With
<1>4. /\ DOMAIN disk' = DOMAIN disk \cup {f} /\ disk'[f] = c
      /\ \A g \in DOMAIN disk : disk'[g] = disk[g]
  BY <1>1 DEF With
<1>5. RowsTypes(rows', Files', spent'.ids)
  <2>0. Files \subseteq Files \cup {f} /\ spent.ids <= spent.ids
    BY <1>1
  <2>1. RowsTypes(rows, Files \cup {f}, spent.ids)
    BY <1>1, <2>0, TypesGrow
  <2> QED BY <1>3, <2>1
<1>6. \A v \in Writer : WriterTypes(v, at'[v], Files', spent'.ids)
  <2>1. \A v \in Writer : WriterTypes(v, at[v], Files \cup {f}, spent.ids)
    <3>1. \A v \in Writer : WriterTypes(v, at[v], Files, spent.ids)
      BY DEF CatalogInv, CatalogTypes
    <3>0. Files \subseteq Files \cup {f} /\ spent.ids <= spent.ids /\ spent.ids \in Nat
      BY <1>1
    <3>2. \A v, u : WriterTypes(v, u, Files, spent.ids) => WriterTypes(v, u, Files \cup {f}, spent.ids)
      BY <3>0, TypesGrow
    <3> QED BY <3>1, <3>2
  <2>2. \A v \in Writer : WriterTypes(v, at'[v], Files \cup {f}, spent.ids)
    BY <1>2, <2>1
  <2> QED BY <1>3, <2>2
<1>7. /\ spent' = [faults |-> spent'.faults, commands |-> spent'.commands, ids |-> spent'.ids]
      /\ spent'.ids \in Nat
  BY DEF CatalogInv, CatalogTypes
<1>8. (\E n \in Nat : Files' = 1..n) /\ DOMAIN disk' \subseteq Files'
  BY <1>1, <1>3, <1>4
<1>9. \A g \in DOMAIN disk' : disk'[g] \in [Event -> Nat]
  BY <1>1, <1>4
<1>10. CatalogTypes'
  BY <1>2, <1>5, <1>6, <1>7, <1>8, <1>9 DEF CatalogTypes
<1> QED BY <1>10

LEMMA SupersededFiles == CatalogTypes => Superseded \subseteq Files
<1> SUFFICES ASSUME CatalogTypes, at["compact"].pc \in Merging PROVE Superseded \subseteq Files
  BY DEF Superseded
<1>1. CompactTypes(at["compact"], Files, spent.ids)
  BY DEF CatalogTypes, WriterTypes, Writer
<1> QED BY <1>1 DEF Superseded, CompactTypes, RowTypes, Idle, Merging

LEMMA FlushWriteStep ==
    ASSUME CatalogInv, NEW upto \in buffer.out + 1..Events, FlushWrite(upto)
    PROVE  CatalogInv'
<1>1. PICK f : f = NewFile
  OBVIOUS
<1>2. PICK c : c = [e \in Event |-> IF e \in buffer.out + 1..upto THEN 1 ELSE 0]
  OBVIOUS
<1>3. PICK d : d = DayOf[buffer.out + 1]
  OBVIOUS
<1>4. PICK t : t = [pc |-> "table", file |-> f, todo |-> {}]
  OBVIOUS
<1>5. /\ disk' = With(disk, f, c) /\ dirOf' = With(dirOf, f, d) /\ at' = [at EXCEPT !["flush"] = t]
      /\ buffer' = [buffer EXCEPT !.upto = upto] /\ at["flush"] = Idle /\ raced' = (raced \/ Others("flush")) /\ UNCHANGED <<rows, spent>>
  BY <1>1, <1>2, <1>3, <1>4 DEF FlushWrite
<1>6. /\ buffer \in Buffers /\ buffer.out \in 0..Events /\ Events \in Nat /\ c \in [Event -> Nat]
      /\ buffer' \in Buffers /\ buffer'.upto = upto /\ buffer'.out = buffer.out /\ buffer.upto = buffer.out
  <2>1. buffer \in Buffers /\ buffer.out \in 0..Events /\ Events \in Nat
    BY CatalogAssumption DEF CatalogInv, CatalogTypes, Buffers
  <2>2. c \in [Event -> Nat]
    BY <1>2
  <2>3. buffer' \in Buffers /\ buffer'.upto = upto /\ buffer'.out = buffer.out
    BY <1>5, <2>1 DEF Buffers
  <2>4. buffer.upto = buffer.out
    BY <1>5 DEF CatalogInv, Buffered
  <2> QED BY <2>1, <2>2, <2>3, <2>4
<1>7. \A e \in buffer.out + 1..upto : e \in Event /\ c[e] = 1
  BY <1>2, <1>6 DEF Event
<1>8. WriterTypes("flush", t, Files \cup {f}, spent.ids)
  BY <1>4 DEF WriterTypes, ListerTypes, Listing, Dropping
<1>9. "flush" \in Writer /\ "compact" \in Writer \ {"flush"}
  BY DEF Writer
<1>10. /\ CatalogTypes' /\ f \notin Files /\ \A v \in Writer \ {"flush"} : at'[v] = at[v]
       /\ DOMAIN disk' = DOMAIN disk \cup {f} /\ disk'[f] = c
       /\ \A g \in DOMAIN disk : disk'[g] = disk[g]
  <2>1. CatalogTypes'
    BY <1>1, <1>5, <1>6, <1>8, <1>9, NewFileStep
  <2>2. f \notin Files /\ f \notin DOMAIN disk
    BY <1>1, NewFileIsNew DEF CatalogInv
  <2>3. /\ DOMAIN disk' = DOMAIN disk \cup {f} /\ disk'[f] = c
        /\ \A g \in DOMAIN disk : disk'[g] = disk[g]
    BY <1>5, <2>2 DEF With
  <2>4. \A v \in Writer \ {"flush"} : at'[v] = at[v]
    BY <1>5 DEF CatalogInv, CatalogTypes
  <2> QED BY <2>1, <2>2, <2>3, <2>4
<1>11. Covered'
  BY <1>9, <1>10, SupersededFiles DEF CatalogInv, Covered, Superseded
<1>12. Written'
  BY <1>5, <1>6, <1>7, <1>10 DEF CatalogInv, Written
<1>13. Alone'
  BY <1>5, <1>9, <1>10, AloneStart DEF CatalogInv
<1>14. Buffered'
  <2>1. at'["flush"] = t /\ t # Idle
    BY <1>4, <1>5, <1>9 DEF CatalogInv, CatalogTypes, Idle
  <2> QED BY <1>6, <2>1 DEF Buffered
<1> QED BY <1>10, <1>11, <1>12, <1>13, <1>14 DEF CatalogInv

LEMMA CompactStartStep ==
    ASSUME CatalogInv, NEW day, CompactStart(day)
    PROVE  CatalogInv'
<1> DEFINE old == {r \in rows : r.day = day}
           t == [pc |-> "merge", day |-> day, old |-> old]
<1>1. /\ at' = [at EXCEPT !["compact"] = t] /\ UNCHANGED <<disk, dirOf, rows, buffer>>
      /\ raced' = (raced \/ Others("compact"))
      /\ spent' = [spent EXCEPT !.commands = @ + 1]
  BY DEF CompactStart, data
<1>2. /\ spent.ids \in Nat /\ CatalogTypes /\ RowsTypes(rows, Files, spent.ids)
      /\ spent = [faults |-> spent.faults, commands |-> spent.commands, ids |-> spent.ids]
  BY DEF CatalogInv, CatalogTypes
<1>3. IsFiniteSet(old) /\ \A o \in old : RowTypes(o, Files, spent.ids)
  <2>1. old \in SUBSET rows /\ IsFiniteSet(rows)
    BY <1>2 DEF RowsTypes
  <2> HIDE DEF old
  <2> QED BY <1>2, <2>1, FS_Subset DEF RowsTypes
<1>4. WriterTypes("compact", t, Files, spent.ids)
  <2> HIDE DEF old
  <2> QED BY <1>3 DEF WriterTypes, CompactTypes, Merging, Dropping, Idle
<1>5. spent' = [faults |-> spent'.faults, commands |-> spent'.commands, ids |-> spent'.ids] /\ spent'.ids = spent.ids
  BY <1>1, <1>2
<1>6. "compact" \in Writer /\ t.pc = "merge"
  BY DEF Writer
<1> HIDE DEF t
<1>7. CatalogTypes' /\ at'["compact"] = t /\ \A v \in Writer \ {"compact"} : at'[v] = at[v]
  <2>1. /\ spent'.ids \in Nat /\ spent.ids <= spent'.ids
        /\ RowsTypes(rows', Files, spent'.ids) /\ WriterTypes("compact", t, Files, spent'.ids)
    BY <1>1, <1>2, <1>4, <1>5
  <2> QED BY <1>1, <1>2, <1>5, <1>6, <2>1, TypesStep
<1>8. Covered' /\ Written' /\ Buffered'
  BY <1>1, <1>6, <1>7 DEF CatalogInv, Covered, Written, Buffered, Merging, Writer
<1>9. Alone'
  BY <1>1, <1>6, <1>7, AloneStart DEF CatalogInv
<1> QED BY <1>7, <1>8, <1>9 DEF CatalogInv

\* What a compaction holds on its way.
LEMMA CompactAt ==
    ASSUME CatalogInv, at["compact"] # Idle
    PROVE  LET o == at["compact"]
           IN /\ CompactTypes(o, Files, spent.ids) /\ "pc" \in DOMAIN o
              /\ IsFiniteSet(o.old) /\ \A r \in o.old : RowTypes(r, Files, spent.ids)
BY DEF CatalogInv, CatalogTypes, WriterTypes, CompactTypes, Writer

LEMMA MergedHolds ==
    ASSUME NEW old, IsFiniteSet(old), \A r \in old : r.file \in DOMAIN disk,
           \A g \in DOMAIN disk : disk[g] \in [Event -> Nat]
    PROVE  /\ Merged(old) \in [Event -> Nat]
           /\ \A e \in Event, r \in old : disk[r.file][e] > 0 => Merged(old)[e] > 0
<1> SUFFICES ASSUME NEW e \in Event
             PROVE  Copies(e, old) \in Nat /\ \A r \in old : disk[r.file][e] > 0 => Copies(e, old) > 0
  BY DEF Merged
<1> DEFINE F == [r \in old |-> disk[r.file][e]]
<1>1. \A r \in old : disk[r.file][e] \in Nat
  OBVIOUS
<1>2. Copies(e, old) = SumOf(F, old)
  BY <1>1, CopiesSum
<1>3. \A r \in old : F[r] \in Nat /\ F[r] = disk[r.file][e]
  BY <1>1
<1> HIDE DEF F
<1>4. SumOf(F, old) \in Nat
  BY <1>3, SumOfSteps
<1>5. \A r \in old : F[r] > 0 => SumOf(F, old) > 0
  BY <1>3, SumOfSome
<1> QED BY <1>2, <1>3, <1>4, <1>5

LEMMA CompactMergeStep ==
    ASSUME CatalogInv, CompactMerge
    PROVE  CatalogInv'
<1>1. PICK o : o = at["compact"]
  OBVIOUS
<1>2. /\ o # Idle /\ o.pc = "merge" /\ UNCHANGED <<rows, spent, buffer, raced>> /\ "compact" \in Writer
  BY <1>1 DEF CompactMerge, Idle, Writer
<1>3. /\ CompactTypes(o, Files, spent.ids) /\ "pc" \in DOMAIN o /\ DOMAIN o = {"pc", "day", "old"}
      /\ IsFiniteSet(o.old) /\ \A r \in o.old : RowTypes(r, Files, spent.ids)
  <2>1. CompactTypes(o, Files, spent.ids)
    BY <1>1, <1>2, CompactAt
  <2> QED BY <1>2, <2>1 DEF CompactTypes, Merging, Idle
<1>4. CASE \A r \in o.old : r.file \in DOMAIN disk
  <2>1. PICK f : f = NewFile
    OBVIOUS
  <2> DEFINE t == Taken(o, "file", f, "delete")
  <2>0. PICK c : c = Merged(o.old)
    OBVIOUS
  <2>2. disk' = With(disk, f, c) /\ dirOf' = With(dirOf, f, o.day) /\ at' = [at EXCEPT !["compact"] = t]
    BY <1>1, <1>4, <2>0, <2>1 DEF CompactMerge, MovesOnWith, Taken
  <2>3. c \in [Event -> Nat] /\ \A e \in Event, r \in o.old : disk[r.file][e] > 0 => c[e] > 0
    BY <1>3, <1>4, <2>0, MergedHolds DEF CatalogInv, CatalogTypes
  <2>4. t.pc = "delete" /\ t.file = f
    BY <1>3, TakenNow
  <2>5. DOMAIN t = DOMAIN o \cup {"file"}
    BY <1>3, TakenDomain
  <2>6. t.old = o.old
    BY <1>3, TakenRest
  <2> HIDE DEF t
  <2>7. WriterTypes("compact", t, Files \cup {f}, spent.ids)
    <3>1. spent.ids \in Nat /\ spent.ids <= spent.ids
      BY DEF CatalogInv, CatalogTypes
    <3>2. \A r \in t.old : RowTypes(r, Files \cup {f}, spent.ids)
      BY <1>3, <2>6, <3>1, TypesGrow
    <3> QED BY <1>3, <2>4, <2>5, <2>6, <3>2 DEF WriterTypes, CompactTypes, Merging, Dropping, Idle
  <2>8. buffer' \in Buffers
    BY <1>2 DEF CatalogInv, CatalogTypes
  <2>9. /\ CatalogTypes' /\ f \notin Files /\ at'["compact"] = t
        /\ \A v \in Writer \ {"compact"} : at'[v] = at[v]
        /\ DOMAIN disk' = DOMAIN disk \cup {f} /\ disk'[f] = c
        /\ \A g \in DOMAIN disk : disk'[g] = disk[g]
    <3>1. CatalogTypes'
      BY <1>2, <2>1, <2>2, <2>3, <2>7, <2>8, NewFileStep
    <3>2. f \notin Files /\ f \notin DOMAIN disk
      BY <2>1, NewFileIsNew DEF CatalogInv
    <3>3. /\ DOMAIN disk' = DOMAIN disk \cup {f} /\ disk'[f] = c
          /\ \A g \in DOMAIN disk : disk'[g] = disk[g]
      BY <2>2, <3>2 DEF With
    <3>4. at'["compact"] = t /\ \A v \in Writer \ {"compact"} : at'[v] = at[v]
      BY <1>2, <2>2 DEF CatalogInv, CatalogTypes
    <3> QED BY <3>1, <3>2, <3>3, <3>4
  <2>10. Superseded' = {r.file : r \in o.old}
    BY <2>4, <2>6, <2>9 DEF Superseded, Merging
  <2>11. f \notin {r.file : r \in o.old}
    BY <1>3, <2>9 DEF RowTypes
  <2>12. Covered'
    BY <1>4, <2>3, <2>4, <2>9, <2>10, <2>11 DEF Covered
  <2>13. Written' /\ Buffered'
    <3>1. buffer.upto \in 0..Events /\ Events \in Nat
      BY CatalogAssumption DEF CatalogInv, CatalogTypes, Buffers
    <3>2. Written'
      BY <1>2, <2>9, <3>1 DEF CatalogInv, Written
    <3>3. Buffered'
      BY <1>2, <2>9, BufferedStill DEF CatalogInv, Writer
    <3> QED BY <3>2, <3>3
  <2>14. Alone'
    <3>1. \A v \in Writer : at'[v] # Idle => at[v] # Idle
      BY <1>1, <1>2, <2>9
    <3> QED BY <1>2, <3>1, AloneStill DEF CatalogInv
  <2> QED BY <2>9, <2>12, <2>13, <2>14 DEF CatalogInv
<1>5. CASE ~ \A r \in o.old : r.file \in DOMAIN disk
  <2>1. at' = [at EXCEPT !["compact"] = Idle] /\ UNCHANGED <<disk, dirOf>>
    BY <1>1, <1>5 DEF CompactMerge, Stops
  <2>2. /\ WriterTypes("compact", Idle, Files, spent'.ids) /\ Idle.pc \notin Merging
    BY IdleTypes DEF Idle, Merging, Writer
  <2>3. /\ spent' = [faults |-> spent'.faults, commands |-> spent'.commands, ids |-> spent'.ids]
        /\ spent'.ids \in Nat /\ spent.ids <= spent'.ids /\ RowsTypes(rows', Files, spent'.ids)
    BY <1>2 DEF CatalogInv, CatalogTypes
  <2> QED BY <1>1, <1>2, <2>1, <2>2, <2>3, WriterStep
<1> QED BY <1>4, <1>5

\* A compaction goes on with what it merged.
LEMMA CompactGoesOn ==
    ASSUME CatalogInv, NEW o, o = at["compact"], o.pc \in Merging, o # Idle, NEW t, at' = [at EXCEPT !["compact"] = t],
           UNCHANGED <<disk, dirOf, buffer, raced>>,
           spent' = [faults |-> spent'.faults, commands |-> spent'.commands, ids |-> spent'.ids],
           spent'.ids \in Nat, spent.ids <= spent'.ids, RowsTypes(rows', Files, spent'.ids),
           t.pc \in Merging, t.file = o.file, t.old = o.old,
           DOMAIN t = {"pc", "day", "old", "file"} \cup {x \in {"id"} : t.pc \notin {"delete", "add"}}
                          \cup {x \in {"sum"} : t.pc \in {"total", "unlink"}},
           t.pc \notin {"delete", "add"} => t.id \in 1..spent'.ids
    PROVE  CatalogInv'
<1>1. /\ IsFiniteSet(o.old) /\ (\A r \in o.old : RowTypes(r, Files, spent.ids)) /\ o.file \in Files
  <2>1. CompactTypes(o, Files, spent.ids)
    BY CompactAt
  <2> QED BY <2>1 DEF CompactTypes, Merging
<1>2. \A r \in o.old : RowTypes(r, Files, spent'.ids)
  <2>1. spent.ids \in Nat
    BY DEF CatalogInv, CatalogTypes
  <2> QED BY <1>1, <2>1, TypesGrow
<1>3. CompactTypes(t, Files, spent'.ids)
  BY <1>1, <1>2 DEF CompactTypes, Merging
<1>4. WriterTypes("compact", t, Files, spent'.ids) /\ "compact" \in Writer
  BY <1>3 DEF WriterTypes, Writer, Dropping, Idle
<1> QED BY <1>4, WriterStep

\* What a compaction holds once it has merged.
LEMMA Merges ==
    ASSUME CatalogInv, NEW o, o = at["compact"], o.pc \in Merging, o # Idle
    PROVE  /\ DOMAIN o = {"pc", "day", "old", "file"} \cup {x \in {"id"} : o.pc \notin {"delete", "add"}}
                             \cup {x \in {"sum"} : o.pc \in {"total", "unlink"}}
           /\ o.pc \notin {"delete", "add"} => o.id \in 1..spent.ids
<1>1. CompactTypes(o, Files, spent.ids)
  BY CompactAt
<1> QED BY <1>1 DEF CompactTypes, Merging

LEMMA SpentStill ==
    ASSUME CatalogInv, UNCHANGED spent
    PROVE  /\ spent' = [faults |-> spent'.faults, commands |-> spent'.commands, ids |-> spent'.ids]
           /\ spent'.ids \in Nat /\ spent.ids <= spent'.ids /\ spent'.ids = spent.ids
           /\ RowsTypes(rows, Files, spent.ids)
BY DEF CatalogInv, CatalogTypes

LEMMA CompactDeleteStep ==
    ASSUME CatalogInv, CompactDelete
    PROVE  CatalogInv'
<1>1. PICK o : o = at["compact"]
  OBVIOUS
<1> DEFINE t == [o EXCEPT !.pc = "add"]
<1>2. /\ o.pc = "delete" /\ UNCHANGED <<disk, dirOf, buffer, raced, spent>> /\ at' = [at EXCEPT !["compact"] = t]
      /\ rows' \subseteq rows /\ o # Idle /\ o.pc \in Merging
  BY <1>1 DEF CompactDelete, MovesOn, Idle, Merging
<1>3. DOMAIN o = {"pc", "day", "old", "file"}
  BY <1>1, <1>2, Merges
<1>4. t.pc = "add" /\ t.file = o.file /\ t.old = o.old /\ DOMAIN t = DOMAIN o
  BY <1>3
<1> HIDE DEF t
<1>5. RowsTypes(rows', Files, spent'.ids)
  <2>1. RowsTypes(rows, Files, spent.ids) /\ spent'.ids = spent.ids
    BY <1>2, SpentStill
  <2>2. IsFiniteSet(rows')
    BY <1>2, <2>1, FS_Subset DEF RowsTypes
  <2> QED BY <1>2, <2>1, <2>2 DEF RowsTypes
<1>6. t.pc \in Merging
  BY <1>4 DEF Merging
<1> QED BY <1>1, <1>2, <1>3, <1>4, <1>5, <1>6, SpentStill, CompactGoesOn

LEMMA CompactAddStep ==
    ASSUME CatalogInv, CompactAdd
    PROVE  CatalogInv'
<1>1. PICK o : o = at["compact"]
  OBVIOUS
<1>2. PICK i : i = spent.ids + 1
  OBVIOUS
<1> DEFINE t == Taken(o, "id", i, "partition")
<1>3. /\ o.pc = "add" /\ UNCHANGED <<disk, dirOf, buffer, raced>> /\ at' = [at EXCEPT !["compact"] = t]
      /\ rows' = rows \cup {NewRow(o.file, TRUE, Size(disk[o.file]))} /\ spent' = Grown
      /\ o.pc \in Merging
  BY <1>1, <1>2 DEF CompactAdd, MovesOnWith, Taken, Merging
<1>4. o # Idle
  BY <1>3 DEF Idle
<1>5. DOMAIN o = {"pc", "day", "old", "file"}
  BY <1>1, <1>3, <1>4, Merges
<1>6. t.pc = "partition" /\ t.id = i
  BY <1>5, TakenNow
<1>7. DOMAIN t = DOMAIN o \cup {"id"}
  BY <1>5, TakenDomain
<1>8. t.file = o.file /\ t.old = o.old
  BY <1>5, TakenRest
<1> HIDE DEF t
<1>9. o.file \in Files /\ Size(disk[o.file]) \in Nat
  <2>1. o.file \in DOMAIN disk
    BY <1>1, <1>3 DEF CatalogInv, Covered
  <2> QED BY <2>1, SizeSum DEF CatalogInv, CatalogTypes
<1>10. /\ RowsTypes(rows', Files, spent'.ids) /\ spent'.ids = spent.ids + 1 /\ spent'.ids \in Nat
       /\ spent' = [faults |-> spent'.faults, commands |-> spent'.commands, ids |-> spent'.ids]
  BY <1>3, <1>9, RowMore
<1>11. spent.ids <= spent'.ids /\ t.id \in 1..spent'.ids
  <2>1. spent.ids \in Nat
    BY DEF CatalogInv, CatalogTypes
  <2> QED BY <1>2, <1>6, <1>10, <2>1
<1>12. t.pc \in Merging
  BY <1>6 DEF Merging
<1> QED BY <1>1, <1>3, <1>4, <1>5, <1>6, <1>7, <1>8, <1>10, <1>11, <1>12, CompactGoesOn

LEMMA CompactSumStep ==
    ASSUME CatalogInv, CompactSum
    PROVE  CatalogInv'
<1>1. PICK o : o = at["compact"]
  OBVIOUS
<1>2. PICK n : n = RowCount(rows)
  OBVIOUS
<1> DEFINE t == Taken(o, "sum", n, "total")
<1>3. /\ o.pc = "sum" /\ UNCHANGED <<disk, dirOf, rows, buffer, raced, spent>>
      /\ at' = [at EXCEPT !["compact"] = t] /\ o.pc \in Merging
  BY <1>1, <1>2 DEF CompactSum, MovesOnWith, Taken, Merging, data
<1>4. o # Idle
  BY <1>3 DEF Idle
<1>5. DOMAIN o = {"pc", "day", "old", "file", "id"} /\ o.id \in 1..spent.ids
  BY <1>1, <1>3, <1>4, Merges
<1>6. t.pc = "total"
  BY <1>5, TakenNow
<1>7. DOMAIN t = DOMAIN o \cup {"sum"}
  BY <1>5, TakenDomain
<1>8. t.file = o.file /\ t.old = o.old /\ t.id = o.id
  BY <1>5, TakenRest
<1> HIDE DEF t
<1>9. /\ spent' = [faults |-> spent'.faults, commands |-> spent'.commands, ids |-> spent'.ids]
      /\ spent'.ids \in Nat /\ spent.ids <= spent'.ids
      /\ RowsTypes(rows', Files, spent'.ids) /\ t.id \in 1..spent'.ids
  BY <1>3, <1>5, <1>8, SpentStill
<1>10. t.pc \in Merging
  BY <1>6 DEF Merging
<1> QED BY <1>1, <1>3, <1>4, <1>5, <1>6, <1>7, <1>8, <1>9, <1>10, CompactGoesOn

LEMMA CompactTotalStep ==
    ASSUME CatalogInv, CompactTotal
    PROVE  CatalogInv'
<1>1. PICK o : o = at["compact"]
  OBVIOUS
<1> DEFINE t == [o EXCEPT !.pc = "unlink"]
<1>2. /\ o.pc = "total" /\ UNCHANGED <<disk, dirOf, rows, buffer, raced, spent>>
      /\ at' = [at EXCEPT !["compact"] = t] /\ o # Idle /\ o.pc \in Merging
  BY <1>1 DEF CompactTotal, MovesOn, Idle, Merging
<1>3. DOMAIN o = {"pc", "day", "old", "file", "id", "sum"} /\ o.id \in 1..spent.ids
  BY <1>1, <1>2, Merges
<1>4. t.pc = "unlink" /\ t.file = o.file /\ t.old = o.old /\ t.id = o.id /\ DOMAIN t = DOMAIN o
  BY <1>3
<1> HIDE DEF t
<1>5. /\ spent' = [faults |-> spent'.faults, commands |-> spent'.commands, ids |-> spent'.ids]
      /\ spent'.ids \in Nat /\ spent.ids <= spent'.ids
      /\ RowsTypes(rows', Files, spent'.ids) /\ t.id \in 1..spent'.ids
  BY <1>2, <1>3, <1>4, SpentStill
<1>6. t.pc \in Merging
  BY <1>4 DEF Merging
<1> QED BY <1>1, <1>2, <1>3, <1>4, <1>5, <1>6, CompactGoesOn

\* The old files go last, once the merged one holds all that they hold.
LEMMA CompactUnlinkStep ==
    ASSUME CatalogInv, CompactUnlink
    PROVE  CatalogInv'
<1>1. PICK o : o = at["compact"]
  OBVIOUS
<1>2. /\ o.pc = "unlink" /\ UNCHANGED <<dirOf, rows, total, spent, buffer, raced>> /\ o # Idle /\ o.pc \in Merging
  BY <1>1 DEF CompactUnlink, Idle, Merging
<1>3. CASE Doomed = {}
  <2>1. at' = [at EXCEPT !["compact"] = Idle] /\ UNCHANGED disk
    BY <1>3 DEF CompactUnlink, Stops
  <2>2. WriterTypes("compact", Idle, Files, spent'.ids) /\ Idle.pc \notin Merging /\ "compact" \in Writer
    BY IdleTypes DEF Idle, Merging, Writer
  <2>3. RowsTypes(rows', Files, spent'.ids)
    BY <1>2, SpentStill
  <2> QED BY <1>1, <1>2, <2>1, <2>2, <2>3, SpentStill, WriterStep
<1>4. CASE Doomed # {}
  <2>1. PICK f \in Doomed : disk' = [g \in DOMAIN disk \ {f} |-> disk[g]]
    BY <1>4 DEF CompactUnlink
  <2>2. at' = at
    BY <1>4 DEF CompactUnlink
  <2>3. f \in Superseded /\ f \in DOMAIN disk
    BY <1>1, <1>2 DEF Doomed, Superseded
  <2>4. Superseded' = Superseded
    BY <2>2 DEF Superseded
  <2>5. /\ o.file \in DOMAIN disk \ Superseded
        /\ \A h \in Superseded \cap DOMAIN disk, e \in Event : disk[h][e] > 0 => disk[o.file][e] > 0
    BY <1>1, <1>2 DEF CatalogInv, Covered
  <2>6. DOMAIN disk' = DOMAIN disk \ {f} /\ \A g \in DOMAIN disk \ {f} : disk'[g] = disk[g]
    BY <2>1
  <2>7. CatalogTypes'
    <3>1. Files' = Files
      BY <1>2 DEF Files
    <3> QED BY <1>2, <2>2, <2>6, <3>1 DEF CatalogInv, CatalogTypes
  <2>8. Covered'
    BY <1>1, <2>2, <2>3, <2>4, <2>5, <2>6 DEF Covered
  <2>9. Written'
    <3> SUFFICES ASSUME NEW e \in 1..buffer.upto
                 PROVE  \E g \in DOMAIN disk' : disk'[g][e] > 0
      BY <1>2 DEF Written
    <3>1. e \in Event
      BY CatalogAssumption DEF Event, CatalogInv, CatalogTypes, Buffers
    <3>2. PICK g \in DOMAIN disk : disk[g][e] > 0
      BY DEF CatalogInv, Written
    <3>3. CASE g = f
      BY <2>3, <2>5, <2>6, <3>1, <3>2, <3>3
    <3>4. CASE g # f
      BY <2>6, <3>2, <3>4
    <3> QED BY <3>3, <3>4
  <2>10. Alone'
    BY <1>2, <2>2 DEF CatalogInv, Alone
  <2>11. Buffered'
    BY <1>2, <2>2, BufferedStill DEF CatalogInv
  <2> QED BY <2>7, <2>8, <2>9, <2>10, <2>11 DEF CatalogInv
<1> QED BY <1>3, <1>4

LEMMA RegistersStep ==
    ASSUME CatalogInv, NEW w \in {"flush", "sweep"}, at[w] # Idle, Registers(w)
    PROVE  CatalogInv'
<1>1. w \in Writer /\ w # "compact"
  BY DEF Writer
<1>2. ASSUME RegPartition(w)
      PROVE  CatalogInv'
  BY <1>1, <1>2, DescribeStep DEF RegPartition
<1>3. ASSUME RegStats(w)
      PROVE  CatalogInv'
  BY <1>1, <1>3, DescribeStep DEF RegStats
<1> QED BY <1>2, <1>3, RegTableStep, RegCheckStep, RegAddStep, RegStatsUnreadStep, RegTotalStep DEF Registers

LEMMA CompactsStep ==
    ASSUME CatalogInv, Compacts
    PROVE  CatalogInv'
<1>1. "compact" \in Writer
  BY DEF Writer
<1>2. ASSUME CompactPartition
      PROVE  CatalogInv'
  <2>1. at["compact"] # Idle
    BY <1>2 DEF CompactPartition, Describe, Idle
  <2> QED BY <1>1, <1>2, <2>1, DescribeStep DEF CompactPartition
<1>3. ASSUME CompactStats
      PROVE  CatalogInv'
  <2>1. at["compact"] # Idle
    BY <1>3 DEF CompactStats, Describe, Idle
  <2> QED BY <1>1, <1>3, <2>1, DescribeStep DEF CompactStats
<1> QED BY <1>2, <1>3, CompactStartStep, CompactMergeStep, CompactDeleteStep, CompactAddStep, CompactSumStep,
           CompactTotalStep, CompactUnlinkStep DEF Compacts

LEMMA CatalogNext == CatalogInv /\ [Next]_vars => CatalogInv'
<1> SUFFICES ASSUME CatalogInv, [Next]_vars PROVE CatalogInv'
  OBVIOUS
<1>1. CASE UNCHANGED vars
  BY <1>1 DEF vars, CatalogInv, CatalogTypes, Files, Covered, Superseded, Alone, Written, Buffered
<1>2. CASE Next
  BY <1>2, FlushWriteStep, FlushDropStep, DieStep, SweepStartStep, SweepEndStep, SweepNextStep, RegistersStep, CompactsStep, FailStep DEF Next
<1> QED BY <1>1, <1>2

\* However compactions, sweeps, flushes, failures and dead processes interleave,
\* an event that was flushed is in some file on disk: compact_partition unlinks
\* a file only after the merged one is written, and a register_file or a sweep unlinks none.
THEOREM FlushedStaysOnDisk == Spec => []EventsOnDisk
<1>1. CatalogInv => EventsOnDisk
  BY CatalogAssumption DEF CatalogInv, CatalogTypes, Buffers, Buffered, Written, EventsOnDisk
<1> QED BY CatalogInit, CatalogNext, <1>1, PTL DEF Spec

-----------------------------------------------------------------------------
(***************************************************************************)
(* Exactness: what holds of files, rows and writers as long as the catalog *)
(* is not sullied.                                                         *)
(***************************************************************************)
\* What a compaction is about to replace; the files whose events count; who lists
\* what; who is describing which row.
Old == IF at["compact"].pc \in {"merge"} \cup Merging THEN {o.file : o \in at["compact"].old} ELSE {}
Live == DOMAIN disk \ Superseded
Listed(f) == \E r \in rows : r.file = f
YetToList(t, f) == t.pc \in {"table", "check", "add"} /\ t.file = f
Describing(w, r) == at[w].pc \in {"partition", "stats"} /\ at[w].id = r.id

\* An event that no flush wrote and left has a single copy in the files that count,
\* and none before its flush.
OnceEach ==
    /\ \A f \in DOMAIN disk, e \in Event \ buffer.again :
          disk[f][e] \in {0, 1} /\ (e > buffer.upto => disk[f][e] = 0)
    /\ \A e \in (1..buffer.upto) \ buffer.again :
          \E f \in Live : disk[f][e] = 1 /\ \A g \in Live \ {f} : disk[g][e] = 0

\* No file has two rows, no row is of a file that is gone, and a compaction replaces
\* rows that are there until it deletes them.
ListedOnce ==
    /\ \A r, s \in rows : r.file = s.file => r = s
    /\ \A r \in rows : r.file \in DOMAIN disk
    /\ at["compact"].pc \in {"merge"} \cup Merging =>
         \A o, p \in at["compact"].old : o.file = p.file => o = p
    /\ at["compact"].pc \in {"merge", "delete"} =>
         \A o \in at["compact"].old : \E r \in rows : r.id = o.id /\ r.file = o.file
    /\ at["compact"].pc \in Merging \ {"delete"} => \A r \in rows : r.file \notin Superseded
    /\ at["compact"].pc \in {"delete", "add"} => ~Listed(at["compact"].file)

\* Unless a sweep is due, every file that counts is listed or about to be.
Found ==
    health = "clean" /\ at["sweep"] = Idle =>
       \A f \in Live : \/ Listed(f) \/ YetToList(at["flush"], f)
                       \/ at["compact"].pc \in {"delete", "add"} /\ at["compact"].file = f

\* What the flush has yet to list is listed nowhere and part of no compaction.
FlushUnlisted ==
    \A f : YetToList(at["flush"], f) =>
       /\ f \in DOMAIN disk /\ ~Listed(f) /\ f \notin Old
       /\ at["compact"].pc \in Merging => f # at["compact"].file

\* Short of sullying, a sweep runs alone, and finds every file that is not listed.
SweepAlone ==
    at["sweep"] # Idle =>
       /\ at["flush"] = Idle /\ at["compact"] = Idle /\ \A r \in rows : ~r.absolute
       /\ at["sweep"].todo \subseteq DOMAIN disk
       /\ \A f \in DOMAIN disk : Listed(f) \/ f \in at["sweep"].todo \/ YetToList(at["sweep"], f)
       /\ at["sweep"].pc # "next" => at["sweep"].file \in DOMAIN disk
       /\ at["sweep"].pc = "add" => ~Listed(at["sweep"].file)

\* Every row is described in full, or a writer is at it and has done its part so far.
Described ==
    /\ \A r \in rows :
         \/ r.day = dirOf[r.file] /\ r.span = DaysIn(disk[r.file])
         \/ \E w \in Writer : Describing(w, r)
    /\ \A w \in Writer : \A r \in rows : Describing(w, r) =>
         r.file = at[w].file /\ (at[w].pc = "stats" => r.day = dirOf[r.file])
    /\ \A w \in {"sweep", "compact"} : at[w].pc \in {"partition", "stats"} => \E r \in rows : r.id = at[w].id
    /\ at["compact"].pc \in Merging => dirOf[at["compact"].file] = at["compact"].day

\* Without a race, the total counts the rows, short of what the one writer at work
\* has still to add or to write.
Counted ==
    ~raced =>
      /\ /\ at["compact"] = Idle \/ at["compact"].pc \in {"merge", "unlink"}
         /\ \A w \in {"flush", "sweep"} : at[w].pc \notin {"partition", "stats", "total"}
         => total = RowCount(rows)
      /\ \A w \in {"flush", "sweep"} :
           /\ at[w].pc \in {"check", "add", "partition", "stats", "total"} => at[w].before = total
           /\ at[w].pc \in {"partition", "stats", "total"} =>
                \E r \in rows : r.id = at[w].id /\ RowCount(rows) = total + r.n
      /\ at["compact"].pc = "total" => at["compact"].sum = RowCount(rows)

Exact == OnceEach /\ ListedOnce /\ Found /\ FlushUnlisted /\ SweepAlone /\ Described /\ Counted

LEMMA AtMoves ==
    ASSUME CatalogInv, NEW w \in Writer, NEW t, at' = [at EXCEPT ![w] = t]
    PROVE  at'[w] = t /\ \A v \in Writer \ {w} : at'[v] = at[v]
BY DEF CatalogInv, CatalogTypes

\* A registration changes nothing of the compaction's.
LEMMA CompactStill ==
    ASSUME CatalogInv, NEW w \in {"flush", "sweep"}, NEW t, at' = [at EXCEPT ![w] = t]
    PROVE  /\ w \in Writer /\ at'[w] = t /\ at'["compact"] = at["compact"]
           /\ \A v \in Writer \ {w} : at'[v] = at[v]
           /\ Superseded' = Superseded /\ Old' = Old
<1>1. w \in Writer /\ "compact" \in Writer \ {w}
  BY DEF Writer
<1>2. at'[w] = t /\ \A v \in Writer \ {w} : at'[v] = at[v]
  BY <1>1, AtMoves
<1> QED BY <1>1, <1>2 DEF Superseded, Old

LEMMA OnceStill ==
    ASSUME OnceEach, UNCHANGED <<disk, buffer>>, Superseded' = Superseded
    PROVE  OnceEach'
BY DEF OnceEach, Live

\* A step of a registration that tells no row anything.
LEMMA QuietRows ==
    ASSUME CatalogInv, Exact, NEW w \in {"flush", "sweep"}, NEW t, at' = [at EXCEPT ![w] = t],
           UNCHANGED <<disk, dirOf, rows>>, t.pc \notin {"partition", "stats"},
           \A r \in rows : ~Describing(w, r)
    PROVE  ListedOnce' /\ Described'
<1>1. /\ w \in Writer /\ at'[w] = t /\ at'["compact"] = at["compact"]
      /\ \A v \in Writer \ {w} : at'[v] = at[v]
      /\ Superseded' = Superseded /\ Old' = Old
  BY CompactStill
<1>3. ListedOnce'
  BY <1>1 DEF Exact, ListedOnce, Listed
<1>4. Described'
  <2>1. \A v \in Writer, r \in rows : Describing(v, r)' <=> Describing(v, r)
    BY <1>1 DEF Describing
  <2>2. \A r \in rows : \/ r.day = dirOf[r.file] /\ r.span = DaysIn(disk[r.file])
                        \/ \E v \in Writer : Describing(v, r)'
    BY <2>1 DEF Exact, Described
  <2>3. \A v \in Writer : \A r \in rows : Describing(v, r)' =>
           r.file = at'[v].file /\ (at'[v].pc = "stats" => r.day = dirOf[r.file])
    <3> SUFFICES ASSUME NEW v \in Writer, NEW r \in rows, Describing(v, r)
                 PROVE  r.file = at'[v].file /\ (at'[v].pc = "stats" => r.day = dirOf[r.file])
      BY <2>1
    <3>1. v # w
      OBVIOUS
    <3> QED BY <1>1, <3>1 DEF Exact, Described
  <2>4. \A v \in {"sweep", "compact"} : at'[v].pc \in {"partition", "stats"} => \E r \in rows : r.id = at'[v].id
    BY <1>1 DEF Exact, Described, Writer
  <2>5. at'["compact"].pc \in Merging => dirOf[at'["compact"].file] = at'["compact"].day
    BY <1>1 DEF Exact, Described
  <2>6. \A r \in rows : DaysIn(disk[r.file])' = DaysIn(disk[r.file])
    BY DEF DaysIn
  <2> QED BY <2>2, <2>3, <2>4, <2>5, <2>6 DEF Described
<1> QED BY <1>3, <1>4

LEMMA QuietStep ==
    ASSUME CatalogInv, Exact, NEW w \in {"flush", "sweep"}, NEW t, at' = [at EXCEPT ![w] = t],
           UNCHANGED <<disk, dirOf, rows, buffer>>, t.pc \notin {"partition", "stats"},
           \A r \in rows : ~Describing(w, r)
    PROVE  OnceEach' /\ ListedOnce' /\ Described'
<1>1. Superseded' = Superseded
  BY CompactStill
<1>2. OnceEach'
  BY <1>1, OnceStill DEF Exact
<1> QED BY <1>2, QuietRows

\* Alone, a writer's step finds all the others idle.
LEMMA AloneHere ==
    ASSUME CatalogInv, NEW w \in Writer, at[w] # Idle, ~raced
    PROVE  \A v \in Writer \ {w} : at[v] = Idle
BY DEF CatalogInv, Alone

LEMMA ExactSweepStart ==
    ASSUME CatalogInv, Exact, health' # "sullied", SweepStart
    PROVE  Exact'
<1>1. PICK t : t = [pc |-> "next", todo |-> DOMAIN disk]
  OBVIOUS
<1>2. /\ at["sweep"] = Idle /\ at' = [at EXCEPT !["sweep"] = t] /\ UNCHANGED <<disk, dirOf, rows, total, buffer>>
      /\ raced' = (raced \/ Others("sweep")) /\ ~Others("sweep") /\ \A r \in rows : ~r.absolute
  BY <1>1 DEF SweepStart, data
<1>3. /\ at'["sweep"] = t /\ at'["compact"] = at["compact"] /\ at'["flush"] = at["flush"]
      /\ Superseded' = Superseded /\ Old' = Old
  BY <1>2, CompactStill DEF Writer
<1>4. at["flush"] = Idle /\ at["compact"] = Idle
  BY <1>2 DEF Others, Writer
<1>5. OnceEach' /\ ListedOnce' /\ Described'
  <2>1. at["sweep"].pc = "idle" /\ t.pc = "next"
    BY <1>1, <1>2 DEF Idle
  <2>2. \A r \in rows : ~Describing("sweep", r)
    BY <2>1 DEF Describing
  <2> QED BY <1>2, <2>1, <2>2, QuietStep
<1>6. Found' /\ FlushUnlisted'
  BY <1>1, <1>2, <1>3, <1>4 DEF Found, FlushUnlisted, YetToList, Idle
<1>7. SweepAlone'
  BY <1>1, <1>2, <1>3, <1>4 DEF SweepAlone
<1>8. Counted'
  <2>1. ~raced' => ~raced
    BY <1>2
  <2>2. /\ at'["sweep"].pc = "next" /\ at["sweep"].pc = "idle"
        /\ at'["flush"].pc = "idle" /\ at["flush"].pc = "idle" /\ at'["compact"] = Idle /\ at'["compact"].pc = "idle"
    BY <1>1, <1>2, <1>3, <1>4 DEF Idle
  <2>3. ~raced => total = RowCount(rows)
    BY <1>4, <2>2 DEF Exact, Counted
  <2>4. ~raced' => total' = RowCount(rows')
    BY <1>2, <2>1, <2>3
  <2> QED BY <1>2, <2>2, <2>4 DEF Counted
<1> QED BY <1>5, <1>6, <1>7, <1>8 DEF Exact

LEMMA ExactSweepNext ==
    ASSUME CatalogInv, Exact, NEW f, SweepNext(f)
    PROVE  Exact'
<1>1. PICK t : t = [pc |-> "table", file |-> f, todo |-> at["sweep"].todo \ {f}]
  OBVIOUS
<1>2. /\ at["sweep"].pc = "next" /\ f \in at["sweep"].todo /\ at' = [at EXCEPT !["sweep"] = t]
      /\ UNCHANGED <<disk, dirOf, rows, total, buffer, health, raced>>
  BY <1>1 DEF SweepNext, data
<1>3. /\ at'["sweep"] = t /\ at'["compact"] = at["compact"] /\ at'["flush"] = at["flush"]
      /\ Superseded' = Superseded /\ Old' = Old
  BY <1>2, CompactStill DEF Writer
<1>4. at["sweep"] # Idle
  BY <1>2 DEF Idle
<1>5. OnceEach' /\ ListedOnce' /\ Described'
  BY <1>1, <1>2, QuietStep DEF Describing
<1>6. Found' /\ FlushUnlisted'
  <2>1. t # Idle
    BY <1>1 DEF Idle
  <2> QED BY <1>2, <1>3, <2>1 DEF Exact, Found, FlushUnlisted, YetToList, Listed
<1>7. SweepAlone'
  <2>1. at["sweep"].todo \subseteq DOMAIN disk /\ t.todo = at["sweep"].todo \ {f} /\ t.file = f /\ t.pc = "table"
    BY <1>1, <1>4 DEF Exact, SweepAlone
  <2>2. \A g \in DOMAIN disk : Listed(g) \/ g \in t.todo \/ YetToList(t, g)
    BY <1>2, <1>4, <2>1 DEF Exact, SweepAlone, YetToList
  <2>3. \A g : Listed(g)' <=> Listed(g)
    BY <1>2 DEF Listed
  <2>4. \A g \in DOMAIN disk : YetToList(t, g) <=> YetToList(at["sweep"], g)'
    BY <1>3 DEF YetToList
  <2> QED BY <1>2, <1>3, <1>4, <2>1, <2>2, <2>3, <2>4 DEF Exact, SweepAlone
<1>8. Counted'
  BY <1>1, <1>2, <1>3 DEF Exact, Counted
<1> QED BY <1>5, <1>6, <1>7, <1>8 DEF Exact

LEMMA ExactSweepEnd ==
    ASSUME CatalogInv, Exact, SweepEnd
    PROVE  Exact'
<1>1. /\ at["sweep"].pc = "next" /\ at["sweep"].todo = {} /\ at' = [at EXCEPT !["sweep"] = Idle]
      /\ UNCHANGED <<disk, dirOf, rows, total, buffer, raced>>
  BY DEF SweepEnd, data
<1>2. /\ at'["sweep"] = Idle /\ at'["compact"] = at["compact"] /\ at'["flush"] = at["flush"]
      /\ Superseded' = Superseded /\ Old' = Old
  BY <1>1, CompactStill DEF Writer
<1>3. at["sweep"] # Idle
  BY <1>1 DEF Idle
<1>4. OnceEach' /\ ListedOnce' /\ Described'
  BY <1>1, QuietStep DEF Describing, Idle
<1>5. Found'
  BY <1>1, <1>2, <1>3 DEF Exact, SweepAlone, Found, YetToList, Listed, Live
<1>6. FlushUnlisted' /\ SweepAlone'
  BY <1>1, <1>2 DEF Exact, FlushUnlisted, SweepAlone, YetToList, Listed
<1>7. Counted'
  BY <1>1, <1>2 DEF Exact, Counted, Idle
<1> QED BY <1>4, <1>5, <1>6, <1>7 DEF Exact

-----------------------------------------------------------------------------
(***************************************************************************)
(* The steps of a registration, and rows that are told what their file is. *)
(***************************************************************************)
\* A registration at its file, on with the same file.
LEMMA SameFile ==
    ASSUME CatalogInv, Exact, NEW w \in {"flush", "sweep"}, NEW t, at' = [at EXCEPT ![w] = t], at[w] # Idle, t # Idle,
           UNCHANGED <<disk, rows, health>>, at[w].pc # "next", t.pc # "next",
           t.file = at[w].file, t.todo = at[w].todo, \A f : YetToList(t, f) <=> YetToList(at[w], f),
           w = "sweep" /\ t.pc = "add" => ~Listed(t.file)
    PROVE  Found' /\ FlushUnlisted' /\ SweepAlone'
<1>1. /\ w \in Writer /\ at'[w] = t /\ at'["compact"] = at["compact"]
      /\ \A v \in Writer \ {w} : at'[v] = at[v]
      /\ Superseded' = Superseded /\ Old' = Old
  BY CompactStill
<1>2. (\A f : Listed(f)' <=> Listed(f)) /\ Live' = Live
  BY <1>1 DEF Listed, Live
<1>3. CASE w = "flush"
  <2>1. at'["sweep"] = at["sweep"] /\ \A f : YetToList(at["flush"], f)' <=> YetToList(at["flush"], f)
    BY <1>1, <1>3 DEF Writer, YetToList
  <2>2. at["sweep"] = Idle
    BY <1>3 DEF Exact, SweepAlone
  <2> QED BY <1>1, <1>2, <2>1, <2>2 DEF Exact, Found, FlushUnlisted, SweepAlone
<1>4. CASE w = "sweep"
  <2>1. at'["flush"] = at["flush"] /\ \A f : YetToList(at["sweep"], f)' <=> YetToList(at["sweep"], f)
    BY <1>1, <1>4 DEF Writer, YetToList
  <2>2. Found'
    BY <1>1, <1>4 DEF Found
  <2>3. FlushUnlisted'
    BY <1>1, <1>2, <2>1 DEF Exact, FlushUnlisted, YetToList
  <2>4. SweepAlone'
    BY <1>1, <1>2, <1>4, <2>1 DEF Exact, SweepAlone
  <2> QED BY <2>2, <2>3, <2>4
<1> QED BY <1>3, <1>4

\* A registration through with a file that is listed.
LEMMA FileDone ==
    ASSUME CatalogInv, Exact, NEW w \in {"flush", "sweep"}, NEW t, t = Through(w),
           at' = [at EXCEPT ![w] = t], at[w] # Idle, at[w].pc # "next",
           UNCHANGED <<disk, rows, health>>, \A f : YetToList(at[w], f) => Listed(f)
    PROVE  Found' /\ FlushUnlisted' /\ SweepAlone'
<1>1. /\ w \in Writer /\ at'[w] = t /\ at'["compact"] = at["compact"]
      /\ \A v \in Writer \ {w} : at'[v] = at[v]
      /\ Superseded' = Superseded /\ Old' = Old
  BY CompactStill
<1>2. (\A f : Listed(f)' <=> Listed(f)) /\ Live' = Live
  BY <1>1 DEF Listed, Live
<1>3. CASE w = "flush"
  <2>1. at'["sweep"] = at["sweep"] /\ at'["flush"] = Dropping /\ at["sweep"] = Idle
    BY <1>1, <1>3 DEF Writer, Through, Exact, SweepAlone
  <2>2. \A f : ~YetToList(at["flush"], f) /\ ~YetToList(at'["flush"], f)
    BY <1>3, <2>1 DEF Exact, FlushUnlisted, YetToList, Dropping
  <2> QED BY <1>1, <1>2, <2>1, <2>2 DEF Exact, Found, FlushUnlisted, SweepAlone
<1>4. CASE w = "sweep"
  <2>1. at'["flush"] = at["flush"] /\ t.pc = "next" /\ t.todo = at["sweep"].todo /\ at'["sweep"] = t
    BY <1>1, <1>4 DEF Writer, Through
  <2>2. Found'
    <3>1. t # Idle
      BY <2>1 DEF Idle
    <3> QED BY <2>1, <3>1 DEF Found
  <2>3. FlushUnlisted'
    BY <1>1, <1>2, <2>1 DEF Exact, FlushUnlisted, YetToList
  <2>4. SweepAlone'
    BY <1>1, <1>2, <1>4, <2>1 DEF Exact, SweepAlone
  <2> QED BY <2>2, <2>3, <2>4
<1> QED BY <1>3, <1>4

LEMMA ExactRegTable ==
    ASSUME CatalogInv, Exact, NEW w \in {"flush", "sweep"}, RegTable(w), at[w] # Idle
    PROVE  Exact'
<1>1. PICK o : o = at[w]
  OBVIOUS
<1>2. PICK n : n = total
  OBVIOUS
<1> DEFINE t == Taken(o, "before", n, "check")
<1>3. /\ o.pc = "table" /\ at' = [at EXCEPT ![w] = t]
      /\ UNCHANGED <<disk, dirOf, rows, total, buffer, health, raced>>
  BY <1>1, <1>2 DEF RegTable, data, MovesOnWith, Taken
<1>4. DOMAIN o = {"pc", "file", "todo"}
  <2>1. ListerTypes(o, Files, spent.ids)
    BY <1>1, <1>3, ListerAt DEF Dropping
  <2> QED BY <1>1, <1>3, <2>1 DEF ListerTypes, Listing, Dropping, Idle
<1>5. t.pc = "check" /\ t.before = n
  BY <1>4, TakenNow
<1>6. t.file = o.file /\ t.todo = o.todo
  BY <1>4, TakenRest
<1> HIDE DEF t
<1>7. t # Idle /\ \A f : YetToList(t, f) <=> YetToList(o, f)
  BY <1>3, <1>5, <1>6 DEF YetToList, Idle
<1>8. \A r \in rows : ~Describing(w, r)
  BY <1>1, <1>3 DEF Describing
<1>9. OnceEach' /\ ListedOnce' /\ Described'
  BY <1>3, <1>5, <1>8, QuietStep
<1>10. Found' /\ FlushUnlisted' /\ SweepAlone'
  BY <1>1, <1>3, <1>5, <1>6, <1>7, SameFile
<1>11. Counted'
  <2>1. /\ at'[w] = t /\ at'["compact"] = at["compact"] /\ \A v \in {"flush", "sweep"} \ {w} : at'[v] = at[v]
    BY <1>3, CompactStill DEF Writer
  <2> QED BY <1>1, <1>2, <1>3, <1>5, <2>1 DEF Exact, Counted
<1> QED BY <1>9, <1>10, <1>11 DEF Exact

LEMMA ExactRegCheck ==
    ASSUME CatalogInv, Exact, NEW w \in {"flush", "sweep"}, RegCheck(w), at[w] # Idle
    PROVE  Exact'
<1>1. PICK o : o = at[w]
  OBVIOUS
<1>2. PICK t : t = IF o.file \notin DOMAIN disk THEN AfterError(w)
                   ELSE IF Registered(o.file) THEN Through(w)
                   ELSE [o EXCEPT !.pc = "add"]
  OBVIOUS
<1>3. /\ o.pc = "check" /\ at' = [at EXCEPT ![w] = t] /\ UNCHANGED <<disk, dirOf, rows, total, buffer, health, raced>>
  BY <1>1, <1>2 DEF RegCheck, data
<1>4. DOMAIN o = {"pc", "file", "todo", "before"}
  <2>1. ListerTypes(o, Files, spent.ids)
    BY <1>1, <1>3, ListerAt DEF Dropping
  <2> QED BY <1>1, <1>3, <2>1 DEF ListerTypes, Listing, Dropping, Idle
<1>5. o.file \in DOMAIN disk
  BY <1>1, <1>3 DEF Exact, FlushUnlisted, SweepAlone, YetToList
<1>6. \A r \in rows : ~Describing(w, r)
  BY <1>1, <1>3 DEF Describing
<1>7. /\ at'[w] = t /\ at'["compact"] = at["compact"] /\ \A v \in {"flush", "sweep"} \ {w} : at'[v] = at[v]
  BY <1>3, CompactStill DEF Writer
<1>8. CASE Registered(o.file)
  <2>1. t = Through(w) /\ Listed(o.file)
    BY <1>2, <1>5, <1>8 DEF Registered, Listed
  <2>2. t.pc \in {"drop", "next"}
    BY <2>1 DEF Through, Dropping
  <2>3. OnceEach' /\ ListedOnce' /\ Described'
    BY <1>3, <1>6, <2>2, QuietStep
  <2>4. Found' /\ FlushUnlisted' /\ SweepAlone'
    BY <1>1, <1>3, <2>1, FileDone DEF YetToList
  <2>5. Counted'
    BY <1>1, <1>3, <1>7, <2>2 DEF Exact, Counted
  <2> QED BY <2>3, <2>4, <2>5 DEF Exact
<1>9. CASE ~Registered(o.file)
  <2>1. t.pc = "add" /\ t.file = o.file /\ t.todo = o.todo /\ t.before = o.before
    BY <1>2, <1>4, <1>5, <1>9
  <2>2. t # Idle /\ \A f : YetToList(t, f) <=> YetToList(o, f)
    BY <1>3, <2>1 DEF YetToList, Idle
  <2>3. w = "sweep" => ~Listed(o.file)
    BY <1>1, <1>9 DEF Registered, Listed, Exact, SweepAlone
  <2>4. OnceEach' /\ ListedOnce' /\ Described'
    BY <1>3, <1>6, <2>1, QuietStep
  <2>5. Found' /\ FlushUnlisted' /\ SweepAlone'
    BY <1>1, <1>3, <2>1, <2>2, <2>3, SameFile
  <2>6. Counted'
    BY <1>1, <1>3, <1>7, <2>1 DEF Exact, Counted
  <2> QED BY <2>4, <2>5, <2>6 DEF Exact
<1> QED BY <1>8, <1>9

\* Statistics find no file only where the row is gone too, so no row is left half told.
LEMMA ExactRegStatsUnread ==
    ASSUME CatalogInv, Exact, NEW w \in {"flush", "sweep"}, RegStatsUnread(w), at[w] # Idle
    PROVE  Exact'
<1>1. /\ at[w].pc = "stats" /\ at[w].file \notin DOMAIN disk /\ at' = [at EXCEPT ![w] = AfterError(w)]
      /\ UNCHANGED <<disk, dirOf, rows, total, buffer, health, raced>>
  BY DEF RegStatsUnread, data, GivesUp
<1>2. \A r \in rows : ~Describing(w, r)
  BY <1>1 DEF Exact, Described, ListedOnce, Writer
<1>3. w = "flush" /\ w \in Writer
  BY <1>1 DEF Exact, SweepAlone, Writer
<1>7. AfterError(w).pc \in {"idle", "drop"} /\ AfterError(w) = Through(w)
  BY <1>3, ErrorTypes DEF Through
<1>4. OnceEach' /\ ListedOnce' /\ Described'
  BY <1>1, <1>2, <1>7, QuietStep
<1>5. Found' /\ FlushUnlisted' /\ SweepAlone'
  BY <1>1, <1>3, <1>7, FileDone DEF YetToList
<1>6. Counted'
  <2>1. raced
    BY <1>1, <1>2 DEF Exact, Counted, Describing
  <2> QED BY <1>1, <2>1 DEF Counted
<1> QED BY <1>4, <1>5, <1>6 DEF Exact

LEMMA RowCountOfOne ==
    ASSUME NEW r, r.n \in Nat
    PROVE  RowCount({r}) = r.n
<1>1. IsFiniteSet({r})
  BY FS_Singleton
<1> DEFINE F == [x \in {r} |-> x.n]
<1>2. RowCount({r}) = SumOf(F, {r})
  BY <1>1, RowCountSum
<1>3. F[r] = r.n
  OBVIOUS
<1> HIDE DEF F
<1>4. SumOf(F, {r}) = F[r]
  BY <1>1, <1>3, SumOfOne
<1> QED BY <1>2, <1>3, <1>4

LEMMA ExactRegTotal ==
    ASSUME CatalogInv, Exact, NEW w \in {"flush", "sweep"}, RegTotal(w), at[w] # Idle
    PROVE  Exact'
<1>1. PICK t : t = Through(w)
  OBVIOUS
<1>2. /\ at[w].pc = "total" /\ at' = [at EXCEPT ![w] = t]
      /\ total' = at[w].before + RowCount({r \in rows : r.id = at[w].id})
      /\ UNCHANGED <<disk, dirOf, rows, buffer, health, raced>>
  BY <1>1 DEF RegTotal
<1>3. \A r \in rows : ~Describing(w, r)
  BY <1>2 DEF Describing
<1>4. t.pc \in {"drop", "next"}
  BY <1>1 DEF Through, Dropping
<1>5. OnceEach' /\ ListedOnce' /\ Described'
  BY <1>2, <1>3, <1>4, QuietStep
<1>6. Found' /\ FlushUnlisted' /\ SweepAlone'
  BY <1>1, <1>2, FileDone DEF YetToList
<1>7. Counted'
  <2> SUFFICES ASSUME ~raced PROVE Counted'
    BY <1>2 DEF Counted
  <2>1. PICK r \in rows : r.id = at[w].id /\ RowCount(rows) = total + r.n
    BY <1>2 DEF Exact, Counted
  <2>2. {s \in rows : s.id = at[w].id} = {r} /\ r.n \in Nat
    BY <2>1 DEF CatalogInv, CatalogTypes, RowsTypes, RowTypes
  <2>3. total' = RowCount(rows')
    BY <1>2, <2>1, <2>2, RowCountOfOne DEF Exact, Counted
  <2>4. /\ at'[w] = t /\ at'["compact"] = Idle /\ \A v \in {"flush", "sweep"} \ {w} : at'[v] = Idle
    <3>1. w \in Writer /\ "compact" \in Writer \ {w} /\ {"flush", "sweep"} \subseteq Writer
      BY DEF Writer
    <3>2. \A v \in Writer \ {w} : at[v] = Idle
      BY <3>1, AloneHere
    <3>3. at'[w] = t /\ \A v \in Writer \ {w} : at'[v] = at[v]
      BY <1>2, <3>1, AtMoves
    <3> QED BY <3>1, <3>2, <3>3
  <2> QED BY <1>4, <2>3, <2>4 DEF Counted, Idle
<1> QED BY <1>5, <1>6, <1>7 DEF Exact

\* A registration gives up before it has its row: what it has yet to list awaits a sweep.
LEMMA ExactListerFail ==
    ASSUME CatalogInv, Exact, NEW w \in {"flush", "sweep"}, at[w] # Idle,
           at[w].pc \in {"table", "check", "add", "next"}, health' = "unlisted",
           NEW t, t \in {Idle, Dropping}, w = "sweep" => t = Idle, at' = [at EXCEPT ![w] = t],
           UNCHANGED <<disk, dirOf, rows, total, raced>>, OnceEach'
    PROVE  Exact'
<1>1. t.pc \in {"idle", "drop"}
  BY DEF Idle, Dropping
<1>2. \A r \in rows : ~Describing(w, r)
  BY DEF Describing
<1>3. ListedOnce' /\ Described'
  BY <1>1, <1>2, QuietRows
<1>4. /\ at'[w] = t /\ at'["compact"] = at["compact"] /\ Superseded' = Superseded /\ Old' = Old
      /\ \A v \in {"flush", "sweep"} \ {w} : at'[v] = at[v]
  BY CompactStill DEF Writer
<1>5. Found'
  BY DEF Found
<1>6. FlushUnlisted'
  <2>1. (\A f : Listed(f)' <=> Listed(f)) /\ \A f : YetToList(at["flush"], f)' => YetToList(at["flush"], f)
    BY <1>1, <1>4 DEF Listed, YetToList
  <2> QED BY <1>4, <2>1 DEF Exact, FlushUnlisted
<1>7. SweepAlone'
  <2>1. at'["sweep"] = Idle
    BY <1>4 DEF Exact, SweepAlone
  <2> QED BY <2>1 DEF SweepAlone
<1>8. Counted'
  BY <1>1, <1>4 DEF Exact, Counted
<1> QED BY <1>3, <1>5, <1>6, <1>7, <1>8 DEF Exact

\* A flush through with its file takes its batch out of the buffer, or ends without that.
LEMMA ExactDropped ==
    ASSUME CatalogInv, Exact, at["flush"].pc = "drop", at' = [at EXCEPT !["flush"] = Idle],
           UNCHANGED <<disk, dirOf, rows, total, health, raced>>, OnceEach'
    PROVE  Exact'
<1>1. at["flush"] # Idle /\ Idle.pc = "idle"
  BY DEF Idle
<1>2. \A r \in rows : ~Describing("flush", r)
  BY DEF Describing
<1>3. ListedOnce' /\ Described'
  BY <1>1, <1>2, QuietRows
<1>4. /\ at'["flush"] = Idle /\ at'["compact"] = at["compact"] /\ Superseded' = Superseded /\ Old' = Old
      /\ at'["sweep"] = at["sweep"]
  BY CompactStill DEF Writer
<1>5. at["sweep"] = Idle
  BY <1>1 DEF Exact, SweepAlone
<1>6. /\ \A f : Listed(f)' <=> Listed(f)
      /\ \A f : ~YetToList(at["flush"], f) /\ ~YetToList(at["flush"], f)'
  BY <1>1, <1>4 DEF Listed, YetToList
<1>7. Live' = Live
  BY <1>4 DEF Live
<1>8. Found' /\ FlushUnlisted' /\ SweepAlone'
  BY <1>4, <1>5, <1>6, <1>7 DEF Exact, Found, FlushUnlisted, SweepAlone
<1>9. Counted'
  BY <1>1, <1>4 DEF Exact, Counted
<1> QED BY <1>3, <1>8, <1>9 DEF Exact

LEMMA ExactFlushDrop ==
    ASSUME CatalogInv, Exact, FlushDrop
    PROVE  Exact'
<1>1. /\ at["flush"].pc = "drop" /\ at' = [at EXCEPT !["flush"] = Idle]
      /\ UNCHANGED <<disk, dirOf, rows, total, health, raced>> /\ buffer' = [buffer EXCEPT !.out = buffer.upto]
  BY DEF FlushDrop, Dropping, data
<1>2. Superseded' = Superseded
  BY <1>1, CompactStill
<1>3. buffer'.upto = buffer.upto /\ buffer'.again = buffer.again
  BY <1>1 DEF CatalogInv, CatalogTypes, Buffers
<1>4. OnceEach'
  BY <1>1, <1>2, <1>3 DEF Exact, OnceEach, Live
<1> QED BY <1>1, <1>4, ExactDropped

\* A batch written and left in the buffer: no more is claimed of its events than that
\* they are there.
LEMMA OnceUndropped ==
    ASSUME CatalogInv, OnceEach, buffer' = Undropped, UNCHANGED disk, Superseded' = Superseded
    PROVE  OnceEach'
<1>1. /\ buffer'.upto = buffer.out /\ buffer'.again = buffer.again \cup (buffer.out + 1..buffer.upto)
      /\ buffer.out \in Nat /\ buffer.upto \in Nat /\ buffer.out <= buffer.upto
  BY UndroppedTypes, CatalogAssumption DEF CatalogInv, CatalogTypes, Buffers, Buffered
<1>2. \A e \in Event \ buffer'.again : e \in Event \ buffer.again /\ (e > buffer'.upto => e > buffer.upto)
  BY <1>1 DEF Event
<1>3. (1..buffer'.upto) \ buffer'.again \subseteq (1..buffer.upto) \ buffer.again
  BY <1>1
<1> QED BY <1>2, <1>3 DEF OnceEach, Live

LEMMA ExactFail ==
    ASSUME CatalogInv, Exact, health' # "sullied", NEW w \in Writer, Fail(w)
    PROVE  Exact'
<1>1. /\ at[w] # Idle /\ health' = After(w) /\ UNCHANGED <<disk, dirOf, rows, total, raced>>
      /\ at' = [at EXCEPT ![w] = IF at[w] = Dropping THEN Idle ELSE AfterError(w)]
      /\ buffer' = IF at[w] = Dropping THEN Undropped ELSE buffer
  BY DEF Fail, data
<1>2. CASE at[w] = Dropping
  <2>1. w = "flush" /\ at[w].pc = "drop"
    BY <1>2 DEF CatalogInv, CatalogTypes, WriterTypes, Dropping
  <2>2. health' = health
    BY <1>1, <2>1 DEF After
  <2>3. OnceEach'
    <3>1. Superseded' = Superseded
      BY <1>1, <2>1, CompactStill
    <3> QED BY <1>1, <1>2, <3>1, OnceUndropped DEF Exact
  <2> QED BY <1>1, <1>2, <2>1, <2>2, <2>3, ExactDropped
<1>3. CASE at[w] # Dropping
  <2>1. at[w].pc # "drop"
    <3>1. w # "compact" => ListerTypes(at[w], Files, spent.ids)
      BY <1>1, <1>3, ListerAt DEF Writer
    <3>2. w = "compact" => CompactTypes(at[w], Files, spent.ids)
      BY DEF CatalogInv, CatalogTypes, WriterTypes
    <3>3. \A F, n, t : ListerTypes(t, F, n) /\ t # Idle /\ t # Dropping => t.pc \in Listing \cup {"next"}
      BY DEF ListerTypes
    <3>4. \A F, n, t : CompactTypes(t, F, n) /\ t # Idle => t.pc \in {"merge"} \cup Merging
      BY DEF CompactTypes
    <3> QED BY <1>1, <1>3, <3>1, <3>2, <3>3, <3>4 DEF Listing, Merging
  <2>2. /\ health' = "unlisted" /\ at[w].pc \in {"table", "check", "add", "next"} /\ w \in {"flush", "sweep"}
    BY <1>1, <2>1 DEF After, Writer
  <2>3. AfterError(w) \in {Idle, Dropping} /\ (w = "sweep" => AfterError(w) = Idle)
    BY <2>2 DEF AfterError
  <2>4. OnceEach'
    <3>1. Superseded' = Superseded
      BY <1>1, <2>2, CompactStill
    <3> QED BY <1>1, <1>3, <3>1, OnceStill DEF Exact
  <2> QED BY <1>1, <1>3, <2>2, <2>3, <2>4, ExactListerFail
<1> QED BY <1>2, <1>3

LEMMA ExactDie ==
    ASSUME CatalogInv, Exact, health' # "sullied", Die
    PROVE  Exact'
<1>1. /\ at["flush"] # Idle /\ health' = After("flush") /\ UNCHANGED <<disk, dirOf, rows, total, raced>>
      /\ at' = [at EXCEPT !["flush"] = Idle] /\ buffer' = Undropped
  BY DEF Die, data, Stops
<1>2. OnceEach'
  <2>1. Superseded' = Superseded
    BY <1>1, CompactStill
  <2> QED BY <1>1, <2>1, OnceUndropped DEF Exact
<1>3. CASE at["flush"].pc = "drop"
  <2>1. health' = health
    BY <1>1, <1>3 DEF After
  <2> QED BY <1>1, <1>2, <1>3, <2>1, ExactDropped
<1>4. CASE at["flush"].pc # "drop"
  <2>1. health' = "unlisted" /\ at["flush"].pc \in {"table", "check", "add", "next"}
    BY <1>1, <1>4 DEF After
  <2> QED BY <1>1, <1>2, <2>1, ExactListerFail
<1> QED BY <1>3, <1>4

\* One row more lists its rows more.
LEMMA RowCountMore ==
    ASSUME NEW R, IsFiniteSet(R), \A r \in R : r.n \in Nat, NEW q, q \notin R, q.n \in Nat
    PROVE  RowCount(R \cup {q}) = RowCount(R) + q.n /\ RowCount(R) \in Nat
<1> DEFINE S == R \cup {q}
           F == [r \in S |-> r.n]
           G == [r \in R |-> r.n]
<1>1. IsFiniteSet(S) /\ (\A r \in S : r.n \in Nat) /\ q \in S /\ S \ {q} = R
  BY FS_AddElement
<1>2. RowCount(S) = SumOf(F, S)
  BY <1>1, RowCountSum
<1>3. RowCount(R) = SumOf(G, R)
  BY RowCountSum
<1>4. (\A r \in S : F[r] = r.n) /\ \A r \in R : G[r] = r.n
  OBVIOUS
<1> HIDE DEF F, G, S
<1>5. SumOf(F, S) = F[q] + SumOf(F, R)
  BY <1>1, <1>4, SumOfSteps
<1>6. SumOf(F, R) = SumOf(G, R) /\ SumOf(G, R) \in Nat
  <2>1. \A r \in R : F[r] \in Nat /\ F[r] = G[r] /\ G[r] \in Nat
    BY <1>1, <1>4
  <2> QED BY <2>1, SumOfAgrees, SumOfSteps
<1>7. RowCount(S) = RowCount(R) + q.n
  <2>1. F[q] = q.n /\ q.n \in Nat
    BY <1>1, <1>4
  <2> QED BY <1>2, <1>3, <1>5, <1>6, <2>1
<1> QED BY <1>3, <1>6, <1>7 DEF S

\* A row told something is the row it was in every other respect.
Alike(s, r) == s.id = r.id /\ s.file = r.file /\ s.absolute = r.absolute /\ s.n = r.n

LEMMA ToldOne ==
    ASSUME NEW r, DOMAIN r = RowFields, NEW field \in {"day", "span"}, NEW value
    PROVE  LET s == [r EXCEPT ![field] = value]
           IN /\ Alike(s, r) /\ (field = "day" => s.day = value /\ s.span = r.span)
              /\ (field = "span" => s.span = value /\ s.day = r.day)
BY DEF Alike, RowFields

LEMMA ToldFrom ==
    ASSUME NEW R, NEW F, NEW n, RowsTypes(R, F, n), NEW i, NEW field \in {"day", "span"}, NEW value,
           NEW s \in Told(R, i, field, value)
    PROVE  \E r \in R : /\ Alike(s, r) /\ (r.id # i => s = r)
                        /\ r.id = i /\ field = "day" => s.day = value /\ s.span = r.span
                        /\ r.id = i /\ field = "span" => s.span = value /\ s.day = r.day
<1>1. PICK r \in R : s = IF r.id = i THEN [r EXCEPT ![field] = value] ELSE r
  BY DEF Told
<1>2. DOMAIN r = RowFields
  BY DEF RowsTypes, RowTypes
<1>3. CASE r.id = i
  <2>1. s = [r EXCEPT ![field] = value]
    BY <1>1, <1>3
  <2>2. Alike(s, r) /\ (field = "day" => s.day = value /\ s.span = r.span)
        /\ (field = "span" => s.span = value /\ s.day = r.day)
    BY <1>2, <2>1 DEF Alike, RowFields
  <2> QED BY <1>3, <2>2
<1>4. CASE r.id # i
  BY <1>1, <1>4 DEF Alike
<1> QED BY <1>3, <1>4

LEMMA ToldTo ==
    ASSUME NEW R, NEW F, NEW n, RowsTypes(R, F, n), NEW i, NEW field \in {"day", "span"}, NEW value,
           NEW r \in R
    PROVE  \E s \in Told(R, i, field, value) : Alike(s, r)
<1>1. DOMAIN r = RowFields
  BY DEF RowsTypes, RowTypes
<1>2. PICK s : s = IF r.id = i THEN [r EXCEPT ![field] = value] ELSE r
  OBVIOUS
<1>3. s \in Told(R, i, field, value)
  BY <1>2 DEF Told
<1>4. Alike(s, r)
  BY <1>1, <1>2, ToldOne DEF Alike
<1> QED BY <1>3, <1>4

LEMMA RowCountTold ==
    ASSUME NEW R, NEW F, NEW n, RowsTypes(R, F, n), NEW i, NEW field \in {"day", "span"}, NEW value
    PROVE  RowCount(Told(R, i, field, value)) = RowCount(R)
<1>1. CASE \A r \in R : r.id # i
  <2>1. Told(R, i, field, value) = R
    BY <1>1 DEF Told
  <2> QED BY <2>1
<1>2. CASE \E r \in R : r.id = i
  <2>1. PICK r \in R : r.id = i
    BY <1>2
  <2>2. PICK s : s = [r EXCEPT ![field] = value]
    OBVIOUS
  <2>3. PICK Q : Q = R \ {r}
    OBVIOUS
  <2>4. IsFiniteSet(Q) /\ (\A q \in Q : q.n \in Nat /\ q.id # i) /\ r \notin Q /\ r.n \in Nat /\ R = Q \cup {r}
    BY <2>1, <2>3, FS_RemoveElement DEF RowsTypes, RowTypes
  <2>5. s.id = i /\ s.n = r.n
    BY <2>1, <2>2, ToldOne DEF Alike, RowsTypes, RowTypes
  <2>6. Told(R, i, field, value) = Q \cup {s}
    <3>1. \A q \in Q : q.id # i
      BY <2>4
    <3> QED BY <2>1, <2>2, <2>4, <3>1 DEF Told
  <2>7. s \notin Q
    BY <2>4, <2>5
  <2>8. RowCount(Q \cup {s}) = RowCount(Q) + s.n
    BY <2>4, <2>5, <2>7, RowCountMore
  <2>9. RowCount(Q \cup {r}) = RowCount(Q) + r.n
    BY <2>4, RowCountMore
  <2> QED BY <2>4, <2>5, <2>6, <2>8, <2>9
<1> QED BY <1>1, <1>2

\* A writer tells its row its day or its span, and goes on.
Tells(w, from, to, field, value) ==
    \/ from = "partition" /\ to = "stats" /\ field = "day" /\ value = dirOf[at[w].file]
    \/ /\ from = "stats" /\ field = "span" /\ value = DaysIn(disk[at[w].file])
       /\ to = IF w = "compact" THEN "sum" ELSE "total"

Onward(o, to) == [o EXCEPT !.pc = to]

\* What a compaction holds that the invariant speaks of, before and after.
LEMMA OnwardSame ==
    ASSUME NEW o, "pc" \in DOMAIN o, NEW to
    PROVE  /\ Onward(o, to).pc = to
           /\ \A x \in DOMAIN o \ {"pc"} : Onward(o, to)[x] = o[x]
BY DEF Onward

LEMMA TellingFields ==
    ASSUME CatalogInv, NEW w \in Writer, at[w] # Idle, at[w].pc \in {"partition", "stats"}
    PROVE  /\ "pc" \in DOMAIN at[w] /\ {"file", "id"} \subseteq DOMAIN at[w] \ {"pc"}
           /\ w = "compact" => {"old", "day"} \subseteq DOMAIN at[w] \ {"pc"}
           /\ w # "compact" => {"before", "todo"} \subseteq DOMAIN at[w] \ {"pc"}
BY DEF CatalogInv, CatalogTypes, WriterTypes, ListerTypes, CompactTypes, Listing, Merging, Idle, Dropping

LEMMA CompactTells ==
    ASSUME CatalogInv, NEW w \in Writer, at[w] # Idle, at[w].pc \in {"partition", "stats"}, NEW to
    PROVE  /\ Onward(at[w], to).pc = to /\ Onward(at[w], to).file = at[w].file /\ Onward(at[w], to).id = at[w].id
           /\ w = "compact" => /\ Onward(at[w], to).old = at[w].old
                               /\ Onward(at[w], to).day = at[w].day
           /\ w # "compact" => /\ Onward(at[w], to).before = at[w].before
                               /\ Onward(at[w], to).todo = at[w].todo
<1>1. PICK o : o = at[w]
  OBVIOUS
<1>2. /\ "pc" \in DOMAIN o /\ {"file", "id"} \subseteq DOMAIN o \ {"pc"}
      /\ w = "compact" => {"old", "day"} \subseteq DOMAIN o \ {"pc"}
      /\ w # "compact" => {"before", "todo"} \subseteq DOMAIN o \ {"pc"}
  BY <1>1, TellingFields
<1>3. PICK t : t = Onward(o, to)
  OBVIOUS
<1>4. t.pc = to /\ \A x \in DOMAIN o \ {"pc"} : t[x] = o[x]
  BY <1>2, <1>3, OnwardSame
<1>5. /\ t.pc = to /\ t.file = o.file /\ t.id = o.id
      /\ w = "compact" => t.old = o.old /\ t.day = o.day
      /\ w # "compact" => t.before = o.before /\ t.todo = o.todo
  BY <1>2, <1>4
<1> QED BY <1>1, <1>3, <1>5

\* A compaction's part of the state, seen past a step that tells a row.
LEMMA CompactSeen ==
    ASSUME CatalogInv, NEW w \in Writer, at[w] # Idle, at[w].pc \in {"partition", "stats"},
           NEW to \in {"stats", "sum", "total"}, NEW t, t = Onward(at[w], to), at' = [at EXCEPT ![w] = t]
    PROVE  /\ at'["compact"].old = at["compact"].old /\ at'["compact"].file = at["compact"].file
           /\ at'["compact"].day = at["compact"].day
           /\ \A p \in {"merge", "delete", "add"} : at'["compact"].pc = p <=> at["compact"].pc = p
           /\ at'["compact"].pc \in Merging <=> at["compact"].pc \in Merging
           /\ Superseded' = Superseded /\ Old' = Old
<1>1. CASE w = "compact"
  <2>1. t.pc = to /\ t.file = at[w].file /\ t.old = at[w].old /\ t.day = at[w].day
    BY <1>1, CompactTells
  <2>2. at'[w] = t
    BY AtMoves
  <2> QED BY <1>1, <2>1, <2>2 DEF Merging, Superseded, Old
<1>2. CASE w # "compact"
  <2>1. at'["compact"] = at["compact"]
    BY <1>2, AtMoves DEF Writer
  <2> QED BY <2>1 DEF Superseded, Old
<1> QED BY <1>1, <1>2

LEMMA ExactTells ==
    ASSUME CatalogInv, Exact, NEW w \in Writer, NEW from, NEW to, NEW field \in {"day", "span"}, NEW value,
           Describe(w, from, to, field, value), at[w] # Idle, Tells(w, from, to, field, value),
           \E r \in rows : r.id = at[w].id
    PROVE  Exact'
<1>1. PICK o : o = at[w]
  OBVIOUS
<1>2. PICK t : t = Onward(o, to)
  OBVIOUS
<1>3. PICK i : i = o.id
  OBVIOUS
<1>4. /\ o.pc = from /\ rows' = Told(rows, i, field, value) /\ at' = [at EXCEPT ![w] = t]
      /\ UNCHANGED <<disk, dirOf, total, spent, buffer, health, raced>>
  BY <1>1, <1>2, <1>3 DEF Describe, MovesOn, Told, Onward
<1>5. /\ o.pc \in {"partition", "stats"} /\ to \in {"stats", "sum", "total"}
      /\ (w = "compact" => to # "total") /\ (w # "compact" => to # "sum")
  BY <1>4 DEF Tells
<1>6. /\ at'["compact"].old = at["compact"].old /\ at'["compact"].file = at["compact"].file
      /\ at'["compact"].day = at["compact"].day
      /\ \A p \in {"merge", "delete", "add"} : at'["compact"].pc = p <=> at["compact"].pc = p
      /\ at'["compact"].pc \in Merging <=> at["compact"].pc \in Merging
      /\ Superseded' = Superseded /\ Old' = Old
  BY <1>1, <1>2, <1>4, <1>5, CompactSeen
<1>7. /\ at'[w] = t /\ \A v \in Writer \ {w} : at'[v] = at[v]
      /\ t.pc = to /\ t # Idle /\ t.file = o.file /\ t.id = i
      /\ w # "compact" => t.before = o.before /\ t.todo = o.todo
  <2>1. at'[w] = t /\ \A v \in Writer \ {w} : at'[v] = at[v]
    BY <1>4, AtMoves
  <2>2. /\ t.pc = to /\ t.file = o.file /\ t.id = i
        /\ w # "compact" => t.before = o.before /\ t.todo = o.todo
    BY <1>1, <1>2, <1>3, <1>4, <1>5, CompactTells
  <2>3. t # Idle
    BY <1>5, <2>2 DEF Idle
  <2> QED BY <2>1, <2>2, <2>3
<1>8. RowsTypes(rows, Files, spent.ids) /\ RowsTypes(rows', Files, spent.ids)
  BY <1>4, RowsDescribed DEF CatalogInv, CatalogTypes
<1>9. \A s \in rows' : \E r \in rows :
         /\ Alike(s, r) /\ (r.id # i => s = r)
         /\ r.id = i /\ field = "day" => s.day = value /\ s.span = r.span
         /\ r.id = i /\ field = "span" => s.span = value /\ s.day = r.day
  BY <1>4, <1>8, ToldFrom
<1>10. \A r \in rows : \E s \in rows' : Alike(s, r)
  BY <1>4, <1>8, ToldTo
<1>11. \A f : Listed(f)' <=> Listed(f)
  BY <1>9, <1>10 DEF Listed, Alike
<1>12. OnceEach'
  BY <1>4, <1>6, OnceStill DEF Exact
<1>13. ListedOnce'
  <2>1. \A r, s \in rows' : r.file = s.file => r = s
    <3> SUFFICES ASSUME NEW r \in rows', NEW s \in rows', r.file = s.file PROVE r = s
      OBVIOUS
    <3>1. PICK p \in rows : Alike(r, p)
      BY <1>9
    <3>2. PICK q \in rows : Alike(s, q)
      BY <1>9
    <3>3. p = q
      <4>1. \A x, y \in rows : x.file = y.file => x = y
        BY DEF Exact, ListedOnce
      <4> QED BY <3>1, <3>2, <4>1 DEF Alike
    <3> QED BY <1>8, <3>1, <3>2, <3>3 DEF Alike, RowsTypes
  <2>2. \A s \in rows' : s.file \in DOMAIN disk'
    BY <1>4, <1>9 DEF Alike, Exact, ListedOnce
  <2>3. at'["compact"].pc \in {"merge"} \cup Merging =>
         \A q, p \in at'["compact"].old : q.file = p.file => q = p
    BY <1>6 DEF Exact, ListedOnce
  <2>4. at'["compact"].pc \in {"merge", "delete"} =>
         \A q \in at'["compact"].old : \E r \in rows' : r.id = q.id /\ r.file = q.file
    BY <1>6, <1>10 DEF Exact, ListedOnce, Alike
  <2>5. at'["compact"].pc \in Merging \ {"delete"} => \A r \in rows' : r.file \notin Superseded'
    BY <1>6, <1>9 DEF Exact, ListedOnce, Alike
  <2>6. at'["compact"].pc \in {"delete", "add"} => ~Listed(at["compact"].file)'
    <3>1. at'["compact"].pc \in {"delete", "add"} => ~Listed(at["compact"].file)
      BY <1>6 DEF Exact, ListedOnce
    <3>2. \A f : (~ \E r \in rows : r.file = f) => ~ \E r \in rows' : r.file = f
      BY <1>11 DEF Listed
    <3>3. at'["compact"].pc \in {"delete", "add"} => ~ \E r \in rows' : r.file = at'["compact"].file
      BY <1>6, <3>1, <3>2 DEF Listed
    <3> QED BY <3>3 DEF Listed
  <2> QED BY <2>1, <2>2, <2>3, <2>4, <2>5, <2>6 DEF ListedOnce
<1>14. (at'["sweep"] = Idle <=> at["sweep"] = Idle) /\ \A f : YetToList(at["flush"], f)' <=> YetToList(at["flush"], f)
  <2>1. w = "flush" => at["flush"].pc \notin {"table", "check", "add"} /\ at'["flush"].pc \notin {"table", "check", "add"}
    BY <1>1, <1>5, <1>7
  <2>2. w # "flush" => at'["flush"] = at["flush"]
    BY <1>7 DEF Writer
  <2>3. w # "sweep" => at'["sweep"] = at["sweep"]
    BY <1>7 DEF Writer
  <2> QED BY <1>1, <1>7, <2>1, <2>2, <2>3 DEF YetToList
<1>15. Found' /\ FlushUnlisted'
  <2>1. Live' = Live
    BY <1>4, <1>6 DEF Live
  <2> QED BY <1>4, <1>6, <1>11, <1>14, <2>1 DEF Exact, Found, FlushUnlisted
<1>16. SweepAlone'
  <2>1. CASE w = "sweep"
    <3>1. /\ at'["flush"] = at["flush"] /\ at'["compact"] = at["compact"] /\ at'["sweep"] = t
          /\ t.todo = at["sweep"].todo /\ t.file = at["sweep"].file /\ at["sweep"] # Idle
          /\ at["sweep"].pc # "next"
      BY <1>1, <1>5, <1>7, <2>1 DEF Writer
    <3>2. \A f : ~YetToList(at["sweep"], f)
      BY <1>1, <1>5, <2>1 DEF YetToList
    <3>3. \A r \in rows' : ~r.absolute
      BY <1>9, <3>1 DEF Alike, Exact, SweepAlone
    <3> QED BY <1>4, <1>5, <1>7, <1>11, <3>1, <3>2, <3>3 DEF Exact, SweepAlone
  <2>2. CASE w # "sweep"
    <3>1. at["sweep"] = Idle
      BY <2>2 DEF Exact, SweepAlone, Writer
    <3> QED BY <1>14, <3>1 DEF SweepAlone
  <2> QED BY <2>1, <2>2
<1>17. Described'
  <2>1. \A r \in rows : r.id = i => r.file = o.file
    BY <1>1, <1>3, <1>5 DEF Exact, Described, Describing
  <2>2. w = "compact" \/ (w # "compact" /\ o.pc = from)
    BY <1>4
  <2>3. \A s \in rows' : s.id = i =>
           s.file = o.file /\ (field = "day" => s.day = dirOf[s.file])
           /\ (field = "span" => s.span = DaysIn(disk[s.file]) /\ s.day = dirOf[s.file])
    <3> SUFFICES ASSUME NEW s \in rows', s.id = i
                 PROVE  s.file = o.file /\ (field = "day" => s.day = dirOf[s.file])
                        /\ (field = "span" => s.span = DaysIn(disk[s.file]) /\ s.day = dirOf[s.file])
      OBVIOUS
    <3>1. PICK r \in rows : Alike(s, r) /\ (field = "day" => s.day = value)
                            /\ (field = "span" => s.span = value /\ s.day = r.day) /\ r.id = i
      BY <1>9 DEF Alike
    <3>2. s.file = o.file /\ r.file = o.file
      BY <2>1, <3>1 DEF Alike
    <3>3. field = "day" => value = dirOf[o.file]
      BY <1>1, <1>4 DEF Tells
    <3>4. field = "span" => value = DaysIn(disk[o.file]) /\ o.pc = "stats"
      BY <1>1, <1>4 DEF Tells
    <3>5. o.pc = "stats" => r.day = dirOf[r.file]
      BY <1>1, <1>3, <3>1 DEF Exact, Described, Describing
    <3> QED BY <3>1, <3>2, <3>3, <3>4, <3>5
  <2>4. \A s \in rows' : \/ s.day = dirOf'[s.file] /\ s.span = DaysIn(disk[s.file])'
                         \/ \E v \in Writer : Describing(v, s)'
    <3> SUFFICES ASSUME NEW s \in rows'
                 PROVE  \/ s.day = dirOf[s.file] /\ s.span = DaysIn(disk[s.file])
                        \/ \E v \in Writer : at'[v].pc \in {"partition", "stats"} /\ at'[v].id = s.id
      BY <1>4 DEF Describing, DaysIn
    <3>1. CASE s.id = i /\ field = "span"
      BY <2>3, <3>1
    <3>2. CASE s.id = i /\ field = "day"
      <4>1. to = "stats"
        BY <3>2 DEF Tells
      <4> QED BY <1>7, <3>2, <4>1
    <3>3. CASE s.id # i
      <4>1. s \in rows
        BY <1>9, <3>3 DEF Alike
      <4>2. \A v \in Writer : Describing(v, s) => v # w /\ at'[v] = at[v]
        BY <1>1, <1>3, <1>7, <3>3 DEF Describing
      <4> QED BY <4>1, <4>2 DEF Exact, Described, Describing
    <3> QED BY <3>1, <3>2, <3>3
  <2>5. \A v \in Writer : \A s \in rows' : Describing(v, s)' =>
           s.file = at'[v].file /\ (at'[v].pc = "stats" => s.day = dirOf'[s.file])
    <3> SUFFICES ASSUME NEW v \in Writer, NEW s \in rows', at'[v].pc \in {"partition", "stats"}, at'[v].id = s.id
                 PROVE  s.file = at'[v].file /\ (at'[v].pc = "stats" => s.day = dirOf[s.file])
      BY <1>4 DEF Describing
    <3>1. CASE v = w
      BY <1>7, <2>3, <3>1
    <3>2. CASE v # w
      <4>1. at'[v] = at[v]
        BY <1>7, <3>2
      <4>2. PICK r \in rows : Alike(s, r) /\ (r.id # i => s = r)
        BY <1>9
      <4>3. r.file = at[v].file /\ (at[v].pc = "stats" => r.day = dirOf[r.file])
        BY <4>1, <4>2 DEF Exact, Described, Describing, Alike
      <4> QED BY <2>3, <4>1, <4>2, <4>3 DEF Alike
    <3> QED BY <3>1, <3>2
  <2>6. \A v \in {"sweep", "compact"} : at'[v].pc \in {"partition", "stats"} => \E s \in rows' : s.id = at'[v].id
    <3> SUFFICES ASSUME NEW v \in {"sweep", "compact"}, at'[v].pc \in {"partition", "stats"}
                 PROVE  \E s \in rows' : s.id = at'[v].id
      OBVIOUS
    <3>1. \E r \in rows : r.id = at'[v].id
      BY <1>1, <1>3, <1>7 DEF Exact, Described, Writer
    <3> QED BY <1>10, <3>1 DEF Alike
  <2>7. at'["compact"].pc \in Merging => dirOf'[at'["compact"].file] = at'["compact"].day
    BY <1>4, <1>6 DEF Exact, Described
  <2> QED BY <2>4, <2>5, <2>6, <2>7 DEF Described
<1>18. Counted'
  <2> SUFFICES ASSUME ~raced PROVE Counted'
    BY <1>4 DEF Counted
  <2>1. RowCount(rows') = RowCount(rows)
    BY <1>4, <1>8, RowCountTold
  <2>2. \A v \in Writer \ {w} : at'[v] = Idle
    BY <1>1, <1>7, AloneHere
  <2>3. CASE w = "compact"
    BY <1>5, <1>7, <2>2, <2>3 DEF Counted, Idle, Writer
  <2>4. CASE w # "compact"
    <3>1. t.pc \in {"stats", "total"} /\ at'[w] = t /\ at'["compact"] = Idle
      BY <1>5, <1>7, <2>2, <2>4 DEF Writer
    <3>2. t.before = total /\ \E r \in rows : r.id = t.id /\ RowCount(rows) = total + r.n
      BY <1>1, <1>3, <1>5, <1>7, <2>4 DEF Exact, Counted, Writer
    <3>3. \E s \in rows' : s.id = t.id /\ RowCount(rows') = total + s.n
      BY <1>10, <2>1, <3>2 DEF Alike
    <3>4. \A v \in {"flush", "sweep"} \ {w} : at'[v].pc = "idle"
      BY <2>2 DEF Writer, Idle
    <3>5. w \in {"flush", "sweep"}
      BY <2>4 DEF Writer
    <3> QED BY <1>4, <3>1, <3>2, <3>3, <3>4, <3>5 DEF Counted, Idle
  <2> QED BY <2>3, <2>4
<1> QED BY <1>12, <1>13, <1>15, <1>16, <1>17, <1>18 DEF Exact

\* A row that is gone was compacted away, and its file with it.
LEMMA ExactTellsNone ==
    ASSUME CatalogInv, Exact, NEW w \in Writer, NEW from, NEW to, NEW field, NEW value,
           Describe(w, from, to, field, value), at[w] # Idle, at[w].pc \in {"partition", "stats"},
           ~ \E r \in rows : r.id = at[w].id
    PROVE  Exact'
<1>1. w = "flush" /\ raced
  BY DEF Exact, Described, Counted, Writer
<1>2. at' = [at EXCEPT ![w] = AfterError(w)] /\ UNCHANGED <<disk, dirOf, rows, total, buffer, health, raced>>
  BY DEF Describe, GivesUp
<1>3. \A r \in rows : ~Describing(w, r)
  BY DEF Describing
<1>7. AfterError(w).pc \in {"idle", "drop"} /\ AfterError(w) = Through(w)
  BY <1>1, ErrorTypes DEF Through
<1>4. OnceEach' /\ ListedOnce' /\ Described'
  BY <1>1, <1>2, <1>3, <1>7, QuietStep
<1>5. Found' /\ FlushUnlisted' /\ SweepAlone'
  BY <1>1, <1>2, <1>7, FileDone DEF YetToList
<1>6. Counted'
  BY <1>1, <1>2 DEF Counted
<1> QED BY <1>4, <1>5, <1>6 DEF Exact

LEMMA ExactDescribe ==
    ASSUME CatalogInv, Exact, NEW w \in Writer, NEW from, NEW to, NEW field \in {"day", "span"}, NEW value,
           Describe(w, from, to, field, value), Tells(w, from, to, field, value)
    PROVE  Exact'
<1>1. at[w].pc = from /\ from \in {"partition", "stats"}
  BY DEF Describe, Tells
<1>2. at[w] # Idle
  BY <1>1 DEF Idle
<1> QED BY <1>1, <1>2, ExactTells, ExactTellsNone

\* A new row's id is nobody else's.
LEMMA NewRowIsNew ==
    ASSUME CatalogInv, NEW f, NEW absolute, NEW n, NEW r, r = NewRow(f, absolute, n)
    PROVE  /\ r.id = spent.ids + 1 /\ r.file = f /\ r.absolute = absolute /\ r.n = n
           /\ r \notin rows /\ \A q \in rows : q.id # r.id
           /\ \A v \in Writer : at[v].pc \in {"partition", "stats"} => at[v].id # r.id
<1>1. r.id = spent.ids + 1 /\ r.file = f /\ r.absolute = absolute /\ r.n = n
  BY DEF NewRow
<1>2. spent.ids \in Nat /\ \A q \in rows : q.id \in 1..spent.ids
  BY DEF CatalogInv, CatalogTypes, RowsTypes, RowTypes
<1>3. \A v \in Writer : at[v].pc \in {"partition", "stats"} => at[v].id \in 1..spent.ids
  BY DEF CatalogInv, CatalogTypes, WriterTypes, ListerTypes, CompactTypes, Listing, Merging, Idle, Dropping
<1> QED BY <1>1, <1>2, <1>3

\* A row more, with its writer about to describe it.
LEMMA DescribedMore ==
    ASSUME CatalogInv, Exact, NEW w \in Writer, NEW r, rows' = rows \cup {r}, r \notin rows,
           \A q \in rows : q.id # r.id,
           \A v \in Writer : at[v].pc \in {"partition", "stats"} => at[v].id # r.id,
           NEW t, at' = [at EXCEPT ![w] = t], t.pc = "partition", t.id = r.id, t.file = r.file,
           at[w].pc \notin {"partition", "stats"}, UNCHANGED <<disk, dirOf>>,
           at'["compact"].file = at["compact"].file, at'["compact"].day = at["compact"].day,
           at'["compact"].pc \in Merging => at["compact"].pc \in Merging
    PROVE  Described'
<1>1. at'[w] = t /\ \A v \in Writer \ {w} : at'[v] = at[v]
  BY AtMoves
<1>2. /\ r \notin rows /\ \A q \in rows : q.id # r.id
      /\ \A v \in Writer : at[v].pc \in {"partition", "stats"} => at[v].id # r.id
  OBVIOUS
<1>3. \A s \in rows' : \/ s.day = dirOf'[s.file] /\ s.span = DaysIn(disk[s.file])'
                       \/ \E v \in Writer : Describing(v, s)'
  <2> SUFFICES ASSUME NEW s \in rows'
               PROVE  \/ s.day = dirOf[s.file] /\ s.span = DaysIn(disk[s.file])
                      \/ \E v \in Writer : at'[v].pc \in {"partition", "stats"} /\ at'[v].id = s.id
    BY DEF Describing, DaysIn
  <2>1. CASE s = r
    BY <1>1, <2>1
  <2>2. CASE s # r
    <3>1. s \in rows
      BY <2>2
    <3>2. \A v \in Writer : Describing(v, s) => at'[v] = at[v]
      BY <1>1 DEF Describing
    <3> QED BY <3>1, <3>2 DEF Exact, Described, Describing
  <2> QED BY <2>1, <2>2
<1>4. \A v \in Writer : \A s \in rows' : Describing(v, s)' =>
         s.file = at'[v].file /\ (at'[v].pc = "stats" => s.day = dirOf'[s.file])
  <2> SUFFICES ASSUME NEW v \in Writer, NEW s \in rows', at'[v].pc \in {"partition", "stats"}, at'[v].id = s.id
               PROVE  s.file = at'[v].file /\ (at'[v].pc = "stats" => s.day = dirOf[s.file])
    BY DEF Describing
  <2>1. CASE v = w
    BY <1>1, <1>2, <2>1
  <2>2. CASE v # w
    <3>1. at'[v] = at[v] /\ s \in rows
      BY <1>1, <1>2, <2>2
    <3> QED BY <3>1 DEF Exact, Described, Describing
  <2> QED BY <2>1, <2>2
<1>5. \A v \in {"sweep", "compact"} : at'[v].pc \in {"partition", "stats"} => \E s \in rows' : s.id = at'[v].id
  <2> SUFFICES ASSUME NEW v \in {"sweep", "compact"}, at'[v].pc \in {"partition", "stats"}
               PROVE  \E s \in rows' : s.id = at'[v].id
    OBVIOUS
  <2>1. CASE v = w
    BY <1>1, <2>1
  <2>2. CASE v # w
    BY <1>1, <2>2 DEF Exact, Described, Writer
  <2> QED BY <2>1, <2>2
<1>6. at'["compact"].pc \in Merging => dirOf'[at'["compact"].file] = at'["compact"].day
  BY DEF Exact, Described
<1> QED BY <1>3, <1>4, <1>5, <1>6 DEF Described

LEMMA ExactRegAdd ==
    ASSUME CatalogInv, Exact, NEW w \in {"flush", "sweep"}, RegAdd(w), at[w] # Idle
    PROVE  Exact'
<1>1. PICK o : o = at[w]
  OBVIOUS
<1>2. o.pc = "add" /\ YetToList(at[w], o.file) /\ w \in Writer /\ w # "compact"
  BY <1>1 DEF RegAdd, YetToList, Writer
<1>3. /\ o.file \in DOMAIN disk /\ ~Listed(o.file) /\ o.file \notin Old
      /\ at["compact"].pc \in Merging => o.file # at["compact"].file
  <2>1. w = "sweep" => at["compact"] = Idle
    BY DEF Exact, SweepAlone
  <2>2. w = "sweep" => at["compact"].pc = "idle" /\ Old = {}
    BY <2>1 DEF Old, Merging, Idle
  <2>3. w = "sweep" => o.file \in DOMAIN disk /\ ~Listed(o.file)
    BY <1>1, <1>2 DEF Exact, SweepAlone
  <2>4. w = "flush" => /\ o.file \in DOMAIN disk /\ ~Listed(o.file) /\ o.file \notin Old
                       /\ at["compact"].pc \in Merging => o.file # at["compact"].file
    BY <1>2 DEF Exact, FlushUnlisted
  <2> QED BY <2>2, <2>3, <2>4 DEF Merging
<1>4. PICK n : n = Size(disk[o.file])
  OBVIOUS
<1>5. PICK i : i = spent.ids + 1
  OBVIOUS
<1>0. PICK b : b = FALSE
  OBVIOUS
<1>6. PICK r : r = NewRow(o.file, b, n)
  OBVIOUS
<1> DEFINE t == Taken(o, "id", i, "partition")
<1>7. /\ rows' = rows \cup {r} /\ at' = [at EXCEPT ![w] = t]
      /\ UNCHANGED <<disk, dirOf, total, buffer, health, raced>>
  BY <1>0, <1>1, <1>3, <1>4, <1>5, <1>6 DEF RegAdd, MovesOnWith, Taken
<1>8. DOMAIN o = {"pc", "file", "todo", "before"}
  <2>1. ListerTypes(o, Files, spent.ids)
    BY <1>1, <1>2, ListerAt DEF Dropping
  <2> QED BY <1>1, <1>2, <2>1 DEF ListerTypes, Listing, Dropping, Idle
<1>9. t.pc = "partition" /\ t.id = i
  BY <1>8, TakenNow
<1>10. t.file = o.file /\ t.todo = o.todo /\ t.before = o.before
  BY <1>8, TakenRest
<1> HIDE DEF t
<1>11. /\ r.id = i /\ r.file = o.file /\ r.absolute = b /\ r.n = n /\ r \notin rows
  BY <1>5, <1>6, NewRowIsNew
<1>12. n \in Nat
  BY <1>3, <1>4, SizeSum DEF CatalogInv, CatalogTypes
<1>13. /\ at'[w] = t /\ at'["compact"] = at["compact"]
       /\ \A v \in Writer \ {w} : at'[v] = at[v]
       /\ Superseded' = Superseded /\ Old' = Old
  BY <1>7, CompactStill
<1>14. OnceEach'
  BY <1>7, <1>13, OnceStill DEF Exact
<1>15. \A f : Listed(f)' <=> Listed(f) \/ f = o.file
  BY <1>7, <1>11 DEF Listed
<1>16. ListedOnce'
  <2>1. \A p, q \in rows' : p.file = q.file => p = q
    BY <1>3, <1>7, <1>11 DEF Exact, ListedOnce, Listed
  <2>2. \A p \in rows' : p.file \in DOMAIN disk'
    BY <1>3, <1>7, <1>11 DEF Exact, ListedOnce
  <2>3. Superseded \subseteq Old
    BY DEF Superseded, Old
  <2>4. at["compact"].pc \in Merging \ {"delete"} => \A p \in rows' : p.file \notin Superseded
    BY <1>3, <1>7, <1>11, <2>3 DEF Exact, ListedOnce
  <2>5. at["compact"].pc \in {"merge", "delete"} =>
           \A p \in at["compact"].old : \E q \in rows' : q.id = p.id /\ q.file = p.file
    BY <1>7 DEF Exact, ListedOnce
  <2>6. at["compact"].pc \in {"delete", "add"} => ~Listed(at["compact"].file)'
    <3>1. at["compact"].pc \in {"delete", "add"} => at["compact"].file # o.file /\ ~Listed(at["compact"].file)
      BY <1>3 DEF Exact, ListedOnce, Merging
    <3> QED BY <1>7, <1>11, <1>13, <3>1 DEF Listed
  <2>7. at["compact"].pc \in {"merge"} \cup Merging => \A p, q \in at["compact"].old : p.file = q.file => p = q
    BY DEF Exact, ListedOnce
  <2> QED BY <1>13, <2>1, <2>2, <2>4, <2>5, <2>6, <2>7 DEF ListedOnce
<1>17. Described'
  <2>1. at[w].pc \notin {"partition", "stats"} /\ t.id = r.id
    BY <1>1, <1>2, <1>9, <1>11
  <2>2. /\ at'["compact"].file = at["compact"].file /\ at'["compact"].day = at["compact"].day
        /\ at'["compact"].pc \in Merging => at["compact"].pc \in Merging
    BY <1>13
  <2>3. /\ rows' = rows \cup {r} /\ at' = [at EXCEPT ![w] = t] /\ t.pc = "partition" /\ t.file = r.file
        /\ UNCHANGED <<disk, dirOf>>
    BY <1>7, <1>9, <1>10, <1>11
  <2>4. /\ r \notin rows /\ \A q \in rows : q.id # r.id
        /\ \A v \in Writer : at[v].pc \in {"partition", "stats"} => at[v].id # r.id
    BY <1>6, NewRowIsNew
  <2> QED BY <1>2, <2>4, <2>1, <2>2, <2>3, DescribedMore
<1>18. Found' /\ FlushUnlisted' /\ SweepAlone'
  <2>1. Live' = Live
    BY <1>7, <1>13 DEF Live
  <2>2. CASE w = "flush"
    <3>1. at["sweep"] = Idle /\ at'["sweep"] = Idle
      BY <1>13, <2>2 DEF Exact, SweepAlone, Writer
    <3>2. \A f : ~YetToList(at["flush"], f)'
      BY <1>9, <1>13, <2>2 DEF YetToList
    <3>3. \A f : YetToList(at["flush"], f) => f = o.file
      BY <1>1, <2>2 DEF YetToList
    <3> QED BY <1>7, <1>13, <1>15, <2>1, <3>1, <3>2, <3>3 DEF Exact, Found, FlushUnlisted, SweepAlone
  <2>3. CASE w = "sweep"
    <3>1. /\ at["flush"] = Idle /\ at["compact"] = Idle /\ at'["flush"] = Idle /\ at'["sweep"] = t
          /\ t # Idle /\ at["sweep"] # Idle /\ at'["compact"] = Idle
      BY <1>9, <1>13, <2>3 DEF Exact, SweepAlone, Writer, Idle
    <3>2. \A f : YetToList(at["sweep"], f) => f = o.file
      BY <1>1, <2>3 DEF YetToList
    <3>3. Found'
      BY <3>1 DEF Found
    <3>4. FlushUnlisted'
      BY <3>1 DEF FlushUnlisted, YetToList, Idle
    <3>5. \A q \in rows' : ~q.absolute
      BY <1>0, <1>7, <1>11, <3>1 DEF Exact, SweepAlone
    <3>6. at'["sweep"].todo = at["sweep"].todo /\ at'["sweep"].file \in DOMAIN disk /\ at'["sweep"].pc = "partition"
      BY <1>1, <1>3, <1>9, <1>10, <2>3, <3>1
    <3>7. at["sweep"].todo \subseteq DOMAIN disk
      BY <3>1 DEF Exact, SweepAlone
    <3>8. \A f \in DOMAIN disk : Listed(f)' \/ f \in at["sweep"].todo
      BY <1>15, <3>1, <3>2 DEF Exact, SweepAlone
    <3>9. SweepAlone'
      BY <1>7, <3>1, <3>5, <3>6, <3>7, <3>8 DEF SweepAlone
    <3> QED BY <3>3, <3>4, <3>9
  <2> QED BY <2>2, <2>3
<1>19. Counted'
  <2> SUFFICES ASSUME ~raced PROVE Counted'
    BY <1>7 DEF Counted
  <2>1. \A v \in Writer \ {w} : at[v] = Idle /\ at'[v] = Idle
    BY <1>2, <1>13, AloneHere
  <2>2. /\ at["compact"] = Idle /\ at'["compact"] = Idle
        /\ \A v \in {"flush", "sweep"} \ {w} : at'[v].pc = "idle" /\ at[v].pc = "idle"
    BY <1>2, <2>1 DEF Writer, Idle
  <2>3. total = RowCount(rows) /\ o.before = total
    BY <1>1, <1>2, <2>2 DEF Exact, Counted
  <2>4. RowCount(rows') = RowCount(rows) + r.n
    <3>1. IsFiniteSet(rows) /\ \A q \in rows : q.n \in Nat
      BY DEF CatalogInv, CatalogTypes, RowsTypes, RowTypes
    <3> QED BY <1>7, <1>11, <1>12, <3>1, RowCountMore
  <2>5. \E q \in rows' : q.id = t.id /\ RowCount(rows') = total + q.n
    BY <1>7, <1>9, <1>11, <2>3, <2>4
  <2>6. at'["compact"].pc = "idle" /\ t.before = total
    BY <1>10, <2>2, <2>3 DEF Idle
  <2> QED BY <1>7, <1>9, <1>13, <2>2, <2>5, <2>6 DEF Counted
<1> QED BY <1>14, <1>16, <1>17, <1>18, <1>19 DEF Exact

-----------------------------------------------------------------------------
(***************************************************************************)
(* New files, and the steps of a compaction.                               *)
(***************************************************************************)
\* What a file more leaves as it was.
LEMMA FileMore ==
    ASSUME CatalogInv, NEW f, f = NewFile, NEW c, NEW d, disk' = With(disk, f, c), dirOf' = With(dirOf, f, d)
    PROVE  /\ f \notin Files /\ f \notin DOMAIN disk
           /\ DOMAIN disk' = DOMAIN disk \cup {f} /\ disk'[f] = c /\ dirOf'[f] = d
           /\ \A g \in DOMAIN disk : disk'[g] = disk[g]
           /\ \A g \in Files : dirOf'[g] = dirOf[g]
<1>1. f \notin Files /\ f \notin DOMAIN disk
  BY NewFileIsNew DEF CatalogInv
<1>2. /\ DOMAIN disk' = DOMAIN disk \cup {f} /\ disk'[f] = c
      /\ \A g \in DOMAIN disk : disk'[g] = disk[g]
  BY <1>1 DEF With
<1>3. dirOf'[f] = d /\ \A g \in Files : dirOf'[g] = dirOf[g]
  BY <1>1 DEF With, Files
<1> QED BY <1>1, <1>2, <1>3

\* Rows tell of their files what they told, as files come.
LEMMA DescribedOn ==
    ASSUME CatalogInv, Exact, UNCHANGED rows,
           \A r \in rows : dirOf'[r.file] = dirOf[r.file] /\ disk'[r.file] = disk[r.file],
           NEW w \in Writer, NEW t, at' = [at EXCEPT ![w] = t], t.pc \notin {"partition", "stats"},
           \A r \in rows : ~Describing(w, r),
           at'["compact"].pc \in Merging => dirOf'[at'["compact"].file] = at'["compact"].day
    PROVE  Described'
<1>1. at'[w] = t /\ \A v \in Writer \ {w} : at'[v] = at[v]
  BY AtMoves
<1>2. \A r \in rows : DaysIn(disk[r.file])' = DaysIn(disk[r.file])
  BY DEF DaysIn
<1>3. \A r \in rows' : \/ r.day = dirOf'[r.file] /\ r.span = DaysIn(disk[r.file])'
                       \/ \E v \in Writer : Describing(v, r)'
  <2>1. \A v \in Writer, r \in rows : Describing(v, r) => Describing(v, r)'
    BY <1>1 DEF Describing
  <2> QED BY <1>2, <2>1 DEF Exact, Described
<1>4. \A v \in Writer : \A r \in rows' : Describing(v, r)' =>
         r.file = at'[v].file /\ (at'[v].pc = "stats" => r.day = dirOf'[r.file])
  <2> SUFFICES ASSUME NEW v \in Writer, NEW r \in rows, at'[v].pc \in {"partition", "stats"}, at'[v].id = r.id
               PROVE  r.file = at'[v].file /\ (at'[v].pc = "stats" => r.day = dirOf'[r.file])
    BY DEF Describing
  <2>1. v # w /\ at'[v] = at[v]
    BY <1>1
  <2>2. r.file = at[v].file /\ (at[v].pc = "stats" => r.day = dirOf[r.file])
    BY <2>1 DEF Exact, Described, Describing
  <2> QED BY <2>1, <2>2
<1>5. \A v \in {"sweep", "compact"} : at'[v].pc \in {"partition", "stats"} => \E s \in rows' : s.id = at'[v].id
  BY <1>1 DEF Exact, Described, Writer
<1> QED BY <1>3, <1>4, <1>5 DEF Described

LEMMA ExactFlushWrite ==
    ASSUME CatalogInv, Exact, health' # "sullied", NEW upto \in buffer.out + 1..Events, FlushWrite(upto)
    PROVE  Exact'
<1>1. PICK f : f = NewFile
  OBVIOUS
<1>2. PICK c : c = [e \in Event |-> IF e \in buffer.out + 1..upto THEN 1 ELSE 0]
  OBVIOUS
<1>3. PICK d : d = DayOf[buffer.out + 1]
  OBVIOUS
<1>4. PICK t : t = [pc |-> "table", file |-> f, todo |-> {}]
  OBVIOUS
<1>5. /\ disk' = With(disk, f, c) /\ dirOf' = With(dirOf, f, d) /\ at' = [at EXCEPT !["flush"] = t]
      /\ at["flush"] = Idle /\ at["sweep"] = Idle /\ health' = health
      /\ buffer' = [buffer EXCEPT !.upto = upto] /\ (~raced' => ~raced) /\ UNCHANGED <<rows, total, spent>>
  BY <1>1, <1>2, <1>3, <1>4 DEF FlushWrite
<1>6. /\ f \notin Files /\ f \notin DOMAIN disk
      /\ DOMAIN disk' = DOMAIN disk \cup {f} /\ disk'[f] = c /\ dirOf'[f] = d
      /\ \A g \in DOMAIN disk : disk'[g] = disk[g]
      /\ \A g \in Files : dirOf'[g] = dirOf[g]
  BY <1>1, <1>5, FileMore
<1>7. /\ at'["flush"] = t /\ at'["compact"] = at["compact"] /\ at'["sweep"] = Idle
      /\ Superseded' = Superseded /\ Old' = Old
  BY <1>5, CompactStill DEF Writer
<1>8. /\ buffer.out \in 0..Events /\ Events \in Nat /\ upto \in buffer.out + 1..Events /\ DOMAIN disk \subseteq Files
      /\ buffer.upto = buffer.out /\ buffer'.upto = upto /\ buffer'.again = buffer.again
  BY <1>5, CatalogAssumption DEF CatalogInv, CatalogTypes, Buffers, Buffered
<1>9. f \notin Superseded
  BY <1>6, SupersededFiles DEF CatalogInv
<1>10. Live' = Live \cup {f} /\ f \notin Live /\ Live \subseteq DOMAIN disk
  BY <1>6, <1>7, <1>9 DEF Live
<1>11. OnceEach'
  <2>1. \A g \in DOMAIN disk', e \in Event \ buffer'.again :
           disk'[g][e] \in {0, 1} /\ (e > buffer'.upto => disk'[g][e] = 0)
    <3> SUFFICES ASSUME NEW g \in DOMAIN disk', NEW e \in Event \ buffer.again
                 PROVE  disk'[g][e] \in {0, 1} /\ (e > upto => disk'[g][e] = 0)
      BY <1>8
    <3>1. CASE g = f
      <4>1. disk'[g][e] = IF e \in buffer.out + 1..upto THEN 1 ELSE 0
        BY <1>2, <1>6, <3>1
      <4> QED BY <1>8, <4>1 DEF Event
    <3>2. CASE g # f
      <4>1. disk[g][e] \in {0, 1} /\ (e > buffer.out => disk[g][e] = 0)
        BY <1>6, <1>8, <3>2 DEF Exact, OnceEach
      <4> QED BY <1>6, <1>8, <3>2, <4>1 DEF Event
    <3> QED BY <3>1, <3>2
  <2>2. \A e \in (1..buffer'.upto) \ buffer'.again :
           \E g \in Live' : disk'[g][e] = 1 /\ \A h \in Live' \ {g} : disk'[h][e] = 0
    <3> SUFFICES ASSUME NEW e \in (1..upto) \ buffer.again
                 PROVE  \E g \in Live \cup {f} : disk'[g][e] = 1 /\ \A h \in (Live \cup {f}) \ {g} : disk'[h][e] = 0
      BY <1>8, <1>10
    <3>1. e \in Event \ buffer.again /\ c[e] = IF e \in buffer.out + 1..upto THEN 1 ELSE 0
      BY <1>2, <1>8 DEF Event
    <3>2. CASE e \in 1..buffer.out
      <4>1. PICK g \in Live : disk[g][e] = 1 /\ \A h \in Live \ {g} : disk[h][e] = 0
        BY <1>8, <3>2 DEF Exact, OnceEach
      <4>2. c[e] = 0
        BY <1>8, <3>1, <3>2
      <4>3. disk'[g][e] = 1 /\ \A h \in (Live \cup {f}) \ {g} : disk'[h][e] = 0
        BY <1>6, <1>10, <4>1, <4>2
      <4> QED BY <4>1, <4>3
    <3>3. CASE e \notin 1..buffer.out
      <4>1. e > buffer.upto /\ c[e] = 1
        BY <1>8, <3>1, <3>3
      <4>2. \A h \in Live : disk[h][e] = 0
        BY <1>10, <3>1, <4>1 DEF Exact, OnceEach
      <4> QED BY <1>6, <1>10, <4>1, <4>2
    <3> QED BY <3>2, <3>3
  <2> QED BY <2>1, <2>2 DEF OnceEach
<1>12. \A r \in rows : r.file \in Files /\ r.file \in DOMAIN disk
  BY DEF CatalogInv, CatalogTypes, RowsTypes, RowTypes, Exact, ListedOnce
<1>13. ListedOnce'
  BY <1>5, <1>6, <1>7 DEF Exact, ListedOnce, Listed
<1>14. Found' /\ FlushUnlisted' /\ SweepAlone'
  <2>1. \A g : (Listed(g)' <=> Listed(g)) /\ ~YetToList(at["flush"], g)
    BY <1>5 DEF Listed, YetToList, Idle
  <2>2. \A g : YetToList(at["flush"], g)' <=> g = f
    BY <1>4, <1>7 DEF YetToList
  <2>3. Found'
    BY <1>5, <1>7, <1>10, <2>1, <2>2 DEF Exact, Found
  <2>4. f \notin Old /\ (at["compact"].pc \in Merging => f # at["compact"].file) /\ ~Listed(f)
    <3>1. CompactTypes(at["compact"], Files, spent.ids)
      BY DEF CatalogInv, CatalogTypes, WriterTypes, Writer
    <3>2. f \notin Old /\ (at["compact"].pc \in Merging => f # at["compact"].file)
      BY <1>6, <3>1 DEF CompactTypes, RowTypes, Old, Merging, Idle
    <3> QED BY <1>6, <1>12, <3>2 DEF Listed
  <2>5. FlushUnlisted'
    BY <1>6, <1>7, <2>1, <2>2, <2>4 DEF FlushUnlisted
  <2>6. SweepAlone'
    BY <1>7 DEF SweepAlone
  <2> QED BY <2>3, <2>5, <2>6
<1>15. Described'
  <2>1. \A r \in rows : dirOf'[r.file] = dirOf[r.file] /\ disk'[r.file] = disk[r.file]
    BY <1>6, <1>12
  <2>2. "flush" \in Writer /\ t.pc = "table" /\ \A r \in rows : ~Describing("flush", r)
    BY <1>4, <1>5 DEF Writer, Describing, Idle
  <2>3. at'["compact"].pc \in Merging => dirOf'[at'["compact"].file] = at'["compact"].day
    <3>1. at["compact"].pc \in Merging => at["compact"].file \in Files
      BY <1>8 DEF CatalogInv, Covered
    <3> QED BY <1>6, <1>7, <3>1 DEF Exact, Described
  <2> QED BY <1>5, <2>1, <2>2, <2>3, DescribedOn
<1>16. Counted'
  <2>1. at'["flush"].pc = "table" /\ at["flush"].pc = "idle" /\ at'["sweep"] = at["sweep"]
    BY <1>4, <1>5, <1>7 DEF Idle
  <2> QED BY <1>5, <1>7, <2>1 DEF Exact, Counted
<1> QED BY <1>11, <1>13, <1>14, <1>15, <1>16 DEF Exact

\* A compaction at work without a race is alone, so its own total is all that counts.
LEMMA CountedAlone ==
    ASSUME CatalogInv, at["compact"] # Idle, NEW t, at' = [at EXCEPT !["compact"] = t], UNCHANGED raced,
           ~raced => /\ t.pc \in {"idle", "merge", "unlink"} => total' = RowCount(rows')
                     /\ t.pc = "total" => t.sum = RowCount(rows')
    PROVE  Counted'
<1> SUFFICES ASSUME ~raced PROVE Counted'
  BY DEF Counted
<1>1. "compact" \in Writer
  BY DEF Writer
<1>2. at'["compact"] = t /\ \A v \in Writer \ {"compact"} : at'[v] = at[v]
  BY <1>1, AtMoves
<1>3. \A v \in Writer \ {"compact"} : at[v] = Idle
  BY <1>1, AloneHere
<1>4. \A v \in {"flush", "sweep"} : at'[v].pc = "idle"
  BY <1>2, <1>3 DEF Writer, Idle
<1>5. (at'["compact"] = Idle \/ at'["compact"].pc \in {"merge", "unlink"}) => t.pc \in {"idle", "merge", "unlink"}
  BY <1>2 DEF Idle
<1> QED BY <1>2, <1>4, <1>5 DEF Counted

LEMMA CompactMovesOn ==
    ASSUME CatalogInv, NEW t, at' = [at EXCEPT !["compact"] = t]
    PROVE  /\ "compact" \in Writer /\ at'["compact"] = t
           /\ at'["flush"] = at["flush"] /\ at'["sweep"] = at["sweep"]
BY AtMoves DEF Writer

LEMMA ExactCompactStart ==
    ASSUME CatalogInv, Exact, health' # "sullied", NEW day, CompactStart(day)
    PROVE  Exact'
<1>1. PICK old : old = {r \in rows : r.day = day}
  OBVIOUS
<1>2. PICK t : t = [pc |-> "merge", day |-> day, old |-> old]
  OBVIOUS
<1>3. /\ at["compact"] = Idle /\ at["sweep"] = Idle /\ health' = health /\ at' = [at EXCEPT !["compact"] = t]
      /\ (~raced' => ~raced) /\ UNCHANGED <<disk, dirOf, rows, total, buffer>>
  BY <1>1, <1>2 DEF CompactStart, data
<1>4. /\ "compact" \in Writer /\ at'["compact"] = t
      /\ at'["flush"] = at["flush"] /\ at'["sweep"] = at["sweep"]
  BY <1>3, CompactMovesOn
<1>5. at["compact"].pc = "idle" /\ t.pc = "merge" /\ t.old = old /\ old \subseteq rows
  BY <1>1, <1>2, <1>3 DEF Idle
<1>6. Superseded' = Superseded /\ Live' = Live /\ Old' = {o.file : o \in old}
  BY <1>3, <1>4, <1>5 DEF Superseded, Live, Old, Merging
<1>7. OnceEach'
  BY <1>3, <1>6, OnceStill DEF Exact
<1>8. ListedOnce'
  BY <1>3, <1>4, <1>5 DEF Exact, ListedOnce, Merging
<1>9. Found' /\ SweepAlone'
  BY <1>3, <1>4, <1>5, <1>6 DEF Exact, Found, SweepAlone, YetToList, Listed
<1>10. FlushUnlisted'
  <2>1. \A f : Listed(f)' <=> Listed(f)
    BY <1>3 DEF Listed
  <2>2. \A f : ~Listed(f) => f \notin Old'
    BY <1>5, <1>6 DEF Listed
  <2>3. \A f : YetToList(at["flush"], f)' <=> YetToList(at["flush"], f)
    BY <1>4 DEF YetToList
  <2> QED BY <1>3, <1>4, <1>5, <2>1, <2>2, <2>3 DEF Exact, FlushUnlisted, Merging
<1>11. Described'
  <2>1. \A r \in rows : ~Describing("compact", r)
    BY <1>5 DEF Describing
  <2>2. at'["compact"].pc \notin Merging
    BY <1>4, <1>5 DEF Merging
  <2> QED BY <1>3, <1>4, <1>5, <2>1, <2>2, DescribedOn
<1>12. Counted'
  BY <1>3, <1>4, <1>5 DEF Exact, Counted
<1> QED BY <1>7, <1>8, <1>9, <1>10, <1>11, <1>12 DEF Exact

\* Of files that hold an event at most once between them, the merged one holds it once or not at all.
LEMMA MergedOnce ==
    ASSUME NEW old, IsFiniteSet(old), \A r \in old : r.file \in DOMAIN disk,
           \A r, s \in old : r.file = s.file => r = s, NEW e \in Event,
           \A f \in DOMAIN disk : disk[f][e] \in {0, 1},
           \A f, g \in DOMAIN disk : disk[f][e] = 1 /\ disk[g][e] = 1 => f = g
    PROVE  /\ Copies(e, old) \in {0, 1}
           /\ \A r \in old : disk[r.file][e] = 1 => Copies(e, old) = 1
           /\ (\A r \in old : disk[r.file][e] = 0) => Copies(e, old) = 0
<1> DEFINE F == [r \in old |-> disk[r.file][e]]
<1>1. \A r \in old : disk[r.file][e] \in {0, 1}
  OBVIOUS
<1>2. Copies(e, old) = SumOf(F, old)
  <2>1. \A r \in old : disk[r.file][e] \in Nat
    BY <1>1
  <2> QED BY <2>1, CopiesSum
<1>3. \A r \in old : F[r] = disk[r.file][e]
  OBVIOUS
<1> HIDE DEF F
<1>4. ASSUME NEW r \in old, disk[r.file][e] = 1
      PROVE  SumOf(F, old) = 1
  <2>1. F[r] = 1 /\ \A s \in old \ {r} : F[s] = 0
    BY <1>1, <1>3, <1>4
  <2>2. SumOf(F, old) = F[r]
    BY <2>1, SumOfOne
  <2> QED BY <2>1, <2>2
<1>5. ASSUME \A r \in old : disk[r.file][e] = 0
      PROVE  SumOf(F, old) = 0
  <2>1. \A r \in old : F[r] = 0
    BY <1>3, <1>5
  <2> QED BY <2>1, SumOfNothing
<1> QED BY <1>1, <1>2, <1>4, <1>5

LEMMA ExactCompactMerge ==
    ASSUME CatalogInv, Exact, CompactMerge
    PROVE  Exact'
<1>1. PICK o : o = at["compact"]
  OBVIOUS
<1>2. o # Idle /\ o.pc = "merge" /\ UNCHANGED <<rows, total, spent, buffer, health, raced>>
  BY <1>1 DEF CompactMerge, Idle
<1>3. /\ IsFiniteSet(o.old) /\ DOMAIN o = {"pc", "day", "old"} /\ \A r \in o.old : r.file \in Files
  <2>1. CompactTypes(o, Files, spent.ids)
    BY <1>1, <1>2, CompactAt
  <2> QED BY <1>2, <2>1 DEF CompactTypes, RowTypes, Merging, Idle
<1>4. at["sweep"] = Idle /\ Superseded = {} /\ Live = DOMAIN disk /\ Old = {r.file : r \in o.old}
  BY <1>1, <1>2 DEF Exact, SweepAlone, Superseded, Live, Old, Merging
<1>5. /\ \A r, s \in o.old : r.file = s.file => r = s
      /\ \A r \in o.old : \E q \in rows : q.id = r.id /\ q.file = r.file
      /\ \A q \in rows : q.file \in DOMAIN disk
  BY <1>1, <1>2 DEF Exact, ListedOnce
<1>6. \A r \in o.old : r.file \in DOMAIN disk
  BY <1>5
<1>7. PICK f : f = NewFile
  OBVIOUS
<1>8. PICK c : c = Merged(o.old)
  OBVIOUS
<1> DEFINE t == Taken(o, "file", f, "delete")
<1>9. disk' = With(disk, f, c) /\ dirOf' = With(dirOf, f, o.day) /\ at' = [at EXCEPT !["compact"] = t]
  BY <1>1, <1>6, <1>7, <1>8 DEF CompactMerge, MovesOnWith, Taken
<1>10. t.pc = "delete" /\ t.file = f
  BY <1>3, TakenNow
<1>11. t.old = o.old /\ t.day = o.day
  BY <1>3, TakenRest
<1> HIDE DEF t
<1>12. /\ f \notin Files /\ f \notin DOMAIN disk
       /\ DOMAIN disk' = DOMAIN disk \cup {f} /\ disk'[f] = c /\ dirOf'[f] = o.day
       /\ \A g \in DOMAIN disk : disk'[g] = disk[g]
       /\ \A g \in Files : dirOf'[g] = dirOf[g]
  BY <1>7, <1>9, FileMore
<1>13. /\ "compact" \in Writer /\ at'["compact"] = t
       /\ at'["flush"] = at["flush"] /\ at'["sweep"] = at["sweep"]
  BY <1>9, CompactMovesOn
<1>14. Superseded' = Old /\ Old' = Old /\ Live' = (DOMAIN disk \ Old) \cup {f} /\ f \notin Old
  <2>1. f \notin Old
    BY <1>3, <1>4, <1>12
  <2>2. Superseded' = Old /\ Old' = Old
    BY <1>4, <1>10, <1>11, <1>13 DEF Superseded, Old, Merging
  <2> QED BY <1>12, <2>1, <2>2 DEF Live
<1>15. ASSUME NEW e \in Event \ buffer.again
       PROVE  /\ c[e] \in {0, 1}
              /\ \A r \in o.old : disk[r.file][e] = 1 => c[e] = 1
              /\ (\A r \in o.old : disk[r.file][e] = 0) => c[e] = 0
  <2>1. c[e] = Copies(e, o.old)
    BY <1>8 DEF Merged
  <2>2. \A g \in DOMAIN disk : disk[g][e] \in {0, 1} /\ (e > buffer.upto => disk[g][e] = 0)
    BY DEF Exact, OnceEach
  <2>3. \A g, h \in DOMAIN disk : disk[g][e] = 1 /\ disk[h][e] = 1 => g = h
    <3> SUFFICES ASSUME NEW g \in DOMAIN disk, NEW h \in DOMAIN disk, disk[g][e] = 1, disk[h][e] = 1
                 PROVE  g = h
      OBVIOUS
    <3>1. e \in 1..buffer.upto
      <4>1. buffer.upto \in Nat /\ e \in Nat \ {0}
        BY CatalogAssumption DEF CatalogInv, CatalogTypes, Buffers, Event
      <4> QED BY <2>2, <4>1
    <3>2. PICK k \in Live : disk[k][e] = 1 /\ \A m \in Live \ {k} : disk[m][e] = 0
      BY <3>1 DEF Exact, OnceEach
    <3> QED BY <1>4, <3>2
  <2>4. /\ Copies(e, o.old) \in {0, 1}
        /\ \A r \in o.old : disk[r.file][e] = 1 => Copies(e, o.old) = 1
        /\ (\A r \in o.old : disk[r.file][e] = 0) => Copies(e, o.old) = 0
    BY <1>3, <1>5, <1>6, <2>2, <2>3, MergedOnce
  <2> QED BY <2>1, <2>4
<1>16. OnceEach'
  <2>1. \A g \in DOMAIN disk', e \in Event \ buffer'.again :
           disk'[g][e] \in {0, 1} /\ (e > buffer'.upto => disk'[g][e] = 0)
    <3> SUFFICES ASSUME NEW g \in DOMAIN disk', NEW e \in Event \ buffer.again
                 PROVE  disk'[g][e] \in {0, 1} /\ (e > buffer.upto => disk'[g][e] = 0)
      BY <1>2
    <3>1. \A h \in DOMAIN disk : disk[h][e] \in {0, 1} /\ (e > buffer.upto => disk[h][e] = 0)
      BY DEF Exact, OnceEach
    <3>2. CASE g = f
      BY <1>6, <1>12, <1>15, <3>1, <3>2
    <3>3. CASE g # f
      BY <1>12, <3>1, <3>3
    <3> QED BY <3>2, <3>3
  <2>2. \A e \in (1..buffer'.upto) \ buffer'.again :
           \E g \in Live' : disk'[g][e] = 1 /\ \A h \in Live' \ {g} : disk'[h][e] = 0
    <3> SUFFICES ASSUME NEW e \in (1..buffer.upto) \ buffer.again
                 PROVE  \E g \in Live' : disk'[g][e] = 1 /\ \A h \in Live' \ {g} : disk'[h][e] = 0
      BY <1>2
    <3>1. e \in Event \ buffer.again
      BY CatalogAssumption DEF Event, CatalogInv, CatalogTypes, Buffers
    <3>2. PICK g \in DOMAIN disk : disk[g][e] = 1 /\ \A h \in DOMAIN disk \ {g} : disk[h][e] = 0
      BY <1>4 DEF Exact, OnceEach
    <3>3. CASE g \in Old
      <4>1. PICK r \in o.old : r.file = g
        BY <1>4, <3>3
      <4>2. c[e] = 1
        BY <1>15, <3>1, <3>2, <4>1
      <4> QED BY <1>12, <1>14, <3>2, <3>3, <4>2
    <3>4. CASE g \notin Old
      <4>1. \A r \in o.old : disk[r.file][e] = 0
        BY <1>4, <1>6, <3>2, <3>4
      <4>2. c[e] = 0
        BY <1>15, <3>1, <4>1
      <4> QED BY <1>12, <1>14, <3>2, <3>4, <4>2
    <3> QED BY <3>3, <3>4
  <2> QED BY <2>1, <2>2 DEF OnceEach
<1>17. \A r \in rows : r.file \in Files /\ r.file \in DOMAIN disk
  BY DEF CatalogInv, CatalogTypes, RowsTypes, RowTypes, Exact, ListedOnce
<1>18. \A g : Listed(g)' <=> Listed(g)
  BY <1>2 DEF Listed
<1>19. ListedOnce'
  <2>1. ~Listed(at["compact"].file)'
    BY <1>2, <1>10, <1>12, <1>13, <1>17 DEF Listed
  <2>2. \A r \in rows' : r.file \in DOMAIN disk'
    BY <1>2, <1>12, <1>17
  <2>3. \A r, s \in rows' : r.file = s.file => r = s
    BY <1>2 DEF Exact, ListedOnce
  <2> QED BY <1>2, <1>5, <1>10, <1>11, <1>13, <2>1, <2>2, <2>3 DEF ListedOnce, Merging
<1>20. \A g : YetToList(at["flush"], g)' <=> YetToList(at["flush"], g)
  BY <1>13 DEF YetToList
<1>21. Found'
  BY <1>1, <1>2, <1>4, <1>10, <1>13, <1>14, <1>18, <1>20 DEF Exact, Found
<1>22. FlushUnlisted'
  <2>1. \A g : YetToList(at["flush"], g) => g # f /\ g \in DOMAIN disk'
    BY <1>12 DEF Exact, FlushUnlisted
  <2> QED BY <1>10, <1>13, <1>14, <1>18, <1>20, <2>1 DEF Exact, FlushUnlisted
<1>23. SweepAlone'
  BY <1>4, <1>13 DEF SweepAlone
<1>24. Described'
  <2>1. \A r \in rows : dirOf'[r.file] = dirOf[r.file] /\ disk'[r.file] = disk[r.file]
    BY <1>12, <1>17
  <2>2. t.pc \notin {"partition", "stats"} /\ \A r \in rows : ~Describing("compact", r)
    BY <1>1, <1>2, <1>10 DEF Describing
  <2>3. at'["compact"].pc \in Merging => dirOf'[at'["compact"].file] = at'["compact"].day
    BY <1>10, <1>11, <1>12, <1>13
  <2>4. UNCHANGED rows
    BY <1>2
  <2> QED BY <1>9, <1>13, <2>1, <2>2, <2>3, <2>4, DescribedOn
<1>25. Counted'
  BY <1>1, <1>2, <1>9, <1>10, CountedAlone
<1> QED BY <1>16, <1>19, <1>21, <1>22, <1>23, <1>24, <1>25 DEF Exact

LEMMA ExactCompactDelete ==
    ASSUME CatalogInv, Exact, CompactDelete
    PROVE  Exact'
<1>1. PICK o : o = at["compact"]
  OBVIOUS
<1> DEFINE t == [o EXCEPT !.pc = "add"]
<1>2. /\ o.pc = "delete" /\ at' = [at EXCEPT !["compact"] = t] /\ o # Idle
      /\ rows' = {r \in rows : \A q \in o.old : q.id # r.id}
      /\ UNCHANGED <<disk, dirOf, total, buffer, health, raced>> /\ o.pc \in Merging
  BY <1>1 DEF CompactDelete, MovesOn, Idle, Merging
<1>3. DOMAIN o = {"pc", "day", "old", "file"}
  BY <1>1, <1>2, Merges
<1>4. t.pc = "add" /\ t.file = o.file /\ t.old = o.old /\ t.day = o.day
  BY <1>3
<1> HIDE DEF t
<1>5. /\ "compact" \in Writer /\ at'["compact"] = t
      /\ at'["flush"] = at["flush"] /\ at'["sweep"] = at["sweep"]
  BY <1>2, CompactMovesOn
<1>6. at["sweep"] = Idle /\ Superseded = {q.file : q \in o.old} /\ Old = Superseded
  BY <1>1, <1>2 DEF Exact, SweepAlone, Superseded, Old, Merging
<1>7. Superseded' = Superseded /\ Old' = Old /\ Live' = Live
  BY <1>2, <1>4, <1>5, <1>6 DEF Superseded, Old, Live, Merging
<1>8. \A r \in rows : r \in rows' <=> r.file \notin Superseded
  <2>1. \A q \in o.old : \E r \in rows : r.id = q.id /\ r.file = q.file
    BY <1>1, <1>2 DEF Exact, ListedOnce
  <2>2. /\ \A r, s \in rows : r.file = s.file => r = s
        /\ \A r, s \in rows : r.id = s.id => r = s
    BY DEF Exact, ListedOnce, CatalogInv, CatalogTypes, RowsTypes
  <2> QED BY <1>2, <1>6, <2>1, <2>2
<1>9. rows' \subseteq rows
  BY <1>2
<1>10. OnceEach'
  BY <1>2, <1>7, OnceStill DEF Exact
<1>11. (\A f : Listed(f)' => Listed(f)) /\ \A f \in Live : Listed(f) => Listed(f)'
  BY <1>8, <1>9 DEF Listed, Live
<1>12. ListedOnce'
  <2>1. ~Listed(at["compact"].file)'
    <3>1. ~Listed(o.file)
      BY <1>1, <1>2 DEF Exact, ListedOnce
    <3> QED BY <1>4, <1>5, <1>9, <3>1 DEF Listed
  <2>2. \A r, s \in rows' : r.file = s.file => r = s
    BY <1>9 DEF Exact, ListedOnce
  <2>3. \A r \in rows' : r.file \in DOMAIN disk' /\ r.file \notin Superseded
    BY <1>2, <1>8, <1>9 DEF Exact, ListedOnce
  <2>4. \A p, q \in o.old : p.file = q.file => p = q
    BY <1>1, <1>2 DEF Exact, ListedOnce
  <2> QED BY <1>4, <1>5, <1>7, <2>1, <2>2, <2>3, <2>4 DEF ListedOnce
<1>13. Found'
  BY <1>1, <1>2, <1>4, <1>5, <1>7, <1>11 DEF Exact, Found, YetToList
<1>14. FlushUnlisted'
  BY <1>1, <1>2, <1>4, <1>5, <1>7, <1>11 DEF Exact, FlushUnlisted, YetToList, Merging
<1>15. SweepAlone'
  BY <1>5, <1>6 DEF SweepAlone
<1>16. Described'
  <2>1. \A r \in rows : ~Describing("compact", r)
    BY <1>1, <1>2 DEF Describing
  <2>2. \A v \in Writer, r \in rows : Describing(v, r)' <=> Describing(v, r)
    <3>1. \A v \in Writer \ {"compact"} : at'[v] = at[v]
      BY <1>2, <1>5, AtMoves
    <3> QED BY <1>4, <1>5, <2>1, <3>1 DEF Describing
  <2>3. \A r \in rows : DaysIn(disk[r.file])' = DaysIn(disk[r.file])
    BY <1>2 DEF DaysIn
  <2>4. \A r \in rows' : \/ r.day = dirOf'[r.file] /\ r.span = DaysIn(disk[r.file])'
                         \/ \E v \in Writer : Describing(v, r)'
    BY <1>2, <1>9, <2>2, <2>3 DEF Exact, Described
  <2>5. \A v \in Writer : \A r \in rows' : Describing(v, r)' =>
           r.file = at'[v].file /\ (at'[v].pc = "stats" => r.day = dirOf'[r.file])
    <3> SUFFICES ASSUME NEW v \in Writer, NEW r \in rows', Describing(v, r)
                 PROVE  r.file = at'[v].file /\ (at'[v].pc = "stats" => r.day = dirOf'[r.file])
      BY <1>9, <2>2
    <3>1. v # "compact" /\ at'[v] = at[v]
      BY <1>2, <1>5, <1>9, <2>1, AtMoves
    <3> QED BY <1>2, <1>9, <3>1 DEF Exact, Described
  <2>6. \A v \in {"sweep", "compact"} : at'[v].pc \notin {"partition", "stats"}
    BY <1>4, <1>5, <1>6 DEF Idle
  <2>7. dirOf'[at'["compact"].file] = at'["compact"].day
    BY <1>1, <1>2, <1>4, <1>5 DEF Exact, Described
  <2> QED BY <2>4, <2>5, <2>6, <2>7 DEF Described
<1>17. Counted'
  <2>1. at["compact"] # Idle /\ t.pc \notin {"idle", "merge", "unlink", "total"} /\ raced' = raced
    BY <1>1, <1>2, <1>4
  <2> QED BY <1>2, <2>1, CountedAlone
<1> QED BY <1>10, <1>12, <1>13, <1>14, <1>15, <1>16, <1>17 DEF Exact

LEMMA ExactCompactAdd ==
    ASSUME CatalogInv, Exact, CompactAdd
    PROVE  Exact'
<1>1. PICK o : o = at["compact"]
  OBVIOUS
<1>2. PICK i : i = spent.ids + 1
  OBVIOUS
<1>3. PICK b : b = TRUE
  OBVIOUS
<1>4. PICK n : n = Size(disk[o.file])
  OBVIOUS
<1>5. PICK r : r = NewRow(o.file, b, n)
  OBVIOUS
<1> DEFINE t == Taken(o, "id", i, "partition")
<1>6. /\ o.pc = "add" /\ at' = [at EXCEPT !["compact"] = t] /\ rows' = rows \cup {r}
      /\ UNCHANGED <<disk, dirOf, total, buffer, health, raced>> /\ o.pc \in Merging
  BY <1>1, <1>2, <1>3, <1>4, <1>5 DEF CompactAdd, MovesOnWith, Taken, Merging
<1>7. o # Idle
  BY <1>6 DEF Idle
<1>8. DOMAIN o = {"pc", "day", "old", "file"}
  BY <1>1, <1>6, <1>7, Merges
<1>9. t.pc = "partition" /\ t.id = i
  BY <1>8, TakenNow
<1>10. t.file = o.file /\ t.old = o.old /\ t.day = o.day
  BY <1>8, TakenRest
<1> HIDE DEF t
<1>11. /\ "compact" \in Writer /\ at'["compact"] = t
       /\ at'["flush"] = at["flush"] /\ at'["sweep"] = at["sweep"]
  BY <1>6, CompactMovesOn
<1>12. at["sweep"] = Idle /\ Superseded = {q.file : q \in o.old} /\ Old = Superseded
  BY <1>1, <1>6, <1>7 DEF Exact, SweepAlone, Superseded, Old, Merging
<1>13. Superseded' = Superseded /\ Old' = Old /\ Live' = Live
  BY <1>6, <1>9, <1>10, <1>11, <1>12 DEF Superseded, Old, Live, Merging
<1>14. /\ r.id = i /\ r.file = o.file /\ r \notin rows /\ \A q \in rows : q.id # r.id
       /\ \A v \in Writer : at[v].pc \in {"partition", "stats"} => at[v].id # r.id
  BY <1>2, <1>5, NewRowIsNew
<1>15. o.file \in DOMAIN disk /\ o.file \notin Superseded /\ ~Listed(o.file)
  <2>1. ~Listed(o.file)
    BY <1>1, <1>6 DEF Exact, ListedOnce
  <2> QED BY <1>1, <1>6, <2>1 DEF CatalogInv, Covered
<1>16. \A f : Listed(f)' <=> Listed(f) \/ f = o.file
  BY <1>6, <1>14 DEF Listed
<1>17. OnceEach'
  BY <1>6, <1>13, OnceStill DEF Exact
<1>18. ListedOnce'
  <2>1. \A p, q \in rows' : p.file = q.file => p = q
    BY <1>6, <1>14, <1>15 DEF Exact, ListedOnce, Listed
  <2>2. \A p \in rows : p.file \in DOMAIN disk /\ p.file \notin Superseded
    BY <1>1, <1>6 DEF Exact, ListedOnce
  <2>3. \A p \in rows' : p.file \in DOMAIN disk' /\ p.file \notin Superseded
    BY <1>6, <1>14, <1>15, <2>2
  <2>4. \A p, q \in o.old : p.file = q.file => p = q
    BY <1>1, <1>6 DEF Exact, ListedOnce
  <2> QED BY <1>9, <1>10, <1>11, <1>13, <2>1, <2>3, <2>4 DEF ListedOnce
<1>19. \A f : YetToList(at["flush"], f)' <=> YetToList(at["flush"], f)
  BY <1>11 DEF YetToList
<1>20. Found'
  BY <1>1, <1>6, <1>11, <1>13, <1>16, <1>19 DEF Exact, Found
<1>21. FlushUnlisted'
  BY <1>1, <1>6, <1>10, <1>11, <1>13, <1>16, <1>19 DEF Exact, FlushUnlisted
<1>22. SweepAlone'
  BY <1>11, <1>12 DEF SweepAlone
<1>23. Described'
  <2>1. at["compact"].pc \notin {"partition", "stats"} /\ t.id = r.id
    BY <1>1, <1>6, <1>9, <1>14
  <2>2. /\ at'["compact"].file = at["compact"].file /\ at'["compact"].day = at["compact"].day
        /\ at'["compact"].pc \in Merging => at["compact"].pc \in Merging
    BY <1>1, <1>6, <1>10, <1>11
  <2>3. /\ rows' = rows \cup {r} /\ at' = [at EXCEPT !["compact"] = t] /\ t.pc = "partition" /\ t.file = r.file
        /\ UNCHANGED <<disk, dirOf>>
    BY <1>6, <1>9, <1>10, <1>14
  <2>4. /\ r \notin rows /\ \A q \in rows : q.id # r.id
        /\ \A v \in Writer : at[v].pc \in {"partition", "stats"} => at[v].id # r.id
    BY <1>5, NewRowIsNew
  <2>5. "compact" \in Writer
    BY DEF Writer
  <2> QED BY <2>5, <2>4, <2>1, <2>2, <2>3, DescribedMore
<1>24. Counted'
  <2>1. at["compact"] # Idle /\ t.pc \notin {"idle", "merge", "unlink", "total"} /\ raced' = raced
    BY <1>1, <1>6, <1>7, <1>9
  <2> QED BY <1>6, <2>1, CountedAlone
<1> QED BY <1>17, <1>18, <1>20, <1>21, <1>22, <1>23, <1>24 DEF Exact

\* A compaction's step past its rows, short of the end.
LEMMA ExactMoves ==
    ASSUME CatalogInv, Exact, NEW o, o = at["compact"], o # Idle, o.pc \in {"sum", "total"},
           NEW t, at' = [at EXCEPT !["compact"] = t], t.pc \in {"total", "unlink"},
           t.file = o.file, t.old = o.old, t.day = o.day,
           UNCHANGED <<disk, dirOf, rows, buffer, health, raced>>, Counted'
    PROVE  Exact'
<1>1. /\ "compact" \in Writer /\ at'["compact"] = t
      /\ at'["flush"] = at["flush"] /\ at'["sweep"] = at["sweep"]
  BY CompactMovesOn
<1>2. at["sweep"] = Idle /\ o.pc \in Merging /\ t.pc \in Merging
  BY DEF Exact, SweepAlone, Merging
<1>3. Superseded' = Superseded /\ Old' = Old /\ Live' = Live
  BY <1>1, <1>2 DEF Superseded, Old, Live
<1>4. \A f : Listed(f)' <=> Listed(f)
  BY DEF Listed
<1>5. OnceEach'
  BY <1>3, OnceStill DEF Exact
<1>6. ListedOnce'
  BY <1>1, <1>2, <1>3 DEF Exact, ListedOnce
<1>7. Found' /\ FlushUnlisted' /\ SweepAlone'
  <2>1. \A f : YetToList(at["flush"], f)' <=> YetToList(at["flush"], f)
    BY <1>1 DEF YetToList
  <2> QED BY <1>1, <1>2, <1>3, <1>4, <2>1 DEF Exact, Found, FlushUnlisted, SweepAlone
<1>8. Described'
  <2>1. t.pc \notin {"partition", "stats"} /\ \A r \in rows : ~Describing("compact", r)
    BY DEF Describing
  <2>2. at'["compact"].pc \in Merging => dirOf'[at'["compact"].file] = at'["compact"].day
    BY <1>1, <1>2 DEF Exact, Described
  <2>3. \A r \in rows : dirOf'[r.file] = dirOf[r.file] /\ disk'[r.file] = disk[r.file]
    OBVIOUS
  <2> QED BY <1>1, <2>1, <2>2, <2>3, DescribedOn
<1> QED BY <1>5, <1>6, <1>7, <1>8 DEF Exact

LEMMA ExactCompactSum ==
    ASSUME CatalogInv, Exact, CompactSum
    PROVE  Exact'
<1>1. PICK o : o = at["compact"]
  OBVIOUS
<1>2. PICK n : n = RowCount(rows)
  OBVIOUS
<1> DEFINE t == Taken(o, "sum", n, "total")
<1>3. /\ o.pc = "sum" /\ UNCHANGED <<disk, dirOf, rows, buffer, health, raced>>
      /\ at' = [at EXCEPT !["compact"] = t] /\ o.pc \in Merging
  BY <1>1, <1>2 DEF CompactSum, MovesOnWith, Taken, Merging, data
<1>4. o # Idle
  BY <1>3 DEF Idle
<1>5. DOMAIN o = {"pc", "day", "old", "file", "id"}
  BY <1>1, <1>3, <1>4, Merges
<1>6. t.pc = "total" /\ t.sum = n
  BY <1>5, TakenNow
<1>7. t.file = o.file /\ t.old = o.old /\ t.day = o.day
  BY <1>5, TakenRest
<1> HIDE DEF t
<1>8. Counted'
  <2>1. t.pc \notin {"idle", "merge", "unlink"} /\ t.sum = RowCount(rows') /\ at["compact"] # Idle /\ raced' = raced
    BY <1>1, <1>2, <1>3, <1>4, <1>6
  <2> QED BY <1>3, <2>1, CountedAlone
<1> QED BY <1>1, <1>3, <1>4, <1>6, <1>7, <1>8, ExactMoves

LEMMA ExactCompactTotal ==
    ASSUME CatalogInv, Exact, CompactTotal
    PROVE  Exact'
<1>1. PICK o : o = at["compact"]
  OBVIOUS
<1> DEFINE t == [o EXCEPT !.pc = "unlink"]
<1>2. /\ o.pc = "total" /\ total' = o.sum /\ UNCHANGED <<disk, dirOf, rows, buffer, health, raced>>
      /\ at' = [at EXCEPT !["compact"] = t] /\ o # Idle /\ o.pc \in Merging
  BY <1>1 DEF CompactTotal, MovesOn, Idle, Merging
<1>3. DOMAIN o = {"pc", "day", "old", "file", "id", "sum"}
  BY <1>1, <1>2, Merges
<1>4. t.pc = "unlink" /\ t.file = o.file /\ t.old = o.old /\ t.day = o.day
  BY <1>3
<1> HIDE DEF t
<1>5. Counted'
  <2>1. ~raced => total' = RowCount(rows')
    BY <1>1, <1>2 DEF Exact, Counted
  <2>2. t.pc # "total" /\ at["compact"] # Idle /\ raced' = raced
    BY <1>1, <1>2, <1>4
  <2> QED BY <1>2, <2>1, <2>2, CountedAlone
<1> QED BY <1>1, <1>2, <1>4, <1>5, ExactMoves

\* What goes from the disk, no row lists and the merged file holds.
LEMMA ExactCompactUnlink ==
    ASSUME CatalogInv, Exact, CompactUnlink
    PROVE  Exact'
<1>1. PICK o : o = at["compact"]
  OBVIOUS
<1>2. /\ o.pc = "unlink" /\ UNCHANGED <<dirOf, rows, total, buffer, health, raced>> /\ o # Idle /\ o.pc \in Merging
  BY <1>1 DEF CompactUnlink, Idle, Merging
<1>3. /\ at["sweep"] = Idle /\ Superseded = {r.file : r \in o.old} /\ Old = Superseded
      /\ \A r \in rows : r.file \in DOMAIN disk /\ r.file \notin Superseded
  BY <1>1, <1>2 DEF Exact, SweepAlone, ListedOnce, Superseded, Old, Merging
<1>4. \A f : Listed(f)' <=> Listed(f)
  BY <1>2 DEF Listed
<1>5. ~raced => total = RowCount(rows) /\ \A v \in {"flush", "sweep"} : at[v].pc = "idle"
  <2>1. ~raced => \A v \in Writer \ {"compact"} : at[v] = Idle
    BY <1>1, <1>2, AloneHere DEF Writer
  <2>2. ~raced => \A v \in {"flush", "sweep"} : at[v].pc = "idle"
    BY <2>1 DEF Writer, Idle
  <2> QED BY <1>1, <1>2, <2>2 DEF Exact, Counted
<1>6. CASE Doomed = {}
  <2>1. at' = [at EXCEPT !["compact"] = Idle] /\ UNCHANGED disk
    BY <1>6 DEF CompactUnlink, Stops
  <2>2. /\ "compact" \in Writer /\ at'["compact"] = Idle
        /\ at'["flush"] = at["flush"] /\ at'["sweep"] = at["sweep"] /\ Idle.pc = "idle"
    BY <2>1, CompactMovesOn DEF Idle
  <2>3. Superseded' = {} /\ Old' = {} /\ Live' = Live
    BY <1>1, <1>3, <1>6, <2>1, <2>2 DEF Superseded, Old, Live, Doomed, Merging
  <2>4. OnceEach'
    BY <1>2, <2>1, <2>3 DEF Exact, OnceEach
  <2>5. ListedOnce'
    BY <1>2, <2>1, <2>2 DEF Exact, ListedOnce, Merging
  <2>6. Found' /\ FlushUnlisted' /\ SweepAlone'
    <3>1. \A f : YetToList(at["flush"], f)' <=> YetToList(at["flush"], f)
      BY <2>2 DEF YetToList
    <3> QED BY <1>1, <1>2, <1>3, <1>4, <2>1, <2>2, <2>3, <3>1 DEF Exact, Found, FlushUnlisted, SweepAlone, Merging
  <2>7. Described'
    <3>1. \A r \in rows : ~Describing("compact", r)
      BY <1>1, <1>2 DEF Describing
    <3>2. at'["compact"].pc \notin Merging
      BY <2>2 DEF Merging
    <3> QED BY <1>2, <2>1, <2>2, <3>1, <3>2, DescribedOn
  <2>8. Counted'
    BY <1>2, <1>5, <2>2 DEF Counted
  <2> QED BY <2>4, <2>5, <2>6, <2>7, <2>8 DEF Exact
<1>7. CASE Doomed # {}
  <2>1. PICK f \in Doomed : disk' = [g \in DOMAIN disk \ {f} |-> disk[g]]
    BY <1>7 DEF CompactUnlink
  <2>2. at' = at
    BY <1>7 DEF CompactUnlink
  <2>3. f \in Superseded /\ f \in DOMAIN disk
    BY <1>1, <1>3 DEF Doomed
  <2>4. DOMAIN disk' = DOMAIN disk \ {f} /\ \A g \in DOMAIN disk \ {f} : disk'[g] = disk[g]
    BY <2>1
  <2>5. Superseded' = Superseded /\ Old' = Old /\ Live' = Live
    BY <2>2, <2>3, <2>4 DEF Superseded, Old, Live
  <2>6. OnceEach'
    <3>1. \A g \in Live : disk'[g] = disk[g]
      BY <2>3, <2>4 DEF Live
    <3>2. \A g \in DOMAIN disk', e \in Event \ buffer'.again :
             disk'[g][e] \in {0, 1} /\ (e > buffer'.upto => disk'[g][e] = 0)
      BY <1>2, <2>4 DEF Exact, OnceEach
    <3> QED BY <1>2, <2>5, <3>1, <3>2 DEF Exact, OnceEach
  <2>7. \A r \in rows : r.file \in DOMAIN disk' /\ disk'[r.file] = disk[r.file]
    BY <1>3, <2>3, <2>4
  <2>8. ListedOnce'
    BY <1>2, <2>2, <2>5, <2>7 DEF Exact, ListedOnce, Listed
  <2>9. Found' /\ FlushUnlisted' /\ SweepAlone'
    <3>1. \A g : YetToList(at["flush"], g)' <=> YetToList(at["flush"], g)
      BY <2>2 DEF YetToList
    <3>2. \A g : YetToList(at["flush"], g) => g \in DOMAIN disk'
      BY <1>3, <2>3, <2>4 DEF Exact, FlushUnlisted
    <3>3. Found'
      BY <1>2, <1>4, <2>2, <2>5, <3>1 DEF Exact, Found
    <3>4. FlushUnlisted'
      BY <1>4, <2>2, <2>5, <3>1, <3>2 DEF Exact, FlushUnlisted
    <3>5. SweepAlone'
      BY <1>3, <2>2 DEF SweepAlone
    <3> QED BY <3>3, <3>4, <3>5
  <2>10. Described'
    <3>1. \A r \in rows : DaysIn(disk[r.file])' = DaysIn(disk[r.file])
      BY <2>7 DEF DaysIn
    <3> QED BY <1>2, <2>2, <3>1 DEF Exact, Described, Describing
  <2>11. Counted'
    BY <1>2, <2>2 DEF Exact, Counted
  <2> QED BY <2>6, <2>8, <2>9, <2>10, <2>11 DEF Exact
<1> QED BY <1>6, <1>7

-----------------------------------------------------------------------------
(***************************************************************************)
(* Scans of a quiet catalog.                                               *)
(***************************************************************************)
\* A registration and a compaction tell their row what its file is.
LEMMA ExactRegDescribes ==
    ASSUME CatalogInv, Exact, NEW w \in {"flush", "sweep"}, RegPartition(w) \/ RegStats(w)
    PROVE  Exact'
<1>1. w \in Writer /\ w # "compact"
  BY DEF Writer
<1>2. ASSUME RegPartition(w) PROVE Exact'
  <2>1. Tells(w, "partition", "stats", "day", dirOf[at[w].file])
    BY DEF Tells
  <2> QED BY <1>1, <1>2, <2>1, ExactDescribe DEF RegPartition
<1>3. ASSUME RegStats(w) PROVE Exact'
  <2>1. Tells(w, "stats", "total", "span", DaysIn(disk[at[w].file]))
    BY <1>1 DEF Tells
  <2> QED BY <1>1, <1>3, <2>1, ExactDescribe DEF RegStats
<1> QED BY <1>2, <1>3

LEMMA ExactCompactDescribes ==
    ASSUME CatalogInv, Exact, CompactPartition \/ CompactStats
    PROVE  Exact'
<1>1. "compact" \in Writer
  BY DEF Writer
<1>2. ASSUME CompactPartition PROVE Exact'
  <2>1. at["compact"].pc = "partition"
    BY <1>2 DEF CompactPartition, Describe
  <2>2. at["compact"].day = dirOf[at["compact"].file]
    BY <2>1 DEF Exact, Described, Merging
  <2>3. Tells("compact", "partition", "stats", "day", at["compact"].day)
    BY <2>2 DEF Tells
  <2> QED BY <1>1, <1>2, <2>3, ExactDescribe DEF CompactPartition
<1>3. ASSUME CompactStats PROVE Exact'
  <2>1. Tells("compact", "stats", "sum", "span", DaysIn(disk[at["compact"].file]))
    BY DEF Tells
  <2> QED BY <1>1, <1>3, <2>1, ExactDescribe DEF CompactStats
<1> QED BY <1>2, <1>3

\* What is not sullied now, was not before.
LEMMA NeverHealed ==
    ASSUME [Next]_vars, health = "sullied"
    PROVE  health' = "sullied"
<1>1. ASSUME NEW w, Registers(w) PROVE health' = health
  BY <1>1 DEF Registers, RegTable, RegCheck, RegAdd, RegPartition, RegStats, RegStatsUnread, RegTotal, Describe
<1>2. ASSUME Compacts PROVE health' = "sullied"
  BY <1>2 DEF Compacts, CompactStart, CompactMerge, CompactDelete, CompactAdd, CompactPartition, CompactStats,
              CompactSum, CompactTotal, CompactUnlink, Describe
<1>3. ASSUME NEW w, Fail(w) PROVE health' = "sullied"
  BY <1>3 DEF Fail, After
<1>4. ASSUME NEW upto, FlushWrite(upto) PROVE health' = "sullied"
  BY <1>4 DEF FlushWrite
<1>5. ASSUME NEW f, SweepNext(f) PROVE health' = "sullied"
  BY <1>5 DEF SweepNext
<1>6. ASSUME SweepStart \/ SweepEnd PROVE health' = "sullied"
  BY <1>6 DEF SweepStart, SweepEnd
<1>7. ASSUME FlushDrop \/ Die PROVE health' = "sullied"
  BY <1>7 DEF FlushDrop, Die, After
<1> QED BY <1>7, <1>1, <1>2, <1>3, <1>4, <1>5, <1>6 DEF Next, vars

LEMMA ExactRegisters ==
    ASSUME CatalogInv, Exact, NEW w \in {"flush", "sweep"}, at[w] # Idle, Registers(w)
    PROVE  Exact'
BY ExactRegTable, ExactRegCheck, ExactRegAdd, ExactRegDescribes, ExactRegStatsUnread, ExactRegTotal DEF Registers

LEMMA ExactCompacts ==
    ASSUME CatalogInv, Exact, health' # "sullied", Compacts
    PROVE  Exact'
BY ExactCompactStart, ExactCompactMerge, ExactCompactDelete, ExactCompactAdd, ExactCompactDescribes,
   ExactCompactSum, ExactCompactTotal, ExactCompactUnlink DEF Compacts

LEMMA ExactStill ==
    ASSUME Exact, UNCHANGED vars
    PROVE  Exact'
<1>1. Superseded' = Superseded /\ Old' = Old /\ Live' = Live
  BY DEF vars, Superseded, Old, Live
<1>2. \A f : Listed(f)' <=> Listed(f)
  BY DEF vars, Listed
<1>3. OnceEach' /\ ListedOnce' /\ Counted'
  BY <1>1, <1>2 DEF Exact, vars, OnceEach, ListedOnce, Counted
<1>4. Found' /\ FlushUnlisted' /\ SweepAlone'
  BY <1>1, <1>2 DEF Exact, vars, Found, FlushUnlisted, SweepAlone, YetToList
<1>5. Described'
  BY DEF Exact, vars, Described, Describing, DaysIn
<1> QED BY <1>3, <1>4, <1>5 DEF Exact

ExactInv == CatalogInv /\ (health # "sullied" => Exact)

LEMMA ExactInit == Init => ExactInv
<1> SUFFICES ASSUME Init PROVE ExactInv
  OBVIOUS
<1>1. DOMAIN disk = {} /\ rows = {} /\ total = 0 /\ buffer.upto = 0 /\ \A w \in Writer : at[w] = Idle
  BY DEF Init, Empty
<1>2. at["flush"] = Idle /\ at["sweep"] = Idle /\ at["compact"] = Idle /\ Idle.pc = "idle"
  BY <1>1 DEF Writer, Idle
<1>3. Superseded = {} /\ Live = {}
  BY <1>1, <1>2 DEF Superseded, Live, Merging
<1>4. RowCount({}) = 0
  <2>1. IsFiniteSet({}) /\ \A r \in {} : r.n \in Nat
    BY FS_EmptySet
  <2>2. RowCount({}) = SumOf([r \in {} |-> r.n], {})
    BY <2>1, RowCountSum
  <2>3. SumOf([r \in {} |-> r.n], {}) = 0
    BY <2>1, SumOfNothing
  <2> QED BY <2>2, <2>3
<1>5. OnceEach /\ ListedOnce /\ Found
  BY <1>1, <1>2, <1>3 DEF OnceEach, ListedOnce, Found, Merging
<1>6. FlushUnlisted /\ SweepAlone
  BY <1>2 DEF FlushUnlisted, SweepAlone, YetToList
<1>7. Described
  BY <1>1, <1>2 DEF Described, Merging
<1>8. Counted
  BY <1>1, <1>2, <1>4 DEF Counted
<1> QED BY <1>5, <1>6, <1>7, <1>8, CatalogInit DEF ExactInv, Exact

LEMMA ExactNext == ExactInv /\ [Next]_vars => ExactInv'
<1> SUFFICES ASSUME ExactInv, [Next]_vars PROVE ExactInv'
  OBVIOUS
<1>1. CatalogInv' /\ CatalogInv
  BY CatalogNext DEF ExactInv
<1>2. ASSUME health' # "sullied" PROVE Exact'
  <2>1. health # "sullied" /\ Exact
    BY <1>2, NeverHealed DEF ExactInv
  <2>2. CASE UNCHANGED vars
    BY <2>1, <2>2, ExactStill
  <2>3. CASE Next
    BY <1>1, <1>2, <2>1, <2>3, ExactFlushWrite, ExactFlushDrop, ExactSweepStart, ExactSweepEnd, ExactSweepNext,
       ExactRegisters, ExactCompacts, ExactFail, ExactDie DEF Next
  <2> QED BY <2>2, <2>3
<1> QED BY <1>1, <1>2 DEF ExactInv

\* Where all is quiet, every file is listed, and every row says where its file
\* is and which days it holds.
LEMMA QuietCatalog ==
    ASSUME CatalogInv, Exact, Settled, health = "clean"
    PROVE  /\ \A f \in DOMAIN disk : Listed(f)
           /\ \A r \in rows : /\ r.file \in DOMAIN disk /\ r.day = dirOf[r.file]
                              /\ r.span = DaysIn(disk[r.file])
           /\ \A r, s \in rows : r.file = s.file => r = s
           /\ Live = DOMAIN disk
           /\ ~raced => total = RowCount(rows)
<1>1. \A w \in Writer : at[w] = Idle /\ at[w].pc = "idle"
  BY DEF Settled, Idle
<1>2. at["flush"].pc = "idle" /\ at["compact"] = Idle /\ at["compact"].pc = "idle" /\ at["sweep"] = Idle
      /\ at["sweep"].pc = "idle"
  BY <1>1 DEF Writer
<1>3. Superseded = {}
  BY <1>2 DEF Superseded, Merging
<1>4. Live = DOMAIN disk
  BY <1>3 DEF Live
<1>5. \A f \in DOMAIN disk : Listed(f)
  BY <1>2, <1>4 DEF Exact, Found, YetToList
<1>6. \A r \in rows : \A w \in Writer : ~Describing(w, r)
  BY <1>1 DEF Describing
<1>7. \A r \in rows : r.day = dirOf[r.file] /\ r.span = DaysIn(disk[r.file])
  BY <1>6 DEF Exact, Described
<1>8. (\A r \in rows : r.file \in DOMAIN disk) /\ \A r, s \in rows : r.file = s.file => r = s
  BY DEF Exact, ListedOnce
<1>9. ~raced => total = RowCount(rows)
  BY <1>2 DEF Exact, Counted
<1> QED BY <1>4, <1>5, <1>7, <1>8, <1>9

\* A scan finds the row of the file an event is in, the only one unless a flush left it behind.
LEMMA SeenOnce ==
    ASSUME CatalogInv, Exact, Settled, health = "clean", NEW lo \in Days, NEW hi \in Days,
           NEW e \in 1..buffer.out, DayOf[e] \in lo..hi, FiledUnder(e) \subseteq lo..hi
    PROVE  Seen(lo, hi, e) >= 1 /\ (e \notin buffer.again => Seen(lo, hi, e) = 1)
<1> DEFINE P == PrunedTo(lo, hi)
           F == [r \in P |-> disk[r.file][e]]
<1>1. /\ \A f \in DOMAIN disk : Listed(f)
      /\ \A r \in rows : r.file \in DOMAIN disk /\ r.day = dirOf[r.file] /\ r.span = DaysIn(disk[r.file])
      /\ \A r, s \in rows : r.file = s.file => r = s
      /\ Live = DOMAIN disk
  BY QuietCatalog
<1>4. e \in Event /\ e \in 1..buffer.upto
  BY CatalogAssumption DEF Event, CatalogInv, CatalogTypes, Buffers, Buffered
<1>0. \A f \in DOMAIN disk : disk[f][e] \in Nat
  BY <1>4 DEF CatalogInv, CatalogTypes
<1>2. PICK f \in DOMAIN disk :
        disk[f][e] > 0 /\ (e \notin buffer.again => (disk[f][e] = 1 /\ \A g \in DOMAIN disk \ {f} : disk[g][e] = 0))
  <2>1. CASE e \in buffer.again
    BY <1>4, <2>1 DEF CatalogInv, Written
  <2>2. CASE e \notin buffer.again
    <3>1. PICK f \in DOMAIN disk : disk[f][e] = 1 /\ \A g \in DOMAIN disk \ {f} : disk[g][e] = 0
      BY <1>1, <1>4, <2>2 DEF Exact, OnceEach
    <3> QED BY <3>1
  <2> QED BY <2>1, <2>2
<1>3. PICK r \in rows : r.file = f
  BY <1>1, <1>2 DEF Listed
<1>5. DayOf[e] \in Nat /\ DayOf[e] >= lo /\ DayOf[e] <= hi
  BY <1>4, CatalogAssumption DEF Event
<1>18. f \in {g \in DOMAIN disk : disk[g][e] > 0}
  BY <1>2
<1>6. r.day \in lo..hi
  <2>1. dirOf[f] \in FiledUnder(e)
    BY <1>18 DEF FiledUnder
  <2> QED BY <1>1, <1>3, <2>1
<1>7. DayOf[e] \in r.span
  <2>1. r.span = DaysIn(disk[f])
    BY <1>1, <1>3
  <2>2. e \in {x \in Event : disk[f][x] > 0}
    BY <1>4, <1>18
  <2> QED BY <2>1, <2>2 DEF DaysIn
<1>8. r \in P
  BY <1>3, <1>5, <1>6, <1>7 DEF PrunedTo
<1>9. IsFiniteSet(P) /\ P \subseteq rows
  <2>1. IsFiniteSet(rows) /\ P \subseteq rows
    BY DEF CatalogInv, CatalogTypes, RowsTypes, PrunedTo
  <2> QED BY <2>1, FS_Subset
<1>10. \A s \in P : disk[s.file][e] \in Nat
  BY <1>0, <1>1, <1>9
<1>14. e \notin buffer.again => \A s \in P \ {r} : disk[s.file][e] = 0
  <2>1. \A s \in P \ {r} : s.file \in DOMAIN disk \ {f}
    BY <1>1, <1>3, <1>9
  <2>2. e \notin buffer.again => \A g \in DOMAIN disk \ {f} : disk[g][e] = 0
    BY <1>2
  <2> QED BY <2>1, <2>2
<1> HIDE DEF P
<1>11. Copies(e, P) = SumOf(F, P)
  BY <1>9, <1>10, CopiesSum
<1>15. F[r] = disk[f][e] /\ (\A s \in P : F[s] \in Nat) /\ (e \notin buffer.again => \A s \in P \ {r} : F[s] = 0)
  BY <1>3, <1>8, <1>10, <1>14
<1> HIDE DEF F
<1>12. e \notin buffer.again => SumOf(F, P) = F[r]
  BY <1>8, <1>9, <1>15, SumOfOne
<1>13. SumOf(F, P) >= F[r]
  <2>1. SumOf(F, P) = F[r] + SumOf(F, P \ {r}) /\ SumOf(F, P \ {r}) \in Nat
    <3>1. IsFiniteSet(P \ {r}) /\ \A s \in P \ {r} : F[s] \in Nat
      BY <1>9, <1>15, FS_Subset
    <3> QED BY <1>8, <1>9, <1>15, <3>1, SumOfSteps
  <2> QED BY <1>8, <1>15, <2>1
<1>16. F[r] >= 1 /\ (e \notin buffer.again => F[r] = 1)
  <2>1. disk[f][e] \in Nat /\ disk[f][e] > 0 /\ F[r] = disk[f][e]
    BY <1>0, <1>2, <1>15
  <2>2. e \notin buffer.again => disk[f][e] = 1
    BY <1>2
  <2> QED BY <2>1, <2>2
<1>17. SumOf(F, P) >= 1 /\ (e \notin buffer.again => SumOf(F, P) = 1)
  <2>1. F[r] \in Nat /\ SumOf(F, P) \in Nat
    BY <1>8, <1>9, <1>15, SumOfSteps
  <2> QED BY <2>1, <1>12, <1>13, <1>16
<1> QED BY <1>11, <1>17 DEF Seen, P

\* A scan of a quiet catalog (scan.rs, pruned by partition and statistics) finds
\* each event of its period and opens only files that are there, and finds it once
\* unless a flush wrote it and ended before flush.rs took it out of the buffer,
\* whatever register_file, register_existing_events and compact_partition did before in
\* whatever order, until something sullied the catalog; and without a race
\* total_rows counts the listed rows.
THEOREM SettledScans == Spec => []SettledScanExact
<1>1. ExactInv => SettledScanExact
  <2> SUFFICES ASSUME ExactInv, Settled, health = "clean"
               PROVE  /\ \A r \in rows : r.file \in DOMAIN disk
                      /\ \A lo, hi \in Days : \A e \in 1..buffer.out :
                            DayOf[e] \in lo..hi /\ FiledUnder(e) \subseteq lo..hi =>
                               Seen(lo, hi, e) >= 1 /\ (e \notin buffer.again => Seen(lo, hi, e) = 1)
                      /\ ~raced => total = RowCount(rows)
    BY DEF SettledScanExact
  <2>1. CatalogInv /\ Exact
    BY DEF ExactInv
  <2>2. (\A r \in rows : r.file \in DOMAIN disk) /\ (~raced => total = RowCount(rows))
    BY <2>1, QuietCatalog
  <2>3. \A lo, hi \in Days : \A e \in 1..buffer.out :
           DayOf[e] \in lo..hi /\ FiledUnder(e) \subseteq lo..hi =>
              Seen(lo, hi, e) >= 1 /\ (e \notin buffer.again => Seen(lo, hi, e) = 1)
    BY <2>1, SeenOnce
  <2> QED BY <2>2, <2>3
<1> QED BY <1>1, ExactInit, ExactNext, PTL DEF Spec
=============================================================================
